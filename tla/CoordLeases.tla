----------------------------- MODULE CoordLeases -----------------------------
(***************************************************************************)
(* Leases on one coordination database (src/src/coord/store.rs), taken by  *)
(* `coord claim` runs on this machine and, when this machine is the fleet's*)
(* lease authority, by peers over the relay (src/src/relay/lease.rs).      *)
(* Every claim sweeps (renews the leases of running owners, expires the    *)
(* rest, drops waiters that stopped polling), tries to take its lease in   *)
(* one transaction, and if it waits joins a queue and polls.  The sweep is *)
(* several statements, and dashboards, `coord leases`, `coord renew` and   *)
(* the authority's own loop sweep at the same time.                        *)
(*                                                                         *)
(* A claim is identified with the lease it asks for: the lease id is drawn *)
(* once per claim.  Times are ticks left, 0 once past.                     *)
(***************************************************************************)
EXTENDS Naturals, Sequences, FiniteSets

CONSTANTS Claims,
          Owner,        \* Owner[c]: the session c claims for, `<session>@<peer>` in the fleet
          Resource,     \* Resource[c]: what c asks for
          Overlaps,     \* the pairs of resources that overlap: paths by prefix, others if equal
          Exclusive,    \* claims with --mode exclusive
          Waits,        \* claims with --wait
          Timed,        \* waiting claims with --timeout
          Fleet,        \* claims answered by this machine as the lease authority
          Sweepers,     \* the other processes that sweep
          Authority,    \* the ones of them that also know the peers' heartbeats
          TTL,          \* ticks a lease lives unrenewed
          WaiterStale,  \* ticks a waiter keeps its place unpolled
          RequestAttempts, \* times a fleet request is sent before the claim fails
          MaxLost,      \* bound on lost requests and answers
          MaxStalls     \* bound on ticks that find a process where an earlier tick did

Owners == {Owner[c] : c \in Claims}
FleetOwners == {Owner[c] : c \in Fleet}
Procs == Claims \cup Sweepers

ASSUME LeasesAssumption ==
    /\ \A c, d \in Claims : <<Resource[c], Resource[d]>> \in Overlaps
                              => <<Resource[d], Resource[c]>> \in Overlaps
    /\ Exclusive \subseteq Claims /\ Fleet \subseteq Claims
    /\ Timed \subseteq Waits /\ Waits \subseteq Claims
    /\ Authority \subseteq Sweepers /\ Sweepers \cap Claims = {}
    /\ \A c \in Claims : c \notin Fleet => Owner[c] \notin FleetOwners
    /\ {TTL, WaiterStale, RequestAttempts} \subseteq Nat \ {0}
    /\ {MaxLost, MaxStalls} \subseteq Nat

VARIABLES lease,   \* lease[c]: status, and ticks left to expires_at
          queue,   \* lease_waiters in `seq` order: claim, row id, ticks it stays fresh
          pc,      \* where a claim or sweeper is
          place,   \* place[c]: the waiter id c presents, 0 for none
          answer,  \* answer[c]: what the authority found for a fleet claim
          offer,   \* offer[c]: the waiter id in an answer not yet received, 0 for none
          tries,   \* requests of the current poll that went unanswered
          sees,    \* sees[p]: owners running when p's sweep looked
          todo,    \* todo[p]: leases p's sweep has still to renew
          live,    \* owners running: sessions here, and those in fresh heartbeats
          lost,    \* requests and answers lost so far
          slow,    \* processes a tick has passed for since their last sweep began
          stalls   \* ticks so far that found a process slow already

sweepVars == <<sees, todo>>
fleetVars == <<answer, offer, tries, lost>>
timeVars == <<slow, stalls>>
vars == <<lease, queue, pc, place, fleetVars, sweepVars, live, timeVars>>

LeaseStatus == {"none", "active", "expired", "released"}
Step == {"start", "sweep", "select", "renew", "drop", "swept", "claim", "enqueue", "reply",
         "pause", "held", "failed", "killed"}
Outcome == {"granted", "blocked", "gone", "error"}
Row == [of : Claims, id : Nat \ {0}, fresh : 0..WaiterStale]

Active(c) == lease[c].status = "active"
Goto(p, next) == pc' = [pc EXCEPT ![p] = next]

Init ==
    /\ lease = [c \in Claims |-> [status |-> "none", left |-> 0]]
    /\ queue = <<>>
    /\ pc = [p \in Procs |-> IF p \in Claims THEN "start" ELSE "sweep"]
    /\ place = [c \in Claims |-> 0]
    /\ answer = [c \in Claims |-> "blocked"]
    /\ offer = [c \in Claims |-> 0]
    /\ tries = [c \in Claims |-> 0]
    /\ sees = [p \in Procs |-> {}]
    /\ todo = [p \in Procs |-> {}]
    /\ live \in SUBSET Owners
    /\ lost = 0
    /\ slow = {} /\ stalls = 0

-----------------------------------------------------------------------------
(* A sweep: renew, then expire, then drop stale waiters *)

(* The caller lists the running sessions.  Only the authority, and claims  *)
(* it answers, also count the sessions peers report.                       *)
ScanSessions(p) ==
    /\ pc[p] \in {"start", "sweep"}
    /\ sees' = [sees EXCEPT ![p] =
                  IF p \in Fleet \cup Authority THEN live ELSE live \ FleetOwners]
    /\ slow' = slow \ {p}
    /\ Goto(p, "select")
    /\ UNCHANGED <<lease, queue, place, fleetVars, todo, live, stalls>>

\* Mutation of SelectRenewable: a lease past its expiry is no longer renewed.
SelectUnexpired(p) ==
    /\ pc[p] = "select"
    /\ todo' = [todo EXCEPT ![p] =
                  {c \in Claims : Active(c) /\ Owner[c] \in sees[p] /\ lease[c].left > 0}]
    /\ Goto(p, "renew")
    /\ UNCHANGED <<lease, queue, place, fleetVars, sees, live, timeVars>>

SelectRenewable(p) ==
    /\ pc[p] = "select"
    /\ todo' = [todo EXCEPT ![p] = {c \in Claims : Active(c) /\ Owner[c] \in sees[p]}]
    /\ Goto(p, "renew")
    /\ UNCHANGED <<lease, queue, place, fleetVars, sees, live, timeVars>>

Renewed(c) == IF Active(c) THEN [lease EXCEPT ![c].left = TTL] ELSE lease

RenewOne(p) ==
    /\ pc[p] = "renew"
    /\ \E c \in todo[p] : /\ lease' = Renewed(c)
                          /\ todo' = [todo EXCEPT ![p] = @ \ {c}]
    /\ UNCHANGED <<queue, pc, place, fleetVars, sees, live, timeVars>>

Past(c) == Active(c) /\ lease[c].left = 0

ExpireStale(p) ==
    /\ pc[p] = "renew" /\ todo[p] = {}
    /\ lease' = [c \in Claims |-> IF Past(c) THEN [lease[c] EXCEPT !.status = "expired"]
                                             ELSE lease[c]]
    /\ sees' = [sees EXCEPT ![p] = {}]
    /\ Goto(p, "drop")
    /\ UNCHANGED <<queue, place, fleetVars, todo, live, timeVars>>

(* The rows that stay when others are deleted, in the order they had.      *)
Nth(S, n) == CHOOSE i \in S : Cardinality({j \in S : j <= i}) = n
InOrder(S) == [n \in 1..Cardinality(S) |-> queue[Nth(S, n)]]

DropStale(p) ==
    /\ pc[p] = "drop"
    /\ queue' = InOrder({i \in DOMAIN queue : queue[i].fresh > 0})
    /\ Goto(p, IF p \in Claims THEN "claim" ELSE "swept")
    /\ UNCHANGED <<lease, place, fleetVars, sweepVars, live, timeVars>>

(* What a sweeper does next: nothing, or `coord renew` on a lease.         *)
AfterSweep(p) ==
    /\ pc[p] = "swept"
    /\ lease' \in {lease} \cup {Renewed(c) : c \in Claims}
    /\ Goto(p, "sweep")
    /\ UNCHANGED <<queue, place, fleetVars, sweepVars, live, timeVars>>

Sweep(p) == \/ ScanSessions(p) \/ SelectRenewable(p) \/ RenewOne(p)
            \/ ExpireStale(p) \/ DropStale(p)

-----------------------------------------------------------------------------
(* Claiming: one transaction *)

Contend(c, d) ==
    /\ Owner[c] # Owner[d]
    /\ <<Resource[c], Resource[d]>> \in Overlaps

\* Mutation of Conflict: resources conflict only when equal.
ConflictIfEqual(c) ==
    \E d \in Exclusive : Active(d) /\ Owner[c] # Owner[d] /\ Resource[c] = Resource[d]

(* find_conflicting_lease                                                  *)
Conflict(c) == \E d \in Exclusive : Active(d) /\ Contend(c, d)

Rows(c) == {i \in DOMAIN queue : queue[i].of = c}
(* Where the waiter c presents is in the queue, if it still is.            *)
Place(c) == {i \in Rows(c) : queue[i].id = place[c]}

\* Mutation of Ahead: a claim that is not waiting ignores the queue.
AheadIfWaiting(c) ==
    \E i \in DOMAIN queue :
       /\ queue[i].fresh > 0 /\ Contend(c, queue[i].of)
       /\ \E j \in Place(c) : i < j

(* waiters_ahead: fresh waiters of other sessions, queued before c's own   *)
(* waiter if it has one.                                                   *)
Ahead(c) ==
    \E i \in DOMAIN queue :
       /\ queue[i].fresh > 0 /\ Contend(c, queue[i].of)
       /\ \A j \in Place(c) : i < j

\* Mutation of Recognised: every request is a new claim, replacing the row.
NeverRecognised(c) == FALSE

(* A fleet lease id that is already there is a retry after a lost answer.  *)
Recognised(c) == c \in Fleet /\ lease[c].status # "none"

\* Mutation of ClaimOutcome: a retry is refused because its lease id is taken.
RetryRefused(c) ==
    CASE Recognised(c) -> "error"
      [] ~Recognised(c) /\ c \in Exclusive /\ place[c] # 0 /\ Place(c) = {} -> "gone"
      [] ~Recognised(c) /\ c \in Exclusive /\ (place[c] # 0 => Place(c) # {})
            /\ (Conflict(c) \/ Ahead(c)) -> "blocked"
      [] OTHER -> "granted"

ClaimOutcome(c) ==
    CASE Recognised(c) -> IF Active(c) THEN "granted" ELSE "error"
      [] ~Recognised(c) /\ c \in Exclusive /\ place[c] # 0 /\ Place(c) = {} -> "gone"
      [] ~Recognised(c) /\ c \in Exclusive /\ (place[c] # 0 => Place(c) # {})
            /\ (Conflict(c) \/ Ahead(c)) -> "blocked"
      [] OTHER -> "granted"

(* A poll keeps the waiter fresh; a grant takes it out of the queue.       *)
Touched(c) == [i \in DOMAIN queue |-> IF i \in Place(c)
                                      THEN [queue[i] EXCEPT !.fresh = WaiterStale]
                                      ELSE queue[i]]

\* Mutation of Without: a granted or timed out waiter keeps its row.
StillQueued(c) == queue

Without(c) == InOrder(DOMAIN queue \ Place(c))

(* What the claiming process does with the outcome.                        *)
Then(c, outcome) ==
    CASE outcome = "granted" -> "held"
      [] outcome = "error" -> "failed"
      [] outcome \in {"blocked", "gone"} /\ c \notin Waits -> "failed"
      [] outcome = "blocked" /\ c \in Waits ->
            IF c \notin Fleet /\ place[c] = 0 THEN "enqueue" ELSE "pause"
      [] outcome = "gone" /\ c \in Waits -> IF c \in Fleet THEN "pause" ELSE "enqueue"

\* Mutation of Forgotten: a lost place is presented again.
Remembered(c) == place

Forgotten(c) == [place EXCEPT ![c] = 0]

ClaimOrQueue(c) ==
    /\ pc[c] = "claim"
    /\ LET o == ClaimOutcome(c) IN
       /\ IF o = "granted" /\ ~Recognised(c)
          THEN /\ lease' = [lease EXCEPT ![c] = [status |-> "active", left |-> TTL]]
               /\ queue' = Without(c)
          ELSE /\ lease' = lease
               /\ queue' = IF o = "blocked" THEN Touched(c) ELSE queue
       /\ IF c \in Fleet
          THEN /\ answer' = [answer EXCEPT ![c] = o]
               /\ Goto(c, IF o = "blocked" /\ c \in Waits /\ place[c] = 0
                          THEN "enqueue" ELSE "reply")
               /\ place' = place
          ELSE /\ Goto(c, Then(c, o))
               /\ place' = IF o = "gone" THEN Forgotten(c) ELSE place
               /\ answer' = answer
    /\ UNCHANGED <<offer, tries, lost, sweepVars, live, timeVars>>

(* enqueue_waiter: a row with an id no other row has.                      *)
NewId(c) == CHOOSE n \in 1..Len(queue) + 1 : \A i \in Rows(c) : queue[i].id # n

Enqueue(c) ==
    /\ pc[c] = "enqueue"
    /\ queue' = Append(queue, [of |-> c, id |-> NewId(c), fresh |-> WaiterStale])
    /\ IF c \in Fleet
       THEN /\ offer' = [offer EXCEPT ![c] = NewId(c)]
            /\ Goto(c, "reply")
            /\ place' = place
       ELSE /\ place' = [place EXCEPT ![c] = NewId(c)]
            /\ Goto(c, "pause")
            /\ offer' = offer
    /\ UNCHANGED <<lease, answer, tries, lost, sweepVars, live, timeVars>>

(* The requester reads the authority's answer.                             *)
Reply(c) ==
    /\ pc[c] = "reply"
    /\ place' = IF answer[c] = "gone" THEN Forgotten(c)
                ELSE IF offer[c] # 0 THEN [place EXCEPT ![c] = offer[c]] ELSE place
    /\ offer' = [offer EXCEPT ![c] = 0]
    /\ tries' = [tries EXCEPT ![c] = 0]
    /\ Goto(c, Then(c, answer[c]))
    /\ UNCHANGED <<lease, queue, answer, lost, sweepVars, live, timeVars>>

(* No answer came: the request or the answer was lost.  The same request is*)
(* sent again, up to RequestAttempts times.                                *)
Unanswered(c) ==
    /\ c \in Fleet /\ pc[c] \in {"sweep", "reply"}
    /\ lost < MaxLost /\ lost' = lost + 1
    /\ offer' = [offer EXCEPT ![c] = 0]
    /\ tries' = [tries EXCEPT ![c] = @ + 1]
    /\ Goto(c, IF tries[c] + 1 < RequestAttempts THEN "sweep" ELSE "failed")
    /\ UNCHANGED <<lease, queue, place, answer, sweepVars, live, timeVars>>

Poll(c) ==
    /\ pc[c] = "pause"
    /\ Goto(c, "sweep")
    /\ UNCHANGED <<lease, queue, place, fleetVars, sweepVars, live, timeVars>>

(* --timeout: a local claim leaves the queue, a fleet claim only stops.    *)
TimeOut(c) ==
    /\ pc[c] = "pause" /\ c \in Timed
    /\ queue' = IF c \in Fleet THEN queue ELSE Without(c)
    /\ Goto(c, "failed")
    /\ UNCHANGED <<lease, place, fleetVars, sweepVars, live, timeVars>>

(* The claiming process is killed.                                         *)
Kill(c) ==
    /\ IF c \in Fleet THEN pc[c] = "pause" ELSE pc[c] \notin {"held", "failed", "killed"}
    /\ Goto(c, "killed")
    /\ sees' = [sees EXCEPT ![c] = {}]
    /\ todo' = [todo EXCEPT ![c] = {}]
    /\ UNCHANGED <<lease, queue, place, fleetVars, live, timeVars>>

Release(c) ==
    /\ Active(c)
    /\ lease' = [lease EXCEPT ![c].status = "released"]
    /\ UNCHANGED <<queue, pc, place, fleetVars, sweepVars, live, timeVars>>

(* A session exits, or stops being reported by its peer.                   *)
OwnerEnds(o) ==
    /\ o \in live
    /\ live' = live \ {o}
    /\ UNCHANGED <<lease, queue, pc, place, fleetVars, sweepVars, timeVars>>

(* Sweeping or between two polls, not waiting to be run or ended.          *)
InCycle(p) == pc[p] \notin {"held", "failed", "killed", IF p \in Claims THEN "start" ELSE "sweep"}

(* A tick is longer than a cycle of sweep, claim and pause, so a second one*)
(* in the same cycle means the process was held up.                        *)
Less(n) == IF n = 0 THEN 0 ELSE n - 1
TimePasses ==
    /\ stalls' = stalls + (IF \E p \in slow : InCycle(p) THEN 1 ELSE 0)
    /\ stalls' <= MaxStalls
    /\ slow' = {p \in Procs : InCycle(p)}
    /\ lease' = [c \in Claims |-> [lease[c] EXCEPT !.left = Less(@)]]
    /\ queue' = [i \in DOMAIN queue |-> [queue[i] EXCEPT !.fresh = Less(@)]]
    /\ UNCHANGED <<pc, place, fleetVars, sweepVars, live>>

ClaimStep(c) == Sweep(c) \/ ClaimOrQueue(c) \/ Enqueue(c) \/ Reply(c) \/ Poll(c)
SweeperStep(p) == Sweep(p) \/ AfterSweep(p)

Next ==
    \/ \E c \in Claims : ClaimStep(c) \/ Unanswered(c) \/ TimeOut(c) \/ Kill(c) \/ Release(c)
    \/ \E p \in Sweepers : SweeperStep(p)
    \/ \E o \in Owners : OwnerEnds(o)
    \/ TimePasses

Spec == Init /\ [][Next]_vars

(* Claims keep polling, sessions end, time passes.                         *)
Fairness ==
    /\ \A c \in Claims : WF_vars(ClaimStep(c))
    /\ \A o \in Owners : WF_vars(OwnerEnds(o))
    /\ WF_vars(TimePasses)

FairSpec == Spec /\ Fairness

-----------------------------------------------------------------------------
(* Properties *)

(* Every variable keeps its shape.                                         *)
TypeOK ==
    /\ lease \in [Claims -> [status : LeaseStatus, left : 0..TTL]]
    /\ queue \in Seq(Row)
    /\ pc \in [Procs -> Step]
    /\ place \in [Claims -> Nat]
    /\ answer \in [Claims -> Outcome]
    /\ offer \in [Claims -> Nat]
    /\ tries \in [Claims -> Nat]
    /\ sees \in [Procs -> SUBSET Owners]
    /\ todo \in [Procs -> SUBSET Claims]
    /\ live \subseteq Owners
    /\ lost \in 0..MaxLost
    /\ slow \subseteq Procs /\ stalls \in 0..MaxStalls

(* No two owners hold exclusive leases on overlapping resources at once,   *)
(* however sweeps, polls, renewals and retries interleave.                 *)
Exclusion ==
    \A c, d \in Exclusive : Active(c) /\ Active(d) => ~Contend(c, d)

(* A lease id is granted at most once, never against another's exclusive   *)
(* lease, and an ended lease stays ended, a late renewal or a retry of a   *)
(* lost answer notwithstanding.                                            *)
Lock == INSTANCE LeaseLock WITH
    Conflicts <- {p \in Exclusive \X Exclusive : Contend(p[1], p[2])},
    status <- [c \in Claims |-> lease[c].status]
ImplementsLock == Lock!Spec

(* A lease is granted only when nobody else who still waits for an         *)
(* overlapping resource joined the queue earlier, whether or not the       *)
(* claimant is itself in the queue.                                        *)
NoOvertaking ==
    [][\A c \in Exclusive : ~Active(c) /\ Active(c)' =>
          \A i \in DOMAIN queue :
             queue[i].fresh > 0 /\ Contend(c, queue[i].of) => \E j \in Rows(c) : j < i]_vars

(* A sweep, however late, never expires the lease of an owner still running*)
(* (store.rs: renewing first keeps a live owner's lease).                  *)
LiveOwnerKeeps ==
    [][\A c \in Claims : Active(c) /\ lease'[c].status = "expired" => Owner[c] \notin live]_vars

(* A claim that reported failure holds nothing.                            *)
FailedHoldsNothing == \A c \in Claims : pc[c] = "failed" => ~Active(c)

(* A claim that was granted, timed out or gave up is out of the queue.     *)
LeavesQueue == \A c \in Claims : pc[c] \in {"held", "failed"} => Rows(c) = {}

(* A waiting claim gets its lease once the sessions that hold it end,      *)
(* unless it is killed or gives up: stalled waiters rejoin, and nobody     *)
(* renews for a dead owner.                                                *)
WaitersServed ==
    \A c \in Waits : pc[c] = "pause" ~> pc[c] \in {"held", "failed", "killed"}
=============================================================================
