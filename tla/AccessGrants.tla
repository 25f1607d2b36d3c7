---------------------------- MODULE AccessGrants ----------------------------
(***************************************************************************)
(* One access grant and everyone who rewrites its file (access/grant.rs,   *)
(* query/core.rs, relay/hivejoin.rs).  A `query serve` process answers     *)
(* requests on threads of its own and serialises their read-modify-writes  *)
(* behind budget_lock; `access revoke` and a relay that admits a reader    *)
(* are other processes, which take no lock.  Each of them loads the whole  *)
(* record, changes it, and publishes it through the same temporary file.   *)
(***************************************************************************)
EXTENDS Naturals, FiniteSets

CONSTANTS Requests,    \* requests to the query server, one thread each
          Revokers,    \* runs of `access revoke`
          Joins,       \* readers a relay admits to a hive on this grant
          Budget,      \* daily_query_budget as the file has it
          Days,        \* the UTC days a clock may show
          Expires,     \* the first day on which the grant is expired
          MaxFaults,   \* how many store errors and crashes may happen
          Nobody, Empty, Garbled, Absent

Callers == Requests \cup Joins
Processes == Callers \cup Revokers

ASSUME GrantAssumption ==
    /\ Requests \cap Joins = {} /\ Callers \cap Revokers = {}
    /\ Nobody \notin Processes
    /\ Budget \in Nat /\ MaxFaults \in Nat
    /\ Days \subseteq Nat /\ 0 \notin Days

VARIABLES live,      \* what <id>.json holds
          temp,      \* what .<id>.json.tmp holds, or that there is none
          tomb,      \* whether <id>.revoked exists
          lock,      \* who holds the server's budget_lock
          proc,      \* where each process is and what it has read
          foreign,   \* history: another process has begun to rewrite the record
          faults     \* how many store errors and crashes there have been

disk == <<live, temp, tomb>>
vars == <<live, temp, tomb, lock, proc, foreign, faults>>

(* A budget of 0 reads as 1.                                               *)
Allowance == IF Budget = 0 THEN 1 ELSE Budget

Grant == [revoked : BOOLEAN,             \* the JSON field
          day : Days \cup {0},           \* budget_day
          used : 0 .. Allowance,         \* budget_used
          uses : Nat,                    \* use_count
          flag : Requests \cup {Nobody}] \* whose question is in flagged_ms
Fresh == [revoked |-> FALSE, day |-> 0, used |-> 0, uses |-> 0, flag |-> Nobody]

(* Bytes that are no grant: a file just truncated, or one writer's text    *)
(* over another's.                                                         *)
Malformed == {Empty, Garbled}

ASSUME FileAssumption ==
    /\ Empty \notin Grant /\ Garbled \notin Grant /\ Absent \notin Grant
    /\ Absent \notin Malformed

Points == {"idle", "read", "fold", "lock", "work", "tomb",
           "open", "write", "publish", "log", "done"}
Jobs == {"verify", "charge", "use", "flag", "revoke"}

(* ask: answered, declined, flagged or escalated; poll: is free of charge; *)
(* probe: holds a valid token without the scope; join: hive.join.          *)
Process == [pc : Points, job : Jobs,
            op : {"ask", "poll", "probe", "join", "none"},
            today : Days \cup {0},       \* now_ms, read once per request
            rec : Grant,                 \* the record it loaded and changed
            fd : {"none", "temp", "live", "gone"}, \* what its open file is by now
            late : BOOLEAN,              \* history: it came after the tombstone
            honoured : BOOLEAN,          \* verify found the grant live
            paid : Days \cup {0},        \* the budget_day its charge went to
            line : {"none", "allowed", "other"}, \* in audit.jsonl; other: denied, escalated
            told : BOOLEAN]              \* the revocation was reported as done

Init ==
    /\ live = Fresh /\ temp = Absent /\ tomb = FALSE
    /\ lock = Nobody /\ foreign = FALSE /\ faults = 0
    /\ proc = [p \in Processes |->
                 [pc |-> "idle", job |-> IF p \in Revokers THEN "revoke" ELSE "verify",
                  op |-> "none", today |-> 0, rec |-> Fresh, fd |-> "none", late |-> FALSE,
                  honoured |-> FALSE, paid |-> 0, line |-> "none", told |-> FALSE]]

-----------------------------------------------------------------------------
(* How a process goes on.                                                  *)

At(p, point) == proc[p].pc = point
Doing(p, job) == At(p, "fold") /\ proc[p].job = job
Becomes(p, state) == proc' = [proc EXCEPT ![p] = state]

(* It ends, with a line in the audit log, and forgets what it had read.    *)
Forgotten(p) == [proc[p] EXCEPT !.job = "verify", !.op = "none", !.today = 0,
                                !.rec = Fresh, !.fd = "none"]
Ended(p, line) == [Forgotten(p) EXCEPT !.pc = "done", !.line = line]

(* The guard on budget_lock goes when the job does.                        *)
Unlock(p) == lock' = IF lock = p THEN Nobody ELSE lock

(* Every job loads the record anew.                                        *)
Reloading(p) == [proc[p] EXCEPT !.rec = Fresh]

End(p, line) == Becomes(p, Ended(p, line)) /\ Unlock(p)

(* A store error.  A revocation is reported as failed until its tombstone  *)
(* is there; a join goes ahead though its use was not recorded.            *)
Spoilt(p) ==
    CASE proc[p].job = "use" -> Ended(p, "none")
      [] proc[p].job = "revoke" ->
           [Ended(p, "none") EXCEPT !.told = proc[p].pc \in {"open", "write", "publish"}]
      [] OTHER -> Ended(p, "other")

Spoil(p) == Becomes(p, Spoilt(p)) /\ Unlock(p)

-----------------------------------------------------------------------------
(* Callers arrive.                                                         *)

Ops(c) == IF c \in Joins THEN {"join", "probe"} ELSE {"ask", "poll", "probe"}

(* The clock may have been set forward or back since the last request.     *)
Arrive(c) ==
    /\ At(c, "idle")
    /\ \E op \in Ops(c), d \in Days :
         Becomes(c, [proc[c] EXCEPT !.pc = "read", !.op = op, !.today = d, !.late = tomb])
    /\ UNCHANGED <<disk, lock, foreign, faults>>

RunRevoke(v) ==
    /\ At(v, "idle")
    /\ Becomes(v, [proc[v] EXCEPT !.pc = "read"])
    /\ UNCHANGED <<disk, lock, foreign, faults>>

-----------------------------------------------------------------------------
(* GrantStore::load: the file, then the tombstone.                         *)

Read(p) ==
    /\ At(p, "read")
    /\ IF live \in Malformed THEN Spoil(p)
       ELSE Becomes(p, [proc[p] EXCEPT !.pc = "fold", !.rec = live]) /\ UNCHANGED lock
    /\ UNCHANGED <<disk, foreign, faults>>

LoadedUnfolded(p) == proc[p].rec
Loaded(p) == [proc[p].rec EXCEPT !.revoked = @ \/ tomb]

(* verify_detailed, after the MAC has matched.  A caller without the scope *)
(* is denied, by the server after the charge.  The rate limiter may turn a *)
(* request away before the charge, which a poll is spared.                 *)
Verify(c) ==
    /\ Doing(c, "verify")
    /\ LET dead == Loaded(c).revoked \/ proc[c].today >= Expires IN
         \/ /\ dead \/ (c \in Joins /\ proc[c].op = "probe")
            /\ End(c, "other")
         \/ /\ ~dead /\ c \in Requests
            /\ \/ Becomes(c, [Ended(c, "other") EXCEPT !.honoured = TRUE])
               \/ Becomes(c, [Reloading(c) EXCEPT
                    !.honoured = TRUE,
                    !.job = IF proc[c].op = "poll" THEN @ ELSE "charge",
                    !.pc = IF proc[c].op = "poll" THEN "work" ELSE "lock",
                    !.line = IF proc[c].op = "probe" THEN "other" ELSE @])
            /\ UNCHANGED lock
         \/ /\ ~dead /\ c \in Joins /\ proc[c].op = "join"
            /\ Becomes(c, [Reloading(c) EXCEPT !.honoured = TRUE, !.job = "use", !.pc = "read",
                                               !.today = 0])
            /\ UNCHANGED lock
    /\ UNCHANGED <<disk, foreign, faults>>

AcquireOpen(r) ==
    /\ At(r, "lock")
    /\ lock' = r
    /\ Becomes(r, [proc[r] EXCEPT !.pc = "read"])
    /\ UNCHANGED <<disk, foreign, faults>>

Acquire(r) ==
    /\ At(r, "lock") /\ lock = Nobody
    /\ lock' = r
    /\ Becomes(r, [proc[r] EXCEPT !.pc = "read"])
    /\ UNCHANGED <<disk, foreign, faults>>

-----------------------------------------------------------------------------
(* What each job does to the record it has loaded.                         *)

Save(p, g) ==
    /\ Becomes(p, [proc[p] EXCEPT !.rec = g, !.pc = "open"])
    /\ UNCHANGED <<disk, lock, foreign, faults>>

(* The counter only rolls forward, whichever way the clock was set.        *)
Rolled(g, today) == IF today > g.day THEN [g EXCEPT !.day = today, !.used = 0] ELSE g

Spent(g) == g.used >= Allowance

(* charge_daily_budget: it looks at the budget, no longer at `revoked`.    *)
Charge(r) ==
    /\ Doing(r, "charge")
    /\ LET g == Rolled(Loaded(r), proc[r].today) IN
         \/ Spent(g) /\ End(r, "other") /\ UNCHANGED <<disk, foreign, faults>>
         \/ ~Spent(g) /\ Save(r, [g EXCEPT !.used = @ + 1])

Use(p) ==
    /\ Doing(p, "use")
    /\ Save(p, [Loaded(p) EXCEPT !.uses = @ + 1])

(* First flag wins.                                                        *)
FlagAgain(r) == Doing(r, "flag") /\ Save(r, [Loaded(r) EXCEPT !.flag = r])
Flag(r) ==
    /\ Doing(r, "flag")
    /\ \/ /\ Loaded(r).flag # Nobody
          /\ End(r, "other") /\ UNCHANGED <<disk, foreign, faults>>
       \/ /\ Loaded(r).flag = Nobody
          /\ Save(r, [Loaded(r) EXCEPT !.flag = r])

(* GrantStore::revoke: the tombstone comes before the JSON field.          *)
Revoke(v) ==
    /\ Doing(v, "revoke")
    /\ Becomes(v, [proc[v] EXCEPT !.rec = [Loaded(v) EXCEPT !.revoked = TRUE], !.pc = "tomb"])
    /\ UNCHANGED <<disk, lock, foreign, faults>>

Tombstone(v) ==
    /\ At(v, "tomb")
    /\ tomb' = TRUE
    /\ Becomes(v, [proc[v] EXCEPT !.pc = "open"])
    /\ UNCHANGED <<live, temp, lock, foreign, faults>>

(* Between the charge and the record of the use: a question is answered,   *)
(* declined, flagged or escalated, or the escalation cannot be queued; a   *)
(* poll finds its escalation or does not.                                  *)
RecordedUnlocked(r) == [proc[r] EXCEPT !.job = "use", !.pc = "read"]
Recorded(r) == [proc[r] EXCEPT !.job = "use", !.pc = "lock"]

QueueUnwritableUnlogged(r) == End(r, "none")
QueueUnwritable(r) == End(r, "other")

Work(r) ==
    /\ At(r, "work")
    /\ \/ Becomes(r, Recorded(r)) /\ UNCHANGED lock
       \/ /\ proc[r].op = "ask"
          /\ Becomes(r, [proc[r] EXCEPT !.job = "flag", !.pc = "lock"]) /\ UNCHANGED lock
       \/ proc[r].op = "ask" /\ End(r, "other")
       \/ proc[r].op = "ask" /\ QueueUnwritable(r)
       \/ proc[r].op = "poll" /\ End(r, "none")
    /\ UNCHANGED <<disk, foreign, faults>>

-----------------------------------------------------------------------------
(* write_atomic, one system call at a time.  Everyone uses the same name   *)
(* for the temporary file, and opening it truncates what is there.         *)

OpenInPlace(p) ==
    /\ At(p, "open")
    /\ live' = Empty /\ temp' = Empty
    /\ Becomes(p, [proc[p] EXCEPT !.pc = "write", !.fd = "live"])
    /\ foreign' = (foreign \/ p \notin Requests)
    /\ UNCHANGED <<tomb, lock, faults>>

OpenTemp(p) ==
    /\ At(p, "open")
    /\ temp' = Empty
    /\ Becomes(p, [proc[p] EXCEPT !.pc = "write", !.fd = "temp"])
    /\ foreign' = (foreign \/ p \notin Requests)
    /\ UNCHANGED <<live, tomb, lock, faults>>

(* A record written over bytes may leave the tail of the longer text.      *)
Over(old, g) == IF old = Empty THEN {g} ELSE {g, Garbled}

(* The file it opened may have been renamed, or replaced, meanwhile.       *)
WriteTemp(p) ==
    /\ At(p, "write")
    /\ \/ proc[p].fd = "temp" /\ temp' \in Over(temp, proc[p].rec) /\ UNCHANGED live
       \/ proc[p].fd = "live" /\ live' \in Over(live, proc[p].rec) /\ UNCHANGED temp
       \/ proc[p].fd = "gone" /\ UNCHANGED <<live, temp>>
    /\ Becomes(p, [proc[p] EXCEPT !.pc = "publish", !.fd = "none"])
    /\ UNCHANGED <<tomb, lock, foreign, faults>>

(* What a rename does to the files others have open.                       *)
Moved(fd) == CASE fd = "temp" -> "live" [] fd = "live" -> "gone" [] OTHER -> fd

(* update returned Ok.                                                     *)
Stored(p) ==
    CASE proc[p].job = "charge" ->
           IF proc[p].op = "probe"
           THEN [Ended(p, "other") EXCEPT !.paid = proc[p].rec.day]
           ELSE [Reloading(p) EXCEPT !.pc = "work", !.paid = proc[p].rec.day, !.today = 0]
      [] proc[p].job = "use" -> [Reloading(p) EXCEPT !.pc = "log"]
      [] proc[p].job = "revoke" -> [Ended(p, "none") EXCEPT !.told = TRUE]
      [] OTHER -> Ended(p, "other")

Publish(p) ==
    /\ At(p, "publish")
    /\ \/ /\ temp = Absent
          /\ Spoil(p) /\ UNCHANGED disk
       \/ /\ temp # Absent
          /\ live' = temp /\ temp' = Absent /\ UNCHANGED tomb
          /\ proc' = [q \in Processes |-> IF q = p THEN Stored(p)
                                          ELSE [proc[q] EXCEPT !.fd = Moved(@)]]
          /\ IF proc[p].job = "use" THEN UNCHANGED lock ELSE Unlock(p)
    /\ UNCHANGED <<foreign, faults>>

(* The `allowed` line, still under the lock.                               *)
Log(p) ==
    /\ At(p, "log")
    /\ End(p, "allowed")
    /\ UNCHANGED <<disk, foreign, faults>>

-----------------------------------------------------------------------------
(* Faults.                                                                 *)

(* A system call of the store fails.  A tombstone that could not be synced *)
(* may be there all the same.                                              *)
StoreError(p) ==
    /\ proc[p].pc \in {"read", "tomb", "open", "write", "publish", "log"}
    /\ faults < MaxFaults /\ faults' = faults + 1
    /\ Spoil(p)
    /\ \/ UNCHANGED tomb
       \/ At(p, "tomb") /\ tomb' = TRUE
    /\ UNCHANGED <<live, temp, foreign>>

(* A process dies: the server with all its requests, or a CLI or a relay.  *)
(* Requests not yet made go to the server started in its place.            *)
Programs == {Requests} \cup {{p} : p \in Revokers \cup Joins}
Running(p) == proc[p].pc \notin {"idle", "done"}

Crash(P) ==
    /\ \E p \in P : Running(p)
    /\ faults < MaxFaults /\ faults' = faults + 1
    /\ proc' = [p \in Processes |-> IF p \in P /\ Running(p)
                                    THEN Ended(p, proc[p].line) ELSE proc[p]]
    /\ lock' = IF lock \in P THEN Nobody ELSE lock
    /\ UNCHANGED <<disk, foreign>>

Finished == (\A p \in Processes : ~Running(p)) /\ UNCHANGED vars

Store(p) == Read(p) \/ OpenTemp(p) \/ WriteTemp(p) \/ Publish(p) \/ Log(p) \/ StoreError(p)
Serve(r) == Acquire(r) \/ Charge(r) \/ Work(r) \/ Flag(r)

Next ==
    \/ \E p \in Processes : Store(p)
    \/ \E c \in Callers : Arrive(c) \/ Verify(c) \/ Use(c)
    \/ \E r \in Requests : Serve(r)
    \/ \E v \in Revokers : RunRevoke(v) \/ Revoke(v) \/ Tombstone(v)
    \/ \E P \in Programs : Crash(P)
    \/ Finished

Spec == Init /\ [][Next]_vars

-----------------------------------------------------------------------------
(* Properties.                                                             *)

TypeOK ==
    /\ live \in Grant \cup Malformed
    /\ temp \in Grant \cup Malformed \cup {Absent}
    /\ tomb \in BOOLEAN /\ foreign \in BOOLEAN
    /\ lock \in Requests \cup {Nobody}
    /\ proc \in [Processes -> Process]
    /\ faults \in 0 .. MaxFaults

(* Revocation is final: whatever stale record a server, a relay or a       *)
(* second revocation writes back, no request or join that arrives after    *)
(* the tombstone is honoured, and a revocation is reported as done only    *)
(* when the tombstone is there.                                            *)
Standing(c) ==
    CASE At(c, "idle") -> "away"
      [] ~At(c, "idle") /\ proc[c].honoured -> "honoured"
      [] ~proc[c].honoured /\ At(c, "done") -> "refused"
      [] OTHER -> IF proc[c].late THEN "late" ELSE "waiting"

Gate == INSTANCE GrantGate WITH
    Callers <- Callers, Owners <- Revokers,
    closed <- tomb,
    standing <- [c \in Callers |-> Standing(c)],
    told <- {v \in Revokers : proc[v].told}

ImplementsGate == Gate!Spec

(* The remaining properties are about the server alone: they hold as long  *)
(* as no other process has begun to rewrite the record.                    *)

(* A day's charges stay within the allowance, however requests interleave, *)
(* whichever way the clock is set and whatever crashes or fails to be      *)
(* written.                                                                *)
BudgetKept ==
    ~foreign => \A d \in Days : Cardinality({r \in Requests : proc[r].paid = d}) <= Allowance

(* Whoever loads the grant file finds a whole record, also after a crash.  *)
FileParses == ~foreign => live \notin Malformed

(* The first flag stays: no later flag and no stale record replaces it.    *)
FirstFlagWins ==
    [][~foreign' /\ live \in Grant /\ live.flag # Nobody
         => live' \in Grant /\ live'.flag = live.flag]_vars

(* No use is in the audit log that the record does not count.              *)
LogAgrees ==
    ~foreign /\ live \in Grant
      => Cardinality({r \in Requests : proc[r].line = "allowed"}) <= live.uses

(* A request that was charged leaves a line in the audit log, unless it    *)
(* ended in a crash or an error of the grant store.                        *)
PaidIsLogged ==
    ~foreign /\ faults = 0 =>
      \A r \in Requests : proc[r].paid # 0 /\ At(r, "done") => proc[r].line # "none"
=============================================================================
