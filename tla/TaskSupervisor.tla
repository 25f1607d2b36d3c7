--------------------------- MODULE TaskSupervisor ---------------------------
(***************************************************************************)
(* The fleet supervisor (src/src/coord): processes that each run passes    *)
(* over one coordination database.  A pass reads the task table and the    *)
(* sensors once and lists the actions to take (Tick), then applies them    *)
(* one by one.  Applying an action is a sequence of database writes and    *)
(* outside effects, and the process may die between any two of them.       *)
(* Roles, sessions, peers, operators and clocks move in between.           *)
(*                                                                         *)
(* A wait of the code (claim timeout, spawn grace, acknowledgement limit,  *)
(* backoff, the task's own timeout) is a rank of the task's latest         *)
(* attempt: 0 below its first wait, 1 past it, 2 past the task's timeout.  *)
(***************************************************************************)
EXTENDS Naturals, Sequences, FiniteSets

CONSTANTS Tasks, DependsOn,
          Supervisors,   \* processes running passes: the daemon, `supervisor work`
          Peers, Here,   \* relay peers, and this machine
          Allowed,       \* Allowed[t]: machines t may be placed on (`peer`, here-only)
          RoleTasks,     \* tasks addressed to a role
          Routable,      \* tasks auto_route may hand to a live role
          Verifiers,     \* Verifiers[t]: how many verifiers t declares
          MaxRetries, MaxConcurrent, MaxUnstarted,
          MaxAttempts,   \* bound on the attempts of a task, for TLC
          CrashPoints,   \* the <<operation, next write>> a supervisor may die at
          Faults,        \* the outside effects that may fail
          MaxFaults      \* bound on crashes, failures and outside changes

Machines == Peers \cup {Here}

ASSUME SupervisorAssumption ==
    /\ Here \notin Peers
    /\ DependsOn \in [Tasks -> SUBSET Tasks]
    /\ Allowed \in [Tasks -> SUBSET Machines]
    /\ RoleTasks \subseteq Tasks /\ Routable \subseteq Tasks
    /\ Verifiers \in [Tasks -> Nat]
    /\ \A t \in RoleTasks : Allowed[t] \subseteq {Here}
    /\ \A t \in Routable : t \notin RoleTasks /\ Verifiers[t] = 0
    /\ {MaxRetries, MaxConcurrent, MaxUnstarted, MaxAttempts, MaxFaults} \subseteq Nat
    /\ MaxUnstarted > 0

VARIABLES state,     \* tasks.state
          reason,    \* why a task was handed to a person
          attempts,  \* the rows of task_attempts, by attempt_num, with what each came to
          age,       \* rank of the time since the latest attempt started
          pass,      \* pass[s]: the actions of the pass s is in, not yet done with
          open,      \* machines that refuse nothing, this one's task slots aside
          home,      \* a running session answers to the role
          faults     \* crashes, failures and outside changes so far

vars == <<state, reason, attempts, age, pass, open, home, faults>>

Lifecycle == INSTANCE TaskLifecycle
IsTerminal(q) == Lifecycle!IsTerminal(q)

-----------------------------------------------------------------------------
(* Attempts *)

Outcome == {"open", "completed", "spawn_failed", "delegate_failed", "peer_refused",
            "session_died", "session_failed"}
(* What became of a mailbox message, or of a session here or on a peer.    *)
Proc == {"none", "pending", "delivered", "withdrawn",
         "sent", "live", "ok", "error", "gone", "refused"}
Attempt == [kind : {"mailbox", "spawn", "remote"}, on : Machines,
            recorded : BOOLEAN,      \* bus_message_id or pid is stored
            outcome : Outcome, proc : Proc,
            heard : {"nothing", "running", "settled"},   \* the relay ledger
            passed : Nat, failed : BOOLEAN]              \* task_verifications

NewAttempt(kind, m, proc) ==
    [kind |-> kind, on |-> m, recorded |-> FALSE, outcome |-> "open",
     proc |-> proc, heard |-> "nothing", passed |-> 0, failed |-> FALSE]

Unstarted == {"spawn_failed", "delegate_failed", "peer_refused"}

\* Mutation of AttemptsThatRan: every attempt counts.
EveryAttempt(t) == Len(attempts[t])

AttemptsThatRan(t) == Cardinality({i \in DOMAIN attempts[t] :
                                       attempts[t][i].outcome \notin Unstarted})
UnstartedStreak(t) == {i \in DOMAIN attempts[t] :
                           \A j \in i..Len(attempts[t]) : attempts[t][j].outcome \in Unstarted}
HasAttempt(t) == attempts[t] # <<>>
LatestId(t) == Len(attempts[t])
Latest(t) == attempts[t][LatestId(t)]

(* The attempts that carry a mailbox message; a later spawn carries none.  *)
Stamped(t) == {i \in DOMAIN attempts[t] :
                   attempts[t][i].kind = "mailbox" /\ attempts[t][i].recorded}
LatestMessage(t) == CHOOSE i \in Stamped(t) : \A j \in Stamped(t) : j <= i

\* Mutation of Adoptable: no running session is adopted.
NeverAdopted(t) == FALSE

(* The latest attempt is a session started here that has not been closed   *)
(* and whose recorded process is running.                                  *)
Adoptable(t) ==
    /\ HasAttempt(t)
    /\ LET a == Latest(t)
       IN a.kind = "spawn" /\ a.outcome = "open" /\ a.recorded /\ a.proc = "live"

InsertAttempt(t, a) ==
    /\ Len(attempts[t]) < MaxAttempts
    /\ attempts' = [attempts EXCEPT ![t] = Append(@, a)]
    /\ age' = [age EXCEPT ![t] = 0]

(* finish_attempt: only an attempt that is still open takes an outcome.    *)
Finished(a, outcome) == IF a.outcome = "open" THEN [a EXCEPT !.outcome = outcome] ELSE a

SetAttempt(t, i, a) == attempts' = [attempts EXCEPT ![t][i] = a]

-----------------------------------------------------------------------------
(* A pass: what one tick decides *)

Reason == {"none", "never_started", "dependency", "claimed", "resume-cap",
           "retries-exhausted"}
Cause == Reason \cup Outcome

Op == {"assign", "spawn", "delegate", "verify", "resume", "escalate"}
(* What an action does next: nothing of it is done while it is "emitted".  *)
Step == {"emitted", "publish", "stamp", "launch", "record", "send", "commit",
         "verifying", "verdict", "resume", "resuming"}
Item == {x \in [op : Op, task : Tasks, on : Machines, att : Nat, cause : Cause,
                 from : Lifecycle!TaskState,    \* the task's state as read from its row
                 next : Step,
                 n : Nat] :                     \* verifiers passed so far
             x.op = "resume" => x.cause \in Outcome}

Emit(op, t, m, i, cause) ==
    [op |-> op, task |-> t, on |-> m, att |-> i, cause |-> cause,
     from |-> state[t], next |-> "emitted", n |-> 0]

Depended(t) == \A d \in DependsOn[t] : state[d] = "DONE"
Blocked(t) == \E d \in DependsOn[t] : state[d] \in {"NEEDS_HUMAN", "CANCELLED"}

\* Mutation of Startable: no dependency gate.
StartableUngated == {t \in Tasks : state[t] \in {"RETRYING", "PENDING"}}

Startable == {t \in Tasks : \/ state[t] = "RETRYING"
                            \/ state[t] = "PENDING" /\ Depended(t)}

\* Mutation of NeverStarted: no limit on attempts that do not start.
NeverGivenUp == {}

NeverStarted == {t \in Startable : Cardinality(UnstartedStreak(t)) >= MaxUnstarted}

\* Mutation of InFlight: a task waiting for its retry takes a slot.
InFlightOrRetrying == {t \in Tasks : state[t] \in {"ASSIGNED", "RUNNING", "RETRYING"}}

InFlight == {t \in Tasks : state[t] \in {"ASSIGNED", "RUNNING"}}
RemoteInFlight == {t \in InFlight : /\ state[t] = "RUNNING"
                                    /\ HasAttempt(t)
                                    /\ Latest(t).kind = "remote"}
LocalInFlight == Cardinality(InFlight \ RemoteInFlight)

(* A machine that did not start the task's last attempts is left alone     *)
(* until the newest of them has aged.                                      *)
BackingOff(t) == IF age[t] = 0 THEN {attempts[t][i].on : i \in UnstartedStreak(t)} ELSE {}
(* A retry goes back to the machine its work is on.                        *)
Eligible(t) == IF state[t] = "RETRYING" /\ HasAttempt(t) THEN {Latest(t).on} ELSE Allowed[t]
Candidates(t) == (Eligible(t) \cap open) \ BackingOff(t)

\* Mutation of Full: the tasks already in flight are not counted.
FullButForOthers(n) == n >= MaxConcurrent

(* n tasks more, and every task slot here is taken.                        *)
Full(n) == LocalInFlight + n >= MaxConcurrent

(* The ways to place the startable tasks: w[t] is the machine of each task *)
(* placed.  A task is held only where no candidate has room, and no        *)
(* pending task takes a slot here that a retry is waiting for.             *)
Placements ==
    {w \in UNION {[p -> Machines] : p \in SUBSET (Startable \ NeverStarted)} :
        LET starts == {t \in DOMAIN w : w[t] = Here}
        IN /\ \A t \in DOMAIN w : w[t] \in Candidates(t)
           /\ starts # {} => ~Full(Cardinality(starts) - 1)
           /\ \A t \in (Startable \ NeverStarted) \ DOMAIN w :
                 /\ Candidates(t) \subseteq {Here}
                 /\ Here \in Candidates(t) =>
                       /\ Full(Cardinality(starts))
                       /\ state[t] = "RETRYING" => \A u \in starts : state[u] = "RETRYING"}

Start(t, m) ==
    Emit(IF m \in Peers THEN "delegate"
         ELSE IF state[t] = "PENDING" /\ (t \in RoleTasks \/ (t \in Routable /\ home))
              THEN "assign" ELSE "spawn", t, m, 0, "none")

Escalate(t, why) == Emit("escalate", t, Here, 0, why)

(* Step 2: assignments past their claim timeout.  One whose message nobody *)
(* read is taken over when nobody is home; one that was read gets the      *)
(* task's own timeout.  Nothing is decided without a stamped message.      *)
Overdue == {t \in Tasks : state[t] = "ASSIGNED" /\ age[t] > 0 /\ Stamped(t) # {}}
Drained(t) == attempts[t][LatestMessage(t)].proc = "delivered"
Unclaimed == {t \in Overdue : ~Drained(t) /\ ~home}
ClaimedTooLong == {t \in Overdue : Drained(t) /\ age[t] = 2}

(* What the sensor reports of a running task's latest attempt.             *)
Observed(t) ==
    LET a == Latest(t) IN
    CASE a.kind = "spawn" /\ a.proc = "ok" -> "Completed"
      [] a.kind = "spawn" /\ a.proc = "error" -> "Failed"
      [] a.kind = "spawn" /\ a.proc \notin {"ok", "error"} ->
            IF a.recorded THEN IF a.proc = "live" THEN "Running" ELSE "Dead"
                          ELSE IF age[t] = 0 THEN "Unknown" ELSE "Dead"
      [] a.kind = "remote" /\ a.heard = "settled" ->
            IF a.proc = "ok" THEN "Completed"
            ELSE IF a.proc = "refused" THEN "Refused" ELSE "Failed"
      [] a.kind = "remote" /\ a.heard = "running" -> "Running"
      [] a.kind = "remote" /\ a.heard = "nothing" -> IF age[t] = 0 THEN "Running" ELSE "Dead"
      [] OTHER -> "Unknown"

(* Step 3: running tasks whose session ended.                              *)
Observing(status) == {t \in Tasks : /\ state[t] = "RUNNING"
                                    /\ HasAttempt(t)
                                    /\ Observed(t) = status}

Resume(t, cause) == Emit("resume", t, Here, 0, cause)

(* tick: VERIFYING and RESUMING tasks are not listed, so nothing is ever   *)
(* decided about them.                                                     *)
Tick(s) ==
    /\ pass[s] = {}
    /\ \E w \in Placements :
          pass' = [pass EXCEPT ![s] =
             {Start(t, w[t]) : t \in DOMAIN w}
             \cup {Escalate(t, "never_started") : t \in NeverStarted}
             \cup {Escalate(t, "dependency") :
                      t \in {u \in Tasks : state[u] = "PENDING" /\ Blocked(u)}}
             \cup {Emit("spawn", t, Here, 0, "none") : t \in Unclaimed}
             \cup {Escalate(t, "claimed") : t \in ClaimedTooLong}
             \cup {Emit("verify", t, Here, LatestId(t), "none") : t \in Observing("Completed")}
             \cup {Resume(t, "session_failed") : t \in Observing("Failed")}
             \cup {Resume(t, "peer_refused") : t \in Observing("Refused")}
             \cup {Resume(t, "session_died") : t \in Observing("Dead")}]
    /\ UNCHANGED <<state, reason, attempts, age, open, home, faults>>

-----------------------------------------------------------------------------
(* Applying one action *)

CanFail(effect) == effect \in Faults /\ faults < MaxFaults
Fault == faults' = faults + 1

Begun(s) == {x \in pass[s] : x.next # "emitted"}
(* The actions s may turn to: the task's row is read again first.          *)
ToApply(s, op, states) ==
    {x \in pass[s] : x.op = op /\ x.next = "emitted" /\ Begun(s) = {} /\ state[x.task] \in states}
At(s, op, next) == {x \in pass[s] : x.op = op /\ x.next = next}

Drop(s, x) == pass' = [pass EXCEPT ![s] = @ \ {x}]
Go(s, x, next) ==
    pass' = [pass EXCEPT ![s] = (@ \ {x}) \cup {[x EXCEPT !.next = next]}]
(* The first write of an action: it acts on the state and attempt read now.*)
Begin(s, x, next, i) ==
    pass' = [pass EXCEPT ![s] = (@ \ {x}) \cup
                {[x EXCEPT !.next = next, !.att = i, !.from = state[x.task]]}]

\* Mutation of Holds: a plain write, no compare-and-set.
HoldsUnchecked(t, from) == TRUE

(* transition: a compare-and-set on the state the caller read.             *)
Holds(t, from) == state[t] = from
SetState(t, to, why) ==
    /\ state' = [state EXCEPT ![t] = to]
    /\ reason' = IF to = "NEEDS_HUMAN" THEN [reason EXCEPT ![t] = why] ELSE reason
SameState == UNCHANGED <<state, reason>>
SameWorld == UNCHANGED <<open, home>>

(* The states an action is applied in; in any other it is dropped.         *)
AppliesIn(op) ==
    CASE op = "assign" -> {"PENDING"}
      [] op = "spawn" -> {"PENDING", "ASSIGNED", "RETRYING"}
      [] op = "delegate" -> {"PENDING", "RETRYING"}
      [] op = "verify" -> {"RUNNING", "VERIFYING"}
      [] op = "resume" -> {"RUNNING"}
      [] op = "escalate" -> Lifecycle!TaskState \ {"DONE", "NEEDS_HUMAN", "CANCELLED"}

Skip(s) ==
    /\ Begun(s) = {}
    /\ \E x \in pass[s] : state[x.task] \notin AppliesIn(x.op) /\ Drop(s, x)
    /\ SameState /\ SameWorld /\ UNCHANGED <<attempts, age, faults>>

(* The last write of a start: to ASSIGNED or RUNNING if the task is still  *)
(* where it was read.                                                      *)
Commit(s, x, to) ==
    /\ Drop(s, x)
    /\ IF Holds(x.task, x.from) THEN SetState(x.task, to, "none") ELSE SameState
    /\ SameWorld /\ UNCHANGED <<attempts, age, faults>>

(* AssignViaMailbox: attempt row, message, message id, ASSIGNED.           *)
AssignInsert(s) ==
    \E x \in ToApply(s, "assign", AppliesIn("assign")) :
       /\ InsertAttempt(x.task, NewAttempt("mailbox", Here, "none"))
       /\ Begin(s, x, "publish", LatestId(x.task) + 1)
       /\ SameState /\ SameWorld /\ UNCHANGED faults

Publish(s) ==
    \E x \in At(s, "assign", "publish") :
       LET a == attempts[x.task][x.att] IN
       /\ \/ /\ SetAttempt(x.task, x.att, [a EXCEPT !.proc = "pending"])
             /\ Go(s, x, "stamp")
             /\ UNCHANGED faults
          \/ /\ CanFail("publish") /\ Fault
             /\ Drop(s, x)
             /\ UNCHANGED attempts
       /\ SameState /\ SameWorld /\ UNCHANGED age

Stamp(s) ==
    \E x \in At(s, "assign", "stamp") :
       /\ SetAttempt(x.task, x.att, [attempts[x.task][x.att] EXCEPT !.recorded = TRUE])
       /\ Go(s, x, "commit")
       /\ SameState /\ SameWorld /\ UNCHANGED <<age, faults>>

\* Mutation of AssignCommit: the wrong state.
AssignCommitRunning(s) == \E x \in At(s, "assign", "commit") : Commit(s, x, "RUNNING")

AssignCommit(s) == \E x \in At(s, "assign", "commit") : Commit(s, x, "ASSIGNED")

(* Spawn: adopt a session that is already running, or take the message     *)
(* back, make the workdir, insert the attempt, start, record the pid.      *)
Adopt(s) ==
    \E x \in ToApply(s, "spawn", AppliesIn("spawn")) :
       /\ Adoptable(x.task)
       /\ Begin(s, x, "commit", LatestId(x.task))
       /\ SameState /\ SameWorld /\ UNCHANGED <<attempts, age, faults>>

\* Mutation of TakenBack: the message stays where it is.
LeftInMailbox(t) == attempts[t]

(* The attempts once the message of an assigned task is taken back.        *)
TakenBack(t) ==
    IF state[t] = "ASSIGNED" /\ Stamped(t) # {} /\ attempts[t][LatestMessage(t)].proc = "pending"
    THEN [attempts[t] EXCEPT ![LatestMessage(t)].proc = "withdrawn"]
    ELSE attempts[t]

\* Mutation of Lost: a message just drained does not stop the spawn.
LostIgnored(t) == FALSE

(* The role drained the message after the pass read it: the task is theirs.*)
Lost(t) == state[t] = "ASSIGNED" /\ Stamped(t) # {} /\ Drained(t)

SpawnLost(s) ==
    \E x \in ToApply(s, "spawn", AppliesIn("spawn")) :
       /\ ~Adoptable(x.task) /\ Lost(x.task)
       /\ Drop(s, x)
       /\ SameState /\ SameWorld /\ UNCHANGED <<attempts, age, faults>>

SpawnInsert(s) ==
    \E x \in ToApply(s, "spawn", AppliesIn("spawn")) :
       LET t == x.task IN
       /\ ~Adoptable(t) /\ ~Lost(t)
       /\ \/ /\ Len(attempts[t]) < MaxAttempts
             /\ attempts' = [attempts EXCEPT ![t] =
                                Append(TakenBack(t), NewAttempt("spawn", Here, "none"))]
             /\ age' = [age EXCEPT ![t] = 0]
             /\ Begin(s, x, "launch", LatestId(t) + 1)
             /\ UNCHANGED faults
          \/ /\ CanFail("workdir") /\ Fault
             /\ attempts' = [attempts EXCEPT ![t] = TakenBack(t)]
             /\ Drop(s, x)
             /\ UNCHANGED age
       /\ SameState /\ SameWorld

Launch(s) ==
    \E x \in At(s, "spawn", "launch") :
       LET a == attempts[x.task][x.att] IN
       /\ \/ /\ SetAttempt(x.task, x.att, [a EXCEPT !.proc = "live"])
             /\ Go(s, x, "record")
             /\ UNCHANGED faults
          \/ /\ CanFail("spawn") /\ Fault
             /\ SetAttempt(x.task, x.att, Finished(a, "spawn_failed"))
             /\ Drop(s, x)
       /\ SameState /\ SameWorld /\ UNCHANGED age

RecordPid(s) ==
    \E x \in At(s, "spawn", "record") :
       /\ SetAttempt(x.task, x.att, [attempts[x.task][x.att] EXCEPT !.recorded = TRUE])
       /\ Go(s, x, "commit")
       /\ SameState /\ SameWorld /\ UNCHANGED <<age, faults>>

SpawnCommit(s) == \E x \in At(s, "spawn", "commit") : Commit(s, x, "RUNNING")

(* Delegate: insert the attempt with its peer, send it, RUNNING.           *)
DelegateInsert(s) ==
    \E x \in ToApply(s, "delegate", AppliesIn("delegate")) :
       /\ InsertAttempt(x.task, NewAttempt("remote", x.on, "none"))
       /\ Begin(s, x, "send", LatestId(x.task) + 1)
       /\ SameState /\ SameWorld /\ UNCHANGED faults

Send(s) ==
    \E x \in At(s, "delegate", "send") :
       LET a == attempts[x.task][x.att] IN
       /\ \/ /\ SetAttempt(x.task, x.att, [a EXCEPT !.proc = "sent"])
             /\ Go(s, x, "commit")
             /\ UNCHANGED faults
          \/ /\ CanFail("delegate") /\ Fault
             /\ SetAttempt(x.task, x.att, Finished(a, "delegate_failed"))
             /\ Drop(s, x)
       /\ SameState /\ SameWorld /\ UNCHANGED age

DelegateCommit(s) == \E x \in At(s, "delegate", "commit") : Commit(s, x, "RUNNING")

(* RunVerifier: close the attempt, RUNNING -> VERIFYING, then one verdict  *)
(* after another.  A remote attempt's verdicts are the ones its peer sent. *)
CloseCompleted(s) ==
    \E x \in ToApply(s, "verify", AppliesIn("verify")) :
       /\ IF state[x.task] = "RUNNING"
          THEN SetAttempt(x.task, x.att, Finished(attempts[x.task][x.att], "completed"))
          ELSE UNCHANGED attempts
       /\ Begin(s, x, IF state[x.task] = "RUNNING" THEN "verifying" ELSE "verdict", x.att)
       /\ SameState /\ SameWorld /\ UNCHANGED <<age, faults>>

StartVerifying(s) ==
    \E x \in At(s, "verify", "verifying") :
       /\ IF Holds(x.task, "RUNNING")
          THEN SetState(x.task, "VERIFYING", "none") /\ Go(s, x, "verdict")
          ELSE SameState /\ Drop(s, x)
       /\ SameWorld /\ UNCHANGED <<attempts, age, faults>>

(* A verifier that passes is recorded and the next one runs.               *)
VerdictPass(s) ==
    \E x \in At(s, "verify", "verdict") :
       LET a == attempts[x.task][x.att] IN
       /\ x.n < Verifiers[x.task]
       /\ SetAttempt(x.task, x.att, [a EXCEPT !.passed = @ + 1])
       /\ pass' = [pass EXCEPT ![s] = (@ \ {x}) \cup {[x EXCEPT !.n = @ + 1]}]
       /\ SameState /\ SameWorld /\ UNCHANGED <<age, faults>>

(* One that fails is recorded and sends the task back, or to a person.     *)
VerdictFail(s) ==
    \E x \in At(s, "verify", "verdict") :
       LET t == x.task IN
       /\ x.n < Verifiers[t]
       /\ SetAttempt(t, x.att, [attempts[t][x.att] EXCEPT !.failed = TRUE])
       /\ IF ~Holds(t, "VERIFYING") THEN SameState
          ELSE IF AttemptsThatRan(t) > MaxRetries
               THEN SetState(t, "NEEDS_HUMAN", "retries-exhausted")
               ELSE SetState(t, "RETRYING", "none")
       /\ Drop(s, x)
       /\ SameWorld /\ UNCHANGED <<age, faults>>

(* One that cannot reach a verdict (a timeout, no brain, no agent) ends    *)
(* the action with an error.  A peer's verdicts are data already here.     *)
VerdictError(s) ==
    \E x \in At(s, "verify", "verdict") :
       /\ x.n < Verifiers[x.task]
       /\ attempts[x.task][x.att].kind # "remote"
       /\ CanFail("verifier") /\ Fault
       /\ Drop(s, x)
       /\ SameState /\ SameWorld /\ UNCHANGED <<attempts, age>>

\* Mutation of AllPassed: the last verifier is skipped.
AllPassedButOne(s) ==
    \E x \in At(s, "verify", "verdict") :
       /\ x.n + 1 >= Verifiers[x.task]
       /\ IF Holds(x.task, "VERIFYING") THEN SetState(x.task, "DONE", "none") ELSE SameState
       /\ Drop(s, x)
       /\ SameWorld /\ UNCHANGED <<attempts, age, faults>>

AllPassed(s) ==
    \E x \in At(s, "verify", "verdict") :
       /\ x.n = Verifiers[x.task]
       /\ IF Holds(x.task, "VERIFYING") THEN SetState(x.task, "DONE", "none") ELSE SameState
       /\ Drop(s, x)
       /\ SameWorld /\ UNCHANGED <<attempts, age, faults>>

(* Resume: ask the peer to stop an attempt that may be running there,      *)
(* close the attempt, then back to PENDING by way of RESUMING, or past     *)
(* the cap to a person.                                                    *)
GiveUp(s) ==
    \E x \in ToApply(s, "resume", AppliesIn("resume")) :
       LET t == x.task
           a == Finished(Latest(t), x.cause)
           stops == a.kind = "remote" /\ x.cause = "session_died" /\ a.proc \in {"sent", "live"}
       IN /\ IF HasAttempt(t)
             THEN \E b \in {a} \cup {c \in {[a EXCEPT !.proc = "gone"]} : stops} :
                     SetAttempt(t, LatestId(t), b)
             ELSE UNCHANGED attempts
          /\ Begin(s, x, "resume", LatestId(t))
          /\ SameState /\ SameWorld /\ UNCHANGED <<age, faults>>

ResumeOrCap(s) ==
    \E x \in At(s, "resume", "resume") :
       /\ IF ~Holds(x.task, "RUNNING") THEN SameState /\ Drop(s, x)
          ELSE IF AttemptsThatRan(x.task) > MaxRetries
               THEN SetState(x.task, "NEEDS_HUMAN", "resume-cap") /\ Drop(s, x)
               ELSE SetState(x.task, "RESUMING", "none") /\ Go(s, x, "resuming")
       /\ SameWorld /\ UNCHANGED <<attempts, age, faults>>

BackToPending(s) ==
    \E x \in At(s, "resume", "resuming") :
       /\ IF Holds(x.task, "RESUMING") THEN SetState(x.task, "PENDING", "none") ELSE SameState
       /\ Drop(s, x)
       /\ SameWorld /\ UNCHANGED <<attempts, age, faults>>

EscalateHuman(s) ==
    \E x \in ToApply(s, "escalate", AppliesIn("escalate")) :
       /\ SetState(x.task, "NEEDS_HUMAN", x.cause)
       /\ Drop(s, x)
       /\ SameWorld /\ UNCHANGED <<attempts, age, faults>>

Apply(s) ==
    \/ Skip(s)
    \/ AssignInsert(s) \/ Publish(s) \/ Stamp(s) \/ AssignCommit(s)
    \/ Adopt(s) \/ SpawnLost(s) \/ SpawnInsert(s) \/ Launch(s) \/ RecordPid(s) \/ SpawnCommit(s)
    \/ DelegateInsert(s) \/ Send(s) \/ DelegateCommit(s)
    \/ CloseCompleted(s) \/ StartVerifying(s)
    \/ VerdictPass(s) \/ VerdictFail(s) \/ VerdictError(s) \/ AllPassed(s)
    \/ GiveUp(s) \/ ResumeOrCap(s) \/ BackToPending(s)
    \/ EscalateHuman(s)

(* The process dies before its next write and starts again with an empty   *)
(* pass; everything else is in the database.                               *)
Crash(s) ==
    /\ faults < MaxFaults /\ Fault
    /\ \E x \in Begun(s) : <<x.op, x.next>> \in CrashPoints
    /\ pass' = [pass EXCEPT ![s] = {}]
    /\ SameState /\ SameWorld /\ UNCHANGED <<attempts, age>>

-----------------------------------------------------------------------------
(* Everything around the supervisor *)

(* The operator cancels a task that has not ended; its session is not told.*)
Cancel(t) ==
    /\ CanFail("cancel") /\ Fault
    /\ ~IsTerminal(state[t])
    /\ SetState(t, "CANCELLED", "none")
    /\ SameWorld /\ UNCHANGED <<attempts, age, pass>>

(* A machine is drained, filled, disconnected, or comes back.              *)
MachineChanges(m) ==
    /\ CanFail("machine") /\ Fault
    /\ open' = IF m \in open THEN open \ {m} ELSE open \cup {m}
    /\ SameState /\ UNCHANGED <<attempts, age, pass, home>>

RoleComesOrGoes ==
    /\ CanFail("role") /\ Fault
    /\ home' = ~home
    /\ SameState /\ UNCHANGED <<attempts, age, pass, open>>

World == SameState /\ SameWorld /\ UNCHANGED <<age, pass, faults>>

(* A session of the role drains its inbox at the end of a turn.            *)
RoleDrains(t) ==
    /\ home
    /\ \E i \in DOMAIN attempts[t] :
          /\ attempts[t][i].proc = "pending"
          /\ SetAttempt(t, i, [attempts[t][i] EXCEPT !.proc = "delivered"])
    /\ World

(* A session reports success or an error, or dies without a word.          *)
SessionEnds(t) ==
    /\ \E i \in DOMAIN attempts[t], end \in {"ok", "error", "gone"} :
          /\ attempts[t][i].proc = "live"
          /\ end = "gone" => attempts[t][i].kind = "spawn"
          /\ SetAttempt(t, i, [attempts[t][i] EXCEPT !.proc = end])
    /\ World

\* Mutation of BusyWith: a peer takes a second attempt of a task it runs.
NeverBusy(t, m) == FALSE

BusyWith(t, m) == \E i \in DOMAIN attempts[t] :
    attempts[t][i].kind = "remote" /\ attempts[t][i].on = m /\ attempts[t][i].proc = "live"

(* A peer starts what it was sent, or refuses it: it is full, or still runs*)
(* an earlier attempt of the task.                                         *)
PeerReceives(t) ==
    /\ \E i \in DOMAIN attempts[t], answer \in {"live", "refused"} :
          /\ attempts[t][i].proc = "sent"
          /\ answer = "live" => ~BusyWith(t, attempts[t][i].on)
          /\ SetAttempt(t, i, [attempts[t][i] EXCEPT !.proc = answer])
    /\ World

LedgerHears(t) ==
    /\ \E i \in DOMAIN attempts[t] :
          LET a == attempts[t][i]
              status == IF a.proc = "live" THEN "running" ELSE "settled"
          IN /\ a.kind = "remote" /\ a.proc \in {"live", "ok", "error", "refused"}
             /\ a.heard # status
             /\ SetAttempt(t, i, [a EXCEPT !.heard = status])
    /\ World

TimePasses(t) ==
    /\ HasAttempt(t) /\ ~IsTerminal(state[t])
    /\ age[t] < 2
    /\ age' = [age EXCEPT ![t] = @ + 1]
    /\ SameState /\ SameWorld /\ UNCHANGED <<attempts, pass, faults>>

Environment ==
    \/ RoleComesOrGoes
    \/ \E m \in Machines : MachineChanges(m)
    \/ \E t \in Tasks : \/ Cancel(t) \/ RoleDrains(t) \/ SessionEnds(t)
                        \/ PeerReceives(t) \/ LedgerHears(t) \/ TimePasses(t)

Init ==
    /\ state = [t \in Tasks |-> "PENDING"]
    /\ reason = [t \in Tasks |-> "none"]
    /\ attempts = [t \in Tasks |-> <<>>]
    /\ age = [t \in Tasks |-> 0]
    /\ pass = [s \in Supervisors |-> {}]
    /\ open \in SUBSET Machines
    /\ home \in BOOLEAN
    /\ faults = 0

Next == (\E s \in Supervisors : Tick(s) \/ Apply(s) \/ Crash(s)) \/ Environment

Spec == Init /\ [][Next]_vars

(* Every pass ends and another follows; sessions end, peers answer, their  *)
(* answers reach the ledger, a role at home reads its inbox, time passes.  *)
Fairness ==
    /\ \A s \in Supervisors : WF_vars(Tick(s)) /\ WF_vars(Apply(s))
    /\ \A t \in Tasks : /\ WF_vars(RoleDrains(t)) /\ WF_vars(SessionEnds(t))
                        /\ WF_vars(PeerReceives(t)) /\ WF_vars(LedgerHears(t))
                        /\ WF_vars(TimePasses(t))

FairSpec == Spec /\ Fairness

-----------------------------------------------------------------------------
(* Properties *)

(* Every variable keeps its shape.                                         *)
TypeOK ==
    /\ state \in [Tasks -> Lifecycle!TaskState]
    /\ reason \in [Tasks -> Cause]
    /\ attempts \in [Tasks -> Seq(Attempt)]
    /\ age \in [Tasks -> 0..2]
    /\ pass \in [Supervisors -> SUBSET Item]
    /\ open \subseteq Machines
    /\ home \in BOOLEAN
    /\ faults \in Nat

(* A task that is, or was, at work has every dependency DONE, whatever the *)
(* supervisors' passes have in hand and however stale it is (#572).        *)
AtWork == {"ASSIGNED", "RUNNING", "VERIFYING", "RESUMING", "RETRYING", "DONE"}
DependencyOrder == \A t \in Tasks : state[t] \in AtWork => Depended(t)

(* Whatever a pass has in hand, however long ago it read it: a start in it *)
(* is for a task whose dependencies are DONE, and one that has begun acts  *)
(* on a state it may start from.                                           *)
Starts == {"assign", "spawn", "delegate"}
PlansReady ==
    \A s \in Supervisors : \A x \in pass[s] : x.op \in Starts =>
        /\ Depended(x.task)
        /\ x.next # "emitted" => x.from \in AppliesIn(x.op)

(* DONE means the latest attempt's own session succeeded and every verifier*)
(* passed on it, none failed.                                              *)
DoneIsVerified ==
    \A t \in Tasks : state[t] = "DONE" =>
        /\ HasAttempt(t)
        /\ LET a == Latest(t)
           IN /\ a.proc = "ok"
              /\ a.passed = Verifiers[t] /\ ~a.failed

(* Where a task is being worked on: a live session, or a role that read its*)
(* message.                                                                *)
Workers(t) == {i \in DOMAIN attempts[t] : attempts[t][i].proc \in {"live", "delivered"}}
(* A task never has two workers on the same machine: a crash adopts, a     *)
(* fallback takes the message back first, a peer refuses a second attempt. *)
OneWorkerPerMachine ==
    \A t \in Tasks : \A i, j \in Workers(t) :
        attempts[t][i].on = attempts[t][j].on => i = j
(* Nor two workers anywhere.                                               *)
OneWorker == \A t \in Tasks : Cardinality(Workers(t)) <= 1

(* While a session works here on a task no mailbox message of the task can *)
(* still be read (supervisor.rs: taken back first, so nobody reads it later*)
(* either).                                                                *)
NobodyReadsLater ==
    \A t \in Tasks : \A i, j \in DOMAIN attempts[t] :
        attempts[t][i].proc = "live" => attempts[t][j].proc # "pending"

(* RUNNING is honest: something was launched or sent for the latest attempt*)
(* (actuator.rs: no transition that did not happen).                       *)
RunningIsReal ==
    \A t \in Tasks : state[t] = "RUNNING" =>
        HasAttempt(t) /\ Latest(t).kind # "mailbox" /\ Latest(t).proc # "none"

(* Nothing is still at work on a task being verified, resumed or done, nor *)
(* on one handed to a person because its attempts were used up or never    *)
(* started.                                                                *)
NoOrphan ==
    \A t \in Tasks :
        \/ state[t] \in {"VERIFYING", "RESUMING", "DONE"}
        \/ reason[t] \in {"resume-cap", "retries-exhausted", "never_started"}
        => Workers(t) = {}

(* The attempts that ever executed.                                        *)
Executed(t) == {i \in DOMAIN attempts[t] :
                   attempts[t][i].proc \in {"live", "ok", "error", "gone"}}

(* A person is asked over the retry limit only once more than MaxRetries   *)
(* attempts executed.                                                      *)
BudgetIsSpent ==
    \A t \in Tasks : reason[t] \in {"resume-cap", "retries-exhausted"} =>
        Cardinality(Executed(t)) > MaxRetries

(* The same where it holds: of tasks only ever started here, no start of   *)
(* which a crash cut short.                                                *)
LocalBudgetIsSpent ==
    \A t \in Tasks :
        /\ reason[t] \in {"resume-cap", "retries-exhausted"}
        /\ \A i \in DOMAIN attempts[t] :
              LET a == attempts[t][i]
              IN a.kind = "spawn" /\ (a.proc = "none" => a.outcome = "spawn_failed")
        => Cardinality(Executed(t)) > MaxRetries

(* The local slot limit holds for what the ledger says is in flight here.  *)
SlotCeiling == LocalInFlight <= MaxConcurrent

(* A task that will not start is not tried more than MaxUnstarted times in *)
(* a row.                                                                  *)
UnstartedBounded == \A t \in Tasks : Cardinality(UnstartedStreak(t)) <= MaxUnstarted

(* A pass begun while this machine takes no tasks starts none here.        *)
DrainStartsNothing ==
    [][\A s \in Supervisors : pass[s] = {} /\ Here \notin open =>
          \A x \in pass'[s] : x.op \notin {"assign", "spawn"}]_vars

(* Tasks move only along the lifecycle's edges, leave PENDING only with    *)
(* their dependencies DONE and never leave a terminal state.               *)
ImplementsLifecycle == Lifecycle!Spec

(* Once the machines stay open, every task ends: DONE, or with a person.    *)
Settles == <>[](open = Machines) => \A t \in Tasks : <>IsTerminal(state[t])

(* What a crash or an error left half-way is picked up by a later pass.    *)
Reconverges ==
    \A t \in Tasks : state[t] \in {"VERIFYING", "RESUMING"} ~> state[t] \notin {"VERIFYING", "RESUMING"}

(* An assignment nobody works on is eventually acted on.                   *)
AssignmentMoves == \A t \in Tasks : state[t] = "ASSIGNED" ~> state[t] # "ASSIGNED"
=============================================================================
