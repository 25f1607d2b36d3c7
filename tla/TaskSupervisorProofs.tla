------------------------ MODULE TaskSupervisorProofs ------------------------
(***************************************************************************)
(* Theorems about TaskSupervisor for every number of tasks, peers and      *)
(* faults.  For any number of supervisors: types, the dependency order and *)
(* the refinement of TaskLifecycle.  For one supervisor: what DONE and     *)
(* RUNNING mean, the limits on slots, retries and starts, and who is at    *)
(* work on a task.                                                         *)
(***************************************************************************)
EXTENDS TaskSupervisor, SequenceTheorems, FiniteSetTheorems, TLAPS

-----------------------------------------------------------------------------
(* Lemmas on the data *)

(* Changing one place of a sequence to a value of the right type, or       *)
(* naming a place it does not have, keeps its type.                        *)
LEMMA AmendType ==
    ASSUME NEW S, NEW f \in Seq(S), NEW i, NEW e, i \in DOMAIN f => e \in S
    PROVE  [f EXCEPT ![i] = e] \in Seq(S)
<1>1. f \in [1..Len(f) -> S] /\ Len(f) \in Nat
  BY LenProperties
<1>2. [f EXCEPT ![i] = e] \in [1..Len(f) -> S]
  BY <1>1
<1> QED
  BY <1>1, <1>2, SeqDef

LEMMA NewAttemptType ==
    ASSUME NEW kind \in {"mailbox", "spawn", "remote"}, NEW m \in Machines, NEW p \in Proc
    PROVE  NewAttempt(kind, m, p) \in Attempt
BY DEF NewAttempt, Attempt, Outcome

LEMMA FinishedType ==
    ASSUME NEW a \in Attempt, NEW outcome \in Outcome
    PROVE  Finished(a, outcome) \in Attempt
BY DEF Finished, Attempt

(* A step that amends one attempt keeps the type of the table.             *)
LEMMA SetAttemptType ==
    ASSUME attempts \in [Tasks -> Seq(Attempt)], NEW t \in Tasks, NEW i, NEW a,
           i \in DOMAIN attempts[t] => a \in Attempt, SetAttempt(t, i, a)
    PROVE  attempts' \in [Tasks -> Seq(Attempt)]
<1>1. [attempts[t] EXCEPT ![i] = a] \in Seq(Attempt)
  BY AmendType
<1>2. attempts' = [attempts EXCEPT ![t] = [attempts[t] EXCEPT ![i] = a]]
  BY DEF SetAttempt
<1> QED
  BY <1>1, <1>2

(* The attempt an item names is an attempt.                                *)
LEMMA AttemptAt ==
    ASSUME attempts \in [Tasks -> Seq(Attempt)], NEW t \in Tasks, NEW i \in DOMAIN attempts[t]
    PROVE  attempts[t][i] \in Attempt
BY ElementOfSeq, LenProperties

(* Adding an attempt to the table keeps its type.                          *)
LEMMA InsertAttemptType ==
    ASSUME attempts \in [Tasks -> Seq(Attempt)], age \in [Tasks -> 0..2],
           NEW t \in Tasks, NEW a \in Attempt, InsertAttempt(t, a)
    PROVE  attempts' \in [Tasks -> Seq(Attempt)] /\ age' \in [Tasks -> 0..2]
<1>1. Append(attempts[t], a) \in Seq(Attempt)
  BY AppendProperties
<1> QED
  BY <1>1 DEF InsertAttempt

LEMMA LatestIdType ==
    ASSUME attempts \in [Tasks -> Seq(Attempt)], NEW t \in Tasks
    PROVE  /\ LatestId(t) \in Nat
           /\ HasAttempt(t) => Latest(t) \in Attempt
<1>1. attempts[t] \in Seq(Attempt) /\ LatestId(t) \in Nat
  BY LenProperties DEF LatestId
<1>2. HasAttempt(t) => LatestId(t) \in DOMAIN attempts[t]
  BY <1>1, EmptySeq, LenProperties DEF HasAttempt, LatestId
<1> QED
  BY <1>1, <1>2, AttemptAt DEF Latest

LEMMA EmitType ==
    ASSUME TypeOK, NEW op \in Op, NEW t \in Tasks, NEW m \in Machines, NEW i \in Nat,
           NEW c \in Cause, op = "resume" => c \in Outcome
    PROVE  Emit(op, t, m, i, c) \in Item
BY DEF Emit, Item, Step, TypeOK

LEMMA DropType ==
    ASSUME TypeOK, NEW s \in Supervisors, NEW x, Drop(s, x)
    PROVE  pass' \in [Supervisors -> SUBSET Item]
BY DEF Drop, TypeOK

LEMMA GoType ==
    ASSUME TypeOK, NEW s \in Supervisors, NEW x \in Item, NEW next \in Step, Go(s, x, next)
    PROVE  pass' \in [Supervisors -> SUBSET Item]
<1>1. [x EXCEPT !.next = next] \in Item
  BY DEF Item
<1> QED
  BY <1>1 DEF Go, TypeOK

LEMMA BeginType ==
    ASSUME TypeOK, NEW s \in Supervisors, NEW x \in Item, NEW next \in Step, NEW i \in Nat,
           Begin(s, x, next, i)
    PROVE  pass' \in [Supervisors -> SUBSET Item]
<1>1. [x EXCEPT !.next = next, !.att = i, !.from = state[x.task]] \in Item
  BY DEF Item, TypeOK
<1> QED
  BY <1>1 DEF Begin, TypeOK

LEMMA SetStateType ==
    ASSUME TypeOK, NEW t \in Tasks, NEW q \in Lifecycle!TaskState, NEW why \in Cause,
           SetState(t, q, why)
    PROVE  state' \in [Tasks -> Lifecycle!TaskState] /\ reason' \in [Tasks -> Cause]
BY DEF SetState, TypeOK

(* What a pass has in hand is well typed.                                  *)
LEMMA ItemAt ==
    ASSUME TypeOK, NEW s \in Supervisors, NEW x \in pass[s]
    PROVE  /\ x \in Item /\ x.task \in Tasks /\ x.on \in Machines /\ x.att \in Nat
           /\ x.cause \in Cause /\ x.from \in Lifecycle!TaskState /\ x.n \in Nat
           /\ x.op = "resume" => x.cause \in Outcome
BY DEF TypeOK, Item

-----------------------------------------------------------------------------
(* Types *)

LEMMA TypeInit == Init => TypeOK
<1> SUFFICES ASSUME Init PROVE TypeOK
  OBVIOUS
<1>1. <<>> \in Seq(Attempt)
  BY EmptySeq
<1>2. "PENDING" \in Lifecycle!TaskState /\ "none" \in Cause
  BY DEF Lifecycle!TaskState, Cause, Reason
<1> QED
  BY <1>1, <1>2 DEF Init, TypeOK

LEMMA TypeTick ==
    ASSUME TypeOK, NEW s \in Supervisors, Tick(s)
    PROVE  TypeOK'
<1>1. PICK w \in Placements :
          pass' = [pass EXCEPT ![s] =
             {Start(t, w[t]) : t \in DOMAIN w}
             \cup {Escalate(t, "never_started") : t \in NeverStarted}
             \cup {Escalate(t, "dependency") :
                      t \in {u \in Tasks : state[u] = "PENDING" /\ Blocked(u)}}
             \cup {Emit("spawn", t, Here, 0, "none") : t \in Unclaimed}
             \cup {Escalate(t, "claimed") : t \in ClaimedTooLong}
             \cup {Emit("verify", t, Here, LatestId(t), "none") : t \in Observing("Completed")}
             \cup {Resume(t, "session_failed") : t \in Observing("Failed")}
             \cup {Resume(t, "peer_refused") : t \in Observing("Refused")}
             \cup {Resume(t, "session_died") : t \in Observing("Dead")}]
  BY DEF Tick
<1>2. DOMAIN w \subseteq Tasks /\ \A t \in DOMAIN w : w[t] \in Machines
  BY DEF Placements, Startable
<1>3. Here \in Machines /\ 0 \in Nat
  BY DEF Machines
<1>4. {"none", "never_started", "dependency", "claimed", "session_failed", "peer_refused",
       "session_died"} \subseteq Cause
  BY DEF Cause, Reason, Outcome
<1>5. \A t \in DOMAIN w : Start(t, w[t]) \in Item
  BY <1>2, <1>3, <1>4, EmitType DEF Start, Op
<1>6. /\ \A t \in NeverStarted : Escalate(t, "never_started") \in Item
      /\ \A t \in Tasks : Escalate(t, "dependency") \in Item
      /\ \A t \in ClaimedTooLong : Escalate(t, "claimed") \in Item
  BY <1>3, <1>4, EmitType
     DEF Escalate, Op, NeverStarted, Startable, ClaimedTooLong, Overdue
<1>7. \A t \in Unclaimed : Emit("spawn", t, Here, 0, "none") \in Item
  BY <1>3, <1>4, EmitType DEF Op, Unclaimed, Overdue
<1>8. \A t \in Observing("Completed") : Emit("verify", t, Here, LatestId(t), "none") \in Item
  BY <1>3, <1>4, EmitType, LatestIdType DEF Op, Observing, TypeOK
<1>9. /\ \A t \in Observing("Failed") : Resume(t, "session_failed") \in Item
      /\ \A t \in Observing("Refused") : Resume(t, "peer_refused") \in Item
      /\ \A t \in Observing("Dead") : Resume(t, "session_died") \in Item
  BY <1>3, <1>4, EmitType DEF Op, Observing, Resume, Outcome
<1>10. pass' \in [Supervisors -> SUBSET Item]
  BY <1>1, <1>5, <1>6, <1>7, <1>8, <1>9 DEF TypeOK
<1> QED
  BY <1>10 DEF Tick, TypeOK

(* An attempt of the table with some of its fields changed is an attempt.  *)
LEMMA AmendAttempt ==
    ASSUME NEW a \in Attempt
    PROVE  /\ \A p \in Proc : [a EXCEPT !.proc = p] \in Attempt
           /\ [a EXCEPT !.recorded = TRUE] \in Attempt
           /\ [a EXCEPT !.failed = TRUE] \in Attempt
           /\ [a EXCEPT !.passed = @ + 1] \in Attempt
           /\ \A h \in {"nothing", "running", "settled"} : [a EXCEPT !.heard = h] \in Attempt
<1>1. \A p \in Proc : [a EXCEPT !.proc = p] \in Attempt
  BY DEF Attempt
<1>2. [a EXCEPT !.recorded = TRUE] \in Attempt
  BY DEF Attempt
<1>3. [a EXCEPT !.failed = TRUE] \in Attempt
  BY DEF Attempt
<1>4. [a EXCEPT !.passed = @ + 1] \in Attempt
  BY DEF Attempt
<1>5. \A h \in {"nothing", "running", "settled"} : [a EXCEPT !.heard = h] \in Attempt
  BY DEF Attempt
<1> QED
  BY <1>1, <1>2, <1>3, <1>4, <1>5

(* The last write of a start keeps every type.                             *)
LEMMA CommitType ==
    ASSUME TypeOK, NEW s \in Supervisors, NEW x \in pass[s], NEW q \in {"ASSIGNED", "RUNNING"},
           Commit(s, x, q)
    PROVE  TypeOK'
<1>1. q \in Lifecycle!TaskState /\ "none" \in Cause
  BY DEF Lifecycle!TaskState, Cause, Reason
<1>2. state' \in [Tasks -> Lifecycle!TaskState] /\ reason' \in [Tasks -> Cause]
  BY <1>1, ItemAt, SetStateType DEF Commit, SameState, TypeOK
<1> QED
  BY <1>2, DropType DEF Commit, SameWorld, TypeOK

LEMMA TypeAssign ==
    ASSUME TypeOK, NEW s \in Supervisors,
           AssignInsert(s) \/ Publish(s) \/ Stamp(s) \/ AssignCommit(s)
    PROVE  TypeOK'
<1>1. CASE AssignInsert(s)
  <2>1. PICK x \in ToApply(s, "assign", AppliesIn("assign")) :
            /\ InsertAttempt(x.task, NewAttempt("mailbox", Here, "none"))
            /\ Begin(s, x, "publish", LatestId(x.task) + 1)
            /\ SameState /\ SameWorld /\ UNCHANGED faults
    BY <1>1 DEF AssignInsert
  <2>2. x \in Item /\ x.task \in Tasks
    BY ItemAt DEF ToApply
  <2>3. NewAttempt("mailbox", Here, "none") \in Attempt
    BY NewAttemptType DEF Machines, Proc
  <2>4. attempts' \in [Tasks -> Seq(Attempt)] /\ age' \in [Tasks -> 0..2]
    BY <2>1, <2>2, <2>3, InsertAttemptType DEF TypeOK
  <2>5. pass' \in [Supervisors -> SUBSET Item]
    BY <2>1, <2>2, BeginType, LatestIdType DEF Step, TypeOK
  <2> QED
    BY <2>1, <2>4, <2>5 DEF TypeOK, SameState, SameWorld
<1>2. CASE Publish(s)
  <2>1. PICK x \in At(s, "assign", "publish") :
            LET a == attempts[x.task][x.att] IN
            /\ \/ /\ SetAttempt(x.task, x.att, [a EXCEPT !.proc = "pending"])
                  /\ Go(s, x, "stamp")
                  /\ UNCHANGED faults
               \/ /\ CanFail("publish") /\ Fault
                  /\ Drop(s, x)
                  /\ UNCHANGED attempts
            /\ SameState /\ SameWorld /\ UNCHANGED age
    BY <1>2 DEF Publish
  <2>2. x \in Item /\ x.task \in Tasks
    BY ItemAt DEF At
  <2>3. attempts' \in [Tasks -> Seq(Attempt)]
    BY <2>1, <2>2, AttemptAt, AmendAttempt, SetAttemptType DEF TypeOK, Proc
  <2>4. pass' \in [Supervisors -> SUBSET Item]
    BY <2>1, <2>2, GoType, DropType DEF Step
  <2> QED
    BY <2>1, <2>3, <2>4 DEF TypeOK, SameState, SameWorld, Fault
<1>3. CASE Stamp(s)
  <2>1. PICK x \in At(s, "assign", "stamp") :
            /\ SetAttempt(x.task, x.att, [attempts[x.task][x.att] EXCEPT !.recorded = TRUE])
            /\ Go(s, x, "commit")
            /\ SameState /\ SameWorld /\ UNCHANGED <<age, faults>>
    BY <1>3 DEF Stamp
  <2>2. x \in Item /\ x.task \in Tasks
    BY ItemAt DEF At
  <2>3. attempts' \in [Tasks -> Seq(Attempt)]
    BY <2>1, <2>2, AttemptAt, AmendAttempt, SetAttemptType DEF TypeOK
  <2> QED
    BY <2>1, <2>2, <2>3, GoType DEF TypeOK, SameState, SameWorld, Step
<1>4. CASE AssignCommit(s)
  BY <1>4, CommitType DEF AssignCommit, At
<1> QED
  BY <1>1, <1>2, <1>3, <1>4

(* Taking a message back keeps the type of the task's attempts.            *)
LEMMA TakenBackType ==
    ASSUME attempts \in [Tasks -> Seq(Attempt)], NEW t \in Tasks
    PROVE  TakenBack(t) \in Seq(Attempt)
<1>1. LatestMessage(t) \in DOMAIN attempts[t] =>
          [attempts[t][LatestMessage(t)] EXCEPT !.proc = "withdrawn"] \in Attempt
  BY AttemptAt, AmendAttempt DEF Proc
<1>2. [attempts[t] EXCEPT ![LatestMessage(t)] =
          [attempts[t][LatestMessage(t)] EXCEPT !.proc = "withdrawn"]] \in Seq(Attempt)
  BY <1>1, AmendType
<1> QED
  BY <1>2 DEF TakenBack

LEMMA TypeSpawn ==
    ASSUME TypeOK, NEW s \in Supervisors,
           \/ Adopt(s) \/ SpawnLost(s) \/ SpawnInsert(s)
           \/ Launch(s) \/ RecordPid(s) \/ SpawnCommit(s)
    PROVE  TypeOK'
<1>1. CASE Adopt(s)
  <2>1. PICK x \in pass[s] :
            /\ Begin(s, x, "commit", LatestId(x.task))
            /\ SameState /\ SameWorld /\ UNCHANGED <<attempts, age, faults>>
    BY <1>1 DEF Adopt, ToApply
  <2>2. pass' \in [Supervisors -> SUBSET Item]
    BY <2>1, ItemAt, BeginType, LatestIdType DEF Step, TypeOK
  <2> QED
    BY <2>1, <2>2 DEF TypeOK, SameState, SameWorld
<1>2. CASE SpawnLost(s)
  <2>1. PICK x \in pass[s] :
            Drop(s, x) /\ SameState /\ SameWorld /\ UNCHANGED <<attempts, age, faults>>
    BY <1>2 DEF SpawnLost, ToApply
  <2> QED
    BY <2>1, DropType DEF TypeOK, SameState, SameWorld
<1>3. CASE SpawnInsert(s)
  <2>1. PICK x \in pass[s] :
            /\ \/ /\ attempts' = [attempts EXCEPT ![x.task] =
                                    Append(TakenBack(x.task), NewAttempt("spawn", Here, "none"))]
                  /\ age' = [age EXCEPT ![x.task] = 0]
                  /\ Begin(s, x, "launch", LatestId(x.task) + 1)
                  /\ UNCHANGED faults
               \/ /\ CanFail("workdir") /\ Fault
                  /\ attempts' = [attempts EXCEPT ![x.task] = TakenBack(x.task)]
                  /\ Drop(s, x)
                  /\ UNCHANGED age
            /\ SameState /\ SameWorld
    BY <1>3 DEF SpawnInsert, ToApply
  <2>2. x \in Item /\ x.task \in Tasks
    BY ItemAt
  <2>3. TakenBack(x.task) \in Seq(Attempt)
    BY <2>2, TakenBackType DEF TypeOK
  <2>4. Append(TakenBack(x.task), NewAttempt("spawn", Here, "none")) \in Seq(Attempt)
    <3>1. NewAttempt("spawn", Here, "none") \in Attempt
      BY NewAttemptType DEF Machines, Proc
    <3> QED
      BY <2>3, <3>1, AppendProperties
  <2>5. PICK u \in Seq(Attempt) : attempts' = [attempts EXCEPT ![x.task] = u]
    BY <2>1, <2>3, <2>4, Zenon
  <2>6. age' \in [Tasks -> 0..2] /\ faults' \in Nat
    <3>1. \/ age' = [age EXCEPT ![x.task] = 0] /\ faults' = faults
          \/ age' = age /\ faults' = faults + 1
      BY <2>1, Zenon DEF Fault
    <3> QED
      BY <3>1, <2>2 DEF TypeOK
  <2>7. pass' \in [Supervisors -> SUBSET Item]
    BY <2>1, <2>2, BeginType, DropType, LatestIdType DEF Step, TypeOK
  <2> QED
    BY <2>1, <2>5, <2>6, <2>7 DEF TypeOK, SameState, SameWorld
<1>4. CASE Launch(s)
  <2>1. PICK x \in pass[s] :
            LET a == attempts[x.task][x.att] IN
            /\ \/ /\ SetAttempt(x.task, x.att, [a EXCEPT !.proc = "live"])
                  /\ Go(s, x, "record")
                  /\ UNCHANGED faults
               \/ /\ CanFail("spawn") /\ Fault
                  /\ SetAttempt(x.task, x.att, Finished(a, "spawn_failed"))
                  /\ Drop(s, x)
            /\ SameState /\ SameWorld /\ UNCHANGED age
    BY <1>4 DEF Launch, At
  <2>2. x \in Item /\ x.task \in Tasks
    BY ItemAt
  <2>3. attempts' \in [Tasks -> Seq(Attempt)]
    BY <2>1, <2>2, AttemptAt, AmendAttempt, FinishedType, SetAttemptType
       DEF TypeOK, Proc, Outcome
  <2>4. pass' \in [Supervisors -> SUBSET Item]
    BY <2>1, <2>2, GoType, DropType DEF Step
  <2> QED
    BY <2>1, <2>3, <2>4 DEF TypeOK, SameState, SameWorld, Fault
<1>5. CASE RecordPid(s)
  <2>1. PICK x \in pass[s] :
            /\ SetAttempt(x.task, x.att, [attempts[x.task][x.att] EXCEPT !.recorded = TRUE])
            /\ Go(s, x, "commit")
            /\ SameState /\ SameWorld /\ UNCHANGED <<age, faults>>
    BY <1>5 DEF RecordPid, At
  <2>2. attempts' \in [Tasks -> Seq(Attempt)]
    BY <2>1, ItemAt, AttemptAt, AmendAttempt, SetAttemptType DEF TypeOK
  <2> QED
    BY <2>1, <2>2, ItemAt, GoType DEF TypeOK, SameState, SameWorld, Step
<1>6. CASE SpawnCommit(s)
  BY <1>6, CommitType DEF SpawnCommit, At
<1> QED
  BY <1>1, <1>2, <1>3, <1>4, <1>5, <1>6

LEMMA TypeDelegate ==
    ASSUME TypeOK, NEW s \in Supervisors, DelegateInsert(s) \/ Send(s) \/ DelegateCommit(s)
    PROVE  TypeOK'
<1>1. CASE DelegateInsert(s)
  <2>1. PICK x \in pass[s] :
            /\ InsertAttempt(x.task, NewAttempt("remote", x.on, "none"))
            /\ Begin(s, x, "send", LatestId(x.task) + 1)
            /\ SameState /\ SameWorld /\ UNCHANGED faults
    BY <1>1 DEF DelegateInsert, ToApply
  <2>2. x \in Item /\ x.task \in Tasks /\ x.on \in Machines
    BY ItemAt
  <2>3. NewAttempt("remote", x.on, "none") \in Attempt
    BY <2>2, NewAttemptType DEF Proc
  <2>4. attempts' \in [Tasks -> Seq(Attempt)] /\ age' \in [Tasks -> 0..2]
    BY <2>1, <2>2, <2>3, InsertAttemptType DEF TypeOK
  <2>5. pass' \in [Supervisors -> SUBSET Item]
    BY <2>1, <2>2, BeginType, LatestIdType DEF Step, TypeOK
  <2> QED
    BY <2>1, <2>4, <2>5 DEF TypeOK, SameState, SameWorld
<1>2. CASE Send(s)
  <2>1. PICK x \in pass[s] :
            LET a == attempts[x.task][x.att] IN
            /\ \/ /\ SetAttempt(x.task, x.att, [a EXCEPT !.proc = "sent"])
                  /\ Go(s, x, "commit")
                  /\ UNCHANGED faults
               \/ /\ CanFail("delegate") /\ Fault
                  /\ SetAttempt(x.task, x.att, Finished(a, "delegate_failed"))
                  /\ Drop(s, x)
            /\ SameState /\ SameWorld /\ UNCHANGED age
    BY <1>2 DEF Send, At
  <2>2. x \in Item /\ x.task \in Tasks
    BY ItemAt
  <2>3. attempts' \in [Tasks -> Seq(Attempt)]
    BY <2>1, <2>2, AttemptAt, AmendAttempt, FinishedType, SetAttemptType
       DEF TypeOK, Proc, Outcome
  <2>4. pass' \in [Supervisors -> SUBSET Item]
    BY <2>1, <2>2, GoType, DropType DEF Step
  <2> QED
    BY <2>1, <2>3, <2>4 DEF TypeOK, SameState, SameWorld, Fault
<1>3. CASE DelegateCommit(s)
  BY <1>3, CommitType DEF DelegateCommit, At
<1> QED
  BY <1>1, <1>2, <1>3

LEMMA TypeVerify ==
    ASSUME TypeOK, NEW s \in Supervisors,
           \/ CloseCompleted(s) \/ StartVerifying(s) \/ VerdictPass(s) \/ VerdictFail(s)
           \/ VerdictError(s) \/ AllPassed(s)
    PROVE  TypeOK'
<1>0. /\ {"VERIFYING", "RETRYING", "NEEDS_HUMAN", "DONE"} \subseteq Lifecycle!TaskState
      /\ {"none", "retries-exhausted"} \subseteq Cause
  BY DEF Lifecycle!TaskState, Cause, Reason
<1>1. CASE CloseCompleted(s)
  <2>1. PICK x \in pass[s] :
            /\ IF state[x.task] = "RUNNING"
               THEN SetAttempt(x.task, x.att, Finished(attempts[x.task][x.att], "completed"))
               ELSE UNCHANGED attempts
            /\ Begin(s, x, IF state[x.task] = "RUNNING" THEN "verifying" ELSE "verdict", x.att)
            /\ SameState /\ SameWorld /\ UNCHANGED <<age, faults>>
    BY <1>1 DEF CloseCompleted, ToApply
  <2>2. x \in Item /\ x.task \in Tasks /\ x.att \in Nat
    BY ItemAt
  <2>3. attempts' \in [Tasks -> Seq(Attempt)]
    BY <2>1, <2>2, AttemptAt, FinishedType, SetAttemptType DEF TypeOK, Outcome
  <2>4. pass' \in [Supervisors -> SUBSET Item]
    BY <2>1, <2>2, BeginType DEF Step
  <2> QED
    BY <2>1, <2>3, <2>4 DEF TypeOK, SameState, SameWorld
<1>2. CASE StartVerifying(s)
  <2>1. PICK x \in pass[s] :
            /\ IF Holds(x.task, "RUNNING")
               THEN SetState(x.task, "VERIFYING", "none") /\ Go(s, x, "verdict")
               ELSE SameState /\ Drop(s, x)
            /\ SameWorld /\ UNCHANGED <<attempts, age, faults>>
    BY <1>2 DEF StartVerifying, At
  <2>2. x \in Item /\ x.task \in Tasks
    BY ItemAt
  <2>3. state' \in [Tasks -> Lifecycle!TaskState] /\ reason' \in [Tasks -> Cause]
    BY <1>0, <2>1, <2>2, SetStateType DEF SameState, TypeOK
  <2>4. pass' \in [Supervisors -> SUBSET Item]
    BY <2>1, <2>2, GoType, DropType DEF Step
  <2> QED
    BY <2>1, <2>3, <2>4 DEF TypeOK, SameWorld
<1>3. CASE VerdictPass(s)
  <2>1. PICK x \in pass[s] :
            /\ SetAttempt(x.task, x.att, [attempts[x.task][x.att] EXCEPT !.passed = @ + 1])
            /\ pass' = [pass EXCEPT ![s] = (@ \ {x}) \cup {[x EXCEPT !.n = @ + 1]}]
            /\ SameState /\ SameWorld /\ UNCHANGED <<age, faults>>
    BY <1>3 DEF VerdictPass, At
  <2>2. attempts' \in [Tasks -> Seq(Attempt)]
    BY <2>1, ItemAt, AttemptAt, AmendAttempt, SetAttemptType DEF TypeOK
  <2>3. [x EXCEPT !.n = @ + 1] \in Item
    BY ItemAt DEF Item
  <2>4. pass' \in [Supervisors -> SUBSET Item]
    BY <2>1, <2>3 DEF TypeOK
  <2> QED
    BY <2>1, <2>2, <2>4 DEF TypeOK, SameState, SameWorld
<1>4. CASE VerdictFail(s)
  <2>1. PICK x \in pass[s] :
            /\ SetAttempt(x.task, x.att, [attempts[x.task][x.att] EXCEPT !.failed = TRUE])
            /\ IF ~Holds(x.task, "VERIFYING") THEN SameState
               ELSE IF AttemptsThatRan(x.task) > MaxRetries
                    THEN SetState(x.task, "NEEDS_HUMAN", "retries-exhausted")
                    ELSE SetState(x.task, "RETRYING", "none")
            /\ Drop(s, x)
            /\ SameWorld /\ UNCHANGED <<age, faults>>
    BY <1>4 DEF VerdictFail, At
  <2>2. attempts' \in [Tasks -> Seq(Attempt)]
    BY <2>1, ItemAt, AttemptAt, AmendAttempt, SetAttemptType DEF TypeOK
  <2>3. state' \in [Tasks -> Lifecycle!TaskState] /\ reason' \in [Tasks -> Cause]
    BY <1>0, <2>1, ItemAt, SetStateType DEF SameState, TypeOK
  <2> QED
    BY <2>1, <2>2, <2>3, DropType DEF TypeOK, SameWorld
<1>5. CASE VerdictError(s)
  <2>1. PICK x \in pass[s] :
            /\ Fault
            /\ Drop(s, x)
            /\ SameState /\ SameWorld /\ UNCHANGED <<attempts, age>>
    BY <1>5 DEF VerdictError, At
  <2> QED
    BY <2>1, DropType DEF TypeOK, SameState, SameWorld, Fault
<1>6. CASE AllPassed(s)
  <2>1. PICK x \in pass[s] :
            /\ IF Holds(x.task, "VERIFYING") THEN SetState(x.task, "DONE", "none") ELSE SameState
            /\ Drop(s, x)
            /\ SameWorld /\ UNCHANGED <<attempts, age, faults>>
    BY <1>6 DEF AllPassed, At
  <2>2. state' \in [Tasks -> Lifecycle!TaskState] /\ reason' \in [Tasks -> Cause]
    BY <1>0, <2>1, ItemAt, SetStateType DEF SameState, TypeOK
  <2> QED
    BY <2>1, <2>2, DropType DEF TypeOK, SameWorld
<1> QED
  BY <1>1, <1>2, <1>3, <1>4, <1>5, <1>6

LEMMA TypeResume ==
    ASSUME TypeOK, NEW s \in Supervisors,
           GiveUp(s) \/ ResumeOrCap(s) \/ BackToPending(s) \/ EscalateHuman(s) \/ Skip(s)
    PROVE  TypeOK'
<1>0. /\ {"RESUMING", "PENDING", "NEEDS_HUMAN"} \subseteq Lifecycle!TaskState
      /\ {"none", "resume-cap"} \subseteq Cause
  BY DEF Lifecycle!TaskState, Cause, Reason
<1>1. CASE GiveUp(s)
  <2>1. PICK x \in pass[s] :
            LET a == Finished(Latest(x.task), x.cause)
                stops == a.kind = "remote" /\ x.cause = "session_died" /\ a.proc \in {"sent", "live"}
            IN /\ x.op = "resume"
               /\ IF HasAttempt(x.task)
                  THEN \E b \in {a} \cup {c \in {[a EXCEPT !.proc = "gone"]} : stops} :
                          SetAttempt(x.task, LatestId(x.task), b)
                  ELSE UNCHANGED attempts
               /\ Begin(s, x, "resume", LatestId(x.task))
               /\ SameState /\ SameWorld /\ UNCHANGED <<age, faults>>
    BY <1>1 DEF GiveUp, ToApply
  <2>2. x \in Item /\ x.task \in Tasks /\ x.cause \in Outcome
    BY <2>1, ItemAt
  <2>3. attempts' \in [Tasks -> Seq(Attempt)]
    <3>1. CASE HasAttempt(x.task)
      <4> DEFINE a == Finished(Latest(x.task), x.cause)
      <4>1. a \in Attempt
        BY <2>2, <3>1, LatestIdType, FinishedType DEF TypeOK
      <4>2. [a EXCEPT !.proc = "gone"] \in Attempt
        BY <4>1, AmendAttempt DEF Proc
      <4>3. PICK b \in {a, [a EXCEPT !.proc = "gone"]} : SetAttempt(x.task, LatestId(x.task), b)
        BY <2>1, <3>1
      <4> QED
        BY <2>2, <4>1, <4>2, <4>3, SetAttemptType DEF TypeOK
    <3>2. CASE ~HasAttempt(x.task)
      BY <2>1, <3>2 DEF TypeOK
    <3> QED
      BY <3>1, <3>2
  <2>4. pass' \in [Supervisors -> SUBSET Item]
    BY <2>1, <2>2, BeginType, LatestIdType DEF Step, TypeOK
  <2> QED
    BY <2>1, <2>3, <2>4 DEF TypeOK, SameState, SameWorld
<1>2. CASE ResumeOrCap(s)
  <2>1. PICK x \in pass[s] :
            /\ \/ SameState /\ Drop(s, x)
               \/ SetState(x.task, "NEEDS_HUMAN", "resume-cap") /\ Drop(s, x)
               \/ SetState(x.task, "RESUMING", "none") /\ Go(s, x, "resuming")
            /\ SameWorld /\ UNCHANGED <<attempts, age, faults>>
    BY <1>2 DEF ResumeOrCap, At
  <2>2. x \in Item /\ x.task \in Tasks
    BY ItemAt
  <2>3. state' \in [Tasks -> Lifecycle!TaskState] /\ reason' \in [Tasks -> Cause]
    BY <1>0, <2>1, <2>2, SetStateType DEF SameState, TypeOK
  <2>4. pass' \in [Supervisors -> SUBSET Item]
    BY <2>1, <2>2, GoType, DropType DEF Step
  <2> QED
    BY <2>1, <2>3, <2>4 DEF TypeOK, SameWorld
<1>3. CASE BackToPending(s)
  <2>1. PICK x \in pass[s] :
            /\ IF Holds(x.task, "RESUMING") THEN SetState(x.task, "PENDING", "none") ELSE SameState
            /\ Drop(s, x)
            /\ SameWorld /\ UNCHANGED <<attempts, age, faults>>
    BY <1>3 DEF BackToPending, At
  <2>2. state' \in [Tasks -> Lifecycle!TaskState] /\ reason' \in [Tasks -> Cause]
    BY <1>0, <2>1, ItemAt, SetStateType DEF SameState, TypeOK
  <2> QED
    BY <2>1, <2>2, DropType DEF TypeOK, SameWorld
<1>4. CASE EscalateHuman(s)
  <2>1. PICK x \in pass[s] :
            /\ SetState(x.task, "NEEDS_HUMAN", x.cause)
            /\ Drop(s, x)
            /\ SameWorld /\ UNCHANGED <<attempts, age, faults>>
    BY <1>4 DEF EscalateHuman, ToApply
  <2>2. state' \in [Tasks -> Lifecycle!TaskState] /\ reason' \in [Tasks -> Cause]
    BY <1>0, <2>1, ItemAt, SetStateType
  <2> QED
    BY <2>1, <2>2, DropType DEF TypeOK, SameWorld
<1>5. CASE Skip(s)
  <2>1. PICK x \in pass[s] :
            Drop(s, x) /\ SameState /\ SameWorld /\ UNCHANGED <<attempts, age, faults>>
    BY <1>5 DEF Skip
  <2> QED
    BY <2>1, DropType DEF TypeOK, SameState, SameWorld
<1> QED
  BY <1>1, <1>2, <1>3, <1>4, <1>5

LEMMA TypeApply ==
    ASSUME TypeOK, NEW s \in Supervisors, Apply(s)
    PROVE  TypeOK'
BY TypeAssign, TypeSpawn, TypeDelegate, TypeVerify, TypeResume DEF Apply

LEMMA TypeEnvironment ==
    ASSUME TypeOK, Environment
    PROVE  TypeOK'
<1>1. ASSUME NEW t \in Tasks, Cancel(t)
      PROVE  TypeOK'
  <2>1. "CANCELLED" \in Lifecycle!TaskState /\ "none" \in Cause
    BY DEF Lifecycle!TaskState, Cause, Reason
  <2>2. state' \in [Tasks -> Lifecycle!TaskState] /\ reason' \in [Tasks -> Cause]
    BY <1>1, <2>1, SetStateType DEF Cancel
  <2> QED
    BY <1>1, <2>2 DEF Cancel, TypeOK, SameWorld, Fault
<1>2. ASSUME NEW m \in Machines, MachineChanges(m)
      PROVE  TypeOK'
  <2>1. open' \subseteq Machines
    BY <1>2 DEF MachineChanges, TypeOK
  <2> QED
    BY <1>2, <2>1 DEF MachineChanges, TypeOK, SameState, Fault
<1>3. CASE RoleComesOrGoes
  <2>1. home' \in BOOLEAN /\ faults' \in Nat
    BY <1>3 DEF RoleComesOrGoes, TypeOK, Fault
  <2> QED
    BY <1>3, <2>1 DEF RoleComesOrGoes, TypeOK, SameState
<1>4. ASSUME NEW t \in Tasks, RoleDrains(t) \/ SessionEnds(t) \/ PeerReceives(t)
      PROVE  TypeOK'
  <2>1. PICK i \in DOMAIN attempts[t], p \in Proc :
            SetAttempt(t, i, [attempts[t][i] EXCEPT !.proc = p])
    BY <1>4 DEF RoleDrains, SessionEnds, PeerReceives, Proc
  <2>2. attempts' \in [Tasks -> Seq(Attempt)]
    BY <2>1, AttemptAt, AmendAttempt, SetAttemptType DEF TypeOK
  <2> QED
    BY <1>4, <2>2
       DEF RoleDrains, SessionEnds, PeerReceives, World, TypeOK, SameState, SameWorld
<1>5. ASSUME NEW t \in Tasks, LedgerHears(t)
      PROVE  TypeOK'
  <2>1. PICK i \in DOMAIN attempts[t], h \in {"nothing", "running", "settled"} :
            SetAttempt(t, i, [attempts[t][i] EXCEPT !.heard = h])
    BY <1>5 DEF LedgerHears
  <2>2. attempts' \in [Tasks -> Seq(Attempt)]
    BY <2>1, AttemptAt, AmendAttempt, SetAttemptType DEF TypeOK
  <2> QED
    BY <1>5, <2>2 DEF LedgerHears, World, TypeOK, SameState, SameWorld
<1>6. ASSUME NEW t \in Tasks, TimePasses(t)
      PROVE  TypeOK'
  <2>1. age' \in [Tasks -> 0..2]
    <3>1. age[t] \in 0..2 /\ age[t] < 2 /\ age' = [age EXCEPT ![t] = age[t] + 1]
      BY <1>6 DEF TimePasses, TypeOK
    <3>2. age[t] + 1 \in 0..2
      BY <3>1
    <3> QED
      BY <3>1, <3>2 DEF TypeOK
  <2> QED
    BY <1>6, <2>1 DEF TimePasses, TypeOK, SameState, SameWorld
<1> QED
  BY <1>1, <1>2, <1>3, <1>4, <1>5, <1>6 DEF Environment

LEMMA TypeStep ==
    ASSUME TypeOK, [Next]_vars
    PROVE  TypeOK'
<1>1. ASSUME NEW s \in Supervisors, Crash(s)
      PROVE  TypeOK'
  BY <1>1 DEF Crash, TypeOK, SameState, SameWorld, Fault
<1>2. CASE UNCHANGED vars
  BY <1>2 DEF vars, TypeOK
<1> QED
  BY <1>1, <1>2, TypeTick, TypeApply, TypeEnvironment DEF Next

(* Every variable keeps its shape, whatever the supervisors, the peers and *)
(* the faults do: in particular an attempt is only ever closed with an     *)
(* outcome of task_attempts.outcome.                                       *)
THEOREM Typed == Spec => []TypeOK
BY TypeInit, TypeStep, PTL DEF Spec

-----------------------------------------------------------------------------
(* The lifecycle *)

(* The invariant the refinement rests on: DependencyOrder alone is not     *)
(* inductive, since a pass may start a task from what it read long ago.    *)
IInv == TypeOK /\ DependencyOrder /\ PlansReady

(* A write of a working state along one of the lifecycle's edges.          *)
LEMMA Works ==
    ASSUME TypeOK, DependencyOrder, NEW t \in Tasks, NEW q \in Lifecycle!TaskState, NEW why,
           <<state[t], q>> \in Lifecycle!WorkEdges, state[t] = "PENDING" => Depended(t),
           SetState(t, q, why)
    PROVE  Lifecycle!Next
<1>1. Depended(t)
  BY DEF Lifecycle!WorkEdges, DependencyOrder, AtWork
<1>2. Lifecycle!Work(t, q)
  BY <1>1 DEF Lifecycle!Work, Lifecycle!Depended, Depended, SetState
<1> QED
  BY <1>2 DEF Lifecycle!Next

(* A write that hands a task to a person or cancels it.                    *)
LEMMA Leaves ==
    ASSUME TypeOK, NEW t \in Tasks, NEW q \in {"NEEDS_HUMAN", "CANCELLED"}, NEW why,
           ~IsTerminal(state[t]), SetState(t, q, why)
    PROVE  Lifecycle!Next
<1>1. Lifecycle!Leave(t, q) /\ q \in Lifecycle!TaskState
  BY DEF Lifecycle!Leave, SetState, IsTerminal, Lifecycle!TaskState
<1> QED
  BY <1>1 DEF Lifecycle!Next

LEMMA CommitMoves ==
    ASSUME IInv, NEW s \in Supervisors, NEW x \in pass[s],
           x.op \in Starts, x.next # "emitted",
           NEW q, q = IF x.op = "assign" THEN "ASSIGNED" ELSE "RUNNING",
           Commit(s, x, q)
    PROVE  Lifecycle!Next \/ state' = state
<1>1. CASE ~Holds(x.task, x.from)
  BY <1>1 DEF Commit, SameState
<1>2. CASE Holds(x.task, x.from)
  <2>1. state[x.task] \in AppliesIn(x.op) /\ Depended(x.task)
    BY <1>2 DEF IInv, PlansReady, Holds
  <2>2. <<state[x.task], q>> \in Lifecycle!WorkEdges /\ q \in Lifecycle!TaskState
    BY <2>1 DEF AppliesIn, Starts, Lifecycle!WorkEdges, Lifecycle!TaskState
  <2>3. SetState(x.task, q, "none")
    BY <1>2 DEF Commit
  <2> QED
    BY <2>1, <2>2, <2>3, Works, ItemAt DEF IInv
<1> QED
  BY <1>1, <1>2

(* Every step that writes a state writes one of the lifecycle's edges.     *)
LEMMA StepIsLifecycle ==
    ASSUME IInv, [Next]_vars
    PROVE  Lifecycle!Next \/ state' = state
<1>1. ASSUME NEW s \in Supervisors, Tick(s) \/ Crash(s)
      PROVE  state' = state
  BY <1>1 DEF Tick, Crash, SameState
<1>2. ASSUME NEW s \in Supervisors, Apply(s)
      PROVE  Lifecycle!Next \/ state' = state
  <2>1. CASE \/ Skip(s) \/ AssignInsert(s) \/ Publish(s) \/ Stamp(s)
             \/ Adopt(s) \/ SpawnLost(s) \/ SpawnInsert(s) \/ Launch(s) \/ RecordPid(s)
             \/ DelegateInsert(s) \/ Send(s)
             \/ CloseCompleted(s) \/ VerdictPass(s) \/ VerdictError(s) \/ GiveUp(s)
    BY <2>1 DEF Skip, AssignInsert, Publish, Stamp, Adopt, SpawnLost, SpawnInsert, Launch,
       RecordPid, DelegateInsert, Send, CloseCompleted, VerdictPass, VerdictError, GiveUp,
       SameState
  <2>2. CASE AssignCommit(s) \/ SpawnCommit(s) \/ DelegateCommit(s)
    BY <2>2, CommitMoves DEF AssignCommit, SpawnCommit, DelegateCommit, At, Starts
  <2>3. CASE StartVerifying(s)
    <3>1. PICK x \in pass[s] :
              \/ state' = state
              \/ state[x.task] = "RUNNING" /\ SetState(x.task, "VERIFYING", "none")
      BY <2>3 DEF StartVerifying, At, SameState, Holds
    <3>2. <<"RUNNING", "VERIFYING">> \in Lifecycle!WorkEdges /\ "VERIFYING" \in Lifecycle!TaskState
      BY DEF Lifecycle!WorkEdges, Lifecycle!TaskState
    <3> QED
      BY <3>1, <3>2, Works, ItemAt DEF IInv
  <2>4. CASE VerdictFail(s)
    <3>1. PICK x \in pass[s] :
              \/ state' = state
              \/ /\ state[x.task] = "VERIFYING"
                 /\ \/ SetState(x.task, "NEEDS_HUMAN", "retries-exhausted")
                    \/ SetState(x.task, "RETRYING", "none")
      BY <2>4 DEF VerdictFail, At, SameState, Holds
    <3>2. <<"VERIFYING", "RETRYING">> \in Lifecycle!WorkEdges /\ "RETRYING" \in Lifecycle!TaskState
      BY DEF Lifecycle!WorkEdges, Lifecycle!TaskState
    <3>3. ~IsTerminal("VERIFYING")
      BY DEF IsTerminal, Lifecycle!IsTerminal
    <3> QED
      BY <3>1, <3>2, <3>3, Works, Leaves, ItemAt DEF IInv
  <2>5. CASE AllPassed(s)
    <3>1. PICK x \in pass[s] :
              \/ state' = state
              \/ state[x.task] = "VERIFYING" /\ SetState(x.task, "DONE", "none")
      BY <2>5 DEF AllPassed, At, SameState, Holds
    <3>2. <<"VERIFYING", "DONE">> \in Lifecycle!WorkEdges /\ "DONE" \in Lifecycle!TaskState
      BY DEF Lifecycle!WorkEdges, Lifecycle!TaskState
    <3> QED
      BY <3>1, <3>2, Works, ItemAt DEF IInv
  <2>6. CASE ResumeOrCap(s)
    <3>1. PICK x \in pass[s] :
              \/ state' = state
              \/ /\ state[x.task] = "RUNNING"
                 /\ \/ SetState(x.task, "NEEDS_HUMAN", "resume-cap")
                    \/ SetState(x.task, "RESUMING", "none")
      BY <2>6 DEF ResumeOrCap, At, SameState, Holds
    <3>2. <<"RUNNING", "RESUMING">> \in Lifecycle!WorkEdges /\ "RESUMING" \in Lifecycle!TaskState
      BY DEF Lifecycle!WorkEdges, Lifecycle!TaskState
    <3>3. ~IsTerminal("RUNNING")
      BY DEF IsTerminal, Lifecycle!IsTerminal
    <3> QED
      BY <3>1, <3>2, <3>3, Works, Leaves, ItemAt DEF IInv
  <2>7. CASE BackToPending(s)
    <3>1. PICK x \in pass[s] :
              \/ state' = state
              \/ state[x.task] = "RESUMING" /\ SetState(x.task, "PENDING", "none")
      BY <2>7 DEF BackToPending, At, SameState, Holds
    <3>2. <<"RESUMING", "PENDING">> \in Lifecycle!WorkEdges /\ "PENDING" \in Lifecycle!TaskState
      BY DEF Lifecycle!WorkEdges, Lifecycle!TaskState
    <3> QED
      BY <3>1, <3>2, Works, ItemAt DEF IInv
  <2>8. CASE EscalateHuman(s)
    <3>1. PICK x \in pass[s] :
              state[x.task] \in AppliesIn("escalate") /\ SetState(x.task, "NEEDS_HUMAN", x.cause)
      BY <2>8 DEF EscalateHuman, ToApply
    <3>2. ~IsTerminal(state[x.task])
      BY <3>1 DEF AppliesIn, IsTerminal, Lifecycle!IsTerminal
    <3> QED
      BY <3>1, <3>2, Leaves, ItemAt DEF IInv
  <2> QED
    BY <1>2, <2>1, <2>2, <2>3, <2>4, <2>5, <2>6, <2>7, <2>8 DEF Apply
<1>3. ASSUME NEW t \in Tasks, Cancel(t)
      PROVE  Lifecycle!Next
  BY <1>3, Leaves DEF Cancel, IInv
<1>4. ASSUME Environment, ~ \E t \in Tasks : Cancel(t)
      PROVE  state' = state
  BY <1>4 DEF Environment, RoleComesOrGoes, MachineChanges, RoleDrains, SessionEnds,
     PeerReceives, LedgerHears, TimePasses, World, SameState
<1> QED
  BY <1>1, <1>2, <1>3, <1>4 DEF Next, vars

(* The lifecycle never takes DONE back, so what was ready to start stays   *)
(* ready, and keeps DependencyOrder.                                       *)
LEMMA DependedStays ==
    ASSUME TypeOK, Lifecycle!Next \/ state' = state,
           NEW t \in Tasks, Depended(t)
    PROVE  Depended(t)'
<1>1. ASSUME NEW d \in Tasks, state[d] = "DONE"
      PROVE  state'[d] = "DONE"
  BY <1>1 DEF Lifecycle!Next, Lifecycle!Work, Lifecycle!Leave, Lifecycle!WorkEdges,
     Lifecycle!IsTerminal, TypeOK
<1> QED
  BY <1>1, SupervisorAssumption DEF Depended

LEMMA OrderStep ==
    ASSUME TypeOK, DependencyOrder, Lifecycle!Next \/ state' = state
    PROVE  DependencyOrder'
<1> SUFFICES ASSUME NEW t \in Tasks, state'[t] \in AtWork
             PROVE  Depended(t)'
  BY DEF DependencyOrder
<1>1. CASE state[t] \in AtWork
  BY <1>1, DependedStays DEF DependencyOrder
<1>2. CASE state[t] \notin AtWork
  <2>1. Lifecycle!Work(t, state'[t])
    BY <1>2 DEF Lifecycle!Next, Lifecycle!Work, Lifecycle!Leave, AtWork, TypeOK
  <2>2. Depended(t)
    BY <2>1 DEF Lifecycle!Work, Lifecycle!Depended, Depended
  <2> QED
    BY <2>2, DependedStays
<1> QED
  BY <1>1, <1>2

(* An item of a pass carries on one of the pass before the step.           *)
CarriesOn(y, x) ==
    /\ y.task = x.task /\ y.op = x.op
    /\ y.next # "emitted" => \/ y.from \in AppliesIn(y.op)
                             \/ x.next # "emitted" /\ y.from = x.from

LEMMA PlansCarryOn ==
    ASSUME IInv, Lifecycle!Next \/ state' = state,
           \A s \in Supervisors : \A y \in pass'[s] : \E x \in pass[s] : CarriesOn(y, x)
    PROVE  PlansReady'
<1> SUFFICES ASSUME NEW s \in Supervisors, NEW y \in pass'[s], y.op \in Starts
             PROVE  Depended(y.task)' /\ (y.next # "emitted" => y.from \in AppliesIn(y.op))
  BY DEF PlansReady, AppliesIn
<1>1. PICK x \in pass[s] : CarriesOn(y, x)
  OBVIOUS
<1>2. Depended(x.task) /\ (x.next # "emitted" => x.from \in AppliesIn(x.op))
  BY <1>1 DEF IInv, PlansReady, CarriesOn
<1>3. Depended(x.task)'
  BY <1>2, DependedStays, ItemAt DEF IInv
<1>4. Depended(y.task)'
  BY <1>1, <1>3 DEF CarriesOn, Depended
<1> QED
  BY <1>1, <1>2, <1>4 DEF CarriesOn

LEMMA DropCarriesOn ==
    ASSUME TypeOK, NEW s \in Supervisors, NEW x, Drop(s, x)
    PROVE  \A r \in Supervisors : \A y \in pass'[r] : \E z \in pass[r] : CarriesOn(y, z)
BY DEF Drop, TypeOK, CarriesOn

LEMMA GoCarriesOn ==
    ASSUME TypeOK, NEW s \in Supervisors, NEW x \in pass[s], NEW next, x.next # "emitted",
           Go(s, x, next)
    PROVE  \A r \in Supervisors : \A y \in pass'[r] : \E z \in pass[r] : CarriesOn(y, z)
<1>1. CarriesOn([x EXCEPT !.next = next], x)
  BY ItemAt DEF CarriesOn, Item
<1> QED
  BY <1>1 DEF Go, TypeOK, CarriesOn

LEMMA BeginCarriesOn ==
    ASSUME TypeOK, NEW s \in Supervisors, NEW op, NEW x \in ToApply(s, op, AppliesIn(op)),
           NEW next, NEW i, Begin(s, x, next, i)
    PROVE  \A r \in Supervisors : \A y \in pass'[r] : \E z \in pass[r] : CarriesOn(y, z)
<1>1. x \in pass[s] /\ state[x.task] \in AppliesIn(x.op)
  BY DEF ToApply
<1>2. CarriesOn([x EXCEPT !.next = next, !.att = i, !.from = state[x.task]], x)
  BY <1>1, ItemAt DEF CarriesOn, Item
<1> QED
  BY <1>1, <1>2 DEF Begin, TypeOK, CarriesOn

(* A pass only lists starts of tasks that are ready.                       *)
LEMMA TickPlansReady ==
    ASSUME IInv, NEW s \in Supervisors, Tick(s)
    PROVE  PlansReady'
<1>1. \A t \in Startable \cup Unclaimed : Depended(t)
  BY DEF Startable, Unclaimed, Overdue, IInv, DependencyOrder, AtWork
<1>2. ASSUME NEW y \in pass'[s], y.op \in Starts
      PROVE  \E t \in Startable \cup Unclaimed : y.task = t /\ y.next = "emitted"
  <2>1. PICK w \in Placements :
            \/ \E t \in DOMAIN w : y = Start(t, w[t])
            \/ \E t \in Unclaimed : y = Emit("spawn", t, Here, 0, "none")
            \/ y.op \in {"escalate", "verify", "resume"}
    BY <1>2 DEF Tick, IInv, TypeOK, Escalate, Resume, Emit
  <2>2. DOMAIN w \subseteq Startable
    BY DEF Placements
  <2> QED
    BY <1>2, <2>1, <2>2 DEF Start, Emit, Starts
<1>3. \A r \in Supervisors \ {s} : pass'[r] = pass[r]
  BY DEF Tick, IInv, TypeOK
<1>4. state' = state
  BY DEF Tick
<1> SUFFICES ASSUME NEW r \in Supervisors, NEW y \in pass'[r], y.op \in Starts
             PROVE  Depended(y.task)' /\ (y.next # "emitted" => y.from \in AppliesIn(y.op))
  BY DEF PlansReady, AppliesIn
<1>5. CASE r = s
  BY <1>1, <1>2, <1>4, <1>5 DEF Depended
<1>6. CASE r # s
  BY <1>3, <1>4, <1>6 DEF IInv, PlansReady, Depended
<1> QED
  BY <1>5, <1>6

(* Applying an action only carries on with what the pass has in hand.      *)
LEMMA ApplyCarriesOn ==
    ASSUME TypeOK, NEW s \in Supervisors, Apply(s)
    PROVE  \A r \in Supervisors : \A y \in pass'[r] : \E z \in pass[r] : CarriesOn(y, z)
<1>1. CASE \/ Skip(s) \/ SpawnLost(s) \/ AssignCommit(s) \/ SpawnCommit(s) \/ DelegateCommit(s)
           \/ VerdictFail(s) \/ VerdictError(s) \/ AllPassed(s) \/ BackToPending(s)
           \/ EscalateHuman(s)
  <2>1. PICK x : Drop(s, x)
    BY <1>1 DEF Skip, SpawnLost, AssignCommit, SpawnCommit, DelegateCommit, Commit, VerdictFail,
       VerdictError, AllPassed, BackToPending, EscalateHuman
  <2> QED
    BY <2>1, DropCarriesOn
<1>2. CASE Publish(s) \/ Stamp(s) \/ Launch(s) \/ RecordPid(s) \/ Send(s) \/ StartVerifying(s)
           \/ ResumeOrCap(s)
  <2>1. PICK x \in pass[s], next \in Step : x.next # "emitted" /\ (Drop(s, x) \/ Go(s, x, next))
    BY <1>2 DEF Publish, Stamp, Launch, RecordPid, Send, StartVerifying, ResumeOrCap, At, Step
  <2> QED
    BY <2>1, DropCarriesOn, GoCarriesOn
<1>3. CASE \/ AssignInsert(s) \/ Adopt(s) \/ SpawnInsert(s) \/ DelegateInsert(s)
           \/ CloseCompleted(s) \/ GiveUp(s)
  <2>1. PICK op \in Op : \E x \in ToApply(s, op, AppliesIn(op)) :
            \/ Drop(s, x)
            \/ \E next \in Step, i \in Nat : Begin(s, x, next, i)
    <3>1. \A t \in Tasks : LatestId(t) \in Nat /\ LatestId(t) + 1 \in Nat
      BY LatestIdType DEF TypeOK
    <3>2. \A op \in Op : \A x \in ToApply(s, op, AppliesIn(op)) : x.task \in Tasks /\ x.att \in Nat
      BY ItemAt DEF ToApply
    <3>3. CASE AssignInsert(s)
      BY <3>1, <3>2, <3>3 DEF AssignInsert, Op, Step
    <3>4. CASE Adopt(s)
      BY <3>1, <3>2, <3>4 DEF Adopt, Op, Step
    <3>5. CASE SpawnInsert(s)
      BY <3>1, <3>2, <3>5 DEF SpawnInsert, Op, Step
    <3>6. CASE DelegateInsert(s)
      BY <3>1, <3>2, <3>6 DEF DelegateInsert, Op, Step
    <3>7. CASE CloseCompleted(s)
      BY <3>1, <3>2, <3>7 DEF CloseCompleted, Op, Step
    <3>8. CASE GiveUp(s)
      BY <3>1, <3>2, <3>8 DEF GiveUp, Op, Step
    <3> QED
      BY <1>3, <3>3, <3>4, <3>5, <3>6, <3>7, <3>8
  <2> QED
    BY <2>1, DropCarriesOn, BeginCarriesOn
<1>4. CASE VerdictPass(s)
  <2>1. PICK x \in pass[s] :
            /\ x.next # "emitted"
            /\ pass' = [pass EXCEPT ![s] = (@ \ {x}) \cup {[x EXCEPT !.n = @ + 1]}]
    BY <1>4 DEF VerdictPass, At
  <2>2. CarriesOn([x EXCEPT !.n = @ + 1], x)
    BY <2>1, ItemAt DEF CarriesOn, Item
  <2> QED
    BY <2>1, <2>2 DEF TypeOK, CarriesOn
<1> QED
  BY <1>1, <1>2, <1>3, <1>4 DEF Apply

LEMMA PlansStep ==
    ASSUME IInv, [Next]_vars
    PROVE  PlansReady'
<1>1. ASSUME NEW s \in Supervisors, Tick(s)
      PROVE  PlansReady'
  BY <1>1, TickPlansReady
<1>2. ASSUME NEW s \in Supervisors, Apply(s)
      PROVE  PlansReady'
  BY <1>2, ApplyCarriesOn, StepIsLifecycle, PlansCarryOn DEF IInv, Next
<1>3. ASSUME NEW s \in Supervisors, Crash(s)
      PROVE  PlansReady'
  BY <1>3 DEF Crash, IInv, TypeOK, PlansReady, SameState, Depended, AppliesIn
<1>4. CASE Environment
  <2>1. pass' = pass
    BY <1>4 DEF Environment, Cancel, RoleComesOrGoes, MachineChanges, RoleDrains, SessionEnds,
       PeerReceives, LedgerHears, TimePasses, World
  <2>2. \A s \in Supervisors : \A y \in pass'[s] : \E x \in pass[s] : CarriesOn(y, x)
    BY <2>1 DEF CarriesOn
  <2> QED
    BY <1>4, <2>2, StepIsLifecycle, PlansCarryOn DEF Next
<1>5. CASE UNCHANGED vars
  BY <1>5 DEF vars, IInv, PlansReady, Depended, AppliesIn
<1> QED
  BY <1>1, <1>2, <1>3, <1>4, <1>5 DEF Next

LEMMA Inductive == Spec => []IInv
<1>1. Init => IInv
  <2>1. Init => TypeOK
    BY TypeInit
  <2>2. Init => DependencyOrder /\ PlansReady
    BY DEF Init, DependencyOrder, PlansReady, AtWork
  <2> QED
    BY <2>1, <2>2 DEF IInv
<1>2. IInv /\ [Next]_vars => IInv'
  BY TypeStep, StepIsLifecycle, OrderStep, PlansStep DEF IInv
<1> QED
  BY <1>1, <1>2, PTL DEF Spec

(* However stale what a supervisor acts on, however many of them act and   *)
(* wherever they die, a task that is, or was, at work has every dependency *)
(* DONE (supervisor.rs dependency_gate, actuator.rs apply).                *)
THEOREM Ordered == Spec => []DependencyOrder
BY Inductive, PTL DEF IInv

(* The starts a pass has in hand are for tasks still ready to start, from  *)
(* states they may start from.                                             *)
THEOREM Planned == Spec => []PlansReady
BY Inductive, PTL DEF IInv

(* The supervisors, with their crashes, races and peers, implement the     *)
(* abstract lifecycle: every write of tasks.state is one of its edges, and *)
(* a terminal state is never left.                                         *)
THEOREM Implements == Spec => ImplementsLifecycle
<1>1. Init => Lifecycle!Init
  BY DEF Init, Lifecycle!Init
<1>2. IInv /\ [Next]_vars => [Lifecycle!Next]_state
  BY StepIsLifecycle
<1> QED
  BY <1>1, <1>2, Inductive, PTL DEF Spec, ImplementsLifecycle, Lifecycle!Spec

(* A task that has ended is left as it is.                                 *)
StaysEnded == \A t \in Tasks : IsTerminal(state[t]) => state'[t] = state[t]

(* No step takes a task out of a terminal state: a cancel, a verdict and   *)
(* another supervisor's stale action may race for it, and the first wins.  *)
THEOREM TerminalStays == Spec => [][StaysEnded]_vars
<1>1. ASSUME IInv, [Next]_vars
      PROVE  StaysEnded
  <2>1. CASE Lifecycle!Next
    BY <1>1, <2>1 DEF Lifecycle!Next, Lifecycle!Work, Lifecycle!Leave, Lifecycle!WorkEdges,
       Lifecycle!IsTerminal, IsTerminal, IInv, TypeOK, StaysEnded
  <2> QED
    BY <1>1, <2>1, StepIsLifecycle DEF StaysEnded
<1> QED
  BY <1>1, Inductive, PTL DEF Spec

-----------------------------------------------------------------------------
(* One supervisor: the invariant of a task *)

(* Two supervisors at once are excluded in what follows.                   *)
Solo == \A r, s \in Supervisors : r = s

(* What the pass has in hand for a task.                                   *)
Hand(t) == {x \in UNION {pass[s] : s \in Supervisors} : x.task = t}

Last(as) == as[Len(as)]
Local(a) == a.kind # "remote"
Rest(a) == a.proc \notin {"pending", "delivered", "sent", "live"}
ByRole(t) == t \in RoleTasks \cup Routable

(* A start that has begun.                                                 *)
Begins(x) == x.op \in Starts /\ x.next # "emitted"
Starting(xs) == \E x \in xs : Begins(x)

(* What becomes of an attempt is of its kind, and only a session that      *)
(* succeeded is verified.                                                  *)
Made(a) ==
    /\ a.kind = "mailbox" =>
          a.on = Here /\ a.proc \in {"none", "pending", "delivered", "withdrawn"}
    /\ a.kind = "spawn" =>
          a.on = Here /\ a.proc \in {"none", "live", "ok", "error", "gone"}
    /\ a.kind = "remote" =>
          a.on \in Peers /\ a.proc \in {"none", "sent", "live", "ok", "error", "gone", "refused"}
    /\ a.passed # 0 \/ a.failed => a.proc = "ok"

(* A peer runs one attempt of a task at a time.                            *)
OnPeer(a) == a.kind = "remote" /\ a.proc = "live"
OneEach(as) == \A i, j \in DOMAIN as :
    OnPeer(as[i]) /\ OnPeer(as[j]) /\ as[i].on = as[j].on => i = j

(* The attempts up to the n-th that did not start, back to one that did,   *)
(* and all that did.                                                       *)
Run(as, n) == {i \in 1..n : \A j \in i..n : as[j].outcome \in Unstarted}
Ran(as) == {i \in DOMAIN as : as[i].outcome \notin Unstarted}

(* The state an item in hand counts on.                                    *)
Expects(x) ==
    IF x.op = "verify" /\ x.next = "verdict" THEN "VERIFYING"
    ELSE IF x.op = "resume" /\ x.next = "resuming" THEN "RESUMING" ELSE x.from

(* The items a pass may list for a task.                                   *)
Lists(t, x) ==
    /\ x.op = "assign" =>
          ByRole(t) /\ x.from = "PENDING" /\ x.next \in {"emitted", "publish", "stamp", "commit"}
    /\ x.op = "spawn" =>
          /\ x.from \in {"PENDING", "ASSIGNED", "RETRYING"}
          /\ x.from = "PENDING" => t \notin RoleTasks
          /\ x.next \in {"emitted", "launch", "record", "commit"}
    /\ x.op = "delegate" =>
          x.on \in Peers /\ x.from \in {"PENDING", "RETRYING"}
          /\ x.next \in {"emitted", "send", "commit"}
    /\ x.op \in {"verify", "resume"} => x.from = "RUNNING"
    /\ x.op = "escalate" =>
          /\ x.from \in {"PENDING", "ASSIGNED", "RETRYING"}
          /\ x.cause \in {"never_started", "dependency", "claimed"}

KindOf(op) == IF op = "assign" THEN "mailbox" ELSE IF op = "spawn" THEN "spawn" ELSE "remote"

(* The latest attempt is the one an item acts on, and is as far as the item*)
(* has brought it.                                                         *)
Opened(as, x) ==
    /\ Len(as) > 0 /\ x.att = Len(as)
    /\ Last(as).kind = KindOf(x.op) /\ Last(as).outcome = "open"
    /\ Last(as).passed = 0 /\ ~Last(as).failed
    /\ x.next \in {"publish", "launch", "send"} <=> Last(as).proc = "none"
    /\ x.next = "commit" /\ x.op # "delegate" => Last(as).recorded
Judged(as, x) ==
    /\ Len(as) > 0 /\ x.att = Len(as)
    /\ Last(as).proc = "ok" /\ Last(as).passed = x.n /\ ~Last(as).failed
Fits(as, x) ==
    /\ Begins(x) => Opened(as, x)
    /\ x.op = "verify" => Judged(as, x)
    /\ x.op = "resume" => Len(as) > 0 /\ (Local(Last(as)) => Rest(Last(as)))
    /\ x.op = "escalate" /\ x.cause = "never_started" =>
          x.from # "ASSIGNED" /\ Len(as) > 0 /\ Last(as).outcome # "open"

(* What a state says of the latest attempt.                                *)
Stands(t, q, as) ==
    /\ q = "RUNNING" =>
          /\ Len(as) > 0
          /\ Last(as).kind # "mailbox" /\ Last(as).proc # "none"
          /\ Last(as).passed = 0 /\ ~Last(as).failed
          /\ Last(as).kind = "spawn" => Last(as).recorded
    /\ q = "DONE" =>
          Len(as) > 0 /\ Last(as).proc = "ok" /\ Last(as).passed = Verifiers[t] /\ ~Last(as).failed
    /\ q = "ASSIGNED" => ByRole(t)

(* Why a task is with a person.                                            *)
Spent == {"resume-cap", "retries-exhausted"}
Budget(q, r, as) ==
    /\ r \in Spent \cup {"never_started"} => q = "NEEDS_HUMAN"
    /\ r \in Spent => Cardinality(Ran(as)) > MaxRetries

(* A task no role is asked about is started again only below the limit of  *)
(* attempts that did not start.                                            *)
Streak(t, as, xs) ==
    ~ByRole(t) =>
       /\ Len(as) > 0 => Cardinality(Run(as, Len(as) - 1)) < MaxUnstarted
       /\ \A x \in xs : x.op \in Starts /\ ~Begins(x) =>
             Cardinality(Run(as, Len(as))) < MaxUnstarted

Sound(t, q, r, as, xs) ==
    /\ \A x, y \in xs : x = y
    /\ \A x \in xs : q \in {Expects(x), "CANCELLED"} /\ Lists(t, x) /\ Fits(as, x)
    /\ \A i \in DOMAIN as : Made(as[i])
    /\ OneEach(as)
    /\ Stands(t, q, as)
    /\ Budget(q, r, as)
    /\ Streak(t, as, xs)

(* No supervisor dies between an outside effect here and the write that    *)
(* records it, and a session left unwritten as RUNNING is found again: by  *)
(* the spawn that follows, for there is nowhere else to go.                *)
Tidy ==
    /\ CrashPoints \cap {<<"assign", "stamp">>, <<"assign", "commit">>, <<"spawn", "record">>} = {}
    /\ <<"spawn", "commit">> \in CrashPoints => Peers = {} /\ Routable = {}

(* A session left running by a supervisor that died, to be adopted, or the *)
(* message of an assignment.                                               *)
Held(t, q, a) ==
    \/ /\ a.kind = "spawn" /\ a.outcome = "open" /\ a.recorded
       /\ <<"spawn", "commit">> \in CrashPoints
       /\ t \in RoleTasks => q # "PENDING"
    \/ a.kind = "mailbox" /\ a.recorded /\ q = "ASSIGNED"

(* Why an attempt here may be at work or wait to be read.                  *)
Explained(t, q, r, a, xs) ==
    /\ q \notin {"VERIFYING", "RESUMING", "DONE"}
    /\ r \notin Spent \cup {"never_started"}
    /\ q \in {"PENDING", "RETRYING", "ASSIGNED"} => Starting(xs) \/ Held(t, q, a)

(* Of the attempts here only the latest is, and then it is explained.      *)
Quiet(t, q, r, as, xs) ==
    \A i \in DOMAIN as : Local(as[i]) /\ ~Rest(as[i]) =>
       i = Len(as) /\ Explained(t, q, r, as[i], xs)

Kept(t, q, r, as, xs) == Sound(t, q, r, as, xs) /\ (Tidy => Quiet(t, q, r, as, xs))

(* The task counts, or may come to count, as in flight here.               *)
Takes(q, as, xs) ==
    \/ q = "ASSIGNED"
    \/ q = "RUNNING" /\ ~(Len(as) > 0 /\ Last(as).kind = "remote")
    \/ \E x \in xs : x.op \in {"assign", "spawn"}

OneBegun == \A s \in Supervisors : \A x, y \in Begun(s) : x = y
Inv == OneBegun /\ \A t \in Tasks : Kept(t, state[t], reason[t], attempts[t], Hand(t))
Slots == {t \in Tasks : Takes(state[t], attempts[t], Hand(t))}

-----------------------------------------------------------------------------
(* Attempts of a sequence *)

LEMMA Counts ==
    ASSUME NEW n \in Nat
    PROVE  /\ n > 0 => n \in 1..n
           /\ \A i \in 1..n : n > 0 /\ i \in Nat /\ i > 0 /\ i <= n
           /\ n > 0 => n - 1 \in Nat /\ \A j \in 1..(n - 1) : j \in 1..n /\ j # n
OBVIOUS

(* Two intervals from 1 are the same only if they end at the same number.  *)
LEMMA SameEnd ==
    ASSUME NEW m \in Nat, NEW n \in Nat, 1..m = 1..n
    PROVE  m = n
<1>1. m > n => m \in 1..m /\ m \notin 1..n
  OBVIOUS
<1>2. n > m => n \in 1..n /\ n \notin 1..m
  OBVIOUS
<1> QED
  BY <1>1, <1>2

LEMMA SeqFacts ==
    ASSUME NEW as \in Seq(Attempt)
    PROVE  /\ Len(as) \in Nat /\ DOMAIN as = 1..Len(as)
           /\ \A i \in DOMAIN as : as[i] \in Attempt
           /\ Len(as) > 0 => Len(as) \in DOMAIN as /\ Last(as) \in Attempt
<1>1. Len(as) \in Nat /\ DOMAIN as = 1..Len(as)
  BY LenProperties
<1>2. \A i \in 1..Len(as) : as[i] \in Attempt
  BY ElementOfSeq
<1>3. Len(as) > 0 => Len(as) \in 1..Len(as)
  BY <1>1, Counts
<1> QED
  BY <1>1, <1>2, <1>3 DEF Last

LEMMA SomeAttempt ==
    ASSUME attempts \in [Tasks -> Seq(Attempt)], NEW t \in Tasks
    PROVE  HasAttempt(t) <=> Len(attempts[t]) > 0
<1>1. attempts[t] \in Seq(Attempt)
  OBVIOUS
<1>2. CASE HasAttempt(t)
  <2>1. Len(attempts[t]) \in Nat \ {0}
    BY <1>1, <1>2, EmptySeq DEF HasAttempt
  <2> QED
    BY <1>2, <2>1
<1>3. CASE ~HasAttempt(t)
  <2>1. Len(attempts[t]) = 0
    BY <1>3, EmptySeq DEF HasAttempt
  <2> QED
    BY <1>3, <2>1
<1> QED
  BY <1>2, <1>3

(* One attempt of the sequence is written anew.                            *)
Amends(as, i, a, bs) ==
    /\ i \in DOMAIN as /\ a \in Attempt
    /\ bs \in Seq(Attempt) /\ Len(bs) = Len(as) /\ DOMAIN bs = DOMAIN as
    /\ bs[i] = a /\ \A j \in DOMAIN as : j # i => bs[j] = as[j]

LastAfter(as, i, a, bs) == Last(bs) = Last(as) \/ (Last(as) = as[i] /\ Last(bs) = a)

LEMMA AmendsIs ==
    ASSUME NEW as \in Seq(Attempt), NEW i \in DOMAIN as, NEW a \in Attempt
    PROVE  Amends(as, i, a, [as EXCEPT ![i] = a])
<1> DEFINE bs == [as EXCEPT ![i] = a]
<1>1. bs \in Seq(Attempt)
  BY AmendType
<1>2. DOMAIN bs = DOMAIN as /\ bs[i] = a /\ \A j \in DOMAIN as : j # i => bs[j] = as[j]
  OBVIOUS
<1>3. Len(bs) = Len(as)
  <2>1. DOMAIN bs = 1..Len(bs) /\ DOMAIN as = 1..Len(as) /\ Len(as) \in Nat /\ Len(bs) \in Nat
    BY <1>1, SeqFacts
  <2> HIDE DEF bs
  <2> QED
    BY <1>2, <2>1, SameEnd
<1> QED
  BY <1>1, <1>2, <1>3 DEF Amends

LEMMA AmendFacts ==
    ASSUME NEW as \in Seq(Attempt), NEW i, NEW a, NEW bs, Amends(as, i, a, bs)
    PROVE  /\ Len(as) > 0 /\ Len(bs) > 0
           /\ Len(as) \in DOMAIN as /\ Last(as) = as[Len(as)] /\ Last(bs) = bs[Len(as)]
           /\ Len(as) \in Nat /\ DOMAIN as = 1..Len(as)
           /\ LastAfter(as, i, a, bs)
<1>1. Len(as) \in Nat /\ DOMAIN as = 1..Len(as) /\ i \in 1..Len(as) /\ Len(bs) = Len(as)
  BY SeqFacts DEF Amends
<1>2. Len(as) > 0 /\ Len(as) \in 1..Len(as)
  BY <1>1, Counts
<1> QED
  BY <1>1, <1>2 DEF Last, Amends, LastAfter

LEMMA AmendLast ==
    ASSUME NEW as \in Seq(Attempt), NEW a, NEW bs, Amends(as, Len(as), a, bs)
    PROVE  Last(bs) = a
BY DEF Last, Amends

(* The streaks depend on the outcomes only.                                *)
LEMMA RunAgrees ==
    ASSUME NEW as, NEW bs, NEW n \in Nat,
           \A j \in 1..n : bs[j].outcome = as[j].outcome
    PROVE  Run(bs, n) = Run(as, n)
<1>1. \A i \in 1..n : \A j \in i..n : j \in 1..n
  OBVIOUS
<1> QED
  BY <1>1 DEF Run

(* An outside change: one attempt goes from being at work to where it      *)
(* stands then, or only what is heard of it changes.                       *)
Stirred(a, b) ==
    /\ b.kind = a.kind /\ b.on = a.on /\ b.recorded = a.recorded /\ b.outcome = a.outcome
    /\ b.passed = a.passed /\ b.failed = a.failed
    /\ b.proc = a.proc \/ (a.proc \in {"pending", "sent", "live"} /\ b.proc # "none")

LEMMA StirFits ==
    ASSUME NEW as \in Seq(Attempt), NEW i, NEW b, NEW bs, Amends(as, i, b, bs),
           Stirred(as[i], b),
           NEW x, Fits(as, x)
    PROVE  Fits(bs, x)
<1>1. /\ bs \in Seq(Attempt) /\ Len(bs) = Len(as) /\ Len(bs) > 0
      /\ Last(bs) = Last(as) \/ Stirred(Last(as), Last(bs))
  <2>1. Len(bs) > 0 /\ LastAfter(as, i, b, bs)
    BY AmendFacts
  <2> QED
    BY <2>1 DEF Amends, LastAfter
<1>2. ASSUME Opened(as, x)
      PROVE  Opened(bs, x)
  BY <1>1, <1>2 DEF Opened, Stirred
<1>3. ASSUME Judged(as, x)
      PROVE  Judged(bs, x)
  BY <1>1, <1>3 DEF Judged, Stirred
<1>4. ASSUME Local(Last(as)) => Rest(Last(as))
      PROVE  Local(Last(bs)) => Rest(Last(bs))
  BY <1>1, <1>4 DEF Local, Rest, Stirred
<1>5. Last(as).outcome # "open" => Last(bs).outcome # "open"
  BY <1>1 DEF Stirred
<1> QED
  BY <1>1, <1>2, <1>3, <1>4, <1>5 DEF Fits

LEMMA StirSound ==
    ASSUME NEW as \in Seq(Attempt), NEW i, NEW b, NEW bs, Amends(as, i, b, bs),
           Stirred(as[i], b), Made(b),
           \A j \in DOMAIN as : OnPeer(as[j]) /\ OnPeer(b) /\ ~OnPeer(as[i]) => as[j].on # b.on,
           NEW t, NEW q, NEW r, NEW xs, Sound(t, q, r, as, xs)
    PROVE  Sound(t, q, r, bs, xs)
<1>1. /\ bs \in Seq(Attempt) /\ Len(bs) = Len(as) /\ Len(bs) > 0 /\ DOMAIN bs = DOMAIN as
      /\ \A j \in DOMAIN as : bs[j] = as[j] \/ Stirred(as[j], bs[j])
      /\ Last(bs) = Last(as) \/ Stirred(Last(as), Last(bs))
  <2>1. Len(bs) > 0 /\ LastAfter(as, i, b, bs)
    BY AmendFacts
  <2> QED
    BY <2>1 DEF Amends, LastAfter
<1>2. \A x \in xs : q \in {Expects(x), "CANCELLED"} /\ Lists(t, x) /\ Fits(bs, x)
  BY StirFits DEF Sound
<1>3. \A j \in DOMAIN bs : Made(bs[j])
  BY DEF Sound, Amends
<1>4. OneEach(bs)
  <2> SUFFICES ASSUME NEW j \in DOMAIN as, NEW k \in DOMAIN as,
                      OnPeer(bs[j]), OnPeer(bs[k]), bs[j].on = bs[k].on
               PROVE  j = k
    BY <1>1 DEF OneEach
  <2>1. OneEach(as) /\ b.on = as[i].on /\ b.kind = as[i].kind
    BY DEF Sound, Stirred
  <2>2. i \in DOMAIN as /\ bs[i] = b /\ \A m \in DOMAIN as : m # i => bs[m] = as[m]
    BY DEF Amends
  <2>3. CASE j # i /\ k # i
    BY <2>1, <2>2, <2>3 DEF OneEach
  <2>4. CASE j = i /\ k # i
    BY <2>1, <2>2, <2>4 DEF OneEach
  <2>5. CASE k = i /\ j # i
    BY <2>1, <2>2, <2>5 DEF OneEach
  <2> QED
    BY <2>3, <2>4, <2>5
<1>5. Stands(t, q, bs)
  <2>1. Stands(t, q, as) /\ (q = "RUNNING" \/ q = "DONE" => Len(as) > 0)
    BY DEF Sound, Stands
  <2> QED
    BY <1>1, <2>1 DEF Stands, Stirred
<1>6. \A j \in DOMAIN as : bs[j].outcome = as[j].outcome
  BY <1>1 DEF Stirred
<1>7. Budget(q, r, bs)
  <2>1. Ran(bs) = Ran(as)
    BY <1>1, <1>6 DEF Ran
  <2> QED
    BY <2>1 DEF Sound, Budget
<1>8. Streak(t, bs, xs)
  <2>1. Len(as) > 0 /\ Len(as) \in Nat /\ DOMAIN as = 1..Len(as) /\ Len(as) > 0
    BY AmendFacts
  <2>2. Len(as) - 1 \in Nat /\ \A j \in 1..(Len(as) - 1) : j \in DOMAIN as
    BY <2>1, Counts
  <2>3. Run(bs, Len(bs) - 1) = Run(as, Len(as) - 1)
    BY <1>1, <1>6, <2>2, RunAgrees
  <2>4. Run(bs, Len(bs)) = Run(as, Len(as))
    BY <1>1, <1>6, <2>1, RunAgrees
  <2> QED
    BY <2>1, <2>3, <2>4 DEF Sound, Streak
<1> QED
  BY <1>2, <1>3, <1>4, <1>5, <1>7, <1>8 DEF Sound

LEMMA StirQuiet ==
    ASSUME NEW as \in Seq(Attempt), NEW i, NEW b, NEW bs, Amends(as, i, b, bs),
           Stirred(as[i], b),
           NEW t, NEW q, NEW r, NEW xs, Quiet(t, q, r, as, xs)
    PROVE  Quiet(t, q, r, bs, xs)
<1>1. /\ Len(bs) = Len(as) /\ DOMAIN bs = DOMAIN as
      /\ \A j \in DOMAIN as : bs[j] = as[j] \/ Stirred(as[j], bs[j])
  BY DEF Amends
<1>2. \A j \in DOMAIN as : Local(bs[j]) /\ ~Rest(bs[j]) => Local(as[j]) /\ ~Rest(as[j])
  BY <1>1 DEF Local, Rest, Stirred
<1>3. \A j \in DOMAIN as : Held(t, q, as[j]) => Held(t, q, bs[j])
  BY <1>1 DEF Held, Stirred
<1> QED
  BY <1>1, <1>2, <1>3 DEF Quiet, Explained

LEMMA StirTakes ==
    ASSUME NEW as \in Seq(Attempt), NEW i, NEW b, NEW bs, Amends(as, i, b, bs),
           b.kind = as[i].kind, NEW q, NEW xs
    PROVE  Takes(q, bs, xs) => Takes(q, as, xs)
<1>1. Last(bs).kind = Last(as).kind /\ Len(as) > 0 /\ Len(bs) > 0
  <2>1. Len(as) > 0 /\ Len(bs) > 0 /\ LastAfter(as, i, b, bs)
    BY AmendFacts
  <2> QED
    BY <2>1 DEF LastAfter
<1> QED
  BY <1>1 DEF Takes

(* Items a task may have in hand, none of them a start not yet begun.      *)
InHand(t, q, as, ys) ==
    /\ \A y, z \in ys : y = z
    /\ \A y \in ys : /\ q \in {Expects(y), "CANCELLED"} /\ Lists(t, y) /\ Fits(as, y)
                     /\ y.op \in Starts => Begins(y)

(* What an item in hand says of the state of its task.                     *)
LEMMA Free ==
    ASSUME NEW t, NEW q, NEW r, NEW as, NEW x \in Item, Kept(t, q, r, as, {x})
    PROVE  /\ q \in {"PENDING", "ASSIGNED", "RETRYING", "RUNNING", "VERIFYING", "RESUMING",
                     "CANCELLED"}
           /\ r \notin Spent \cup {"never_started"}
           /\ q \in {Expects(x), "CANCELLED"} /\ Lists(t, x) /\ Fits(as, x)
           /\ Stands(t, q, as) /\ \A i \in DOMAIN as : Made(as[i])
<1>1. /\ q \in {Expects(x), "CANCELLED"} /\ Lists(t, x) /\ Fits(as, x)
      /\ Stands(t, q, as) /\ Budget(q, r, as) /\ \A i \in DOMAIN as : Made(as[i])
  BY DEF Kept, Sound
<1>2. x.op \in Op
  BY DEF Item
<1>3. x.from \in {"PENDING", "ASSIGNED", "RETRYING", "RUNNING"}
  BY <1>1, <1>2 DEF Lists, Op
<1>4. q \in {"PENDING", "ASSIGNED", "RETRYING", "RUNNING", "VERIFYING", "RESUMING", "CANCELLED"}
  BY <1>1, <1>3 DEF Expects
<1> QED
  BY <1>1, <1>4 DEF Budget

LEMMA FreeBudget ==
    ASSUME NEW q, NEW r, NEW as, r \notin Spent \cup {"never_started"}
    PROVE  Budget(q, r, as)
BY DEF Budget

(* A step that leaves the attempts alone.                                  *)
LEMMA Stay ==
    ASSUME NEW t, NEW q, NEW r, NEW as \in Seq(Attempt), NEW xs, Kept(t, q, r, as, xs),
           NEW q2, NEW r2, NEW ys, InHand(t, q2, as, ys),
           Stands(t, q2, as), Budget(q2, r2, as),
           Tidy /\ Len(as) > 0 /\ Local(Last(as)) /\ ~Rest(Last(as))
               /\ Explained(t, q, r, Last(as), xs) => Explained(t, q2, r2, Last(as), ys)
    PROVE  Kept(t, q2, r2, as, ys)
<1>1. Streak(t, as, ys)
  BY DEF Kept, Sound, Streak, InHand
<1>2. Sound(t, q2, r2, as, ys)
  BY <1>1 DEF Kept, Sound, InHand
<1>3. ASSUME Tidy
      PROVE  Quiet(t, q2, r2, as, ys)
  <2> SUFFICES ASSUME NEW i \in DOMAIN as, Local(as[i]), ~Rest(as[i])
               PROVE  i = Len(as) /\ Explained(t, q2, r2, as[i], ys)
    BY DEF Quiet
  <2>1. i = Len(as) /\ Explained(t, q, r, as[i], xs)
    BY <1>3 DEF Kept, Quiet
  <2>2. Len(as) > 0 /\ as[i] = Last(as)
    BY <2>1, SeqFacts, Counts DEF Last
  <2> QED
    BY <1>3, <2>1, <2>2
<1> QED
  BY <1>2, <1>3 DEF Kept

(* A step that writes the latest attempt.                                  *)
LEMMA Alter ==
    ASSUME NEW t, NEW q, NEW r, NEW as \in Seq(Attempt), NEW xs, Kept(t, q, r, as, xs),
           NEW a, NEW bs, Amends(as, Len(as), a, bs),
           a.kind = Last(as).kind, a.on = Last(as).on, Made(a), OnPeer(a) => OnPeer(Last(as)),
           NEW q2, NEW r2, NEW ys, InHand(t, q2, bs, ys),
           Stands(t, q2, bs), Budget(q2, r2, bs),
           Tidy /\ Local(a) /\ ~Rest(a) => Explained(t, q2, r2, a, ys)
    PROVE  Kept(t, q2, r2, bs, ys)
<1>1. /\ Len(as) \in Nat /\ Len(as) > 0 /\ DOMAIN as = 1..Len(as) /\ Len(as) \in DOMAIN as
      /\ Last(as) = as[Len(as)]
  BY AmendFacts
<1>2. \A j \in DOMAIN bs : Made(bs[j])
  BY DEF Kept, Sound, Amends
<1>3. OneEach(bs)
  <2> SUFFICES ASSUME NEW j \in DOMAIN as, NEW k \in DOMAIN as,
                      OnPeer(bs[j]), OnPeer(bs[k]), bs[j].on = bs[k].on
               PROVE  j = k
    BY DEF OneEach, Amends
  <2>1. OneEach(as) /\ bs[Len(as)] = a /\ \A m \in DOMAIN as : m # Len(as) => bs[m] = as[m]
    BY DEF Kept, Sound, Amends
  <2>2. CASE j # Len(as) /\ k # Len(as)
    BY <2>1, <2>2 DEF OneEach
  <2>3. CASE j = Len(as) /\ k # Len(as)
    BY <1>1, <2>1, <2>3 DEF OneEach
  <2>4. CASE k = Len(as) /\ j # Len(as)
    BY <1>1, <2>1, <2>4 DEF OneEach
  <2> QED
    BY <2>2, <2>3, <2>4
<1>4. Streak(t, bs, ys)
  <2>1. Len(as) - 1 \in Nat /\ \A j \in 1..(Len(as) - 1) : j \in DOMAIN as /\ j # Len(as)
    BY <1>1, Counts
  <2>2. Run(bs, Len(bs) - 1) = Run(as, Len(as) - 1)
    <3>1. Len(bs) = Len(as) /\ \A j \in 1..(Len(as) - 1) : bs[j].outcome = as[j].outcome
      BY <2>1 DEF Amends
    <3> QED
      BY <2>1, <3>1, RunAgrees
  <2> QED
    BY <1>1, <2>2 DEF Kept, Sound, Streak, InHand
<1>5. Sound(t, q2, r2, bs, ys)
  BY <1>2, <1>3, <1>4 DEF Sound, InHand
<1>6. ASSUME Tidy
      PROVE  Quiet(t, q2, r2, bs, ys)
  <2> SUFFICES ASSUME NEW i \in DOMAIN as, Local(bs[i]), ~Rest(bs[i])
               PROVE  i = Len(bs) /\ Explained(t, q2, r2, bs[i], ys)
    BY DEF Quiet, Amends
  <2>1. Len(bs) = Len(as) /\ bs[Len(as)] = a /\ \A m \in DOMAIN as : m # Len(as) => bs[m] = as[m]
    BY DEF Amends
  <2>2. i = Len(as)
    BY <1>6, <2>1 DEF Kept, Quiet
  <2> QED
    BY <1>6, <2>1, <2>2
<1> QED
  BY <1>5, <1>6 DEF Kept

(* An attempt is added at the end.                                         *)
Grown(as, a, bs) ==
    /\ a \in Attempt /\ bs \in Seq(Attempt)
    /\ Len(bs) = Len(as) + 1 /\ DOMAIN bs = 1..(Len(as) + 1)
    /\ bs[Len(as) + 1] = a /\ \A j \in DOMAIN as : bs[j] = as[j]

LEMMA GrownIs ==
    ASSUME NEW as \in Seq(Attempt), NEW a \in Attempt
    PROVE  Grown(as, a, Append(as, a))
<1>1. Append(as, a) \in Seq(Attempt) /\ Len(Append(as, a)) = Len(as) + 1
  BY AppendProperties
<1>3. \A i \in 1..Len(as) : Append(as, a)[i] = as[i]
  BY AppendProperties
<1>4. Append(as, a)[Len(as) + 1] = a
  BY AppendProperties
<1>2. DOMAIN as = 1..Len(as) /\ DOMAIN Append(as, a) = 1..Len(Append(as, a))
  BY <1>1, SeqFacts
<1> QED
  BY <1>1, <1>2, <1>3, <1>4 DEF Grown

LEMMA GrownFacts ==
    ASSUME NEW as \in Seq(Attempt), NEW a, NEW bs, Grown(as, a, bs)
    PROVE  /\ Len(bs) > 0 /\ Last(bs) = a /\ Len(bs) - 1 = Len(as) /\ Len(as) \in Nat
           /\ \A j \in DOMAIN bs : j \in DOMAIN as \/ j = Len(bs)
           /\ Len(bs) \in DOMAIN bs /\ DOMAIN as = 1..Len(as)
<1>1. Len(as) \in Nat /\ DOMAIN as = 1..Len(as)
  BY SeqFacts
<1>2. \A n \in Nat : /\ n + 1 > 0 /\ (n + 1) - 1 = n /\ n + 1 \in 1..(n + 1)
                     /\ \A j \in 1..(n + 1) : j \in 1..n \/ j = n + 1
  OBVIOUS
<1> QED
  BY <1>1, <1>2 DEF Grown, Last

LEMMA Grow ==
    ASSUME NEW t, NEW q, NEW r, NEW as \in Seq(Attempt), NEW x, Kept(t, q, r, as, {x}),
           x.op \in Starts, ~Begins(x), q \notin {"RUNNING", "DONE"},
           r \notin Spent \cup {"never_started"},
           NEW a, NEW bs, Grown(as, a, bs), Made(a), a.proc = "none",
           NEW ys, InHand(t, q, bs, ys),
           Tidy => \A i \in DOMAIN as : Local(as[i]) => Rest(as[i])
    PROVE  Kept(t, q, r, bs, ys)
<1>1. /\ Len(bs) > 0 /\ Last(bs) = a /\ Len(bs) - 1 = Len(as) /\ Len(as) \in Nat
      /\ \A j \in DOMAIN bs : j \in DOMAIN as \/ j = Len(bs)
      /\ DOMAIN as = 1..Len(as)
  BY GrownFacts
<1>2. bs[Len(bs)] = a /\ \A j \in DOMAIN as : bs[j] = as[j]
  BY <1>1 DEF Grown
<1>3. \A j \in DOMAIN bs : Made(bs[j])
  BY <1>1, <1>2 DEF Kept, Sound
<1>4. OneEach(bs)
  <2>1. \A j \in DOMAIN bs : OnPeer(bs[j]) => j \in DOMAIN as
    BY <1>1, <1>2 DEF OnPeer
  <2> QED
    BY <1>2, <2>1 DEF Kept, Sound, OneEach
<1>5. Stands(t, q, bs)
  BY DEF Kept, Sound, Stands
<1>6. Streak(t, bs, ys)
  <2>1. Run(bs, Len(bs) - 1) = Run(as, Len(as))
    <3>1. \A j \in 1..Len(as) : bs[j].outcome = as[j].outcome
      BY <1>1, <1>2
    <3>2. Run(bs, Len(as)) = Run(as, Len(as))
      BY <1>1, <3>1, RunAgrees
    <3> QED
      BY <1>1, <3>2
  <2> QED
    BY <1>1, <2>1 DEF Kept, Sound, Streak, InHand
<1>7. Sound(t, q, r, bs, ys)
  BY <1>3, <1>4, <1>5, <1>6, FreeBudget DEF Sound, InHand
<1>8. ASSUME Tidy
      PROVE  Quiet(t, q, r, bs, ys)
  BY <1>1, <1>2, <1>8 DEF Quiet, Rest
<1> QED
  BY <1>7, <1>8 DEF Kept

-----------------------------------------------------------------------------
(* The frame of a step that acts on one item *)

Swap(s, x, ys) == pass' = [pass EXCEPT ![s] = (pass[s] \ {x}) \cup ys]
Writes(t, q, r, as) ==
    /\ state'[t] = q /\ reason'[t] = r /\ attempts'[t] = as
    /\ \A u \in Tasks \ {t} :
          state'[u] = state[u] /\ reason'[u] = reason[u] /\ attempts'[u] = attempts[u]

LEMMA HandIs ==
    ASSUME Solo, TypeOK, Inv, NEW s \in Supervisors, NEW x \in pass[s]
    PROVE  /\ x \in Item /\ x.task \in Tasks /\ attempts[x.task] \in Seq(Attempt)
           /\ Hand(x.task) = {x}
           /\ Kept(x.task, state[x.task], reason[x.task], attempts[x.task], {x})
<1>1. x \in Item /\ x.task \in Tasks /\ attempts[x.task] \in Seq(Attempt)
  BY ItemAt DEF TypeOK
<1>2. x \in Hand(x.task)
  BY DEF Hand
<1>3. Kept(x.task, state[x.task], reason[x.task], attempts[x.task], Hand(x.task))
  BY <1>1 DEF Inv
<1>4. Hand(x.task) = {x}
  BY <1>2, <1>3 DEF Kept, Sound
<1> QED
  BY <1>1, <1>3, <1>4

(* All the pass has in hand is the one supervisor's.                       *)
LEMMA SoloHand ==
    ASSUME Solo, NEW s \in Supervisors, NEW t
    PROVE  Hand(t) = {x \in pass[s] : x.task = t}
BY DEF Solo, Hand

LEMMA SoloHandNext ==
    ASSUME Solo, NEW s \in Supervisors, NEW t
    PROVE  Hand(t)' = {x \in pass'[s] : x.task = t}
BY DEF Solo, Hand

LEMMA Become ==
    ASSUME Solo, TypeOK, Inv, NEW s \in Supervisors, NEW x \in pass[s], Begun(s) \subseteq {x},
           NEW ys, Swap(s, x, ys), \A y \in ys : y.task = x.task,
           NEW q, NEW r, NEW as, Writes(x.task, q, r, as), Kept(x.task, q, r, as, ys),
           Takes(q, as, ys) => Takes(state[x.task], attempts[x.task], {x})
    PROVE  Inv' /\ Slots' \subseteq Slots
<1>1. pass'[s] = (pass[s] \ {x}) \cup ys
  BY DEF Swap, TypeOK
<1>2. Hand(x.task) = {x} /\ x.task \in Tasks
  BY HandIs
<1>3. Hand(x.task)' = ys
  <2>1. Hand(x.task)' = {y \in pass'[s] : y.task = x.task}
    BY SoloHandNext
  <2>2. {y \in pass[s] : y.task = x.task} = {x}
    BY <1>2, SoloHand
  <2> QED
    BY <1>1, <2>1, <2>2
<1>4. \A u \in Tasks \ {x.task} : Hand(u)' = Hand(u)
  <2> TAKE u \in Tasks \ {x.task}
  <2>1. Hand(u)' = {y \in pass'[s] : y.task = u}
    BY SoloHandNext
  <2>2. Hand(u) = {y \in pass[s] : y.task = u}
    BY SoloHand
  <2> QED
    BY <1>1, <2>1, <2>2
<1>5. OneBegun'
  <2> SUFFICES ASSUME NEW w \in Supervisors, NEW y \in pass'[w], NEW z \in pass'[w],
                      y.next # "emitted", z.next # "emitted"
               PROVE  y = z
    BY DEF OneBegun, Begun
  <2>1. w = s
    BY DEF Solo
  <2>2. \A v \in pass[s] : v.next # "emitted" => v = x
    BY DEF Begun
  <2>3. y \in ys /\ z \in ys
    BY <1>1, <2>1, <2>2
  <2> QED
    BY <2>3 DEF Kept, Sound
<1>6. \A t \in Tasks : Kept(t, state'[t], reason'[t], attempts'[t], Hand(t)')
  <2> TAKE t \in Tasks
  <2>1. CASE t = x.task
    BY <1>3, <2>1 DEF Writes
  <2>2. CASE t # x.task
    BY <1>4, <2>2 DEF Writes, Inv
  <2> QED
    BY <2>1, <2>2
<1>7. \A t \in Tasks : Takes(state'[t], attempts'[t], Hand(t)') => Takes(state[t], attempts[t], Hand(t))
  <2> TAKE t \in Tasks
  <2>1. CASE t = x.task
    BY <1>2, <1>3, <2>1 DEF Writes
  <2>2. CASE t # x.task
    BY <1>4, <2>2 DEF Writes
  <2> QED
    BY <2>1, <2>2
<1>8. Inv'
  BY <1>5, <1>6 DEF Inv
<1>9. Slots' \subseteq Slots
  BY <1>7 DEF Slots
<1> QED
  BY <1>8, <1>9

-----------------------------------------------------------------------------
(* What each write does to its task *)

Gone(x, next) == [x EXCEPT !.next = next]
Put(x, next, i, q) == [x EXCEPT !.next = next, !.att = i, !.from = q]
Counted(x) == [x EXCEPT !.n = @ + 1]

(* The item carries on.                                                    *)
Same(y, x) == y.op = x.op /\ y.task = x.task /\ y.on = x.on /\ y.cause = x.cause

LEMMA ItemFields ==
    ASSUME NEW x \in Item
    PROVE  /\ \A next : LET y == Gone(x, next)
                        IN Same(y, x) /\ y.next = next /\ y.att = x.att /\ y.from = x.from /\ y.n = x.n
           /\ \A next, i, q : LET y == Put(x, next, i, q)
                              IN Same(y, x) /\ y.next = next /\ y.att = i /\ y.from = q /\ y.n = x.n
           /\ LET y == Counted(x)
              IN Same(y, x) /\ y.next = x.next /\ y.att = x.att /\ y.from = x.from /\ y.n = x.n + 1
<1>1. \A next : LET y == Gone(x, next)
                IN Same(y, x) /\ y.next = next /\ y.att = x.att /\ y.from = x.from /\ y.n = x.n
  BY DEF Item, Gone, Same
<1>2. \A next, i, q : LET y == Put(x, next, i, q)
                      IN Same(y, x) /\ y.next = next /\ y.att = i /\ y.from = q /\ y.n = x.n
  BY DEF Item, Put, Same
<1>3. LET y == Counted(x)
      IN Same(y, x) /\ y.next = x.next /\ y.att = x.att /\ y.from = x.from /\ y.n = x.n + 1
  BY DEF Item, Counted, Same
<1> QED
  BY <1>1, <1>2, <1>3

(* An item is dropped, and nothing else is written.                        *)
LEMMA LetGo ==
    ASSUME NEW t, NEW q, NEW r, NEW as \in Seq(Attempt), NEW x \in Item, Kept(t, q, r, as, {x}),
           \/ ~Begins(x) \/ q = "CANCELLED"
           \/ Rest(Last(as)) \/ ~Local(Last(as))
    PROVE  Kept(t, q, r, as, {}) /\ (Takes(q, as, {}) => Takes(q, as, {x}))
<1>1. InHand(t, q, as, {}) /\ Stands(t, q, as) /\ Budget(q, r, as)
  BY DEF InHand, Kept, Sound
<1>2. Local(Last(as)) /\ ~Rest(Last(as)) /\ Explained(t, q, r, Last(as), {x})
          => Explained(t, q, r, Last(as), {})
  BY DEF Explained, Starting
<1>3. Kept(t, q, r, as, {})
  BY <1>1, <1>2, Stay
<1> QED
  BY <1>3 DEF Takes

(* The last write of a start.                                              *)
LEMMA Commits ==
    ASSUME NEW t, NEW q, NEW r, NEW as \in Seq(Attempt), NEW x \in Item, Kept(t, q, r, as, {x}),
           x.op \in Starts, x.next = "commit", q = x.from,
           NEW to, to = IF x.op = "assign" THEN "ASSIGNED" ELSE "RUNNING"
    PROVE  Kept(t, to, r, as, {}) /\ (Takes(to, as, {}) => Takes(q, as, {x}))
<1>1. Lists(t, x) /\ Opened(as, x) /\ r \notin Spent \cup {"never_started"}
  BY Free DEF Fits, Begins
<1>2. /\ Len(as) > 0 /\ Last(as).kind = KindOf(x.op) /\ Last(as).proc # "none"
      /\ Last(as).passed = 0 /\ ~Last(as).failed
      /\ x.op # "delegate" => Last(as).recorded
  BY <1>1 DEF Opened
<1>3. Stands(t, to, as)
  BY <1>1, <1>2 DEF Stands, KindOf, Starts, Lists
<1>4. InHand(t, to, as, {}) /\ Budget(to, r, as)
  BY <1>1, FreeBudget DEF InHand
<1>5. Explained(t, to, r, Last(as), {})
  BY <1>1, <1>2 DEF Explained, Held, KindOf
<1>6. Kept(t, to, r, as, {})
  BY <1>3, <1>4, <1>5, Stay
<1>7. Takes(to, as, {}) => Takes(q, as, {x})
  BY <1>2 DEF Takes, KindOf, Starts
<1> QED
  BY <1>6, <1>7

(* A start that has begun writes its attempt and goes on.                  *)
LEMMA StartGoes ==
    ASSUME NEW t, NEW q, NEW r, NEW as \in Seq(Attempt), NEW x \in Item, Kept(t, q, r, as, {x}),
           Begins(x), NEW y, Begins(y), Same(y, x), y.from = x.from, y.att = x.att, Lists(t, y),
           NEW a, NEW bs, Amends(as, Len(as), a, bs),
           a.kind = Last(as).kind, a.on = Last(as).on, Made(a), OnPeer(a) => OnPeer(Last(as)),
           a.outcome = "open", a.passed = 0, ~a.failed,
           y.next \in {"publish", "launch", "send"} <=> a.proc = "none",
           y.next = "commit" /\ y.op # "delegate" => a.recorded
    PROVE  Kept(t, q, r, bs, {y}) /\ (Takes(q, bs, {y}) => Takes(q, as, {x}))
<1>1. /\ Lists(t, x) /\ Opened(as, x) /\ r \notin Spent \cup {"never_started"}
      /\ q \in {Expects(x), "CANCELLED"} /\ Stands(t, q, as)
  BY Free DEF Fits
<1>2. Expects(x) = x.from /\ Expects(y) = x.from /\ x.from \in {"PENDING", "ASSIGNED", "RETRYING"}
  BY <1>1 DEF Expects, Begins, Same, Starts, Lists
<1>3. Len(bs) = Len(as) /\ Len(bs) > 0 /\ Last(bs) = a
  BY AmendFacts, AmendLast DEF Amends
<1>4. Opened(bs, y)
  BY <1>1, <1>3 DEF Opened, Same
<1>5. Fits(bs, y)
  BY <1>4 DEF Fits, Begins, Starts
<1>6. InHand(t, q, bs, {y})
  BY <1>1, <1>2, <1>5 DEF InHand
<1>7. Stands(t, q, bs) /\ Budget(q, r, bs)
  BY <1>1, <1>2, FreeBudget DEF Stands
<1>8. Explained(t, q, r, a, {y})
  BY <1>1, <1>2 DEF Explained, Starting
<1>9. Kept(t, q, r, bs, {y})
  BY <1>6, <1>7, <1>8, Alter
<1>10. Takes(q, bs, {y}) => Takes(q, as, {x})
  BY <1>1, <1>2 DEF Takes, Same
<1> QED
  BY <1>9, <1>10

(* A start that fails closes its attempt and is dropped.                   *)
LEMMA StartFails ==
    ASSUME NEW t, NEW q, NEW r, NEW as \in Seq(Attempt), NEW x \in Item, Kept(t, q, r, as, {x}),
           Begins(x), NEW a, NEW bs, Amends(as, Len(as), a, bs),
           a.kind = Last(as).kind, a.on = Last(as).on, Made(a), a.proc = "none"
    PROVE  Kept(t, q, r, bs, {}) /\ (Takes(q, bs, {}) => Takes(q, as, {x}))
<1>1. /\ Lists(t, x) /\ r \notin Spent \cup {"never_started"}
      /\ q \in {Expects(x), "CANCELLED"} /\ Stands(t, q, as)
  BY Free
<1>2. q \in {"PENDING", "ASSIGNED", "RETRYING", "CANCELLED"}
  BY <1>1 DEF Expects, Begins, Starts, Lists
<1>3. InHand(t, q, bs, {}) /\ Stands(t, q, bs) /\ Budget(q, r, bs)
  BY <1>1, <1>2, FreeBudget DEF InHand, Stands
<1>4. ~OnPeer(a) /\ Rest(a)
  BY DEF OnPeer, Rest
<1>5. Kept(t, q, r, bs, {})
  BY <1>3, <1>4, Alter
<1>6. Takes(q, bs, {}) => Takes(q, as, {x})
  BY <1>2 DEF Takes
<1> QED
  BY <1>5, <1>6

(* A start begins with a new attempt.                                      *)
LEMMA StartBegins ==
    ASSUME NEW t, NEW q, NEW r, NEW as \in Seq(Attempt), NEW x \in Item, Kept(t, q, r, as, {x}),
           x.op \in Starts, x.next = "emitted", q \in AppliesIn(x.op),
           NEW y, Begins(y), Same(y, x), y.from = q, y.att = Len(as) + 1, Lists(t, y),
           y.next \in {"publish", "launch", "send"},
           NEW a, NEW bs, Grown(as, a, bs), a.kind = KindOf(x.op), Made(a), a.proc = "none",
           a.outcome = "open", a.passed = 0, ~a.failed,
           Tidy => \A i \in DOMAIN as : Local(as[i]) => Rest(as[i])
    PROVE  Kept(t, q, r, bs, {y}) /\ (Takes(q, bs, {y}) => Takes(q, as, {x}))
<1>1. r \notin Spent \cup {"never_started"}
  BY Free
<1>2. q \in {"PENDING", "ASSIGNED", "RETRYING"} /\ Expects(y) = q
  BY DEF AppliesIn, Starts, Expects, Begins
<1>3. Len(bs) = Len(as) + 1 /\ Len(bs) > 0 /\ Last(bs) = a
  BY GrownFacts DEF Grown
<1>4. Opened(bs, y)
  BY <1>3 DEF Opened, Same
<1>5. Fits(bs, y)
  BY <1>4 DEF Fits, Begins, Starts
<1>6. InHand(t, q, bs, {y})
  BY <1>2, <1>5 DEF InHand
<1>7. ~Begins(x)
  BY DEF Begins
<1>8. Kept(t, q, r, bs, {y})
  BY <1>1, <1>2, <1>6, <1>7, Grow
<1>9. Takes(q, bs, {y}) => Takes(q, as, {x})
  BY <1>2 DEF Takes, Same
<1> QED
  BY <1>8, <1>9

(* When a start is about to begin, what may still be at work here is held. *)
LEMMA BeforeStart ==
    ASSUME NEW t, NEW q, NEW r, NEW as \in Seq(Attempt), NEW x \in Item, Kept(t, q, r, as, {x}),
           x.op \in Starts, x.next = "emitted", q \in AppliesIn(x.op), Tidy,
           NEW i \in DOMAIN as, Local(as[i]), ~Rest(as[i])
    PROVE  i = Len(as) /\ as[i] = Last(as) /\ Held(t, q, Last(as))
<1>1. i = Len(as) /\ Explained(t, q, r, as[i], {x})
  BY DEF Kept, Quiet
<1>2. as[i] = Last(as)
  BY <1>1 DEF Last
<1>3. q \in {"PENDING", "ASSIGNED", "RETRYING"} /\ ~Starting({x})
  BY DEF AppliesIn, Starts, Starting, Begins
<1> QED
  BY <1>1, <1>2, <1>3 DEF Explained

(* A session found running is adopted.                                     *)
LEMMA Adopts ==
    ASSUME NEW t, NEW q, NEW r, NEW as \in Seq(Attempt), NEW x \in Item, Kept(t, q, r, as, {x}),
           x.op = "spawn", x.next = "emitted", q \in AppliesIn(x.op),
           Len(as) > 0, Last(as).kind = "spawn", Last(as).outcome = "open", Last(as).recorded,
           Last(as).proc = "live",
           NEW y, Same(y, x), y.next = "commit", y.from = q, y.att = Len(as)
    PROVE  Kept(t, q, r, as, {y}) /\ (Takes(q, as, {y}) => Takes(q, as, {x}))
<1>1. /\ Lists(t, x) /\ r \notin Spent \cup {"never_started"}
      /\ q \in {Expects(x), "CANCELLED"} /\ Stands(t, q, as)
      /\ \A i \in DOMAIN as : Made(as[i])
  BY Free
<1>2. q \in {"PENDING", "ASSIGNED", "RETRYING"} /\ q = x.from /\ Expects(y) = q
  BY <1>1 DEF AppliesIn, Expects, Same
<1>3. Last(as) \in Attempt /\ Made(Last(as))
  BY <1>1, SeqFacts DEF Last
<1>4. Last(as).passed = 0 /\ ~Last(as).failed
  BY <1>3 DEF Made
<1>5. Opened(as, y) /\ Begins(y)
  BY <1>4 DEF Opened, Begins, Same, KindOf, Starts
<1>6. Fits(as, y) /\ Lists(t, y)
  BY <1>1, <1>2, <1>5 DEF Fits, Lists, Same
<1>7. InHand(t, q, as, {y}) /\ Budget(q, r, as)
  BY <1>1, <1>2, <1>5, <1>6, FreeBudget DEF InHand
<1>8. Explained(t, q, r, Last(as), {y})
  BY <1>1, <1>2, <1>5 DEF Explained, Starting
<1>9. Kept(t, q, r, as, {y})
  BY <1>1, <1>7, <1>8, Stay
<1> QED
  BY <1>9 DEF Takes, Same

(* A verification in hand of a task not cancelled meanwhile is of the      *)
(* latest attempt, whose session succeeded.                                *)
LEMMA Verifies ==
    ASSUME NEW t, NEW q, NEW r, NEW as \in Seq(Attempt), NEW x \in Item, Kept(t, q, r, as, {x}),
           x.op = "verify"
    PROVE  /\ Judged(as, x) /\ x.from = "RUNNING"
           /\ q = (IF x.next = "verdict" THEN "VERIFYING" ELSE "RUNNING") \/ q = "CANCELLED"
           /\ r \notin Spent \cup {"never_started"}
<1>1. /\ Lists(t, x) /\ Fits(as, x) /\ r \notin Spent \cup {"never_started"}
      /\ q \in {Expects(x), "CANCELLED"}
  BY Free
<1> QED
  BY <1>1 DEF Lists, Fits, Expects

(* The attempt of a verification is written and it goes on.                *)
LEMMA VerifyGoes ==
    ASSUME NEW t, NEW q, NEW r, NEW as \in Seq(Attempt), NEW x \in Item, Kept(t, q, r, as, {x}),
           x.op = "verify", NEW y, Same(y, x), y.from = x.from, y.att = x.att,
           NEW a, NEW bs, Amends(as, Len(as), a, bs),
           a.kind = Last(as).kind, a.on = Last(as).on, Made(a), a.proc = "ok",
           a.passed = y.n, ~a.failed, a.recorded = Last(as).recorded,
           x.next = "verdict" <=> y.next = "verdict", q = "RUNNING" => a.passed = 0
    PROVE  Kept(t, q, r, bs, {y}) /\ (Takes(q, bs, {y}) => Takes(q, as, {x}))
<1>1. /\ Judged(as, x) /\ x.from = "RUNNING"
      /\ q = (IF x.next = "verdict" THEN "VERIFYING" ELSE "RUNNING") \/ q = "CANCELLED"
      /\ r \notin Spent \cup {"never_started"}
  BY Verifies
<1>2. Len(bs) = Len(as) /\ Len(bs) > 0 /\ Len(as) > 0 /\ Last(bs) = a
  BY AmendFacts, AmendLast DEF Amends
<1>3. Fits(bs, y) /\ Lists(t, y) /\ ~Begins(y) /\ y.op \notin Starts
  BY <1>1, <1>2 DEF Fits, Judged, Lists, Same, Begins, Starts
<1>4. q \in {Expects(y), "CANCELLED"}
  BY <1>1 DEF Expects, Same
<1>5. InHand(t, q, bs, {y})
  BY <1>3, <1>4 DEF InHand
<1>6. Stands(t, q, as)
  BY Free
<1>7. Stands(t, q, bs) /\ Budget(q, r, bs)
  BY <1>1, <1>2, <1>6, FreeBudget DEF Stands
<1>8. ~OnPeer(a) /\ Rest(a)
  BY DEF OnPeer, Rest
<1>9. Kept(t, q, r, bs, {y})
  BY <1>5, <1>7, <1>8, Alter
<1>10. Takes(q, bs, {y}) => Takes(q, as, {x})
  BY <1>2 DEF Takes, Same
<1> QED
  BY <1>9, <1>10

LEMMA VerifyStarts ==
    ASSUME NEW t, NEW r, NEW as \in Seq(Attempt), NEW x \in Item, Kept(t, "RUNNING", r, as, {x}),
           x.op = "verify", NEW y, Same(y, x), y.next = "verdict", y.from = x.from, y.att = x.att,
           y.n = x.n
    PROVE  Kept(t, "VERIFYING", r, as, {y}) /\ ~Takes("VERIFYING", as, {y})
<1>0. Lists(t, x) /\ Fits(as, x) /\ r \notin Spent \cup {"never_started"}
  BY Free
<1>1. Judged(as, x) /\ x.from = "RUNNING"
  BY <1>0 DEF Lists, Fits
<1>2. Fits(as, y) /\ Lists(t, y) /\ y.op \notin Starts /\ Expects(y) = "VERIFYING"
  BY <1>1 DEF Fits, Judged, Lists, Same, Begins, Starts, Expects
<1>3. InHand(t, "VERIFYING", as, {y}) /\ Stands(t, "VERIFYING", as) /\ Budget("VERIFYING", r, as)
  BY <1>0, <1>2, FreeBudget DEF InHand, Stands
<1>4. Rest(Last(as))
  BY <1>1 DEF Judged, Rest
<1>5. Kept(t, "VERIFYING", r, as, {y})
  BY <1>3, <1>4, Stay
<1> QED
  BY <1>5 DEF Takes, Same

LEMMA VerifyPasses ==
    ASSUME NEW t, NEW r, NEW as \in Seq(Attempt), NEW x \in Item, Kept(t, "VERIFYING", r, as, {x}),
           x.op = "verify", x.n = Verifiers[t]
    PROVE  Kept(t, "DONE", r, as, {}) /\ ~Takes("DONE", as, {})
<1>1. Judged(as, x) /\ r \notin Spent \cup {"never_started"}
  BY Verifies
<1>2. InHand(t, "DONE", as, {}) /\ Stands(t, "DONE", as) /\ Budget("DONE", r, as) /\ Rest(Last(as))
  BY <1>1, FreeBudget DEF InHand, Stands, Judged, Rest
<1>3. Kept(t, "DONE", r, as, {})
  BY <1>2, Stay
<1> QED
  BY <1>3 DEF Takes

(* Writing anything but the outcome of the latest attempt leaves the count *)
(* of those that ran.                                                      *)
LEMMA RanAgrees ==
    ASSUME NEW as \in Seq(Attempt), NEW a, NEW bs, Amends(as, Len(as), a, bs),
           a.outcome = Last(as).outcome
    PROVE  Ran(bs) = Ran(as)
<1>1. \A j \in DOMAIN as : bs[j].outcome = as[j].outcome
  BY DEF Amends, Last
<1> QED
  BY <1>1 DEF Ran, Amends

LEMMA VerifyFails ==
    ASSUME NEW t, NEW q, NEW r, NEW as \in Seq(Attempt), NEW x \in Item, Kept(t, q, r, as, {x}),
           x.op = "verify", x.next = "verdict",
           NEW a, NEW bs, Amends(as, Len(as), a, bs),
           a.kind = Last(as).kind, a.on = Last(as).on, Made(a), a.proc = "ok",
           a.outcome = Last(as).outcome,
           NEW q2, NEW r2,
           \/ q = "CANCELLED" /\ q2 = q /\ r2 = r
           \/ q2 = "RETRYING" /\ r2 = r
           \/ q2 = "NEEDS_HUMAN" /\ r2 = "retries-exhausted" /\ Cardinality(Ran(as)) > MaxRetries
    PROVE  Kept(t, q2, r2, bs, {}) /\ ~Takes(q2, bs, {})
<1>1. r \notin Spent \cup {"never_started"}
  BY Verifies
<1>2. Ran(bs) = Ran(as)
  BY RanAgrees
<1>3. InHand(t, q2, bs, {}) /\ Stands(t, q2, bs)
  BY DEF InHand, Stands
<1>4. Budget(q2, r2, bs)
  BY <1>1, <1>2 DEF Budget, Spent
<1>5. ~OnPeer(a) /\ Rest(a)
  BY DEF OnPeer, Rest
<1>6. Kept(t, q2, r2, bs, {})
  BY <1>3, <1>4, <1>5, Alter
<1> QED
  BY <1>6 DEF Takes

(* What a resumption in hand says.                                         *)
LEMMA Resumes ==
    ASSUME NEW t, NEW q, NEW r, NEW as \in Seq(Attempt), NEW x \in Item, Kept(t, q, r, as, {x}),
           x.op = "resume"
    PROVE  /\ Len(as) > 0 /\ (Local(Last(as)) => Rest(Last(as))) /\ x.from = "RUNNING"
           /\ q = (IF x.next = "resuming" THEN "RESUMING" ELSE "RUNNING") \/ q = "CANCELLED"
           /\ r \notin Spent \cup {"never_started"}
<1>1. /\ Lists(t, x) /\ Fits(as, x) /\ r \notin Spent \cup {"never_started"}
      /\ q \in {Expects(x), "CANCELLED"}
  BY Free
<1> QED
  BY <1>1 DEF Lists, Fits, Expects

LEMMA GivesUp ==
    ASSUME NEW t, NEW r, NEW as \in Seq(Attempt), NEW x \in Item, Kept(t, "RUNNING", r, as, {x}),
           x.op = "resume", NEW y, Same(y, x), y.from = "RUNNING", y.next = "resume",
           NEW a, NEW bs, Amends(as, Len(as), a, bs),
           a.kind = Last(as).kind, a.on = Last(as).on, a.recorded = Last(as).recorded,
           a.passed = Last(as).passed, a.failed = Last(as).failed,
           a.proc = Last(as).proc \/ (a.kind = "remote" /\ a.proc = "gone")
    PROVE  /\ Kept(t, "RUNNING", r, bs, {y})
           /\ Takes("RUNNING", bs, {y}) => Takes("RUNNING", as, {x})
<1>0. Lists(t, x) /\ Fits(as, x) /\ r \notin Spent \cup {"never_started"}
  BY Free
<1>1. /\ Len(as) > 0 /\ (Local(Last(as)) => Rest(Last(as)))
      /\ r \notin Spent \cup {"never_started"}
  BY <1>0 DEF Fits
<1>2. Stands(t, "RUNNING", as) /\ \A i \in DOMAIN as : Made(as[i])
  BY Free
<1>3. Made(Last(as)) /\ Len(bs) = Len(as) /\ Len(bs) > 0 /\ Last(bs) = a
  BY <1>1, <1>2, SeqFacts, AmendFacts, AmendLast DEF Amends, Last
<1>4. Made(a)
  BY <1>2, <1>1, <1>3 DEF Made, Stands
<1>5. (Local(a) => Rest(a)) /\ (OnPeer(a) => OnPeer(Last(as)))
  BY <1>1 DEF Local, Rest, OnPeer
<1>6. Fits(bs, y) /\ Lists(t, y) /\ y.op \notin Starts /\ Expects(y) = "RUNNING"
  BY <1>3, <1>5 DEF Fits, Lists, Same, Begins, Starts, Expects
<1>7. InHand(t, "RUNNING", bs, {y})
  BY <1>6 DEF InHand
<1>8. Stands(t, "RUNNING", bs) /\ Budget("RUNNING", r, bs)
  BY <1>1, <1>2, <1>3, FreeBudget DEF Stands
<1>9. Kept(t, "RUNNING", r, bs, {y})
  BY <1>4, <1>5, <1>7, <1>8, Alter
<1>10. Takes("RUNNING", bs, {y}) => Takes("RUNNING", as, {x})
  BY <1>1, <1>3 DEF Takes, Same
<1> QED
  BY <1>9, <1>10

LEMMA ResumesOrCaps ==
    ASSUME NEW t, NEW r, NEW as \in Seq(Attempt), NEW x \in Item, Kept(t, "RUNNING", r, as, {x}),
           x.op = "resume", NEW q2, NEW r2, NEW ys,
           \/ /\ q2 = "NEEDS_HUMAN" /\ r2 = "resume-cap" /\ ys = {}
              /\ Cardinality(Ran(as)) > MaxRetries
           \/ /\ q2 = "RESUMING" /\ r2 = r
              /\ \E y : /\ ys = {y} /\ Same(y, x) /\ y.from = "RUNNING"
                        /\ y.next = "resuming"
    PROVE  Kept(t, q2, r2, as, ys) /\ ~Takes(q2, as, ys)
<1>0. Lists(t, x) /\ Fits(as, x) /\ r \notin Spent \cup {"never_started"}
  BY Free
<1>1. /\ Len(as) > 0 /\ (Local(Last(as)) => Rest(Last(as)))
      /\ r \notin Spent \cup {"never_started"}
  BY <1>0 DEF Fits
<1>2. \A y \in ys : /\ Fits(as, y) /\ Lists(t, y) /\ y.op \notin Starts
                    /\ Expects(y) = "RESUMING" /\ q2 = "RESUMING" /\ y.op = "resume"
  BY <1>1 DEF Fits, Lists, Same, Begins, Starts, Expects
<1>3. InHand(t, q2, as, ys)
  <2>1. \A y, z \in ys : y = z
    OBVIOUS
  <2> QED
    BY <1>2, <2>1 DEF InHand
<1>4. Stands(t, q2, as)
  BY DEF Stands
<1>5. Budget(q2, r2, as)
  BY <1>1 DEF Budget, Spent
<1>6. Kept(t, q2, r2, as, ys)
  BY <1>1, <1>3, <1>4, <1>5, Stay
<1> QED
  BY <1>2, <1>6 DEF Takes

LEMMA GoesBack ==
    ASSUME NEW t, NEW r, NEW as \in Seq(Attempt), NEW x \in Item, Kept(t, "RESUMING", r, as, {x}),
           x.op = "resume"
    PROVE  Kept(t, "PENDING", r, as, {}) /\ ~Takes("PENDING", as, {})
<1>1. (Local(Last(as)) => Rest(Last(as))) /\ r \notin Spent \cup {"never_started"}
  BY Resumes
<1>2. InHand(t, "PENDING", as, {}) /\ Stands(t, "PENDING", as) /\ Budget("PENDING", r, as)
  BY <1>1, FreeBudget DEF InHand, Stands
<1>3. Kept(t, "PENDING", r, as, {})
  BY <1>1, <1>2, Stay
<1> QED
  BY <1>3 DEF Takes

LEMMA Escalates ==
    ASSUME NEW t, NEW q, NEW r, NEW as \in Seq(Attempt), NEW x \in Item, Kept(t, q, r, as, {x}),
           x.op = "escalate", q # "CANCELLED"
    PROVE  Kept(t, "NEEDS_HUMAN", x.cause, as, {}) /\ ~Takes("NEEDS_HUMAN", as, {})
<1>1. Lists(t, x) /\ Fits(as, x) /\ q = Expects(x)
  BY Free
<1>2. q = x.from /\ q \in {"PENDING", "ASSIGNED", "RETRYING"}
      /\ x.cause \in {"never_started", "dependency", "claimed"}
  BY <1>1 DEF Lists, Expects
<1>3. InHand(t, "NEEDS_HUMAN", as, {}) /\ Stands(t, "NEEDS_HUMAN", as)
      /\ Budget("NEEDS_HUMAN", x.cause, as)
  BY <1>2 DEF InHand, Stands, Budget, Spent
<1>4. Explained(t, q, r, Last(as), {x}) => Explained(t, "NEEDS_HUMAN", x.cause, Last(as), {})
  <2>1. ~Starting({x})
    BY DEF Starting, Begins, Starts
  <2>2. CASE x.cause = "never_started"
    BY <1>1, <1>2, <2>1, <2>2 DEF Fits, Explained, Held
  <2>3. CASE x.cause # "never_started"
    BY <1>2, <2>3 DEF Explained, Spent
  <2> QED
    BY <2>2, <2>3
<1>5. Kept(t, "NEEDS_HUMAN", x.cause, as, {})
  BY <1>3, <1>4, Stay
<1> QED
  BY <1>5 DEF Takes

-----------------------------------------------------------------------------
(* Applying an action *)

StateBecomes(t, q, r) ==
    /\ state'[t] = q /\ reason'[t] = r
    /\ \A u \in Tasks \ {t} : state'[u] = state[u] /\ reason'[u] = reason[u]
AttemptsBecome(t, as) ==
    attempts'[t] = as /\ \A u \in Tasks \ {t} : attempts'[u] = attempts[u]

LEMMA SameStateIs ==
    ASSUME SameState, NEW t
    PROVE  StateBecomes(t, state[t], reason[t])
BY DEF SameState, StateBecomes

LEMMA SetStateIs ==
    ASSUME TypeOK, NEW t \in Tasks, NEW q, NEW why, SetState(t, q, why)
    PROVE  /\ q = "NEEDS_HUMAN" => StateBecomes(t, q, why)
           /\ q # "NEEDS_HUMAN" => StateBecomes(t, q, reason[t])
BY DEF SetState, StateBecomes, TypeOK

LEMMA SameAttempts ==
    ASSUME UNCHANGED attempts, NEW t
    PROVE  AttemptsBecome(t, attempts[t])
BY DEF AttemptsBecome

LEMMA SetAttemptIs ==
    ASSUME TypeOK, NEW t \in Tasks, NEW i \in DOMAIN attempts[t], NEW a \in Attempt,
           SetAttempt(t, i, a)
    PROVE  AttemptsBecome(t, attempts'[t]) /\ Amends(attempts[t], i, a, attempts'[t])
<1>1. attempts[t] \in Seq(Attempt)
  BY DEF TypeOK
<1>2. Amends(attempts[t], i, a, [attempts[t] EXCEPT ![i] = a])
  BY <1>1, AmendsIs
<1>3. attempts' = [attempts EXCEPT ![t] = [attempts[t] EXCEPT ![i] = a]]
  BY DEF SetAttempt
<1>4. attempts'[t] = [attempts[t] EXCEPT ![i] = a] /\ \A u \in Tasks \ {t} : attempts'[u] = attempts[u]
  BY <1>3 DEF TypeOK
<1> QED
  BY <1>2, <1>4 DEF AttemptsBecome

LEMMA Swaps ==
    ASSUME NEW s \in Supervisors, NEW x
    PROVE  /\ Drop(s, x) => Swap(s, x, {})
           /\ \A next : Go(s, x, next) => Swap(s, x, {Gone(x, next)})
           /\ \A next, i : Begin(s, x, next, i) => Swap(s, x, {Put(x, next, i, state[x.task])})
<1>1. Drop(s, x) => Swap(s, x, {})
  BY DEF Drop, Swap
<1>2. \A next : Go(s, x, next) => Swap(s, x, {Gone(x, next)})
  BY DEF Go, Swap, Gone
<1>3. \A next, i : Begin(s, x, next, i) => Swap(s, x, {Put(x, next, i, state[x.task])})
  BY DEF Begin, Swap, Put
<1> QED
  BY <1>1, <1>2, <1>3

LEMMA OnlyBegun ==
    ASSUME Inv, NEW s \in Supervisors, NEW x \in pass[s], x.next # "emitted" \/ Begun(s) = {}
    PROVE  Begun(s) \subseteq {x}
BY DEF Inv, OneBegun, Begun

(* What a change of one field of an attempt leaves alone.                  *)
LEMMA AttemptFields ==
    ASSUME NEW a \in Attempt
    PROVE  /\ \A p \in Proc : LET b == [a EXCEPT !.proc = p]
              IN /\ b \in Attempt /\ b.kind = a.kind /\ b.on = a.on /\ b.recorded = a.recorded
                 /\ b.outcome = a.outcome /\ b.passed = a.passed /\ b.failed = a.failed /\ b.proc = p
           /\ LET b == [a EXCEPT !.failed = TRUE]
              IN /\ b \in Attempt /\ b.kind = a.kind /\ b.on = a.on /\ b.recorded = a.recorded
                 /\ b.outcome = a.outcome /\ b.passed = a.passed /\ b.proc = a.proc
           /\ LET b == [a EXCEPT !.passed = @ + 1]
              IN /\ b \in Attempt /\ b.kind = a.kind /\ b.on = a.on /\ b.recorded = a.recorded
                 /\ b.outcome = a.outcome /\ b.passed = a.passed + 1 /\ b.failed = a.failed
                 /\ b.proc = a.proc
           /\ \A o \in Outcome : LET b == Finished(a, o)
              IN /\ b \in Attempt /\ b.kind = a.kind /\ b.on = a.on /\ b.recorded = a.recorded
                 /\ b.passed = a.passed /\ b.failed = a.failed /\ b.proc = a.proc
           /\ \A h \in {"running", "settled"} : LET b == [a EXCEPT !.heard = h]
              IN /\ b \in Attempt /\ b.kind = a.kind /\ b.on = a.on /\ b.recorded = a.recorded
                 /\ b.outcome = a.outcome /\ b.passed = a.passed /\ b.failed = a.failed
                 /\ b.proc = a.proc
<1>1. ASSUME NEW p \in Proc
      PROVE  LET b == [a EXCEPT !.proc = p]
              IN /\ b \in Attempt /\ b.kind = a.kind /\ b.on = a.on /\ b.recorded = a.recorded
                 /\ b.outcome = a.outcome /\ b.passed = a.passed /\ b.failed = a.failed /\ b.proc = p
  BY DEF Attempt
<1>2. LET b == [a EXCEPT !.failed = TRUE]
      IN /\ b \in Attempt /\ b.kind = a.kind /\ b.on = a.on /\ b.recorded = a.recorded
         /\ b.outcome = a.outcome /\ b.passed = a.passed /\ b.proc = a.proc
  BY DEF Attempt
<1>3. LET b == [a EXCEPT !.passed = @ + 1]
      IN /\ b \in Attempt /\ b.kind = a.kind /\ b.on = a.on /\ b.recorded = a.recorded
         /\ b.outcome = a.outcome /\ b.passed = a.passed + 1 /\ b.failed = a.failed
         /\ b.proc = a.proc
  BY DEF Attempt
<1>4. ASSUME NEW o \in Outcome
      PROVE  LET b == Finished(a, o)
             IN /\ b \in Attempt /\ b.kind = a.kind /\ b.on = a.on /\ b.recorded = a.recorded
                /\ b.passed = a.passed /\ b.failed = a.failed /\ b.proc = a.proc
  BY DEF Attempt, Finished
<1>5. ASSUME NEW h \in {"running", "settled"}
      PROVE  LET b == [a EXCEPT !.heard = h]
              IN /\ b \in Attempt /\ b.kind = a.kind /\ b.on = a.on /\ b.recorded = a.recorded
                 /\ b.outcome = a.outcome /\ b.passed = a.passed /\ b.failed = a.failed
                 /\ b.proc = a.proc
  BY DEF Attempt
<1> QED
  BY <1>1, <1>2, <1>3, <1>4, <1>5

(* A step on the item x in hand: what it makes of its task and of itself.  *)
LEMMA Acts ==
    ASSUME Solo, TypeOK, Inv, NEW s \in Supervisors, NEW x \in pass[s],
           x.next # "emitted" \/ Begun(s) = {},
           NEW ys, Swap(s, x, ys), \A y \in ys : y.task = x.task,
           NEW q, NEW r, NEW as, StateBecomes(x.task, q, r), AttemptsBecome(x.task, as),
           Kept(x.task, q, r, as, ys),
           Takes(q, as, ys) => Takes(state[x.task], attempts[x.task], {x})
    PROVE  Inv' /\ Slots' \subseteq Slots
<1>1. Begun(s) \subseteq {x}
  BY OnlyBegun
<1>2. Writes(x.task, q, r, as)
  BY DEF Writes, StateBecomes, AttemptsBecome
<1> QED
  BY <1>1, <1>2, Become

(* The item is dropped and nothing else happens.                           *)
LEMMA Drops ==
    ASSUME Solo, TypeOK, Inv, NEW s \in Supervisors, NEW x \in pass[s],
           x.next # "emitted" \/ Begun(s) = {},
           Drop(s, x), SameState, UNCHANGED attempts,
           \/ ~Begins(x) \/ state[x.task] = "CANCELLED"
           \/ Rest(Last(attempts[x.task])) \/ ~Local(Last(attempts[x.task]))
    PROVE  Inv' /\ Slots' \subseteq Slots
<1> DEFINE t == x.task
<1>1. /\ x \in Item /\ t \in Tasks /\ attempts[t] \in Seq(Attempt)
      /\ Kept(t, state[t], reason[t], attempts[t], {x})
  BY HandIs
<1>2. /\ Kept(t, state[t], reason[t], attempts[t], {})
      /\ Takes(state[t], attempts[t], {}) => Takes(state[t], attempts[t], {x})
  BY <1>1, LetGo
<1>3. StateBecomes(t, state[t], reason[t]) /\ AttemptsBecome(t, attempts[t])
  BY SameStateIs, SameAttempts
<1>4. Swap(s, x, {})
  BY Swaps
<1> QED
  BY <1>2, <1>3, <1>4, Acts

(* A start that has begun acts on the latest attempt.                      *)
LEMMA LatestInHand ==
    ASSUME Solo, TypeOK, Inv, NEW s \in Supervisors, NEW x \in pass[s], Begins(x)
    PROVE  /\ x \in Item /\ x.task \in Tasks /\ attempts[x.task] \in Seq(Attempt)
           /\ Kept(x.task, state[x.task], reason[x.task], attempts[x.task], {x})
           /\ x.att = Len(attempts[x.task]) /\ x.att \in DOMAIN attempts[x.task]
           /\ attempts[x.task][x.att] = Last(attempts[x.task])
           /\ Last(attempts[x.task]) \in Attempt /\ Made(Last(attempts[x.task]))
           /\ Opened(attempts[x.task], x) /\ Lists(x.task, x)
<1> DEFINE t == x.task
<1>1. /\ x \in Item /\ t \in Tasks /\ attempts[t] \in Seq(Attempt)
      /\ Kept(t, state[t], reason[t], attempts[t], {x})
  BY HandIs
<1>2. /\ Fits(attempts[t], x) /\ Lists(t, x)
      /\ \A i \in DOMAIN attempts[t] : Made(attempts[t][i])
  BY <1>1, Free
<1>3. Opened(attempts[t], x)
  BY <1>2 DEF Fits
<1>4. x.att = Len(attempts[t]) /\ Len(attempts[t]) > 0
  BY <1>3 DEF Opened
<1>5. x.att \in DOMAIN attempts[t] /\ Last(attempts[t]) \in Attempt
  BY <1>1, <1>4, SeqFacts
<1>6. attempts[t][x.att] = Last(attempts[t]) /\ Made(Last(attempts[t]))
  BY <1>2, <1>4, <1>5 DEF Last
<1> QED
  BY <1>1, <1>2, <1>3, <1>4, <1>5, <1>6

Follows(op) == IF op = "assign" THEN {"stamp", "commit"}
               ELSE IF op = "spawn" THEN {"record", "commit"} ELSE {"commit"}

LEMMA Goes ==
    ASSUME Solo, TypeOK, Inv, NEW s \in Supervisors, NEW x \in pass[s], Begins(x),
           NEW next \in Follows(x.op), Go(s, x, next), SameState,
           NEW a \in Attempt, SetAttempt(x.task, x.att, a), Made(a),
           a.kind = attempts[x.task][x.att].kind, a.on = attempts[x.task][x.att].on,
           OnPeer(a) => OnPeer(attempts[x.task][x.att]),
           a.outcome = attempts[x.task][x.att].outcome, a.passed = attempts[x.task][x.att].passed,
           a.failed = attempts[x.task][x.att].failed, a.proc # "none",
           next = "commit" /\ x.op # "delegate" => a.recorded
    PROVE  Inv' /\ Slots' \subseteq Slots
<1> DEFINE t == x.task
           as == attempts[t]
           bs == attempts'[t]
           y == Gone(x, next)
<1>1. /\ x \in Item /\ t \in Tasks /\ as \in Seq(Attempt)
      /\ Kept(t, state[t], reason[t], as, {x})
      /\ x.att = Len(as) /\ x.att \in DOMAIN as /\ as[x.att] = Last(as)
      /\ Opened(as, x) /\ Lists(t, x)
  BY LatestInHand
<1>2. AttemptsBecome(t, bs) /\ Amends(as, Len(as), a, bs)
  BY <1>1, SetAttemptIs
<1>3. Same(y, x) /\ y.next = next /\ y.att = x.att /\ y.from = x.from /\ y.task = t
  <2>1. Same(y, x) /\ y.next = next /\ y.att = x.att /\ y.from = x.from
    BY <1>1, ItemFields
  <2> QED
    BY <2>1 DEF Same
<1>4. x.op \in Starts /\ Begins(y) /\ Lists(t, y) /\ y.next \notin {"publish", "launch", "send"}
  BY <1>1, <1>3 DEF Begins, Same, Follows, Lists, Starts
<1>5. /\ a.kind = Last(as).kind /\ a.on = Last(as).on /\ (OnPeer(a) => OnPeer(Last(as)))
      /\ a.outcome = "open" /\ a.passed = 0 /\ ~a.failed
      /\ y.next = "commit" /\ y.op # "delegate" => a.recorded
  BY <1>1, <1>3 DEF Opened, Same
<1>6. /\ Kept(t, state[t], reason[t], bs, {y})
      /\ Takes(state[t], bs, {y}) => Takes(state[t], as, {x})
  <2> HIDE DEF as, bs, y, t
  <2> QED
    BY <1>1, <1>2, <1>3, <1>4, <1>5, StartGoes
<1>7. StateBecomes(t, state[t], reason[t]) /\ Swap(s, x, {y})
  BY SameStateIs, Swaps
<1>8. x.next # "emitted"
  BY DEF Begins
<1> HIDE DEF bs, y
<1> QED
  BY <1>2, <1>3, <1>6, <1>7, <1>8, Acts

LEMMA Fails ==
    ASSUME Solo, TypeOK, Inv, NEW s \in Supervisors, NEW x \in pass[s], Begins(x),
           x.next \in {"launch", "send"}, Drop(s, x), SameState, NEW outcome \in Outcome,
           SetAttempt(x.task, x.att, Finished(attempts[x.task][x.att], outcome))
    PROVE  Inv' /\ Slots' \subseteq Slots
<1> DEFINE t == x.task
           as == attempts[t]
           bs == attempts'[t]
           a == Finished(as[x.att], outcome)
<1>1. /\ x \in Item /\ t \in Tasks /\ as \in Seq(Attempt)
      /\ Kept(t, state[t], reason[t], as, {x})
      /\ x.att = Len(as) /\ x.att \in DOMAIN as /\ as[x.att] = Last(as)
      /\ Last(as) \in Attempt /\ Made(Last(as)) /\ Opened(as, x)
  BY LatestInHand
<1>2. a \in Attempt
  BY <1>1, FinishedType
<1>3. a.kind = Last(as).kind /\ a.on = Last(as).on /\ Made(a) /\ a.proc = "none"
  BY <1>1 DEF Finished, Made, Opened, Attempt
<1>4. AttemptsBecome(t, bs) /\ Amends(as, Len(as), a, bs)
  BY <1>1, <1>2, SetAttemptIs
<1>5. /\ Kept(t, state[t], reason[t], bs, {})
      /\ Takes(state[t], bs, {}) => Takes(state[t], as, {x})
  <2> HIDE DEF as, bs, t, a
  <2> QED
    BY <1>1, <1>3, <1>4, StartFails
<1>6. StateBecomes(t, state[t], reason[t]) /\ Swap(s, x, {}) /\ x.next # "emitted"
  BY SameStateIs, Swaps DEF Begins
<1> HIDE DEF bs
<1> QED
  BY <1>4, <1>5, <1>6, Acts

LEMMA CommitKeeps ==
    ASSUME Solo, TypeOK, Inv, NEW s \in Supervisors, NEW x \in pass[s],
           x.op \in Starts, x.next = "commit",
           NEW to, to = IF x.op = "assign" THEN "ASSIGNED" ELSE "RUNNING", Commit(s, x, to)
    PROVE  Inv' /\ Slots' \subseteq Slots
<1> DEFINE t == x.task
           as == attempts[t]
<1>0. Begins(x)
  BY DEF Begins
<1>1. /\ x \in Item /\ t \in Tasks /\ as \in Seq(Attempt)
      /\ Kept(t, state[t], reason[t], as, {x})
  BY <1>0, LatestInHand
<1>2. Drop(s, x) /\ UNCHANGED attempts
  BY DEF Commit
<1>3. CASE state[t] = x.from
  <2>1. SetState(t, to, "none")
    BY <1>3 DEF Commit, Holds
  <2>2. StateBecomes(t, to, reason[t])
    BY <1>1, <2>1, SetStateIs
  <2>3. AttemptsBecome(t, as) /\ Swap(s, x, {})
    BY <1>2, SameAttempts, Swaps
  <2>4. Kept(t, to, reason[t], as, {}) /\ (Takes(to, as, {}) => Takes(state[t], as, {x}))
    BY <1>1, <1>3, Commits
  <2> HIDE DEF as
  <2> QED
    BY <2>2, <2>3, <2>4, Acts DEF as
<1>4. CASE state[t] # x.from
  <2>1. SameState
    BY <1>4 DEF Commit, Holds
  <2>2. state[t] \in {Expects(x), "CANCELLED"}
    BY <1>1, Free
  <2>3. state[t] = "CANCELLED"
    BY <1>4, <2>2 DEF Expects, Starts
  <2> QED
    BY <1>2, <2>1, <2>3, Drops
<1> QED
  BY <1>3, <1>4

LEMMA InsertIs ==
    ASSUME TypeOK, NEW t \in Tasks, NEW as \in Seq(Attempt), NEW a \in Attempt,
           attempts' = [attempts EXCEPT ![t] = Append(as, a)]
    PROVE  AttemptsBecome(t, attempts'[t]) /\ Grown(as, a, attempts'[t])
<1>1. Grown(as, a, Append(as, a))
  BY GrownIs
<1>2. attempts'[t] = Append(as, a) /\ \A u \in Tasks \ {t} : attempts'[u] = attempts[u]
  BY DEF TypeOK
<1> QED
  BY <1>1, <1>2 DEF AttemptsBecome

First(op) == IF op = "assign" THEN "publish" ELSE IF op = "spawn" THEN "launch" ELSE "send"

(* A start in hand is applied in the state it was listed for.              *)
LEMMA ListedFor ==
    ASSUME NEW t, NEW q, NEW r, NEW as, NEW x \in Item, Kept(t, q, r, as, {x}),
           x.op \in Starts, x.next = "emitted", q \in AppliesIn(x.op)
    PROVE  x.from = q /\ Lists(t, x)
<1>1. q \in {Expects(x), "CANCELLED"} /\ Lists(t, x)
  BY Free
<1> QED
  BY <1>1 DEF Expects, AppliesIn, Starts

(* A start begins: it inserts its attempt behind those of as.              *)
LEMMA Inserts ==
    ASSUME Solo, TypeOK, Inv, NEW s \in Supervisors, NEW x \in pass[s], Begun(s) = {},
           x.op \in Starts, x.next = "emitted", state[x.task] \in AppliesIn(x.op),
           NEW as \in Seq(Attempt), Len(as) = Len(attempts[x.task]),
           Kept(x.task, state[x.task], reason[x.task], as, {x}),
           Takes(state[x.task], as, {x}) => Takes(state[x.task], attempts[x.task], {x}),
           Tidy => \A i \in DOMAIN as : Local(as[i]) => Rest(as[i]),
           NEW m \in Machines, m = IF x.op = "delegate" THEN x.on ELSE Here,
           attempts' = [attempts EXCEPT ![x.task] =
                           Append(as, NewAttempt(KindOf(x.op), m, "none"))],
           Begin(s, x, First(x.op), Len(attempts[x.task]) + 1), SameState
    PROVE  Inv' /\ Slots' \subseteq Slots
<1> DEFINE t == x.task
           bs == attempts'[t]
           a == NewAttempt(KindOf(x.op), m, "none")
           y == Put(x, First(x.op), Len(attempts[x.task]) + 1, state[x.task])
<1>1. x \in Item /\ t \in Tasks
  BY HandIs
<1>2. KindOf(x.op) \in {"mailbox", "spawn", "remote"} /\ "none" \in Proc
  BY DEF KindOf, Proc
<1>3. a \in Attempt
  BY <1>2, NewAttemptType
<1>4. AttemptsBecome(t, bs) /\ Grown(as, a, bs)
  BY <1>1, <1>3, InsertIs
<1>5. Same(y, x) /\ y.next = First(x.op) /\ y.att = Len(attempts[x.task]) + 1 /\ y.from = state[t]
  BY <1>1, ItemFields
<1>6. x.from = state[t] /\ Lists(t, x)
  BY <1>1, ListedFor
<1>7. Begins(y) /\ Lists(t, y) /\ y.next \in {"publish", "launch", "send"} /\ y.task = t
  BY <1>5, <1>6 DEF Begins, Same, First, Lists, Starts
<1>8. /\ a.kind = KindOf(x.op) /\ a.on = m /\ a.proc = "none" /\ a.outcome = "open"
      /\ a.passed = 0 /\ ~a.failed
  BY DEF NewAttempt
<1>9. Made(a)
  BY <1>6, <1>8 DEF Made, KindOf, Lists, Starts
<1>10. /\ Kept(t, state[t], reason[t], bs, {y})
       /\ Takes(state[t], bs, {y}) => Takes(state[t], as, {x})
  <2> HIDE DEF bs, a, y, t
  <2>1. y.att = Len(as) + 1
    BY <1>5
  <2> QED
    <3>1. x.op \in Starts /\ x.next = "emitted" /\ state[t] \in AppliesIn(x.op) /\ x \in Item
      BY <1>1 DEF t
    <3>2. Kept(t, state[t], reason[t], as, {x})
      BY DEF t
    <3>3. Begins(y) /\ Same(y, x) /\ y.from = state[t] /\ y.att = Len(as) + 1 /\ Lists(t, y)
      BY <1>5, <1>7, <2>1
    <3>4. Grown(as, a, bs) /\ a.kind = KindOf(x.op) /\ Made(a) /\ a.proc = "none"
      BY <1>4, <1>8, <1>9
    <3> QED
      BY <1>7, <1>8, <3>1, <3>2, <3>3, <3>4, StartBegins
<1>11. StateBecomes(t, state[t], reason[t]) /\ Swap(s, x, {y})
  BY SameStateIs, Swaps
<1> HIDE DEF bs, y
<1> QED
  BY <1>4, <1>7, <1>10, <1>11, Acts

LEMMA AssignKeeps ==
    ASSUME Solo, TypeOK, Inv, NEW s \in Supervisors,
           AssignInsert(s) \/ Publish(s) \/ Stamp(s) \/ AssignCommit(s)
    PROVE  Inv' /\ Slots' \subseteq Slots
<1>1. CASE AssignInsert(s)
  <2>1. PICK x \in pass[s] :
            /\ x.op = "assign" /\ x.next = "emitted" /\ Begun(s) = {}
            /\ state[x.task] \in AppliesIn("assign")
            /\ InsertAttempt(x.task, NewAttempt("mailbox", Here, "none"))
            /\ Begin(s, x, "publish", LatestId(x.task) + 1)
            /\ SameState
    BY <1>1 DEF AssignInsert, ToApply
  <2> DEFINE t == x.task
             as == attempts[t]
  <2>2. /\ x \in Item /\ t \in Tasks /\ as \in Seq(Attempt)
        /\ Kept(t, state[t], reason[t], as, {x})
    BY HandIs
  <2>3. x.op \in Starts /\ state[t] \in AppliesIn(x.op) /\ state[t] = "PENDING"
    BY <2>1 DEF Starts, AppliesIn
  <2>4. Lists(t, x)
    BY <2>1, <2>2, <2>3, ListedFor
  <2>5. ASSUME Tidy, NEW i \in DOMAIN as, Local(as[i]), ~Rest(as[i])
        PROVE  FALSE
    <3>1. Held(t, state[t], Last(as))
      BY <2>1, <2>2, <2>3, <2>5, BeforeStart
    <3>2. ByRole(t)
      BY <2>1, <2>4 DEF Lists
    <3> QED
      BY <2>3, <2>5, <3>1, <3>2 DEF Held, Tidy, ByRole
  <2>6. Here \in Machines
    BY DEF Machines
  <2>7. attempts' = [attempts EXCEPT ![t] = Append(as, NewAttempt(KindOf(x.op), Here, "none"))]
    BY <2>1 DEF InsertAttempt, KindOf
  <2>8. Begin(s, x, First(x.op), Len(as) + 1)
    BY <2>1 DEF First, LatestId
  <2> QED
    BY <2>1, <2>2, <2>3, <2>5, <2>6, <2>7, <2>8, Inserts
<1>2. CASE Publish(s)
  <2>1. PICK x \in pass[s] :
            /\ x.op = "assign" /\ x.next = "publish"
            /\ \/ /\ SetAttempt(x.task, x.att, [attempts[x.task][x.att] EXCEPT !.proc = "pending"])
                  /\ Go(s, x, "stamp")
               \/ Drop(s, x) /\ UNCHANGED attempts
            /\ SameState
    BY <1>2 DEF Publish, At
  <2>2. Begins(x)
    BY <2>1 DEF Begins, Starts
  <2>3. /\ x.att \in DOMAIN attempts[x.task] /\ attempts[x.task][x.att] = Last(attempts[x.task])
        /\ Last(attempts[x.task]) \in Attempt /\ Made(Last(attempts[x.task]))
        /\ Opened(attempts[x.task], x)
    BY <2>2, LatestInHand
  <2>4. CASE Go(s, x, "stamp") /\
             SetAttempt(x.task, x.att, [attempts[x.task][x.att] EXCEPT !.proc = "pending"])
    <3> DEFINE o == attempts[x.task][x.att]
               a == [o EXCEPT !.proc = "pending"]
    <3>1. o \in Attempt /\ o.kind = "mailbox" /\ Made(o) /\ ~o.failed /\ o.passed = 0
      BY <2>1, <2>3 DEF Opened, KindOf
    <3>2. /\ a \in Attempt /\ a.kind = o.kind /\ a.on = o.on /\ a.outcome = o.outcome
          /\ a.passed = o.passed /\ a.failed = o.failed /\ a.proc = "pending"
      <4>1. "pending" \in Proc
        BY DEF Proc
      <4> QED
        BY <3>1, <4>1, AttemptFields
    <3>3. Made(a) /\ ~OnPeer(a)
      BY <3>1, <3>2 DEF Made, OnPeer
    <3>4. "stamp" \in Follows(x.op)
      BY <2>1 DEF Follows
    <3> QED
      BY <2>1, <2>2, <2>4, <3>2, <3>3, <3>4, Goes
  <2>5. CASE Drop(s, x) /\ UNCHANGED attempts
    <3>1. Rest(Last(attempts[x.task]))
      BY <2>1, <2>3 DEF Opened, Rest
    <3> QED
      BY <2>1, <2>5, <3>1, Drops
  <2> QED
    BY <2>1, <2>4, <2>5
<1>3. CASE Stamp(s)
  <2>1. PICK x \in pass[s] :
            /\ x.op = "assign" /\ x.next = "stamp"
            /\ SetAttempt(x.task, x.att, [attempts[x.task][x.att] EXCEPT !.recorded = TRUE])
            /\ Go(s, x, "commit") /\ SameState
    BY <1>3 DEF Stamp, At
  <2>2. Begins(x) /\ "commit" \in Follows(x.op)
    BY <2>1 DEF Begins, Starts, Follows
  <2>3. /\ attempts[x.task][x.att] = Last(attempts[x.task])
        /\ Last(attempts[x.task]) \in Attempt /\ Made(Last(attempts[x.task]))
        /\ Opened(attempts[x.task], x)
    BY <2>2, LatestInHand
  <2> DEFINE o == attempts[x.task][x.att]
             a == [o EXCEPT !.recorded = TRUE]
  <2>4. o \in Attempt /\ Made(o) /\ o.proc # "none"
    BY <2>1, <2>3 DEF Opened
  <2>5. /\ a \in Attempt /\ a.kind = o.kind /\ a.on = o.on /\ a.outcome = o.outcome
        /\ a.passed = o.passed /\ a.failed = o.failed /\ a.proc = o.proc /\ a.recorded = TRUE
    BY <2>4, AmendAttempt DEF Attempt
  <2>6. Made(a) /\ (OnPeer(a) => OnPeer(o))
    BY <2>4, <2>5 DEF Made, OnPeer
  <2> QED
    BY <2>1, <2>2, <2>4, <2>5, <2>6, Goes
<1>4. CASE AssignCommit(s)
  <2>1. PICK x \in pass[s] : x.op = "assign" /\ x.next = "commit" /\ Commit(s, x, "ASSIGNED")
    BY <1>4 DEF AssignCommit, At
  <2> QED
    BY <2>1, CommitKeeps DEF Starts
<1> QED
  BY <1>1, <1>2, <1>3, <1>4

LEMMA DelegateKeeps ==
    ASSUME Solo, TypeOK, Inv, NEW s \in Supervisors,
           DelegateInsert(s) \/ Send(s) \/ DelegateCommit(s)
    PROVE  Inv' /\ Slots' \subseteq Slots
<1>1. CASE DelegateInsert(s)
  <2>1. PICK x \in pass[s] :
            /\ x.op = "delegate" /\ x.next = "emitted" /\ Begun(s) = {}
            /\ state[x.task] \in AppliesIn("delegate")
            /\ InsertAttempt(x.task, NewAttempt("remote", x.on, "none"))
            /\ Begin(s, x, "send", LatestId(x.task) + 1)
            /\ SameState
    BY <1>1 DEF DelegateInsert, ToApply
  <2> DEFINE t == x.task
             as == attempts[t]
  <2>2. /\ x \in Item /\ t \in Tasks /\ as \in Seq(Attempt)
        /\ Kept(t, state[t], reason[t], as, {x})
    BY HandIs
  <2>3. x.op \in Starts /\ state[t] \in AppliesIn(x.op) /\ state[t] # "ASSIGNED"
    BY <2>1 DEF Starts, AppliesIn
  <2>4. x.on \in Peers
    <3>1. Lists(t, x)
      BY <2>1, <2>2, <2>3, ListedFor
    <3> QED
      BY <2>1, <3>1 DEF Lists
  <2>5. ASSUME Tidy, NEW i \in DOMAIN as, Local(as[i]), ~Rest(as[i])
        PROVE  FALSE
    <3>1. Held(t, state[t], Last(as))
      BY <2>1, <2>2, <2>3, <2>5, BeforeStart
    <3> QED
      BY <2>3, <2>4, <2>5, <3>1 DEF Held, Tidy
  <2>6. x.on \in Machines
    BY <2>4 DEF Machines
  <2>7. attempts' = [attempts EXCEPT ![t] = Append(as, NewAttempt(KindOf(x.op), x.on, "none"))]
    BY <2>1 DEF InsertAttempt, KindOf
  <2>8. Begin(s, x, First(x.op), Len(as) + 1)
    BY <2>1 DEF First, LatestId
  <2> QED
    BY <2>1, <2>2, <2>3, <2>5, <2>6, <2>7, <2>8, Inserts
<1>2. CASE Send(s)
  <2>1. PICK x \in pass[s] :
            /\ x.op = "delegate" /\ x.next = "send"
            /\ \/ /\ SetAttempt(x.task, x.att, [attempts[x.task][x.att] EXCEPT !.proc = "sent"])
                  /\ Go(s, x, "commit")
               \/ /\ SetAttempt(x.task, x.att, Finished(attempts[x.task][x.att], "delegate_failed"))
                  /\ Drop(s, x)
            /\ SameState
    BY <1>2 DEF Send, At
  <2>2. Begins(x)
    BY <2>1 DEF Begins, Starts
  <2>3. /\ attempts[x.task][x.att] = Last(attempts[x.task])
        /\ Last(attempts[x.task]) \in Attempt /\ Made(Last(attempts[x.task]))
        /\ Opened(attempts[x.task], x)
    BY <2>2, LatestInHand
  <2>4. CASE Go(s, x, "commit") /\
             SetAttempt(x.task, x.att, [attempts[x.task][x.att] EXCEPT !.proc = "sent"])
    <3> DEFINE o == attempts[x.task][x.att]
               a == [o EXCEPT !.proc = "sent"]
    <3>1. o \in Attempt /\ o.kind = "remote" /\ Made(o) /\ ~o.failed /\ o.passed = 0
      BY <2>1, <2>3 DEF Opened, KindOf
    <3>2. /\ a \in Attempt /\ a.kind = o.kind /\ a.on = o.on /\ a.outcome = o.outcome
          /\ a.passed = o.passed /\ a.failed = o.failed /\ a.proc = "sent"
      <4>1. "sent" \in Proc
        BY DEF Proc
      <4> QED
        BY <3>1, <4>1, AttemptFields
    <3>3. Made(a) /\ ~OnPeer(a)
      BY <3>1, <3>2 DEF Made, OnPeer
    <3>4. "commit" \in Follows(x.op)
      BY <2>1 DEF Follows
    <3> QED
      BY <2>1, <2>2, <2>4, <3>2, <3>3, <3>4, Goes
  <2>5. CASE Drop(s, x) /\
             SetAttempt(x.task, x.att, Finished(attempts[x.task][x.att], "delegate_failed"))
    BY <2>1, <2>2, <2>5, Fails DEF Outcome
  <2> QED
    BY <2>1, <2>4, <2>5
<1>3. CASE DelegateCommit(s)
  <2>1. PICK x \in pass[s] : x.op = "delegate" /\ x.next = "commit" /\ Commit(s, x, "RUNNING")
    BY <1>3 DEF DelegateCommit, At
  <2> QED
    BY <2>1, CommitKeeps DEF Starts
<1> QED
  BY <1>1, <1>2, <1>3

LEMMA LatestStamped ==
    ASSUME NEW t \in Tasks, attempts[t] \in Seq(Attempt), Len(attempts[t]) > 0,
           Last(attempts[t]).kind = "mailbox", Last(attempts[t]).recorded
    PROVE  Stamped(t) # {} /\ LatestMessage(t) = Len(attempts[t])
<1> DEFINE n == Len(attempts[t])
<1>1. n \in Nat /\ DOMAIN attempts[t] = 1..n /\ n \in DOMAIN attempts[t]
  BY SeqFacts
<1>2. n \in Stamped(t)
  BY <1>1 DEF Stamped, Last
<1>3. \A j \in Stamped(t) : j \in 1..n /\ j <= n
  BY <1>1 DEF Stamped
<1>4. \A m \in Stamped(t) : (\A j \in Stamped(t) : j <= m) => m = n
  <2> TAKE m \in Stamped(t)
  <2> HAVE \A j \in Stamped(t) : j <= m
  <2> HIDE DEF n
  <2>1. n <= m /\ m <= n /\ m \in 1..n
    BY <1>2, <1>3
  <2> QED
    BY <1>1, <2>1
<1>5. \E m \in Stamped(t) : \A j \in Stamped(t) : j <= m
  BY <1>2, <1>3
<1>6. LatestMessage(t) \in Stamped(t) /\ \A j \in Stamped(t) : j <= LatestMessage(t)
  BY <1>5 DEF LatestMessage
<1> QED
  BY <1>2, <1>4, <1>6

(* Naming a place a sequence does not have changes nothing.                *)
LEMMA AmendNothing ==
    ASSUME NEW as \in Seq(Attempt), NEW i, i \notin DOMAIN as, NEW a
    PROVE  [as EXCEPT ![i] = a] = as
<1>1. as \in [1..Len(as) -> Attempt]
  BY LenProperties
<1> QED
  BY <1>1

(* Taking the message back withdraws one that was pending, or does nothing.*)
LEMMA TakesBack ==
    ASSUME TypeOK, NEW t \in Tasks, \A i \in DOMAIN attempts[t] : Made(attempts[t][i])
    PROVE  \/ /\ TakenBack(t) = attempts[t]
              /\ LatestMessage(t) \in DOMAIN attempts[t] =>
                    ~(state[t] = "ASSIGNED" /\ Stamped(t) # {}
                      /\ attempts[t][LatestMessage(t)].proc = "pending")
           \/ \E b : /\ Amends(attempts[t], LatestMessage(t), b, TakenBack(t))
                     /\ Stirred(attempts[t][LatestMessage(t)], b) /\ Made(b) /\ ~OnPeer(b)
                     /\ b.proc = "withdrawn"
<1> DEFINE as == attempts[t]
           m == LatestMessage(t)
           b == [as[m] EXCEPT !.proc = "withdrawn"]
           pending == state[t] = "ASSIGNED" /\ Stamped(t) # {} /\ as[m].proc = "pending"
<1>1. as \in Seq(Attempt)
  BY DEF TypeOK
<1>2. TakenBack(t) = IF pending THEN [as EXCEPT ![m] = b] ELSE as
  BY DEF TakenBack
<1>3. CASE ~pending
  BY <1>2, <1>3
<1>4. CASE m \notin DOMAIN as
  <2>1. [as EXCEPT ![m] = b] = as
    BY <1>1, <1>4, AmendNothing
  <2> QED
    BY <1>2, <1>4, <2>1
<1>5. CASE pending /\ m \in DOMAIN as
  <2>1. as[m] \in Attempt /\ Made(as[m]) /\ as[m].proc = "pending"
    BY <1>1, <1>5, SeqFacts
  <2>2. "withdrawn" \in Proc
    BY DEF Proc
  <2>3. /\ b \in Attempt /\ b.kind = as[m].kind /\ b.on = as[m].on /\ b.recorded = as[m].recorded
        /\ b.outcome = as[m].outcome /\ b.passed = as[m].passed /\ b.failed = as[m].failed
        /\ b.proc = "withdrawn"
    BY <2>1, <2>2, AttemptFields
  <2>4. as[m].kind = "mailbox"
    BY <2>1 DEF Made, Attempt
  <2>5. Stirred(as[m], b) /\ ~OnPeer(b)
    BY <2>1, <2>3, <2>4 DEF Stirred, OnPeer
  <2>6. Made(b)
    BY <2>1, <2>3, <2>4 DEF Made
  <2>7. Amends(as, m, b, [as EXCEPT ![m] = b])
    BY <1>1, <1>5, <2>3, AmendsIs
  <2>8. Amends(as, m, b, TakenBack(t))
    BY <1>2, <1>5, <2>7
  <2> HIDE DEF b
  <2> QED
    BY <2>3, <2>5, <2>6, <2>8
<1> QED
  BY <1>3, <1>4, <1>5

(* Before a spawn inserts its attempt, nothing here is at work on the task *)
(* any more, and no message of it waits.                                   *)
LEMMA Clears ==
    ASSUME TypeOK, NEW t \in Tasks, NEW r, NEW x \in Item,
           Kept(t, state[t], r, attempts[t], {x}),
           x.op = "spawn", x.next = "emitted", state[t] \in AppliesIn(x.op),
           ~Adoptable(t), ~Lost(t)
    PROVE  /\ TakenBack(t) \in Seq(Attempt) /\ Len(TakenBack(t)) = Len(attempts[t])
           /\ Kept(t, state[t], r, TakenBack(t), {x})
           /\ Takes(state[t], TakenBack(t), {x}) => Takes(state[t], attempts[t], {x})
           /\ Tidy => \A i \in DOMAIN TakenBack(t) : Local(TakenBack(t)[i]) => Rest(TakenBack(t)[i])
<1> DEFINE as == attempts[t]
           bs == TakenBack(t)
           m == LatestMessage(t)
<1>1. as \in Seq(Attempt)
  BY DEF TypeOK
<1>2. \A i \in DOMAIN as : Made(as[i])
  BY Free
<1>3. ASSUME Tidy, NEW i \in DOMAIN as, Local(as[i]), ~Rest(as[i])
      PROVE  /\ i = Len(as) /\ i = m /\ state[t] = "ASSIGNED" /\ Stamped(t) # {}
             /\ as[m].proc = "pending"
  <2>1. i = Len(as) /\ as[i] = Last(as) /\ Held(t, state[t], Last(as))
    BY <1>1, <1>3, BeforeStart DEF Starts
  <2>2. Len(as) > 0 /\ Made(Last(as)) /\ Last(as) \in Attempt
    BY <1>1, <1>2, <2>1, SeqFacts, Counts
  <2>3. Last(as).kind # "spawn"
    <3> SUFFICES ASSUME Last(as).kind = "spawn"
                 PROVE  FALSE
      OBVIOUS
    <3>1. Last(as).proc = "live" /\ Last(as).outcome = "open" /\ Last(as).recorded
      BY <1>3, <2>1, <2>2 DEF Made, Rest, Held
    <3>2. HasAttempt(t)
      BY <2>2, SomeAttempt DEF TypeOK
    <3>3. Latest(t) = Last(as)
      BY DEF Latest, LatestId, Last
    <3> QED
      BY <3>1, <3>2, <3>3 DEF Adoptable
  <2>4. Last(as).kind = "mailbox" /\ Last(as).recorded /\ state[t] = "ASSIGNED"
    BY <2>1, <2>3 DEF Held
  <2>5. Stamped(t) # {} /\ m = Len(as)
    BY <1>1, <2>2, <2>4, LatestStamped
  <2>6. as[m] = Last(as) /\ as[m].proc # "delivered"
    BY <2>4, <2>5 DEF Lost, Drained, Last
  <2>7. as[m].proc = "pending"
    BY <1>3, <2>1, <2>2, <2>4, <2>6 DEF Made, Rest
  <2> QED
    BY <2>1, <2>4, <2>5, <2>7
<1>4. CASE bs = as /\ (m \in DOMAIN as =>
              ~(state[t] = "ASSIGNED" /\ Stamped(t) # {} /\ as[m].proc = "pending"))
  <2>1. Tidy => \A i \in DOMAIN as : Local(as[i]) => Rest(as[i])
    BY <1>3, <1>4
  <2> HIDE DEF bs, as
  <2>2. Kept(t, state[t], r, as, {x})
    BY DEF as
  <2> QED
    BY <1>1, <1>4, <2>1, <2>2 DEF bs, as
<1>5. ASSUME NEW b, Amends(as, m, b, bs), Stirred(as[m], b), Made(b), ~OnPeer(b),
             b.proc = "withdrawn"
      PROVE  /\ bs \in Seq(Attempt) /\ Len(bs) = Len(as)
             /\ Kept(t, state[t], r, bs, {x})
             /\ Takes(state[t], bs, {x}) => Takes(state[t], as, {x})
             /\ Tidy => \A i \in DOMAIN bs : Local(bs[i]) => Rest(bs[i])
  <2> HIDE DEF bs
  <2>1. /\ bs \in Seq(Attempt) /\ Len(bs) = Len(as) /\ DOMAIN bs = DOMAIN as /\ bs[m] = b
        /\ \A j \in DOMAIN as : j # m => bs[j] = as[j]
    BY <1>5 DEF Amends
  <2>2. Sound(t, state[t], r, bs, {x})
    BY <1>1, <1>5, StirSound DEF Kept
  <2>3. Tidy => Quiet(t, state[t], r, bs, {x})
    BY <1>1, <1>5, StirQuiet DEF Kept
  <2>4. Takes(state[t], bs, {x}) => Takes(state[t], as, {x})
    <3>1. b.kind = as[m].kind
      BY <1>5 DEF Stirred
    <3> QED
      BY <1>1, <1>5, <3>1, StirTakes
  <2>5. ASSUME Tidy, NEW i \in DOMAIN bs, Local(bs[i]), ~Rest(bs[i])
        PROVE  FALSE
    <3>1. i # m
      BY <1>5, <2>1, <2>5 DEF Rest
    <3>2. bs[i] = as[i] /\ i \in DOMAIN as
      BY <2>1, <2>5, <3>1
    <3> QED
      BY <1>3, <2>5, <3>1, <3>2
  <2> QED
    BY <2>1, <2>2, <2>3, <2>4, <2>5 DEF Kept
<1> QED
  BY <1>2, <1>4, <1>5, TakesBack

LEMMA SpawnKeeps ==
    ASSUME Solo, TypeOK, Inv, NEW s \in Supervisors,
           \/ Adopt(s) \/ SpawnLost(s) \/ SpawnInsert(s)
           \/ Launch(s) \/ RecordPid(s) \/ SpawnCommit(s)
    PROVE  Inv' /\ Slots' \subseteq Slots
<1>1. CASE Adopt(s)
  <2>1. PICK x \in pass[s] :
            /\ x.op = "spawn" /\ x.next = "emitted" /\ Begun(s) = {}
            /\ state[x.task] \in AppliesIn(x.op) /\ Adoptable(x.task)
            /\ Begin(s, x, "commit", LatestId(x.task))
            /\ SameState /\ UNCHANGED attempts
    BY <1>1 DEF Adopt, ToApply
  <2> DEFINE t == x.task
             as == attempts[t]
             y == Put(x, "commit", LatestId(t), state[t])
  <2>2. /\ x \in Item /\ t \in Tasks /\ as \in Seq(Attempt)
        /\ Kept(t, state[t], reason[t], as, {x})
    BY HandIs
  <2>3. Len(as) > 0
    BY <2>1, <2>2, SomeAttempt DEF Adoptable, TypeOK
  <2>4. /\ Last(as).kind = "spawn" /\ Last(as).outcome = "open" /\ Last(as).recorded
        /\ Last(as).proc = "live"
    BY <2>1 DEF Adoptable, Latest, LatestId, Last
  <2>5. /\ Same(y, x) /\ y.next = "commit" /\ y.from = state[t] /\ y.att = Len(as)
    BY <2>2, ItemFields DEF LatestId
  <2>6. y.task = t
    BY <2>5 DEF Same
  <2>7. StateBecomes(t, state[t], reason[t]) /\ AttemptsBecome(t, as) /\ Swap(s, x, {y})
    BY <2>1, SameStateIs, SameAttempts, Swaps
  <2> HIDE DEF y
  <2>8. /\ Kept(t, state[t], reason[t], as, {y})
        /\ Takes(state[t], as, {y}) => Takes(state[t], as, {x})
    BY <2>1, <2>2, <2>3, <2>4, <2>5, Adopts
  <2> QED
    BY <2>1, <2>6, <2>7, <2>8, Acts
<1>2. CASE SpawnLost(s)
  <2>1. PICK x \in pass[s] :
            /\ x.next = "emitted" /\ Begun(s) = {}
            /\ Drop(s, x) /\ SameState /\ UNCHANGED attempts
    BY <1>2 DEF SpawnLost, ToApply
  <2> QED
    BY <2>1, Drops DEF Begins
<1>3. CASE SpawnInsert(s)
  <2>1. PICK x \in pass[s] :
            /\ x.op = "spawn" /\ x.next = "emitted" /\ Begun(s) = {}
            /\ state[x.task] \in AppliesIn(x.op)
            /\ ~Adoptable(x.task) /\ ~Lost(x.task)
            /\ \/ /\ attempts' = [attempts EXCEPT ![x.task] =
                                     Append(TakenBack(x.task), NewAttempt("spawn", Here, "none"))]
                  /\ Begin(s, x, "launch", LatestId(x.task) + 1)
               \/ /\ attempts' = [attempts EXCEPT ![x.task] = TakenBack(x.task)]
                  /\ Drop(s, x)
            /\ SameState
    BY <1>3 DEF SpawnInsert, ToApply
  <2> DEFINE t == x.task
             bs == TakenBack(t)
  <2>2. /\ x \in Item /\ t \in Tasks /\ attempts[t] \in Seq(Attempt)
        /\ Kept(t, state[t], reason[t], attempts[t], {x})
    BY HandIs
  <2>3. /\ bs \in Seq(Attempt) /\ Len(bs) = Len(attempts[t])
        /\ Kept(t, state[t], reason[t], bs, {x})
        /\ Takes(state[t], bs, {x}) => Takes(state[t], attempts[t], {x})
        /\ Tidy => \A i \in DOMAIN bs : Local(bs[i]) => Rest(bs[i])
    BY <2>1, <2>2, Clears
  <2>4. ASSUME attempts' = [attempts EXCEPT ![t] = Append(bs, NewAttempt("spawn", Here, "none"))],
               Begin(s, x, "launch", LatestId(t) + 1)
        PROVE  Inv' /\ Slots' \subseteq Slots
    <3>1. Here \in Machines /\ x.op \in Starts
      BY <2>1 DEF Machines, Starts
    <3>2. attempts' = [attempts EXCEPT ![t] = Append(bs, NewAttempt(KindOf(x.op), Here, "none"))]
      BY <2>1, <2>4 DEF KindOf
    <3>3. Begin(s, x, First(x.op), Len(attempts[t]) + 1)
      BY <2>1, <2>4 DEF First, LatestId
    <3> HIDE DEF bs
    <3> QED
      BY <2>1, <2>3, <3>1, <3>2, <3>3, Inserts
  <2>5. ASSUME attempts' = [attempts EXCEPT ![t] = bs], Drop(s, x)
        PROVE  Inv' /\ Slots' \subseteq Slots
    <3>1. AttemptsBecome(t, bs)
      BY <2>2, <2>5 DEF AttemptsBecome, TypeOK
    <3>2. StateBecomes(t, state[t], reason[t]) /\ Swap(s, x, {})
      BY <2>1, <2>5, SameStateIs, Swaps
    <3>3. ~Begins(x)
      BY <2>1 DEF Begins
    <3> HIDE DEF bs
    <3>4. /\ Kept(t, state[t], reason[t], bs, {})
          /\ Takes(state[t], bs, {}) => Takes(state[t], bs, {x})
      BY <2>2, <2>3, <3>3, LetGo
    <3> QED
      BY <2>1, <2>3, <3>1, <3>2, <3>4, Acts
  <2> QED
    BY <2>1, <2>4, <2>5
<1>4. CASE Launch(s)
  <2>1. PICK x \in pass[s] :
            /\ x.op = "spawn" /\ x.next = "launch"
            /\ \/ /\ SetAttempt(x.task, x.att, [attempts[x.task][x.att] EXCEPT !.proc = "live"])
                  /\ Go(s, x, "record")
               \/ /\ SetAttempt(x.task, x.att, Finished(attempts[x.task][x.att], "spawn_failed"))
                  /\ Drop(s, x)
            /\ SameState
    BY <1>4 DEF Launch, At
  <2>2. Begins(x)
    BY <2>1 DEF Begins, Starts
  <2>3. /\ attempts[x.task][x.att] = Last(attempts[x.task])
        /\ Last(attempts[x.task]) \in Attempt /\ Made(Last(attempts[x.task]))
        /\ Opened(attempts[x.task], x)
    BY <2>2, LatestInHand
  <2>4. CASE Go(s, x, "record") /\
             SetAttempt(x.task, x.att, [attempts[x.task][x.att] EXCEPT !.proc = "live"])
    <3> DEFINE o == attempts[x.task][x.att]
               a == [o EXCEPT !.proc = "live"]
    <3>1. o \in Attempt /\ o.kind = "spawn" /\ Made(o) /\ ~o.failed /\ o.passed = 0
      BY <2>1, <2>3 DEF Opened, KindOf
    <3>2. /\ a \in Attempt /\ a.kind = o.kind /\ a.on = o.on /\ a.outcome = o.outcome
          /\ a.passed = o.passed /\ a.failed = o.failed /\ a.proc = "live"
      <4>1. "live" \in Proc
        BY DEF Proc
      <4> QED
        BY <3>1, <4>1, AttemptFields
    <3>3. Made(a) /\ ~OnPeer(a)
      BY <3>1, <3>2 DEF Made, OnPeer
    <3>4. "record" \in Follows(x.op)
      BY <2>1 DEF Follows
    <3> QED
      BY <2>1, <2>2, <2>4, <3>2, <3>3, <3>4, Goes
  <2>5. CASE Drop(s, x) /\
             SetAttempt(x.task, x.att, Finished(attempts[x.task][x.att], "spawn_failed"))
    BY <2>1, <2>2, <2>5, Fails DEF Outcome
  <2> QED
    BY <2>1, <2>4, <2>5
<1>5. CASE RecordPid(s)
  <2>1. PICK x \in pass[s] :
            /\ x.op = "spawn" /\ x.next = "record"
            /\ SetAttempt(x.task, x.att, [attempts[x.task][x.att] EXCEPT !.recorded = TRUE])
            /\ Go(s, x, "commit") /\ SameState
    BY <1>5 DEF RecordPid, At
  <2>2. Begins(x) /\ "commit" \in Follows(x.op)
    BY <2>1 DEF Begins, Starts, Follows
  <2>3. /\ attempts[x.task][x.att] = Last(attempts[x.task])
        /\ Last(attempts[x.task]) \in Attempt /\ Made(Last(attempts[x.task]))
        /\ Opened(attempts[x.task], x)
    BY <2>2, LatestInHand
  <2> DEFINE o == attempts[x.task][x.att]
             a == [o EXCEPT !.recorded = TRUE]
  <2>4. o \in Attempt /\ Made(o) /\ o.proc # "none"
    BY <2>1, <2>3 DEF Opened
  <2>5. /\ a \in Attempt /\ a.kind = o.kind /\ a.on = o.on /\ a.outcome = o.outcome
        /\ a.passed = o.passed /\ a.failed = o.failed /\ a.proc = o.proc /\ a.recorded = TRUE
    BY <2>4, AmendAttempt DEF Attempt
  <2>6. Made(a) /\ (OnPeer(a) => OnPeer(o))
    BY <2>4, <2>5 DEF Made, OnPeer
  <2> QED
    BY <2>1, <2>2, <2>4, <2>5, <2>6, Goes
<1>6. CASE SpawnCommit(s)
  <2>1. PICK x \in pass[s] : x.op = "spawn" /\ x.next = "commit" /\ Commit(s, x, "RUNNING")
    BY <1>6 DEF SpawnCommit, At
  <2> QED
    BY <2>1, CommitKeeps DEF Starts
<1> QED
  BY <1>1, <1>2, <1>3, <1>4, <1>5, <1>6

(* A verification acts on the latest attempt.                              *)
LEMMA VerifyInHand ==
    ASSUME Solo, TypeOK, Inv, NEW s \in Supervisors, NEW x \in pass[s], x.op = "verify"
    PROVE  /\ x \in Item /\ x.task \in Tasks /\ attempts[x.task] \in Seq(Attempt)
           /\ Kept(x.task, state[x.task], reason[x.task], attempts[x.task], {x})
           /\ x.att = Len(attempts[x.task]) /\ x.att \in DOMAIN attempts[x.task]
           /\ attempts[x.task][x.att] = Last(attempts[x.task])
           /\ Last(attempts[x.task]) \in Attempt /\ Made(Last(attempts[x.task]))
           /\ Judged(attempts[x.task], x)
           /\ state[x.task] \in {Expects(x), "CANCELLED"} /\ x.from = "RUNNING"
           /\ Stands(x.task, state[x.task], attempts[x.task])
<1> DEFINE t == x.task
<1>1. /\ x \in Item /\ t \in Tasks /\ attempts[t] \in Seq(Attempt)
      /\ Kept(t, state[t], reason[t], attempts[t], {x})
  BY HandIs
<1>2. /\ Fits(attempts[t], x) /\ Lists(t, x) /\ state[t] \in {Expects(x), "CANCELLED"}
      /\ Stands(t, state[t], attempts[t])
      /\ \A i \in DOMAIN attempts[t] : Made(attempts[t][i])
  BY <1>1, Free
<1>3. Judged(attempts[t], x) /\ x.from = "RUNNING"
  BY <1>2 DEF Fits, Lists
<1>4. x.att = Len(attempts[t]) /\ Len(attempts[t]) > 0
  BY <1>3 DEF Judged
<1>5. x.att \in DOMAIN attempts[t] /\ Last(attempts[t]) \in Attempt
  BY <1>1, <1>4, SeqFacts
<1>6. attempts[t][x.att] = Last(attempts[t]) /\ Made(Last(attempts[t]))
  BY <1>2, <1>4, <1>5 DEF Last
<1> QED
  BY <1>1, <1>2, <1>3, <1>4, <1>5, <1>6

LEMMA CloseKeeps ==
    ASSUME Solo, TypeOK, Inv, NEW s \in Supervisors, CloseCompleted(s)
    PROVE  Inv' /\ Slots' \subseteq Slots
<1>1. PICK x \in pass[s] :
          /\ x.op = "verify" /\ x.next = "emitted" /\ Begun(s) = {}
          /\ state[x.task] \in AppliesIn("verify")
          /\ IF state[x.task] = "RUNNING"
             THEN SetAttempt(x.task, x.att, Finished(attempts[x.task][x.att], "completed"))
             ELSE UNCHANGED attempts
          /\ Begin(s, x, IF state[x.task] = "RUNNING" THEN "verifying" ELSE "verdict", x.att)
          /\ SameState
  BY DEF CloseCompleted, ToApply
<1> DEFINE t == x.task
           as == attempts[t]
           bs == attempts'[t]
           o == as[x.att]
           a == Finished(o, "completed")
           y == Put(x, "verifying", x.att, state[t])
<1>2. /\ x \in Item /\ t \in Tasks /\ as \in Seq(Attempt)
      /\ Kept(t, state[t], reason[t], as, {x})
      /\ x.att = Len(as) /\ x.att \in DOMAIN as /\ o = Last(as)
      /\ o \in Attempt /\ Made(o) /\ Judged(as, x)
      /\ state[t] \in {Expects(x), "CANCELLED"} /\ x.from = "RUNNING"
      /\ Stands(t, state[t], as)
  BY <1>1, VerifyInHand
<1>3. state[t] = "RUNNING"
  BY <1>1, <1>2 DEF AppliesIn, Expects
<1>4. SetAttempt(t, x.att, a) /\ Begin(s, x, "verifying", x.att)
  BY <1>1, <1>3
<1>5. /\ a \in Attempt /\ a.kind = o.kind /\ a.on = o.on /\ a.recorded = o.recorded
      /\ a.passed = o.passed /\ a.failed = o.failed /\ a.proc = o.proc
  <2>1. "completed" \in Outcome
    BY DEF Outcome
  <2> QED
    BY <1>2, <2>1, AttemptFields
<1>6. Made(a) /\ a.proc = "ok" /\ a.passed = x.n /\ ~a.failed
  BY <1>2, <1>5 DEF Made, Judged
<1>7. a.passed = 0
  BY <1>2, <1>3, <1>5 DEF Stands
<1>8. AttemptsBecome(t, bs) /\ Amends(as, Len(as), a, bs)
  BY <1>2, <1>4, <1>5, SetAttemptIs
<1>9. /\ Same(y, x) /\ y.next = "verifying" /\ y.from = x.from /\ y.att = x.att /\ y.n = x.n
      /\ y.task = t
  <2>1. Same(y, x) /\ y.next = "verifying" /\ y.from = state[t] /\ y.att = x.att /\ y.n = x.n
    BY <1>2, ItemFields
  <2> QED
    BY <1>2, <1>3, <2>1 DEF Same
<1>10. /\ Kept(t, state[t], reason[t], bs, {y})
       /\ Takes(state[t], bs, {y}) => Takes(state[t], as, {x})
  <2> HIDE DEF bs, a, y, as, t, o
  <2>1. a.kind = Last(as).kind /\ a.on = Last(as).on /\ a.recorded = Last(as).recorded
    BY <1>2, <1>5
  <2>2. a.passed = y.n /\ (x.next = "verdict" <=> y.next = "verdict")
    BY <1>1, <1>6, <1>9
  <2> QED
    BY <1>1, <1>2, <1>6, <1>7, <1>8, <1>9, <2>1, <2>2, VerifyGoes
<1>11. StateBecomes(t, state[t], reason[t]) /\ Swap(s, x, {y})
  BY <1>1, <1>4, SameStateIs, Swaps
<1> HIDE DEF bs, y, a
<1> QED
  BY <1>1, <1>8, <1>9, <1>10, <1>11, Acts

LEMMA StartVerifyingKeeps ==
    ASSUME Solo, TypeOK, Inv, NEW s \in Supervisors, StartVerifying(s)
    PROVE  Inv' /\ Slots' \subseteq Slots
<1>1. PICK x \in pass[s] :
          /\ x.op = "verify" /\ x.next = "verifying"
          /\ IF Holds(x.task, "RUNNING")
             THEN SetState(x.task, "VERIFYING", "none") /\ Go(s, x, "verdict")
             ELSE SameState /\ Drop(s, x)
          /\ UNCHANGED attempts
  BY DEF StartVerifying, At
<1> DEFINE t == x.task
           as == attempts[t]
           y == Gone(x, "verdict")
<1>2. /\ x \in Item /\ t \in Tasks /\ as \in Seq(Attempt)
      /\ Kept(t, state[t], reason[t], as, {x})
  BY <1>1, VerifyInHand
<1>3. CASE state[t] = "RUNNING"
  <2>1. SetState(t, "VERIFYING", "none") /\ Go(s, x, "verdict")
    BY <1>1, <1>3 DEF Holds
  <2>2. StateBecomes(t, "VERIFYING", reason[t]) /\ AttemptsBecome(t, as) /\ Swap(s, x, {y})
    BY <1>1, <1>2, <2>1, SetStateIs, SameAttempts, Swaps
  <2>3. /\ Same(y, x) /\ y.next = "verdict" /\ y.from = x.from /\ y.att = x.att /\ y.n = x.n
    BY <1>2, ItemFields
  <2>4. y.task = t
    BY <2>3 DEF Same
  <2> HIDE DEF y
  <2>5. Kept(t, "VERIFYING", reason[t], as, {y}) /\ ~Takes("VERIFYING", as, {y})
    BY <1>1, <1>2, <1>3, <2>3, VerifyStarts
  <2> QED
    BY <1>1, <2>2, <2>4, <2>5, Acts
<1>4. CASE state[t] # "RUNNING"
  <2>1. SameState /\ Drop(s, x)
    BY <1>1, <1>4 DEF Holds
  <2>2. ~Begins(x)
    BY <1>1 DEF Begins, Starts
  <2> QED
    BY <1>1, <2>1, <2>2, Drops
<1> QED
  BY <1>3, <1>4

LEMMA VerdictPassKeeps ==
    ASSUME Solo, TypeOK, Inv, NEW s \in Supervisors, VerdictPass(s)
    PROVE  Inv' /\ Slots' \subseteq Slots
<1>1. PICK x \in pass[s] :
          /\ x.op = "verify" /\ x.next = "verdict"
          /\ SetAttempt(x.task, x.att, [attempts[x.task][x.att] EXCEPT !.passed = @ + 1])
          /\ pass' = [pass EXCEPT ![s] = (@ \ {x}) \cup {[x EXCEPT !.n = @ + 1]}]
          /\ SameState
  BY DEF VerdictPass, At
<1> DEFINE t == x.task
           as == attempts[t]
           bs == attempts'[t]
           o == as[x.att]
           a == [o EXCEPT !.passed = @ + 1]
           y == Counted(x)
<1>2. /\ x \in Item /\ t \in Tasks /\ as \in Seq(Attempt)
      /\ Kept(t, state[t], reason[t], as, {x})
      /\ x.att = Len(as) /\ x.att \in DOMAIN as /\ o = Last(as)
      /\ o \in Attempt /\ Made(o) /\ Judged(as, x)
      /\ state[t] \in {Expects(x), "CANCELLED"} /\ x.from = "RUNNING"
  BY <1>1, VerifyInHand
<1>3. state[t] # "RUNNING"
  BY <1>1, <1>2 DEF Expects
<1>5. /\ a \in Attempt /\ a.kind = o.kind /\ a.on = o.on /\ a.recorded = o.recorded
      /\ a.passed = o.passed + 1 /\ a.failed = o.failed /\ a.proc = o.proc
  BY <1>2, AttemptFields
<1>6. Made(a) /\ a.proc = "ok" /\ a.passed = x.n + 1 /\ ~a.failed
  BY <1>2, <1>5 DEF Made, Judged
<1>8. AttemptsBecome(t, bs) /\ Amends(as, Len(as), a, bs)
  <2> HIDE DEF a
  <2> QED
    BY <1>1, <1>2, <1>5, SetAttemptIs DEF a
<1>9. /\ Same(y, x) /\ y.next = x.next /\ y.from = x.from /\ y.att = x.att /\ y.n = x.n + 1
      /\ y.task = t
  <2>1. Same(y, x) /\ y.next = x.next /\ y.from = x.from /\ y.att = x.att /\ y.n = x.n + 1
    BY <1>2, ItemFields
  <2> QED
    BY <2>1 DEF Same
<1>10. /\ Kept(t, state[t], reason[t], bs, {y})
       /\ Takes(state[t], bs, {y}) => Takes(state[t], as, {x})
  <2> HIDE DEF bs, a, y, as, t, o
  <2>1. a.kind = Last(as).kind /\ a.on = Last(as).on /\ a.recorded = Last(as).recorded
    BY <1>2, <1>5
  <2>2. a.passed = y.n /\ (x.next = "verdict" <=> y.next = "verdict")
    BY <1>1, <1>6, <1>9
  <2> QED
    BY <1>1, <1>2, <1>3, <1>6, <1>8, <1>9, <2>1, <2>2, VerifyGoes
<1>11. StateBecomes(t, state[t], reason[t]) /\ Swap(s, x, {y})
  BY <1>1, SameStateIs DEF Swap, Counted
<1> HIDE DEF bs, y, a
<1> QED
  BY <1>1, <1>8, <1>9, <1>10, <1>11, Acts

LEMMA VerdictFailKeeps ==
    ASSUME Solo, TypeOK, Inv, NEW s \in Supervisors, VerdictFail(s)
    PROVE  Inv' /\ Slots' \subseteq Slots
<1>1. PICK x \in pass[s] :
          /\ x.op = "verify" /\ x.next = "verdict"
          /\ SetAttempt(x.task, x.att, [attempts[x.task][x.att] EXCEPT !.failed = TRUE])
          /\ IF ~Holds(x.task, "VERIFYING") THEN SameState
             ELSE IF AttemptsThatRan(x.task) > MaxRetries
                  THEN SetState(x.task, "NEEDS_HUMAN", "retries-exhausted")
                  ELSE SetState(x.task, "RETRYING", "none")
          /\ Drop(s, x)
  BY DEF VerdictFail, At
<1> DEFINE t == x.task
           as == attempts[t]
           bs == attempts'[t]
           o == as[x.att]
           a == [o EXCEPT !.failed = TRUE]
<1>2. /\ x \in Item /\ t \in Tasks /\ as \in Seq(Attempt)
      /\ Kept(t, state[t], reason[t], as, {x})
      /\ x.att = Len(as) /\ x.att \in DOMAIN as /\ o = Last(as)
      /\ o \in Attempt /\ Made(o) /\ Judged(as, x)
      /\ state[t] \in {Expects(x), "CANCELLED"} /\ x.from = "RUNNING"
  BY <1>1, VerifyInHand
<1>3. state[t] \in {"VERIFYING", "CANCELLED"}
  BY <1>1, <1>2 DEF Expects
<1>5. /\ a \in Attempt /\ a.kind = o.kind /\ a.on = o.on /\ a.recorded = o.recorded
      /\ a.outcome = o.outcome /\ a.proc = o.proc /\ a.passed = o.passed
  BY <1>2, AttemptFields
<1>6. Made(a) /\ a.proc = "ok"
  BY <1>2, <1>5 DEF Made, Judged
<1>8. AttemptsBecome(t, bs) /\ Amends(as, Len(as), a, bs)
  <2> HIDE DEF a
  <2> QED
    BY <1>1, <1>2, <1>5, SetAttemptIs DEF a
<1>9. a.kind = Last(as).kind /\ a.on = Last(as).on /\ a.outcome = Last(as).outcome
  BY <1>2, <1>5
<1>10. AttemptsThatRan(t) = Cardinality(Ran(as))
  BY DEF AttemptsThatRan, Ran
<1>11. PICK q, r :
          /\ StateBecomes(t, q, r)
          /\ \/ state[t] = "CANCELLED" /\ q = state[t] /\ r = reason[t]
             \/ q = "RETRYING" /\ r = reason[t]
             \/ /\ q = "NEEDS_HUMAN" /\ r = "retries-exhausted"
                /\ Cardinality(Ran(as)) > MaxRetries
  <2>1. CASE state[t] = "CANCELLED"
    BY <1>1, <2>1, SameStateIs DEF Holds
  <2>2. CASE state[t] = "VERIFYING"
    <3>1. \/ Cardinality(Ran(as)) > MaxRetries /\ SetState(t, "NEEDS_HUMAN", "retries-exhausted")
          \/ SetState(t, "RETRYING", "none")
      BY <1>1, <1>10, <2>2 DEF Holds
    <3>2. CASE Cardinality(Ran(as)) > MaxRetries /\ SetState(t, "NEEDS_HUMAN", "retries-exhausted")
      BY <1>2, <3>2, SetStateIs
    <3>3. CASE SetState(t, "RETRYING", "none")
      BY <1>2, <3>3, SetStateIs
    <3> QED
      BY <3>1, <3>2, <3>3
  <2> QED
    BY <1>3, <2>1, <2>2
<1>12. Kept(t, q, r, bs, {}) /\ ~Takes(q, bs, {})
  <2> HIDE DEF bs, a, as, t, o
  <2> QED
    BY <1>1, <1>2, <1>6, <1>8, <1>9, <1>11, VerifyFails
<1>13. Swap(s, x, {})
  BY <1>1, Swaps
<1> HIDE DEF bs, a
<1> QED
  BY <1>1, <1>8, <1>11, <1>12, <1>13, Acts

LEMMA AllPassedKeeps ==
    ASSUME Solo, TypeOK, Inv, NEW s \in Supervisors, AllPassed(s)
    PROVE  Inv' /\ Slots' \subseteq Slots
<1>1. PICK x \in pass[s] :
          /\ x.op = "verify" /\ x.next = "verdict" /\ x.n = Verifiers[x.task]
          /\ IF Holds(x.task, "VERIFYING") THEN SetState(x.task, "DONE", "none") ELSE SameState
          /\ Drop(s, x) /\ UNCHANGED attempts
  BY DEF AllPassed, At
<1> DEFINE t == x.task
           as == attempts[t]
<1>2. /\ x \in Item /\ t \in Tasks /\ as \in Seq(Attempt)
      /\ Kept(t, state[t], reason[t], as, {x})
  BY <1>1, VerifyInHand
<1>3. CASE state[t] = "VERIFYING"
  <2>1. SetState(t, "DONE", "none")
    BY <1>1, <1>3 DEF Holds
  <2>2. StateBecomes(t, "DONE", reason[t]) /\ AttemptsBecome(t, as) /\ Swap(s, x, {})
    BY <1>1, <1>2, <2>1, SetStateIs, SameAttempts, Swaps
  <2>3. Kept(t, "DONE", reason[t], as, {}) /\ ~Takes("DONE", as, {})
    BY <1>1, <1>2, <1>3, VerifyPasses
  <2> QED
    BY <1>1, <2>2, <2>3, Acts
<1>4. CASE state[t] # "VERIFYING"
  <2>1. SameState
    BY <1>1, <1>4 DEF Holds
  <2>2. ~Begins(x)
    BY <1>1 DEF Begins, Starts
  <2> QED
    BY <1>1, <2>1, <2>2, Drops
<1> QED
  BY <1>3, <1>4

LEMMA VerifyKeeps ==
    ASSUME Solo, TypeOK, Inv, NEW s \in Supervisors,
           \/ CloseCompleted(s) \/ StartVerifying(s) \/ VerdictPass(s) \/ VerdictFail(s)
           \/ VerdictError(s) \/ AllPassed(s)
    PROVE  Inv' /\ Slots' \subseteq Slots
<1>1. CASE VerdictError(s)
  <2>1. PICK x \in pass[s] : /\ x.op = "verify" /\ x.next = "verdict"
                             /\ Drop(s, x) /\ SameState /\ UNCHANGED attempts
    BY <1>1 DEF VerdictError, At
  <2>2. ~Begins(x) /\ x.next # "emitted"
    BY <2>1 DEF Begins, Starts
  <2> QED
    BY <2>1, <2>2, Drops
<1> QED
  BY <1>1, CloseKeeps, StartVerifyingKeeps, VerdictPassKeeps, VerdictFailKeeps, AllPassedKeeps

LEMMA GiveUpKeeps ==
    ASSUME Solo, TypeOK, Inv, NEW s \in Supervisors, GiveUp(s)
    PROVE  Inv' /\ Slots' \subseteq Slots
<1>1. PICK x \in pass[s] :
          LET t == x.task
              a == Finished(Latest(t), x.cause)
              stops == a.kind = "remote" /\ x.cause = "session_died" /\ a.proc \in {"sent", "live"}
          IN /\ x.op = "resume" /\ x.next = "emitted" /\ Begun(s) = {}
             /\ state[t] \in AppliesIn("resume")
             /\ IF HasAttempt(t)
                THEN \E b \in {a} \cup {c \in {[a EXCEPT !.proc = "gone"]} : stops} :
                        SetAttempt(t, LatestId(t), b)
                ELSE UNCHANGED attempts
             /\ Begin(s, x, "resume", LatestId(t))
             /\ SameState
  BY DEF GiveUp, ToApply
<1> DEFINE t == x.task
           as == attempts[t]
           bs == attempts'[t]
           c == Finished(Latest(t), x.cause)
           y == Put(x, "resume", LatestId(t), state[t])
<1>2. /\ x \in Item /\ t \in Tasks /\ as \in Seq(Attempt)
      /\ Kept(t, state[t], reason[t], as, {x})
  BY HandIs
<1>3. state[t] = "RUNNING"
  BY <1>1 DEF AppliesIn
<1>4. Fits(as, x)
  BY <1>2, Free
<1>5. Len(as) > 0 /\ Latest(t) = Last(as) /\ LatestId(t) = Len(as) /\ Len(as) \in DOMAIN as
      /\ Last(as) \in Attempt
  BY <1>1, <1>2, <1>4, SeqFacts DEF Fits, Latest, LatestId, Last
<1>6. HasAttempt(t)
  BY <1>2, <1>5, SomeAttempt DEF TypeOK
<1>7. x.cause \in Outcome
  BY <1>1, <1>2, ItemAt
<1>8. /\ c \in Attempt /\ c.kind = Last(as).kind /\ c.on = Last(as).on
      /\ c.recorded = Last(as).recorded
      /\ c.passed = Last(as).passed /\ c.failed = Last(as).failed /\ c.proc = Last(as).proc
  <2> DEFINE d == Finished(Last(as), x.cause)
  <2>1. /\ d \in Attempt /\ d.kind = Last(as).kind /\ d.on = Last(as).on
        /\ d.recorded = Last(as).recorded
        /\ d.passed = Last(as).passed /\ d.failed = Last(as).failed /\ d.proc = Last(as).proc
    BY <1>5, <1>7, AttemptFields
  <2>2. c = d
    BY <1>5
  <2> HIDE DEF c, d
  <2> QED
    BY <2>1, <2>2
<1>9. PICK b \in {c, [c EXCEPT !.proc = "gone"]} :
          /\ b = c \/ c.kind = "remote"
          /\ SetAttempt(t, LatestId(t), b)
  BY <1>1, <1>6
<1>10. /\ b \in Attempt /\ b.kind = Last(as).kind /\ b.on = Last(as).on
       /\ b.recorded = Last(as).recorded
       /\ b.passed = Last(as).passed /\ b.failed = Last(as).failed
       /\ b.proc = Last(as).proc \/ (b.kind = "remote" /\ b.proc = "gone")
  <2>1. CASE b = c
    BY <1>8, <2>1
  <2>2. CASE b # c
    <3> DEFINE d == [c EXCEPT !.proc = "gone"]
    <3>1. "gone" \in Proc
      BY DEF Proc
    <3>2. /\ d \in Attempt /\ d.kind = c.kind /\ d.on = c.on /\ d.recorded = c.recorded
          /\ d.passed = c.passed /\ d.failed = c.failed /\ d.proc = "gone"
      <4> HIDE DEF c
      <4> QED
        BY <1>8, <3>1, AttemptFields
    <3>3. b = d /\ c.kind = "remote"
      BY <1>9, <2>2
    <3> HIDE DEF c, d
    <3> QED
      BY <1>8, <3>2, <3>3
  <2> QED
    BY <2>1, <2>2
<1>11. AttemptsBecome(t, bs) /\ Amends(as, Len(as), b, bs)
  BY <1>2, <1>5, <1>9, <1>10, SetAttemptIs
<1>12. Same(y, x) /\ y.next = "resume" /\ y.from = "RUNNING" /\ y.task = t
  <2>1. Same(y, x) /\ y.next = "resume" /\ y.from = state[t]
    BY <1>2, ItemFields
  <2> QED
    BY <1>3, <2>1 DEF Same
<1>13. /\ Kept(t, state[t], reason[t], bs, {y})
       /\ Takes(state[t], bs, {y}) => Takes(state[t], as, {x})
  <2> HIDE DEF bs, y, as, t, c
  <2>1. Kept(t, "RUNNING", reason[t], as, {x}) /\ x.op = "resume"
    BY <1>1, <1>2, <1>3
  <2>2. /\ Kept(t, "RUNNING", reason[t], bs, {y})
        /\ Takes("RUNNING", bs, {y}) => Takes("RUNNING", as, {x})
    BY <1>2, <1>10, <1>11, <1>12, <2>1, GivesUp
  <2> QED
    BY <1>3, <2>2
<1>14. StateBecomes(t, state[t], reason[t]) /\ Swap(s, x, {y})
  BY <1>1, SameStateIs, Swaps
<1> HIDE DEF bs, y
<1> QED
  BY <1>1, <1>11, <1>12, <1>13, <1>14, Acts

LEMMA ResumeOrCapKeeps ==
    ASSUME Solo, TypeOK, Inv, NEW s \in Supervisors, ResumeOrCap(s)
    PROVE  Inv' /\ Slots' \subseteq Slots
<1>1. PICK x \in pass[s] :
          /\ x.op = "resume" /\ x.next = "resume"
          /\ IF ~Holds(x.task, "RUNNING") THEN SameState /\ Drop(s, x)
             ELSE IF AttemptsThatRan(x.task) > MaxRetries
                  THEN SetState(x.task, "NEEDS_HUMAN", "resume-cap") /\ Drop(s, x)
                  ELSE SetState(x.task, "RESUMING", "none") /\ Go(s, x, "resuming")
          /\ UNCHANGED attempts
  BY DEF ResumeOrCap, At
<1> DEFINE t == x.task
           as == attempts[t]
           y == Gone(x, "resuming")
<1>2. /\ x \in Item /\ t \in Tasks /\ as \in Seq(Attempt)
      /\ Kept(t, state[t], reason[t], as, {x})
  BY HandIs
<1>3. AttemptsBecome(t, as)
  BY <1>1, SameAttempts
<1>4. AttemptsThatRan(t) = Cardinality(Ran(as))
  BY DEF AttemptsThatRan, Ran
<1>5. CASE state[t] # "RUNNING"
  <2>1. SameState /\ Drop(s, x)
    BY <1>1, <1>5 DEF Holds
  <2>2. ~Begins(x)
    BY <1>1 DEF Begins, Starts
  <2> QED
    BY <1>1, <2>1, <2>2, Drops
<1>6. CASE state[t] = "RUNNING" /\ Cardinality(Ran(as)) > MaxRetries
  <2>1. SetState(t, "NEEDS_HUMAN", "resume-cap") /\ Drop(s, x)
    BY <1>1, <1>4, <1>6 DEF Holds
  <2>2. StateBecomes(t, "NEEDS_HUMAN", "resume-cap") /\ Swap(s, x, {})
    BY <1>2, <2>1, SetStateIs, Swaps
  <2>3. Kept(t, "NEEDS_HUMAN", "resume-cap", as, {}) /\ ~Takes("NEEDS_HUMAN", as, {})
    BY <1>1, <1>2, <1>6, ResumesOrCaps
  <2> QED
    BY <1>1, <1>3, <2>2, <2>3, Acts
<1>7. CASE state[t] = "RUNNING" /\ ~(Cardinality(Ran(as)) > MaxRetries)
  <2>1. SetState(t, "RESUMING", "none") /\ Go(s, x, "resuming")
    BY <1>1, <1>4, <1>7 DEF Holds
  <2>2. StateBecomes(t, "RESUMING", reason[t]) /\ Swap(s, x, {y})
    BY <1>2, <2>1, SetStateIs, Swaps
  <2>3. Same(y, x) /\ y.next = "resuming" /\ y.from = x.from
    BY <1>2, ItemFields
  <2>4. x.from = "RUNNING" /\ y.task = t
    <3>1. Lists(t, x)
      BY <1>2, Free
    <3> QED
      BY <1>1, <2>3, <3>1 DEF Lists, Same
  <2> HIDE DEF y
  <2>5. Kept(t, "RESUMING", reason[t], as, {y}) /\ ~Takes("RESUMING", as, {y})
    BY <1>1, <1>2, <1>7, <2>3, <2>4, ResumesOrCaps
  <2> QED
    BY <1>1, <1>3, <2>2, <2>4, <2>5, Acts
<1> QED
  BY <1>5, <1>6, <1>7

LEMMA BackToPendingKeeps ==
    ASSUME Solo, TypeOK, Inv, NEW s \in Supervisors, BackToPending(s)
    PROVE  Inv' /\ Slots' \subseteq Slots
<1>1. PICK x \in pass[s] :
          /\ x.op = "resume" /\ x.next = "resuming"
          /\ IF Holds(x.task, "RESUMING") THEN SetState(x.task, "PENDING", "none") ELSE SameState
          /\ Drop(s, x) /\ UNCHANGED attempts
  BY DEF BackToPending, At
<1> DEFINE t == x.task
           as == attempts[t]
<1>2. /\ x \in Item /\ t \in Tasks /\ as \in Seq(Attempt)
      /\ Kept(t, state[t], reason[t], as, {x})
  BY HandIs
<1>3. CASE state[t] = "RESUMING"
  <2>1. SetState(t, "PENDING", "none")
    BY <1>1, <1>3 DEF Holds
  <2>2. StateBecomes(t, "PENDING", reason[t]) /\ AttemptsBecome(t, as) /\ Swap(s, x, {})
    BY <1>1, <1>2, <2>1, SetStateIs, SameAttempts, Swaps
  <2>3. Kept(t, "PENDING", reason[t], as, {}) /\ ~Takes("PENDING", as, {})
    BY <1>1, <1>2, <1>3, GoesBack
  <2> QED
    BY <1>1, <2>2, <2>3, Acts
<1>4. CASE state[t] # "RESUMING"
  <2>1. SameState
    BY <1>1, <1>4 DEF Holds
  <2>2. ~Begins(x)
    BY <1>1 DEF Begins, Starts
  <2> QED
    BY <1>1, <2>1, <2>2, Drops
<1> QED
  BY <1>3, <1>4

LEMMA EscalateKeeps ==
    ASSUME Solo, TypeOK, Inv, NEW s \in Supervisors, EscalateHuman(s)
    PROVE  Inv' /\ Slots' \subseteq Slots
<1>1. PICK x \in pass[s] :
          /\ x.op = "escalate" /\ x.next = "emitted" /\ Begun(s) = {}
          /\ state[x.task] \in AppliesIn("escalate")
          /\ SetState(x.task, "NEEDS_HUMAN", x.cause)
          /\ Drop(s, x) /\ UNCHANGED attempts
  BY DEF EscalateHuman, ToApply
<1> DEFINE t == x.task
           as == attempts[t]
<1>2. /\ x \in Item /\ t \in Tasks /\ as \in Seq(Attempt)
      /\ Kept(t, state[t], reason[t], as, {x})
  BY HandIs
<1>3. state[t] # "CANCELLED"
  BY <1>1 DEF AppliesIn
<1>4. /\ StateBecomes(t, "NEEDS_HUMAN", x.cause) /\ AttemptsBecome(t, as) /\ Swap(s, x, {})
  BY <1>1, <1>2, SetStateIs, SameAttempts, Swaps
<1>5. Kept(t, "NEEDS_HUMAN", x.cause, as, {}) /\ ~Takes("NEEDS_HUMAN", as, {})
  BY <1>1, <1>2, <1>3, Escalates
<1> QED
  BY <1>1, <1>4, <1>5, Acts

LEMMA ApplyKeeps ==
    ASSUME Solo, TypeOK, Inv, NEW s \in Supervisors, Apply(s)
    PROVE  Inv' /\ Slots' \subseteq Slots
<1>1. CASE Skip(s)
  <2>1. PICK x \in pass[s] : Drop(s, x)
    BY <1>1 DEF Skip
  <2>2. Begun(s) = {} /\ SameState /\ UNCHANGED attempts
    BY <1>1 DEF Skip
  <2>3. ~Begins(x)
    BY <2>2 DEF Begun, Begins
  <2> QED
    BY <2>1, <2>2, <2>3, Drops
<1> QED
  BY <1>1, AssignKeeps, SpawnKeeps, DelegateKeeps, VerifyKeeps, GiveUpKeeps, ResumeOrCapKeeps,
     BackToPendingKeeps, EscalateKeeps DEF Apply

-----------------------------------------------------------------------------
(* A crash *)

LEMMA Dies ==
    ASSUME NEW t, NEW q, NEW r, NEW as \in Seq(Attempt), NEW x \in Item, Kept(t, q, r, as, {x}),
           <<x.op, x.next>> \in CrashPoints
    PROVE  Kept(t, q, r, as, {}) /\ (Takes(q, as, {}) => Takes(q, as, {x}))
<1>1. /\ InHand(t, q, as, {}) /\ Stands(t, q, as) /\ Budget(q, r, as) /\ Lists(t, x) /\ Fits(as, x)
      /\ q \in {Expects(x), "CANCELLED"}
  BY DEF InHand, Kept, Sound
<1>2. ASSUME Tidy, Local(Last(as)), ~Rest(Last(as)), Explained(t, q, r, Last(as), {x})
      PROVE  Explained(t, q, r, Last(as), {})
  <2> SUFFICES ASSUME q \in {"PENDING", "RETRYING", "ASSIGNED"}, Begins(x)
               PROVE  Held(t, q, Last(as))
    BY <1>2 DEF Explained, Starting
  <2>1. Opened(as, x) /\ q = x.from
    BY <1>1 DEF Fits, Expects, Begins, Starts
  <2>2. Last(as).proc # "none" /\ Last(as).kind = KindOf(x.op) /\ Last(as).kind # "remote"
    BY <1>2, <2>1 DEF Rest, Local, Opened
  <2>3. x.next \notin {"publish", "launch", "send"} /\ x.op # "delegate"
    BY <2>1, <2>2 DEF Opened, KindOf
  <2>4. x.op \in {"assign", "spawn"} /\ x.next # "emitted"
    BY <2>3 DEF Begins, Starts
  <2>5. x.op = "spawn" /\ x.next = "commit"
    BY <1>1, <1>2, <2>3, <2>4 DEF Tidy, Lists
  <2> QED
    BY <1>1, <2>1, <2>2, <2>5 DEF Held, Opened, KindOf, Lists
<1>3. Kept(t, q, r, as, {})
  BY <1>1, <1>2, Stay
<1> QED
  BY <1>3 DEF Takes

LEMMA CrashKeeps ==
    ASSUME Solo, TypeOK, Inv, NEW s \in Supervisors, Crash(s)
    PROVE  Inv' /\ Slots' \subseteq Slots
<1>1. /\ \E x \in Begun(s) : <<x.op, x.next>> \in CrashPoints
      /\ pass' = [pass EXCEPT ![s] = {}]
      /\ UNCHANGED <<state, reason, attempts>>
  BY DEF Crash, SameState
<1>2. pass'[s] = {}
  BY <1>1 DEF TypeOK
<1>3. \A t \in Tasks : Hand(t)' = {}
  BY <1>2, SoloHandNext
<1>4. ASSUME NEW t \in Tasks
      PROVE  /\ Kept(t, state[t], reason[t], attempts[t], {})
             /\ Takes(state[t], attempts[t], {}) => Takes(state[t], attempts[t], Hand(t))
  <2> DEFINE q == state[t]
             r == reason[t]
             as == attempts[t]
  <2>1. CASE Hand(t) = {}
    BY <2>1 DEF Inv
  <2>2. CASE Hand(t) # {}
    <3>1. PICK x \in pass[s] : x.task = t
      BY <2>2, SoloHand
    <3>2. x \in Item /\ as \in Seq(Attempt) /\ Hand(t) = {x} /\ Kept(t, q, r, as, {x})
      BY <3>1, HandIs
    <3>3. CASE Begins(x)
      <4>1. <<x.op, x.next>> \in CrashPoints
        BY <1>1, <3>3 DEF Inv, OneBegun, Begun, Begins
      <4>2. Kept(t, q, r, as, {}) /\ (Takes(q, as, {}) => Takes(q, as, {x}))
        BY <3>2, <4>1, Dies
      <4> QED
        BY <3>2, <4>2
    <3>4. CASE ~Begins(x)
      <4>1. Kept(t, q, r, as, {}) /\ (Takes(q, as, {}) => Takes(q, as, {x}))
        BY <3>2, <3>4, LetGo
      <4> QED
        BY <3>2, <4>1
    <3> QED
      BY <3>3, <3>4
  <2> QED
    BY <2>1, <2>2
<1>5. OneBegun'
  <2> SUFFICES ASSUME NEW u \in Supervisors, NEW x \in pass'[u]
               PROVE  FALSE
    BY DEF OneBegun, Begun
  <2> QED
    BY <1>2 DEF Solo
<1>6. \A t \in Tasks : Kept(t, state'[t], reason'[t], attempts'[t], Hand(t)')
  BY <1>1, <1>3, <1>4
<1>7. \A t \in Tasks : Takes(state'[t], attempts'[t], Hand(t)') => Takes(state[t], attempts[t], Hand(t))
  BY <1>1, <1>3, <1>4
<1>8. Inv'
  BY <1>5, <1>6 DEF Inv
<1> QED
  BY <1>7, <1>8 DEF Slots

-----------------------------------------------------------------------------
(* Everything around the supervisor *)

LEMMA Around ==
    ASSUME TypeOK, Inv, UNCHANGED pass, NEW t \in Tasks,
           NEW q, NEW r, NEW as, StateBecomes(t, q, r), AttemptsBecome(t, as),
           Kept(t, q, r, as, Hand(t)),
           Takes(q, as, Hand(t)) => Takes(state[t], attempts[t], Hand(t))
    PROVE  Inv' /\ Slots' \subseteq Slots
<1>1. \A u \in Tasks : Hand(u)' = Hand(u)
  BY DEF Hand
<1>2. OneBegun'
  BY DEF Inv, OneBegun, Begun
<1>3. \A u \in Tasks : Kept(u, state'[u], reason'[u], attempts'[u], Hand(u)')
  <2> TAKE u \in Tasks
  <2>1. CASE u = t
    BY <1>1, <2>1 DEF StateBecomes, AttemptsBecome
  <2>2. CASE u # t
    BY <1>1, <2>2 DEF StateBecomes, AttemptsBecome, Inv
  <2> QED
    BY <2>1, <2>2
<1>4. \A u \in Tasks : Takes(state'[u], attempts'[u], Hand(u)') => Takes(state[u], attempts[u], Hand(u))
  <2> TAKE u \in Tasks
  <2>1. CASE u = t
    BY <1>1, <2>1 DEF StateBecomes, AttemptsBecome
  <2>2. CASE u # t
    BY <1>1, <2>2 DEF StateBecomes, AttemptsBecome
  <2> QED
    BY <2>1, <2>2
<1>5. Inv'
  BY <1>2, <1>3 DEF Inv
<1> QED
  BY <1>4, <1>5 DEF Slots

LEMMA CancelKeeps ==
    ASSUME TypeOK, Inv, NEW t \in Tasks, Cancel(t)
    PROVE  Inv' /\ Slots' \subseteq Slots
<1> DEFINE q == state[t]
           r == reason[t]
           as == attempts[t]
           xs == Hand(t)
<1>1. Kept(t, q, r, as, xs)
  BY DEF Inv
<1>2. q \notin {"DONE", "NEEDS_HUMAN", "CANCELLED"}
  BY DEF Cancel, IsTerminal, Lifecycle!IsTerminal
<1>3. StateBecomes(t, "CANCELLED", r) /\ AttemptsBecome(t, as) /\ UNCHANGED pass
  BY SetStateIs, SameAttempts DEF Cancel
<1> HIDE DEF q, r, as, xs
<1>4. r \notin Spent \cup {"never_started"}
  BY <1>1, <1>2 DEF Kept, Sound, Budget
<1>5. Sound(t, "CANCELLED", r, as, xs)
  <2>1. Stands(t, "CANCELLED", as) /\ Budget("CANCELLED", r, as)
    BY <1>4, FreeBudget DEF Stands
  <2> QED
    BY <1>1, <2>1 DEF Kept, Sound
<1>6. Tidy => Quiet(t, "CANCELLED", r, as, xs)
  BY <1>1 DEF Kept, Quiet, Explained
<1>7. Takes("CANCELLED", as, xs) => Takes(q, as, xs)
  BY DEF Takes
<1>8. Kept(t, "CANCELLED", r, as, xs)
  BY <1>5, <1>6 DEF Kept
<1> QED
  BY <1>3, <1>7, <1>8, Around DEF q, as, xs

(* Something outside changes what became of one attempt.                   *)
LEMMA StirKeeps ==
    ASSUME TypeOK, Inv, UNCHANGED pass, SameState, NEW t \in Tasks,
           NEW i \in DOMAIN attempts[t], NEW b \in Attempt, SetAttempt(t, i, b),
           Stirred(attempts[t][i], b), Made(b),
           \A j \in DOMAIN attempts[t] :
              OnPeer(attempts[t][j]) /\ OnPeer(b) /\ ~OnPeer(attempts[t][i])
                 => attempts[t][j].on # b.on
    PROVE  Inv' /\ Slots' \subseteq Slots
<1> DEFINE q == state[t]
           r == reason[t]
           as == attempts[t]
           bs == attempts'[t]
           xs == Hand(t)
<1>1. Kept(t, q, r, as, xs) /\ as \in Seq(Attempt)
  BY DEF Inv, TypeOK
<1>2. AttemptsBecome(t, bs) /\ Amends(as, i, b, bs) /\ StateBecomes(t, q, r)
  BY SetAttemptIs, SameStateIs
<1>3. b.kind = as[i].kind
  BY DEF Stirred
<1> HIDE DEF xs, bs, q, r
<1>4. Sound(t, q, r, bs, xs)
  BY <1>1, <1>2, StirSound DEF Kept
<1>5. Tidy => Quiet(t, q, r, bs, xs)
  BY <1>1, <1>2, StirQuiet DEF Kept
<1>6. Takes(q, bs, xs) => Takes(q, as, xs)
  BY <1>1, <1>2, <1>3, StirTakes
<1>7. Kept(t, q, r, bs, xs)
  BY <1>4, <1>5 DEF Kept
<1> QED
  BY <1>2, <1>6, <1>7, Around DEF q, xs

LEMMA WorldKeeps ==
    ASSUME TypeOK, Inv, NEW t \in Tasks,
           RoleDrains(t) \/ SessionEnds(t) \/ PeerReceives(t) \/ LedgerHears(t)
    PROVE  Inv' /\ Slots' \subseteq Slots
<1> DEFINE as == attempts[t]
<1>1. \A i \in DOMAIN as : as[i] \in Attempt /\ Made(as[i])
  <2>1. Kept(t, state[t], reason[t], as, Hand(t)) /\ as \in Seq(Attempt)
    BY DEF Inv, TypeOK
  <2> QED
    BY <2>1, SeqFacts DEF Kept, Sound
<1>2. UNCHANGED pass /\ SameState
  BY DEF RoleDrains, SessionEnds, PeerReceives, LedgerHears, World
<1>3. CASE RoleDrains(t)
  <2>1. PICK i \in DOMAIN as :
            as[i].proc = "pending" /\ SetAttempt(t, i, [as[i] EXCEPT !.proc = "delivered"])
    BY <1>3 DEF RoleDrains
  <2> DEFINE b == [as[i] EXCEPT !.proc = "delivered"]
  <2>2. "delivered" \in Proc
    BY DEF Proc
  <2>3. /\ b \in Attempt /\ b.kind = as[i].kind /\ b.on = as[i].on /\ b.recorded = as[i].recorded
        /\ b.outcome = as[i].outcome /\ b.passed = as[i].passed /\ b.failed = as[i].failed
        /\ b.proc = "delivered"
    BY <1>1, <2>2, AttemptFields
  <2>4. Made(as[i]) /\ as[i].kind = "mailbox"
    BY <1>1, <2>1 DEF Made, Attempt
  <2>5. Stirred(as[i], b) /\ Made(b) /\ ~OnPeer(b)
    BY <2>1, <2>3, <2>4 DEF Stirred, Made, OnPeer
  <2> QED
    BY <1>2, <2>1, <2>3, <2>5, StirKeeps
<1>4. CASE SessionEnds(t)
  <2>1. PICK i \in DOMAIN as, end \in {"ok", "error", "gone"} :
            as[i].proc = "live" /\ SetAttempt(t, i, [as[i] EXCEPT !.proc = end])
    BY <1>4 DEF SessionEnds
  <2> DEFINE b == [as[i] EXCEPT !.proc = end]
  <2>2. end \in Proc
    BY DEF Proc
  <2>3. /\ b \in Attempt /\ b.kind = as[i].kind /\ b.on = as[i].on /\ b.recorded = as[i].recorded
        /\ b.outcome = as[i].outcome /\ b.passed = as[i].passed /\ b.failed = as[i].failed
        /\ b.proc = end
    BY <1>1, <2>2, AttemptFields
  <2>4. Made(as[i]) /\ as[i].kind # "mailbox"
    BY <1>1, <2>1 DEF Made, Attempt
  <2>5. Stirred(as[i], b) /\ Made(b) /\ ~OnPeer(b)
    BY <2>1, <2>3, <2>4 DEF Stirred, Made, OnPeer
  <2> QED
    BY <1>2, <2>1, <2>3, <2>5, StirKeeps
<1>5. CASE PeerReceives(t)
  <2>1. PICK i \in DOMAIN as, answer \in {"live", "refused"} :
            /\ as[i].proc = "sent"
            /\ answer = "live" => ~BusyWith(t, as[i].on)
            /\ SetAttempt(t, i, [as[i] EXCEPT !.proc = answer])
    BY <1>5 DEF PeerReceives
  <2> DEFINE b == [as[i] EXCEPT !.proc = answer]
  <2>2. answer \in Proc
    BY DEF Proc
  <2>3. /\ b \in Attempt /\ b.kind = as[i].kind /\ b.on = as[i].on /\ b.recorded = as[i].recorded
        /\ b.outcome = as[i].outcome /\ b.passed = as[i].passed /\ b.failed = as[i].failed
        /\ b.proc = answer
    BY <1>1, <2>2, AttemptFields
  <2>4. Made(as[i]) /\ as[i].kind = "remote"
    BY <1>1, <2>1 DEF Made, Attempt
  <2>5. Stirred(as[i], b) /\ Made(b)
    BY <2>1, <2>3, <2>4 DEF Stirred, Made
  <2>6. \A j \in DOMAIN as : OnPeer(as[j]) /\ OnPeer(b) => as[j].on # b.on
    BY <2>1, <2>3 DEF OnPeer, BusyWith
  <2> HIDE DEF b
  <2> QED
    BY <1>2, <2>1, <2>3, <2>5, <2>6, StirKeeps DEF b
<1>6. CASE LedgerHears(t)
  <2>1. PICK i \in DOMAIN as, h \in {"running", "settled"} : SetAttempt(t, i, [as[i] EXCEPT !.heard = h])
    BY <1>6 DEF LedgerHears
  <2> DEFINE b == [as[i] EXCEPT !.heard = h]
  <2>2. /\ b \in Attempt /\ b.kind = as[i].kind /\ b.on = as[i].on /\ b.recorded = as[i].recorded
        /\ b.outcome = as[i].outcome /\ b.passed = as[i].passed /\ b.failed = as[i].failed
        /\ b.proc = as[i].proc
    BY <1>1, AttemptFields
  <2>3. Stirred(as[i], b) /\ Made(b) /\ (OnPeer(b) => OnPeer(as[i]))
    BY <1>1, <2>2 DEF Stirred, Made, OnPeer
  <2> HIDE DEF b
  <2> QED
    BY <1>2, <2>1, <2>2, <2>3, StirKeeps DEF b
<1> QED
  BY <1>3, <1>4, <1>5, <1>6

LEMMA EnvironmentKeeps ==
    ASSUME Solo, TypeOK, Inv, Environment \/ UNCHANGED vars
    PROVE  Inv' /\ Slots' \subseteq Slots
<1>1. ASSUME UNCHANGED <<state, reason, attempts, pass>>
      PROVE  Inv' /\ Slots' \subseteq Slots
  <2>1. \A t \in Tasks : Hand(t)' = Hand(t)
    BY <1>1 DEF Hand
  <2>2. OneBegun'
    BY <1>1 DEF Inv, OneBegun, Begun
  <2>3. Inv'
    BY <1>1, <2>1, <2>2 DEF Inv
  <2> QED
    BY <1>1, <2>1, <2>3 DEF Slots
<1>2. CASE \E t \in Tasks : Cancel(t)
  BY <1>2, CancelKeeps
<1>3. CASE \E t \in Tasks : RoleDrains(t) \/ SessionEnds(t) \/ PeerReceives(t) \/ LedgerHears(t)
  BY <1>3, WorldKeeps
<1>4. CASE UNCHANGED vars
  BY <1>1, <1>4 DEF vars
<1>5. CASE RoleComesOrGoes \/ (\E m \in Machines : MachineChanges(m)) \/ \E t \in Tasks : TimePasses(t)
  BY <1>1, <1>5 DEF RoleComesOrGoes, MachineChanges, TimePasses, SameState
<1> QED
  BY <1>2, <1>3, <1>4, <1>5 DEF Environment

LEMMA InvInit ==
    ASSUME Init
    PROVE  Inv /\ Slots = {}
<1>1. \A s \in Supervisors : pass[s] = {}
  BY DEF Init
<1>2. \A t \in Tasks : Hand(t) = {}
  BY <1>1 DEF Hand
<1>3. OneBegun
  BY <1>1 DEF OneBegun, Begun
<1>4. ASSUME NEW t \in Tasks
      PROVE  /\ Kept(t, state[t], reason[t], attempts[t], {})
             /\ ~Takes(state[t], attempts[t], {})
  <2>1. state[t] = "PENDING" /\ reason[t] = "none" /\ attempts[t] = <<>>
    BY DEF Init
  <2>2. Len(attempts[t]) = 0 /\ DOMAIN attempts[t] = {}
    BY <2>1
  <2>3. Stands(t, "PENDING", attempts[t]) /\ Budget("PENDING", "none", attempts[t])
    BY DEF Stands, Budget, Spent
  <2>4. Streak(t, attempts[t], {}) /\ OneEach(attempts[t])
    BY <2>2 DEF Streak, OneEach
  <2>5. Sound(t, state[t], reason[t], attempts[t], {})
    BY <2>1, <2>2, <2>3, <2>4 DEF Sound
  <2>6. Quiet(t, state[t], reason[t], attempts[t], {})
    BY <2>2 DEF Quiet
  <2> QED
    BY <2>1, <2>5, <2>6 DEF Kept, Takes
<1>5. Inv
  BY <1>2, <1>3, <1>4 DEF Inv
<1> QED
  BY <1>2, <1>4, <1>5 DEF Slots

-----------------------------------------------------------------------------
(* A pass is listed *)

LEMMA RunCount ==
    ASSUME NEW as, NEW n \in Nat
    PROVE  Run(as, n) \subseteq 1..n /\ IsFiniteSet(Run(as, n)) /\ Cardinality(Run(as, n)) \in Nat
<1>1. Run(as, n) \subseteq 1..n
  BY DEF Run
<1>2. IsFiniteSet(1..n)
  BY FS_Interval
<1>3. IsFiniteSet(Run(as, n))
  BY <1>1, <1>2, FS_Subset
<1> QED
  BY <1>1, <1>3, FS_CardinalityType

LEMMA StreakIs ==
    ASSUME attempts \in [Tasks -> Seq(Attempt)], NEW t \in Tasks
    PROVE  /\ UnstartedStreak(t) = Run(attempts[t], Len(attempts[t]))
           /\ Len(attempts[t]) \in Nat
           /\ Cardinality(UnstartedStreak(t)) \in Nat
<1>1. Len(attempts[t]) \in Nat /\ DOMAIN attempts[t] = 1..Len(attempts[t])
  BY SeqFacts
<1>2. UnstartedStreak(t) = Run(attempts[t], Len(attempts[t]))
  BY <1>1 DEF UnstartedStreak, Run
<1> QED
  BY <1>1, <1>2, RunCount

(* A task whose last attempts did not start has a latest attempt, closed.  *)
LEMMA StreakClosed ==
    ASSUME attempts \in [Tasks -> Seq(Attempt)], NEW t \in NeverStarted, t \in Tasks
    PROVE  Len(attempts[t]) > 0 /\ Last(attempts[t]).outcome # "open"
<1> DEFINE as == attempts[t]
           n == Len(as)
<1>1. UnstartedStreak(t) = Run(as, n) /\ n \in Nat /\ Cardinality(Run(as, n)) \in Nat
  <2>1. UnstartedStreak(t) = Run(as, n) /\ n \in Nat
    BY StreakIs
  <2> QED
    BY <2>1, RunCount
<1>2. Cardinality(Run(as, n)) >= MaxUnstarted
  BY <1>1 DEF NeverStarted
<1>3. Run(as, n) # {}
  <2> SUFFICES ASSUME Run(as, n) = {} PROVE FALSE
    OBVIOUS
  <2>1. Cardinality(Run(as, n)) = 0
    BY FS_EmptySet
  <2> QED
    BY <1>2, <2>1, SupervisorAssumption
<1>4. PICK i \in 1..n : \A j \in i..n : as[j].outcome \in Unstarted
  BY <1>3 DEF Run
<1>5. n > 0 /\ n \in i..n
  BY <1>1, <1>4
<1> QED
  BY <1>4, <1>5 DEF Last, Unstarted

(* What a pass may list for the task x.task.                               *)
Listed(w, x) ==
    LET t == x.task
    IN \/ t \in DOMAIN w /\ x = Start(t, w[t])
       \/ t \in NeverStarted /\ x = Escalate(t, "never_started")
       \/ state[t] = "PENDING" /\ Blocked(t) /\ x = Escalate(t, "dependency")
       \/ t \in Unclaimed /\ x = Emit("spawn", t, Here, 0, "none")
       \/ t \in ClaimedTooLong /\ x = Escalate(t, "claimed")
       \/ t \in Observing("Completed") /\ x = Emit("verify", t, Here, LatestId(t), "none")
       \/ t \in Observing("Failed") /\ x = Resume(t, "session_failed")
       \/ t \in Observing("Refused") /\ x = Resume(t, "peer_refused")
       \/ t \in Observing("Dead") /\ x = Resume(t, "session_died")

LEMMA EmitIs ==
    ASSUME NEW op, NEW t, NEW m, NEW i, NEW c
    PROVE  LET x == Emit(op, t, m, i, c)
           IN /\ x.op = op /\ x.task = t /\ x.on = m /\ x.att = i /\ x.cause = c
              /\ x.from = state[t] /\ x.next = "emitted" /\ x.n = 0
BY DEF Emit

LEMMA StartIs ==
    ASSUME NEW t, NEW m
    PROVE  LET x == Start(t, m)
           IN /\ x.op \in Starts /\ x.task = t /\ x.on = m
              /\ x.from = state[t] /\ x.next = "emitted" /\ x.n = 0
              /\ x.op = "delegate" <=> m \in Peers
              /\ x.op = "assign" => ByRole(t) /\ state[t] = "PENDING"
              /\ x.op = "spawn" => state[t] # "PENDING" \/ t \notin RoleTasks
BY EmitIs DEF Start, Emit, Starts, ByRole

LEMMA TickIs ==
    ASSUME TypeOK, NEW s \in Supervisors, Tick(s)
    PROVE  /\ pass[s] = {} /\ UNCHANGED <<state, reason, attempts>>
           /\ \E w \in Placements : \A x \in pass'[s] : Listed(w, x) /\ x.task \in Tasks
<1>1. PICK w \in Placements :
          pass' = [pass EXCEPT ![s] =
             {Start(t, w[t]) : t \in DOMAIN w}
             \cup {Escalate(t, "never_started") : t \in NeverStarted}
             \cup {Escalate(t, "dependency") :
                      t \in {u \in Tasks : state[u] = "PENDING" /\ Blocked(u)}}
             \cup {Emit("spawn", t, Here, 0, "none") : t \in Unclaimed}
             \cup {Escalate(t, "claimed") : t \in ClaimedTooLong}
             \cup {Emit("verify", t, Here, LatestId(t), "none") : t \in Observing("Completed")}
             \cup {Resume(t, "session_failed") : t \in Observing("Failed")}
             \cup {Resume(t, "peer_refused") : t \in Observing("Refused")}
             \cup {Resume(t, "session_died") : t \in Observing("Dead")}]
  BY DEF Tick
<1>2. DOMAIN w \subseteq Tasks
  BY DEF Placements, Startable
<1>3. ASSUME NEW x \in pass'[s]
      PROVE  Listed(w, x) /\ x.task \in Tasks
  <2>1. \/ \E t \in DOMAIN w : x = Start(t, w[t])
        \/ \E t \in NeverStarted : x = Escalate(t, "never_started")
        \/ \E t \in Tasks : state[t] = "PENDING" /\ Blocked(t) /\ x = Escalate(t, "dependency")
        \/ \E t \in Unclaimed : x = Emit("spawn", t, Here, 0, "none")
        \/ \E t \in ClaimedTooLong : x = Escalate(t, "claimed")
        \/ \E t \in Observing("Completed") : x = Emit("verify", t, Here, LatestId(t), "none")
        \/ \E t \in Observing("Failed") : x = Resume(t, "session_failed")
        \/ \E t \in Observing("Refused") : x = Resume(t, "peer_refused")
        \/ \E t \in Observing("Dead") : x = Resume(t, "session_died")
    BY <1>1, <1>3 DEF TypeOK
  <2>2. CASE \E t \in DOMAIN w : x = Start(t, w[t])
    BY <1>2, <2>2, StartIs DEF Listed
  <2>3. CASE \E t \in NeverStarted : x = Escalate(t, "never_started")
    BY <2>3, EmitIs DEF Listed, Escalate, NeverStarted, Startable
  <2>4. CASE \E t \in Tasks : state[t] = "PENDING" /\ Blocked(t) /\ x = Escalate(t, "dependency")
    BY <2>4, EmitIs DEF Listed, Escalate
  <2>5. CASE \E t \in Unclaimed : x = Emit("spawn", t, Here, 0, "none")
    BY <2>5, EmitIs DEF Listed, Unclaimed, Overdue
  <2>6. CASE \E t \in ClaimedTooLong : x = Escalate(t, "claimed")
    BY <2>6, EmitIs DEF Listed, Escalate, ClaimedTooLong, Overdue
  <2>7. CASE \E t \in Observing("Completed") : x = Emit("verify", t, Here, LatestId(t), "none")
    BY <2>7, EmitIs DEF Listed, Observing
  <2>8. CASE \E t \in Observing("Failed") : x = Resume(t, "session_failed")
    BY <2>8, EmitIs DEF Listed, Resume, Observing
  <2>9. CASE \E t \in Observing("Refused") : x = Resume(t, "peer_refused")
    BY <2>9, EmitIs DEF Listed, Resume, Observing
  <2>10. CASE \E t \in Observing("Dead") : x = Resume(t, "session_died")
    BY <2>10, EmitIs DEF Listed, Resume, Observing
  <2> QED
    BY <2>1, <2>2, <2>3, <2>4, <2>5, <2>6, <2>7, <2>8, <2>9, <2>10
<1> QED
  BY <1>3 DEF Tick

(* A pass lists one action for a task at most.                             *)
LEMMA OnlyOne ==
    ASSUME NEW w \in Placements, NEW x, NEW y, Listed(w, x), Listed(w, y), x.task = y.task,
           x.task \in Tasks
    PROVE  x = y
<1> DEFINE t == x.task
<1>1. t \in DOMAIN w => t \in Startable /\ t \notin NeverStarted
  BY DEF Placements
<1>2. NeverStarted \subseteq Startable
  BY DEF NeverStarted
<1>3. t \in Startable => /\ state[t] \in {"RETRYING", "PENDING"}
                         /\ state[t] = "PENDING" => ~Blocked(t)
  BY DEF Startable, Depended, Blocked
<1>4. t \in Unclaimed => state[t] = "ASSIGNED" /\ ~Drained(t)
  BY DEF Unclaimed, Overdue
<1>5. t \in ClaimedTooLong => state[t] = "ASSIGNED" /\ Drained(t)
  BY DEF ClaimedTooLong, Overdue
<1>6. \A status : t \in Observing(status) => state[t] = "RUNNING" /\ Observed(t) = status
  BY DEF Observing
<1> QED
  BY <1>1, <1>2, <1>3, <1>4, <1>5, <1>6 DEF Listed

(* What is observed of a running task's latest attempt.                    *)
LEMMA Observes ==
    ASSUME TypeOK, NEW t \in Tasks, state[t] = "RUNNING", Stands(t, state[t], attempts[t]),
           \A i \in DOMAIN attempts[t] : Made(attempts[t][i])
    PROVE  /\ Len(attempts[t]) > 0 /\ LatestId(t) = Len(attempts[t])
           /\ Last(attempts[t]).passed = 0 /\ ~Last(attempts[t]).failed
           /\ Observed(t) = "Completed" => Last(attempts[t]).proc = "ok"
           /\ Observed(t) \in {"Failed", "Refused", "Dead"} /\ Local(Last(attempts[t]))
                 => Rest(Last(attempts[t]))
<1> DEFINE a == Last(attempts[t])
<1>1. /\ Len(attempts[t]) > 0 /\ a.kind # "mailbox" /\ a.proc # "none"
      /\ a.passed = 0 /\ ~a.failed
      /\ a.kind = "spawn" => a.recorded
  BY DEF Stands
<1>2. a \in Attempt /\ Made(a)
  <2>1. attempts[t] \in Seq(Attempt)
    BY DEF TypeOK
  <2> QED
    BY <1>1, <2>1, SeqFacts DEF Last
<1>3. Latest(t) = a /\ LatestId(t) = Len(attempts[t])
  BY DEF Latest, LatestId, Last
<1>4. a.kind \in {"spawn", "remote"}
  BY <1>1, <1>2 DEF Attempt
<1>5. CASE a.kind = "remote"
  <2>1. Observed(t) = "Completed" => a.proc = "ok"
    BY <1>3, <1>5 DEF Observed
  <2> QED
    BY <1>1, <1>3, <1>5, <2>1 DEF Local
<1>6. CASE a.kind = "spawn"
  <2>1. a.proc \in {"live", "ok", "error", "gone"} /\ a.recorded
    BY <1>1, <1>2, <1>6 DEF Made
  <2>2. Observed(t) = "Completed" => a.proc = "ok"
    BY <1>3, <1>6, <2>1 DEF Observed
  <2>3. Observed(t) \in {"Failed", "Refused", "Dead"} => a.proc # "live"
    BY <1>3, <1>6, <2>1 DEF Observed
  <2> QED
    BY <1>1, <1>3, <2>1, <2>2, <2>3 DEF Rest
<1> QED
  BY <1>4, <1>5, <1>6

LEMMA ListedFits ==
    ASSUME TypeOK, NEW t \in Tasks, NEW r, Kept(t, state[t], r, attempts[t], {}),
           NEW w \in Placements, NEW x, Listed(w, x), x.task = t
    PROVE  /\ x.next = "emitted" /\ state[t] = Expects(x) /\ Lists(t, x) /\ Fits(attempts[t], x)
           /\ ~ByRole(t) /\ x.op \in Starts =>
                 Cardinality(Run(attempts[t], Len(attempts[t]))) < MaxUnstarted
           /\ x.op \in {"assign", "spawn"} => state[t] = "ASSIGNED" \/ (t \in DOMAIN w /\ w[t] = Here)
<1> DEFINE as == attempts[t]
           few == Cardinality(Run(as, Len(as))) < MaxUnstarted
           here == t \in DOMAIN w /\ w[t] = Here
<1>0. Stands(t, state[t], as) /\ \A i \in DOMAIN as : Made(as[i])
  BY DEF Kept, Sound
<1>1. CASE t \in DOMAIN w /\ x = Start(t, w[t])
  <2>1. t \in Startable /\ t \notin NeverStarted /\ w[t] \in Machines
    BY <1>1 DEF Placements
  <2>2. /\ x.op \in Starts /\ x.on = w[t]
        /\ x.from = state[t] /\ x.next = "emitted"
        /\ x.op = "delegate" <=> w[t] \in Peers
        /\ x.op = "assign" => ByRole(t) /\ state[t] = "PENDING"
        /\ x.op = "spawn" => state[t] # "PENDING" \/ t \notin RoleTasks
    BY <1>1, StartIs
  <2>3. state[t] \in {"PENDING", "RETRYING"}
    BY <2>1 DEF Startable
  <2>4. Lists(t, x)
    BY <2>2, <2>3 DEF Lists, Starts
  <2>5. state[t] = Expects(x) /\ Fits(as, x)
    BY <2>2 DEF Expects, Fits, Begins, Starts
  <2>6. few
    <3>1. ~(Cardinality(UnstartedStreak(t)) >= MaxUnstarted)
      BY <2>1 DEF NeverStarted
    <3>2. /\ UnstartedStreak(t) = Run(as, Len(as)) /\ Cardinality(UnstartedStreak(t)) \in Nat
      BY StreakIs DEF TypeOK
    <3> QED
      BY <3>1, <3>2, SupervisorAssumption
  <2>7. x.op \in {"assign", "spawn"} => here
    BY <1>1, <2>1, <2>2 DEF Machines
  <2> QED
    BY <2>2, <2>4, <2>5, <2>6, <2>7
<1>2. CASE t \in NeverStarted /\ x = Escalate(t, "never_started")
  <2>1. x.op = "escalate" /\ x.cause = "never_started" /\ x.from = state[t] /\ x.next = "emitted"
    BY <1>2, EmitIs DEF Escalate
  <2>2. state[t] \in {"PENDING", "RETRYING"}
    BY <1>2 DEF NeverStarted, Startable
  <2>3. Len(as) > 0 /\ Last(as).outcome # "open"
    BY <1>2, StreakClosed DEF TypeOK
  <2> QED
    BY <2>1, <2>2, <2>3 DEF Expects, Lists, Fits, Begins, Starts
<1>3. CASE state[t] = "PENDING" /\ Blocked(t) /\ x = Escalate(t, "dependency")
  <2>1. x.op = "escalate" /\ x.cause = "dependency" /\ x.from = state[t] /\ x.next = "emitted"
    BY <1>3, EmitIs DEF Escalate
  <2> QED
    BY <1>3, <2>1 DEF Expects, Lists, Fits, Begins, Starts
<1>4. CASE t \in Unclaimed /\ x = Emit("spawn", t, Here, 0, "none")
  <2>1. x.op = "spawn" /\ x.from = state[t] /\ x.next = "emitted"
    BY <1>4, EmitIs
  <2>2. state[t] = "ASSIGNED"
    BY <1>4 DEF Unclaimed, Overdue
  <2>3. ByRole(t)
    BY <1>0, <2>2 DEF Stands
  <2> QED
    BY <2>1, <2>2, <2>3 DEF Expects, Lists, Fits, Begins, Starts
<1>5. CASE t \in ClaimedTooLong /\ x = Escalate(t, "claimed")
  <2>1. x.op = "escalate" /\ x.cause = "claimed" /\ x.from = state[t] /\ x.next = "emitted"
    BY <1>5, EmitIs DEF Escalate
  <2>2. state[t] = "ASSIGNED"
    BY <1>5 DEF ClaimedTooLong, Overdue
  <2> QED
    BY <2>1, <2>2 DEF Expects, Lists, Fits, Begins, Starts
<1>6. CASE t \in Observing("Completed") /\ x = Emit("verify", t, Here, LatestId(t), "none")
  <2>1. x.op = "verify" /\ x.att = LatestId(t) /\ x.from = state[t] /\ x.next = "emitted" /\ x.n = 0
    BY <1>6, EmitIs
  <2>2. state[t] = "RUNNING" /\ Observed(t) = "Completed"
    BY <1>6 DEF Observing
  <2>3. Judged(as, x)
    BY <1>0, <2>1, <2>2, Observes DEF Judged
  <2> QED
    BY <2>1, <2>2, <2>3 DEF Expects, Lists, Fits, Begins, Starts
<1>7. CASE \E c : x = Resume(t, c) /\ t \in Observing("Failed") \cup Observing("Refused") \cup Observing("Dead")
  <2>1. x.op = "resume" /\ x.from = state[t] /\ x.next = "emitted"
    BY <1>7, EmitIs DEF Resume
  <2>2. state[t] = "RUNNING" /\ Observed(t) \in {"Failed", "Refused", "Dead"}
    BY <1>7 DEF Observing
  <2>3. Len(as) > 0 /\ (Local(Last(as)) => Rest(Last(as)))
    BY <1>0, <2>2, Observes
  <2> QED
    BY <2>1, <2>2, <2>3 DEF Expects, Lists, Fits, Begins, Starts
<1> QED
  BY <1>1, <1>2, <1>3, <1>4, <1>5, <1>6, <1>7 DEF Listed

(* What a task has in hand once a pass is listed.                          *)
LEMMA ListedKept ==
    ASSUME TypeOK, NEW t \in Tasks, NEW r, Kept(t, state[t], r, attempts[t], {}),
           NEW w \in Placements, NEW ys, \A x \in ys : Listed(w, x) /\ x.task = t
    PROVE  Kept(t, state[t], r, attempts[t], ys)
<1> DEFINE q == state[t]
           as == attempts[t]
<1>1. \A x \in ys : /\ x.next = "emitted" /\ q = Expects(x) /\ Lists(t, x) /\ Fits(as, x)
                    /\ ~ByRole(t) /\ x.op \in Starts => Cardinality(Run(as, Len(as))) < MaxUnstarted
  BY ListedFits
<1>2. \A x, y \in ys : x = y
  BY OnlyOne
<1>3. Streak(t, as, ys)
  BY <1>1 DEF Kept, Sound, Streak
<1>4. Sound(t, q, r, as, ys)
  BY <1>1, <1>2, <1>3 DEF Kept, Sound
<1>5. Tidy => Quiet(t, q, r, as, ys)
  BY DEF Kept, Quiet, Explained, Starting
<1> QED
  BY <1>4, <1>5 DEF Kept

(* What a pass finds in flight here, before it lists anything.             *)
LEMMA SlotsAre ==
    ASSUME TypeOK, \A t \in Tasks : Hand(t) = {}
    PROVE  Slots = InFlight \ RemoteInFlight
<1>1. \A t \in Tasks : HasAttempt(t) <=> Len(attempts[t]) > 0
  BY SomeAttempt DEF TypeOK
<1>2. \A t \in Tasks : Latest(t) = Last(attempts[t])
  BY DEF Latest, LatestId, Last
<1> QED
  BY <1>1, <1>2 DEF Slots, Takes, InFlight, RemoteInFlight

LEMMA TickKeeps ==
    ASSUME Solo, TypeOK, Inv, NEW s \in Supervisors, Tick(s)
    PROVE  /\ Inv'
           /\ IsFiniteSet(Tasks) /\ Cardinality(Slots) <= MaxConcurrent =>
                 Cardinality(Slots') <= MaxConcurrent
<1>1. pass[s] = {} /\ UNCHANGED <<state, reason, attempts>>
  BY TickIs
<1>2. PICK w \in Placements : \A x \in pass'[s] : Listed(w, x) /\ x.task \in Tasks
  BY TickIs
<1>3. \A t \in Tasks : Hand(t) = {} /\ Hand(t)' = {x \in pass'[s] : x.task = t}
  BY <1>1, SoloHand, SoloHandNext
<1>4. \A t \in Tasks : Kept(t, state[t], reason[t], attempts[t], {})
  BY <1>3 DEF Inv
<1>5. \A t \in Tasks : Kept(t, state'[t], reason'[t], attempts'[t], Hand(t)')
  <2> TAKE t \in Tasks
  <2>1. \A x \in Hand(t)' : Listed(w, x) /\ x.task = t
    BY <1>2, <1>3
  <2>2. Kept(t, state[t], reason[t], attempts[t], Hand(t)')
    BY <1>4, <2>1, ListedKept
  <2> QED
    BY <1>1, <2>2
<1>6. OneBegun'
  <2> SUFFICES ASSUME NEW u \in Supervisors, NEW x \in pass'[u]
               PROVE  x.next = "emitted"
    BY DEF OneBegun, Begun
  <2>1. x \in pass'[s]
    BY DEF Solo
  <2> QED
    BY <1>2, <1>4, <2>1, ListedFits
<1>7. Inv'
  BY <1>5, <1>6 DEF Inv
<1>8. ASSUME IsFiniteSet(Tasks), Cardinality(Slots) <= MaxConcurrent
      PROVE  Cardinality(Slots') <= MaxConcurrent
  <2> DEFINE starts == {t \in DOMAIN w : w[t] = Here}
  <2>1. Slots \subseteq Tasks /\ Slots' \subseteq Tasks /\ starts \subseteq Tasks
    BY DEF Slots, Placements, Startable
  <2>2. IsFiniteSet(Slots) /\ IsFiniteSet(Slots') /\ IsFiniteSet(starts)
    BY <1>8, <2>1, FS_Subset
  <2>3. Slots' \subseteq Slots \cup starts
    <3> SUFFICES ASSUME NEW t \in Tasks, Takes(state'[t], attempts'[t], Hand(t)')
                 PROVE  Takes(state[t], attempts[t], Hand(t)) \/ t \in starts
      BY DEF Slots
    <3>1. Takes(state[t], attempts[t], Hand(t)')
      BY <1>1
    <3>2. \A x \in Hand(t)' : x.op \in {"assign", "spawn"} => state[t] = "ASSIGNED" \/ t \in starts
      BY <1>2, <1>3, <1>4, ListedFits
    <3> QED
      BY <3>1, <3>2 DEF Takes
  <2>4. Slots = InFlight \ RemoteInFlight
    BY <1>3, SlotsAre
  <2>5. starts # {} => ~(Cardinality(Slots) + (Cardinality(starts) - 1) >= MaxConcurrent)
    BY <2>4 DEF Placements, Full, LocalInFlight
  <2> HIDE DEF starts
  <2>6. CASE starts = {}
    <3>1. Cardinality(Slots') <= Cardinality(Slots)
      BY <2>2, <2>3, <2>6, FS_Subset
    <3>2. Cardinality(Slots') \in Nat /\ Cardinality(Slots) \in Nat
      BY <2>2, FS_CardinalityType
    <3> QED
      BY <1>8, <3>1, <3>2, SupervisorAssumption
  <2>7. CASE starts # {}
    <3> DEFINE both == Slots \cup starts
    <3>1. /\ IsFiniteSet(both)
          /\ Cardinality(both) = Cardinality(Slots) + Cardinality(starts) - Cardinality(Slots \cap starts)
      BY <2>2, FS_Union
    <3>2. IsFiniteSet(Slots \cap starts)
      BY <2>2, FS_Subset
    <3>3. /\ Cardinality(Slots) \in Nat /\ Cardinality(starts) \in Nat
          /\ Cardinality(Slots \cap starts) \in Nat /\ Cardinality(Slots') \in Nat
      BY <2>2, <3>2, FS_CardinalityType
    <3>4. Cardinality(starts) # 0
      BY <2>2, <2>7, FS_EmptySet
    <3>5. Cardinality(Slots') <= Cardinality(both)
      BY <2>3, <3>1, FS_Subset
    <3> HIDE DEF both
    <3> QED
      BY <2>5, <2>7, <3>1, <3>3, <3>4, <3>5, SupervisorAssumption
  <2> QED
    BY <2>6, <2>7
<1> QED
  BY <1>7, <1>8

-----------------------------------------------------------------------------
(* One supervisor: what follows *)

LEMMA InvStep ==
    ASSUME Solo, TypeOK, Inv, [Next]_vars
    PROVE  Inv'
<1>1. ASSUME NEW s \in Supervisors, Tick(s) \/ Apply(s) \/ Crash(s)
      PROVE  Inv'
  BY <1>1, TickKeeps, ApplyKeeps, CrashKeeps
<1>2. CASE Environment \/ UNCHANGED vars
  BY <1>2, EnvironmentKeeps
<1> QED
  BY <1>1, <1>2 DEF Next

LEMMA SlotsStep ==
    ASSUME Solo, IsFiniteSet(Tasks), TypeOK, Inv, Cardinality(Slots) <= MaxConcurrent, [Next]_vars
    PROVE  Cardinality(Slots') <= MaxConcurrent
<1>1. ASSUME Slots' \subseteq Slots
      PROVE  Cardinality(Slots') <= MaxConcurrent
  <2>1. IsFiniteSet(Slots)
    <3>1. Slots \subseteq Tasks
      BY DEF Slots
    <3> QED
      BY <3>1, FS_Subset
  <2>2. IsFiniteSet(Slots') /\ Cardinality(Slots') <= Cardinality(Slots)
    BY <1>1, <2>1, FS_Subset
  <2>3. Cardinality(Slots) \in Nat /\ Cardinality(Slots') \in Nat
    BY <2>1, <2>2, FS_CardinalityType
  <2> QED
    BY <2>2, <2>3, SupervisorAssumption
<1>2. ASSUME NEW s \in Supervisors, Tick(s)
      PROVE  Cardinality(Slots') <= MaxConcurrent
  BY <1>2, TickKeeps
<1>3. ASSUME NEW s \in Supervisors, Apply(s) \/ Crash(s)
      PROVE  Slots' \subseteq Slots
  BY <1>3, ApplyKeeps, CrashKeeps
<1>4. CASE Environment \/ UNCHANGED vars
  BY <1>1, <1>4, EnvironmentKeeps
<1> QED
  BY <1>1, <1>2, <1>3, <1>4 DEF Next

LEMMA Solid ==
    ASSUME Solo
    PROVE  Spec => [](TypeOK /\ Inv)
<1>1. Init => TypeOK /\ Inv
  BY TypeInit, InvInit
<1>2. TypeOK /\ Inv /\ [Next]_vars => (TypeOK /\ Inv)'
  BY TypeStep, InvStep
<1> QED
  BY <1>1, <1>2, PTL DEF Spec

(* What the invariant says of a task's attempts.                           *)
LEMMA Rows ==
    ASSUME TypeOK, Inv, NEW t \in Tasks
    PROVE  /\ Sound(t, state[t], reason[t], attempts[t], Hand(t))
           /\ Tidy => Quiet(t, state[t], reason[t], attempts[t], Hand(t))
           /\ attempts[t] \in Seq(Attempt) /\ Len(attempts[t]) \in Nat
           /\ DOMAIN attempts[t] = 1..Len(attempts[t])
           /\ \A i \in DOMAIN attempts[t] : attempts[t][i] \in Attempt /\ Made(attempts[t][i])
           /\ HasAttempt(t) <=> Len(attempts[t]) > 0
           /\ Latest(t) = Last(attempts[t])
<1>1. Kept(t, state[t], reason[t], attempts[t], Hand(t))
  BY DEF Inv
<1>2. Sound(t, state[t], reason[t], attempts[t], Hand(t))
      /\ (Tidy => Quiet(t, state[t], reason[t], attempts[t], Hand(t)))
  BY <1>1 DEF Kept
<1>3. attempts[t] \in Seq(Attempt)
  BY DEF TypeOK
<1>4. \A i \in DOMAIN attempts[t] : Made(attempts[t][i])
  BY <1>2 DEF Sound
<1>5. Latest(t) = Last(attempts[t])
  BY DEF Latest, LatestId, Last
<1>6. HasAttempt(t) <=> Len(attempts[t]) > 0
  BY SomeAttempt DEF TypeOK
<1> QED
  BY <1>2, <1>3, <1>4, <1>5, <1>6, SeqFacts

(* An attempt here at work or waiting to be read is the latest, and a      *)
(* worker on a peer is a session there.                                    *)
LEMMA AtHand ==
    ASSUME TypeOK, Inv, NEW t \in Tasks, NEW i \in DOMAIN attempts[t],
           attempts[t][i].proc \in {"live", "delivered", "pending"}
    PROVE  /\ Local(attempts[t][i]) => attempts[t][i].on = Here
           /\ ~Local(attempts[t][i]) => attempts[t][i].on \in Peers /\ OnPeer(attempts[t][i])
           /\ Tidy /\ Local(attempts[t][i]) =>
                 /\ i = Len(attempts[t])
                 /\ Explained(t, state[t], reason[t], attempts[t][i], Hand(t))
<1> DEFINE a == attempts[t][i]
<1>1. a \in Attempt /\ Made(a) /\ ~Rest(a)
  BY Rows DEF Rest
<1>2. Local(a) => a.on = Here
  BY <1>1 DEF Local, Made, Attempt
<1>3. ~Local(a) => a.on \in Peers /\ OnPeer(a)
  BY <1>1 DEF Local, Made, OnPeer
<1>4. Tidy /\ Local(a) =>
         i = Len(attempts[t]) /\ Explained(t, state[t], reason[t], a, Hand(t))
  BY <1>1, Rows DEF Quiet
<1> QED
  BY <1>2, <1>3, <1>4

-----------------------------------------------------------------------------
(* One supervisor: the theorems *)

(* A task is DONE only over a session that reported success and that every *)
(* declared verifier passed, wherever the supervisor dies between them     *)
(* (actuator.rs mark_verified_or_failed).                                  *)
THEOREM DoneMeansVerified ==
    ASSUME Solo
    PROVE  Spec => []DoneIsVerified
<1>1. TypeOK /\ Inv => DoneIsVerified
  BY Rows DEF Sound, Stands, DoneIsVerified
<1> QED
  BY <1>1, Solid, PTL

(* RUNNING is only written of a task something was launched or sent for:   *)
(* no transition that did not happen (actuator.rs).                        *)
THEOREM RunningMeansStarted ==
    ASSUME Solo
    PROVE  Spec => []RunningIsReal
<1>1. TypeOK /\ Inv => RunningIsReal
  BY Rows DEF Sound, Stands, RunningIsReal
<1> QED
  BY <1>1, Solid, PTL

(* A person is asked over the retry limit only for attempts that executed, *)
(* where a crash cut none of the task's starts short.                      *)
THEOREM RetriesAreSpent ==
    ASSUME Solo
    PROVE  Spec => []LocalBudgetIsSpent
<1>1. ASSUME TypeOK, Inv, NEW t \in Tasks, reason[t] \in {"resume-cap", "retries-exhausted"},
             \A i \in DOMAIN attempts[t] :
                attempts[t][i].kind = "spawn"
                /\ (attempts[t][i].proc = "none" => attempts[t][i].outcome = "spawn_failed")
      PROVE  Cardinality(Executed(t)) > MaxRetries
  <2>1. Cardinality(Ran(attempts[t])) > MaxRetries
    BY <1>1, Rows DEF Sound, Budget, Spent
  <2>2. Ran(attempts[t]) \subseteq Executed(t)
    BY <1>1, Rows DEF Ran, Executed, Made, Unstarted
  <2>3. IsFiniteSet(Executed(t))
    <3>1. Executed(t) \subseteq 1..Len(attempts[t]) /\ Len(attempts[t]) \in Nat
      BY <1>1, Rows DEF Executed
    <3>2. IsFiniteSet(1..Len(attempts[t]))
      BY <3>1, FS_Interval
    <3> QED
      BY <3>1, <3>2, FS_Subset
  <2>4. IsFiniteSet(Ran(attempts[t])) /\ Cardinality(Ran(attempts[t])) <= Cardinality(Executed(t))
    BY <2>2, <2>3, FS_Subset
  <2>5. Cardinality(Ran(attempts[t])) \in Nat /\ Cardinality(Executed(t)) \in Nat
    BY <2>3, <2>4, FS_CardinalityType
  <2> QED
    BY <2>1, <2>4, <2>5, SupervisorAssumption
<1>2. TypeOK /\ Inv => LocalBudgetIsSpent
  BY <1>1 DEF LocalBudgetIsSpent
<1> QED
  BY <1>2, Solid, PTL

(* The slot limit here holds for what the ledger says is in flight: what a *)
(* pass has in hand to start is counted before it is begun, and a task     *)
(* only moves from one such standing to another (planner.rs).              *)
THEOREM SlotsBounded ==
    ASSUME Solo, IsFiniteSet(Tasks)
    PROVE  Spec => []SlotCeiling
<1> DEFINE Few == Cardinality(Slots) <= MaxConcurrent
<1>1. Init => TypeOK /\ Inv /\ Few
  <2>1. Init => TypeOK /\ Inv
    BY TypeInit, InvInit
  <2>2. Init => Slots = {}
    BY InvInit
  <2>3. Cardinality({}) = 0
    BY FS_EmptySet
  <2> QED
    BY <2>1, <2>2, <2>3, SupervisorAssumption
<1>2. TypeOK /\ Inv /\ Few /\ [Next]_vars => (TypeOK /\ Inv /\ Few)'
  BY TypeStep, InvStep, SlotsStep
<1>3. TypeOK /\ Inv /\ Few => SlotCeiling
  <2> SUFFICES ASSUME TypeOK, Inv, Few
               PROVE  LocalInFlight <= MaxConcurrent
    BY DEF SlotCeiling
  <2>1. InFlight \ RemoteInFlight \subseteq Slots
    <3> SUFFICES ASSUME NEW t \in InFlight, t \notin RemoteInFlight
                 PROVE  t \in Slots
      OBVIOUS
    <3>1. t \in Tasks /\ state[t] \in {"ASSIGNED", "RUNNING"}
      BY DEF InFlight
    <3>2. state[t] = "RUNNING" => ~(Len(attempts[t]) > 0 /\ Last(attempts[t]).kind = "remote")
      BY <3>1, Rows DEF RemoteInFlight
    <3> QED
      BY <3>1, <3>2 DEF Slots, Takes
  <2>2. IsFiniteSet(Slots)
    <3>1. Slots \subseteq Tasks
      BY DEF Slots
    <3> QED
      BY <3>1, FS_Subset
  <2>3. /\ IsFiniteSet(InFlight \ RemoteInFlight)
        /\ Cardinality(InFlight \ RemoteInFlight) <= Cardinality(Slots)
    BY <2>1, <2>2, FS_Subset
  <2>4. Cardinality(InFlight \ RemoteInFlight) \in Nat /\ Cardinality(Slots) \in Nat
    BY <2>2, <2>3, FS_CardinalityType
  <2> QED
    BY <2>3, <2>4, SupervisorAssumption DEF LocalInFlight
<1> HIDE DEF Few
<1> QED
  BY <1>1, <1>2, <1>3, PTL DEF Spec

(* One attempt more lengthens the run of those that did not start by one   *)
(* at most.                                                                *)
LEMMA RunGrows ==
    ASSUME NEW as, NEW n \in Nat, n > 0
    PROVE  Cardinality(Run(as, n)) <= Cardinality(Run(as, n - 1)) + 1
<1> DEFINE before == Run(as, n - 1)
<1>1. n - 1 \in Nat
  OBVIOUS
<1>2. IsFiniteSet(before) /\ Cardinality(before) \in Nat /\ before \subseteq 1..(n - 1)
  BY <1>1, RunCount
<1>3. n \notin before
  BY <1>1, <1>2, Counts
<1>4. Run(as, n) \subseteq before \cup {n}
  <2> SUFFICES ASSUME NEW i \in Run(as, n), i # n
               PROVE  i \in before
    OBVIOUS
  <2>1. i \in 1..n /\ \A j \in i..n : as[j].outcome \in Unstarted
    BY DEF Run
  <2>2. i \in 1..(n - 1)
    BY <2>1
  <2>3. \A j \in i..(n - 1) : j \in i..n
    BY <2>1
  <2> QED
    BY <2>1, <2>2, <2>3 DEF Run
<1>5. IsFiniteSet(before \cup {n}) /\ Cardinality(before \cup {n}) = Cardinality(before) + 1
  BY <1>2, <1>3, FS_AddElement
<1>6. Cardinality(Run(as, n)) <= Cardinality(before \cup {n})
  BY <1>4, <1>5, FS_Subset
<1> QED
  BY <1>5, <1>6

(* Where no role is asked, a task that will not start is not tried more    *)
(* than MaxUnstarted times in a row (supervisor.rs unstarted_streak): one  *)
(* handed to a role is taken over from it without the limit being looked   *)
(* at.                                                                     *)
THEOREM UnstartedIsBounded ==
    ASSUME Solo, RoleTasks = {}, Routable = {}
    PROVE  Spec => []UnstartedBounded
<1>1. ASSUME TypeOK, Inv, NEW t \in Tasks
      PROVE  Cardinality(UnstartedStreak(t)) <= MaxUnstarted
  <2>1. /\ UnstartedStreak(t) = Run(attempts[t], Len(attempts[t]))
        /\ Len(attempts[t]) \in Nat /\ Cardinality(UnstartedStreak(t)) \in Nat
    BY <1>1, StreakIs DEF TypeOK
  <2>2. CASE Len(attempts[t]) = 0
    <3>1. UnstartedStreak(t) = {}
      BY <2>1, <2>2 DEF Run
    <3>2. Cardinality(UnstartedStreak(t)) = 0
      BY <3>1, FS_EmptySet
    <3> QED
      BY <3>2, SupervisorAssumption
  <2>3. CASE Len(attempts[t]) > 0
    <3>1. Cardinality(Run(attempts[t], Len(attempts[t]) - 1)) < MaxUnstarted
      BY <1>1, <2>3, Rows DEF Sound, Streak, ByRole
    <3>2. Len(attempts[t]) - 1 \in Nat
      BY <2>1, <2>3
    <3>3. Cardinality(Run(attempts[t], Len(attempts[t]) - 1)) \in Nat
      BY <3>2, RunCount
    <3>4. Cardinality(UnstartedStreak(t)) <= Cardinality(Run(attempts[t], Len(attempts[t]) - 1)) + 1
      BY <2>1, <2>3, RunGrows
    <3> QED
      BY <2>1, <3>1, <3>3, <3>4, SupervisorAssumption
  <2> QED
    BY <2>1, <2>2, <2>3
<1>2. TypeOK /\ Inv => UnstartedBounded
  BY <1>1 DEF UnstartedBounded
<1> QED
  BY <1>2, Solid, PTL

(* A task never has two workers on one machine, if the supervisor does not *)
(* die between an outside effect here and the write that records it: what  *)
(* runs is adopted, an unread message is taken back before a session is    *)
(* started in its place, and a peer refuses a second attempt.              *)
THEOREM OneWorkerOnEach ==
    ASSUME Solo, Tidy
    PROVE  Spec => []OneWorkerPerMachine
<1>1. ASSUME TypeOK, Inv, NEW t \in Tasks, NEW i \in Workers(t), NEW j \in Workers(t),
             attempts[t][i].on = attempts[t][j].on
      PROVE  i = j
  <2>1. /\ i \in DOMAIN attempts[t] /\ attempts[t][i].proc \in {"live", "delivered", "pending"}
        /\ j \in DOMAIN attempts[t] /\ attempts[t][j].proc \in {"live", "delivered", "pending"}
    BY DEF Workers
  <2>2. Local(attempts[t][i]) <=> Local(attempts[t][j])
    BY <1>1, <2>1, AtHand, SupervisorAssumption
  <2>3. CASE Local(attempts[t][i])
    BY <1>1, <2>1, <2>2, <2>3, AtHand
  <2>4. CASE ~Local(attempts[t][i])
    <3>1. OnPeer(attempts[t][i]) /\ OnPeer(attempts[t][j])
      BY <1>1, <2>1, <2>2, <2>4, AtHand
    <3>2. OneEach(attempts[t])
      BY <1>1, Rows DEF Sound
    <3> QED
      BY <1>1, <2>1, <3>1, <3>2 DEF OneEach
  <2> QED
    BY <2>3, <2>4
<1>2. TypeOK /\ Inv => OneWorkerPerMachine
  BY <1>1 DEF OneWorkerPerMachine
<1> QED
  BY <1>2, Solid, PTL

(* Without peers, every attempt is here.                                   *)
LEMMA Alone ==
    ASSUME TypeOK, Inv, Tidy, Peers = {}, NEW t \in Tasks, NEW i \in DOMAIN attempts[t],
           attempts[t][i].proc \in {"live", "delivered", "pending"}
    PROVE  /\ i = Len(attempts[t])
           /\ Explained(t, state[t], reason[t], attempts[t][i], Hand(t))
BY AtHand

(* Without peers a task never has two workers.                             *)
THEOREM OneWorkerAlone ==
    ASSUME Solo, Tidy, Peers = {}
    PROVE  Spec => []OneWorker
<1>1. ASSUME TypeOK, Inv, NEW t \in Tasks
      PROVE  Cardinality(Workers(t)) <= 1
  <2>1. Workers(t) \subseteq {Len(attempts[t])}
    BY <1>1, Alone DEF Workers
  <2>2. IsFiniteSet({Len(attempts[t])}) /\ Cardinality({Len(attempts[t])}) = 1
    BY FS_Singleton
  <2> QED
    BY <2>1, <2>2, FS_Subset
<1>2. TypeOK /\ Inv => OneWorker
  BY <1>1 DEF OneWorker
<1> QED
  BY <1>2, Solid, PTL

(* Without peers, no message of a task can still be read while a session   *)
(* works on it (supervisor.rs: taken back first, so nobody reads it later).*)
THEOREM NoLateReader ==
    ASSUME Solo, Tidy, Peers = {}
    PROVE  Spec => []NobodyReadsLater
<1>1. TypeOK /\ Inv => NobodyReadsLater
  <2> SUFFICES ASSUME TypeOK, Inv, NEW t \in Tasks,
                      NEW i \in DOMAIN attempts[t], NEW j \in DOMAIN attempts[t],
                      attempts[t][i].proc = "live", attempts[t][j].proc = "pending"
               PROVE  FALSE
    BY DEF NobodyReadsLater
  <2>1. i = Len(attempts[t]) /\ j = Len(attempts[t])
    BY Alone
  <2> QED
    BY <2>1
<1> QED
  BY <1>1, Solid, PTL

(* Without peers, nothing is left at work on a task that is being verified *)
(* or resumed, is done, or was handed to a person as used up.              *)
THEOREM NoOrphanAlone ==
    ASSUME Solo, Tidy, Peers = {}
    PROVE  Spec => []NoOrphan
<1>1. ASSUME TypeOK, Inv, NEW t \in Tasks, NEW i \in Workers(t)
      PROVE  /\ state[t] \notin {"VERIFYING", "RESUMING", "DONE"}
             /\ reason[t] \notin {"resume-cap", "retries-exhausted", "never_started"}
  <2>1. Explained(t, state[t], reason[t], attempts[t][i], Hand(t))
    BY <1>1, Alone DEF Workers
  <2> QED
    BY <2>1 DEF Explained, Spent
<1>2. TypeOK /\ Inv => NoOrphan
  BY <1>1 DEF NoOrphan
<1> QED
  BY <1>2, Solid, PTL
=============================================================================
