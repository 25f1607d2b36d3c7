-------------------------- MODULE InterruptBusProofs --------------------------
(***************************************************************************)
(* Type correctness of InterruptBus, that an interrupt only moves forward,  *)
(* that it is typed at most once by each dashboard and once more for each   *)
(* record that was lost, and that each of its retries costs at most one     *)
(* attempt of each.                                                         *)
(***************************************************************************)
EXTENDS InterruptBus, FiniteSetTheorems, TLAPS

-----------------------------------------------------------------------------
(* Types and what depends on the row alone.                                 *)

Row == [state : States, retries : 0 .. MaxRetries, later : BOOLEAN]
PassRecord == [at : {"idle", "scanned", "choosing", "typed", "failed", "counted"},
               sees : SUBSET Sessions, todo : SUBSET Interrupts, count : 0 .. MaxRetries]

(* What is not settled has retries left, and so has every count in hand.    *)
RetriesLeft ==
    /\ \A i \in Interrupts : row[i].state \in {"none", "refused", "pending"} => row[i].retries < MaxRetries
    /\ \A d \in Dashboards : pass[d].count < MaxRetries

(* Who passed the duplicate test has not inserted yet.                      *)
NotInserted ==
    \A r \in Raisers : \A i \in raising[r] : RaisedBy[i] = r /\ row[i].state = "none"

(* A pass holds only what was raised.                                       *)
Raised ==
    \A d \in Dashboards : \A i \in pass[d].todo : row[i].state \notin {"none", "refused"}

IInv == TypeOK /\ RetriesLeft /\ NotInserted /\ Raised

LEMMA RestingTyped == Resting \in PassRecord /\ Resting.count < MaxRetries /\ Resting.todo = {}
BY InterruptAssumption DEF Resting, PassRecord

LEMMA ExpiredTyped ==
    ASSUME IInv
    PROVE  /\ Expired \in [Interrupts -> Row]
           /\ \A i \in Interrupts :
                 \/ Expired[i] = row[i]
                 \/ /\ row[i].state \in Active /\ Expired[i].state = "expired"
                    /\ Expired[i].retries = row[i].retries
<1>1. row \in [Interrupts -> Row]
    BY DEF IInv, TypeOK, Row
<1>2. ASSUME NEW i \in Interrupts
      PROVE  /\ Expired[i] \in Row
             /\ \/ Expired[i] = row[i]
                \/ /\ row[i].state \in Active /\ Expired[i].state = "expired"
                   /\ Expired[i].retries = row[i].retries
    BY <1>1 DEF Expired, IsStale, Stale, IsExhausted, Row, States, Active
<1> QED
    BY <1>1, <1>2 DEF Expired

LEMMA InitIInv == Init => IInv
<1> SUFFICES ASSUME Init PROVE IInv
    OBVIOUS
<1>1. TypeOK
    BY InterruptAssumption, RestingTyped DEF Init, TypeOK, States, PassRecord
<1> QED
    BY <1>1, InterruptAssumption, RestingTyped DEF Init, IInv, RetriesLeft, NotInserted, Raised

LEMMA StutterIInv == IInv /\ UNCHANGED vars => IInv'
BY DEF IInv, TypeOK, RetriesLeft, NotInserted, Raised, vars, history

(* The types, as facts the steps below need apart.                          *)
LEMMA Typing ==
    ASSUME IInv
    PROVE  /\ row \in [Interrupts -> Row] /\ pass \in [Dashboards -> PassRecord]
           /\ raising \in [Raisers -> SUBSET Interrupts]
           /\ \A i \in Interrupts : row[i].state \in States /\ row[i].retries \in 0 .. MaxRetries
           /\ \A d \in Dashboards : pass[d].todo \subseteq Interrupts /\ pass[d].count \in 0 .. MaxRetries
<1>1. /\ row \in [Interrupts -> Row] /\ pass \in [Dashboards -> PassRecord]
      /\ raising \in [Raisers -> SUBSET Interrupts]
    BY DEF IInv, TypeOK, Row, PassRecord
<1>2. ASSUME NEW i \in Interrupts
      PROVE  row[i].state \in States /\ row[i].retries \in 0 .. MaxRetries
    BY <1>1 DEF Row
<1>3. ASSUME NEW d \in Dashboards
      PROVE  pass[d].todo \subseteq Interrupts /\ pass[d].count \in 0 .. MaxRetries
    BY <1>1 DEF PassRecord
<1> QED
    BY <1>1, <1>2, <1>3

(* One row is given another state.                                          *)
LEMMA StateSet ==
    ASSUME NEW f \in [Interrupts -> Row], NEW i \in Interrupts, NEW to \in States
    PROVE  /\ [f EXCEPT ![i].state = to] \in [Interrupts -> Row]
           /\ [f EXCEPT ![i].state = to][i].state = to
           /\ [f EXCEPT ![i].state = to][i].retries = f[i].retries
           /\ \A j \in Interrupts : j # i => [f EXCEPT ![i].state = to][j] = f[j]
<1>1. f[i] \in Row
    OBVIOUS
<1>2. [f[i] EXCEPT !.state = to] \in Row
    BY <1>1 DEF Row
<1>3. [f EXCEPT ![i].state = to] = [f EXCEPT ![i] = [f[i] EXCEPT !.state = to]]
    OBVIOUS
<1>4. [f[i] EXCEPT !.state = to].state = to /\ [f[i] EXCEPT !.state = to].retries = f[i].retries
    BY <1>1 DEF Row
<1> QED
    BY <1>2, <1>3, <1>4

LEMMA RaiserIInv ==
    ASSUME IInv, NEW r \in Raisers, FindDuplicate(r) \/ Insert(r)
    PROVE  IInv'
<1> USE InterruptAssumption
<1>1. CASE FindDuplicate(r)
    <2>1. PICK i \in Interrupts :
             /\ RaisedBy[i] = r /\ row[i].state = "none"
             /\ \/ row' = [row EXCEPT ![i].state = "refused"] /\ UNCHANGED raising
                \/ raising' = [raising EXCEPT ![r] = {i}] /\ UNCHANGED row
        BY <1>1 DEF FindDuplicate
    <2>2. UNCHANGED <<due, pass, session, terminal, typed, failed, faults>> /\ raising[r] = {}
        BY <1>1 DEF FindDuplicate, history
    <2>3. /\ row' \in [Interrupts -> Row]
          /\ \A j \in Interrupts : j # i => row'[j] = row[j]
          /\ row'[i] = row[i] \/ row'[i].state = "refused"
          /\ row'[i].retries = row[i].retries
        <3>1. CASE row' = row
            BY <3>1, Typing
        <3>2. CASE row' = [row EXCEPT ![i].state = "refused"]
            <4>1. "refused" \in States /\ row \in [Interrupts -> Row]
                BY Typing DEF States
            <4> QED
                BY <3>2, <4>1, StateSet
        <3> QED
            BY <2>1, <3>1, <3>2
    <2>4. /\ raising' \in [Raisers -> SUBSET Interrupts]
          /\ \A q \in Raisers : q # r => raising'[q] = raising[q]
          /\ raising'[r] = {} \/ (raising'[r] = {i} /\ row' = row)
        BY <2>1, <2>2, Typing
    <2>5. TypeOK'
        BY <2>2, <2>3, <2>4 DEF IInv, TypeOK, Row
    <2>6. RetriesLeft'
        BY <2>1, <2>2, <2>3 DEF IInv, RetriesLeft
    <2>7. NotInserted'
        BY <2>1, <2>3, <2>4, Typing DEF IInv, NotInserted
    <2>8. Raised'
        BY <2>1, <2>2, <2>3, Typing DEF IInv, Raised
    <2> QED
        BY <2>5, <2>6, <2>7, <2>8 DEF IInv
<1>2. CASE Insert(r)
    <2>1. /\ row' = [i \in Interrupts |->
                       IF i \in raising[r] THEN [row[i] EXCEPT !.state = "pending"] ELSE row[i]]
          /\ raising' = [raising EXCEPT ![r] = {}]
          /\ UNCHANGED <<due, pass, session, terminal, typed, failed, faults>>
        BY <1>2 DEF Insert, history
    <2>2. \A i \in raising[r] : RaisedBy[i] = r /\ row[i].state = "none"
        BY DEF IInv, NotInserted
    <2>3. ASSUME NEW i \in Interrupts
          PROVE  /\ row'[i] \in Row
                 /\ i \in raising[r] => row'[i].state = "pending" /\ row'[i].retries = row[i].retries
                 /\ i \notin raising[r] => row'[i] = row[i]
        BY <2>1, Typing DEF Row, States, Active
    <2>4. row' \in [Interrupts -> Row]
        BY <2>1, <2>3
    <2>5. /\ raising' \in [Raisers -> SUBSET Interrupts]
          /\ raising'[r] = {} /\ \A q \in Raisers : q # r => raising'[q] = raising[q]
        BY <2>1, Typing
    <2>6. TypeOK'
        BY <2>1, <2>4, <2>5 DEF IInv, TypeOK, Row
    <2>7. RetriesLeft'
        BY <2>1, <2>2, <2>3 DEF IInv, RetriesLeft
    <2>8. NotInserted'
        BY <2>2, <2>3, <2>5, Typing DEF IInv, NotInserted
    <2>9. Raised'
        BY <2>1, <2>2, <2>3, Typing DEF IInv, Raised
    <2> QED
        BY <2>6, <2>7, <2>8, <2>9 DEF IInv
<1> QED
    BY <1>1, <1>2

(* One pass is replaced.                                                    *)
LEMMA PassSet ==
    ASSUME NEW f \in [Dashboards -> PassRecord], NEW d \in Dashboards, NEW p \in PassRecord
    PROVE  /\ [f EXCEPT ![d] = p] \in [Dashboards -> PassRecord]
           /\ [f EXCEPT ![d] = p][d] = p
           /\ \A e \in Dashboards : e # d => [f EXCEPT ![d] = p][e] = f[e]
OBVIOUS

(* A step that leaves the rows alone, and gives a pass no more to do.       *)
LEMMA PassOnly ==
    ASSUME IInv, NEW d \in Dashboards, NEW p \in PassRecord, pass' = [pass EXCEPT ![d] = p],
           p.todo \subseteq pass[d].todo, p.count < MaxRetries,
           UNCHANGED <<row, due, raising, session, terminal>>,
           typed' \in [Interrupts -> Nat], failed' \in [Interrupts -> Nat],
           faults' \in 0 .. MaxFaults
    PROVE  IInv'
<1>1. /\ pass' \in [Dashboards -> PassRecord] /\ pass'[d] = p
      /\ \A e \in Dashboards : e # d => pass'[e] = pass[e]
    BY Typing, PassSet
<1>2. TypeOK'
    BY <1>1 DEF IInv, TypeOK, PassRecord
<1>3. RetriesLeft'
    BY <1>1 DEF IInv, RetriesLeft
<1>4. NotInserted'
    BY DEF IInv, NotInserted
<1>5. Raised'
    BY <1>1 DEF IInv, Raised
<1> QED
    BY <1>2, <1>3, <1>4, <1>5 DEF IInv

(* A step that records what became of one interrupt and takes it off.       *)
LEMMA RecordIInv ==
    ASSUME IInv, NEW d \in Dashboards, NEW i \in Interrupts, Done(d, i),
           NEW r \in Row, row' = [row EXCEPT ![i] = r], r.state \notin {"none", "refused"},
           row[i].state # "none", r.state = "pending" => r.retries < MaxRetries,
           UNCHANGED <<due, raising, session, terminal, history>>
    PROVE  IInv'
<1> DEFINE p == [pass[d] EXCEPT !.at = "choosing", !.todo = @ \ {i}, !.count = 0]
<1> USE InterruptAssumption
<1>0. pass[d] \in PassRecord /\ 0 \in 0 .. MaxRetries
    BY Typing
<1>1. p \in PassRecord /\ p.todo = pass[d].todo \ {i} /\ p.count = 0
    BY <1>0 DEF PassRecord
<1>2. pass' = [pass EXCEPT ![d] = p]
    BY DEF Done
<1> HIDE DEF p
<1>3. /\ pass' \in [Dashboards -> PassRecord] /\ pass'[d] = p
      /\ \A e \in Dashboards : e # d => pass'[e] = pass[e]
    BY <1>1, <1>2, Typing, PassSet
<1>4. row' \in [Interrupts -> Row] /\ row'[i] = r /\ \A j \in Interrupts : j # i => row'[j] = row[j]
    BY Typing
<1>5. TypeOK'
    BY <1>3, <1>4 DEF IInv, TypeOK, PassRecord, Row, history
<1>6. RetriesLeft'
    BY <1>1, <1>3, <1>4 DEF IInv, RetriesLeft
<1>7. NotInserted'
    BY <1>4, Typing DEF IInv, NotInserted
<1>8. Raised'
    BY <1>1, <1>3, <1>4, Typing DEF IInv, Raised
<1> QED
    BY <1>5, <1>6, <1>7, <1>8 DEF IInv

LEMMA ScanIInv == ASSUME IInv, NEW d \in Dashboards, Scan(d) PROVE IInv'
<1>1. PICK ghosts \in SUBSET Sessions :
        pass' = [pass EXCEPT ![d] = [Resting EXCEPT !.at = "scanned",
                    !.sees = ghosts \cup {s \in Sessions : session[s] # "gone"}]]
    BY DEF Scan
<1> DEFINE p == [Resting EXCEPT !.at = "scanned",
                    !.sees = ghosts \cup {s \in Sessions : session[s] # "gone"}]
<1>2. Resting \in PassRecord /\ Resting.todo = {} /\ Resting.count < MaxRetries
    BY RestingTyped
<1>3. ghosts \cup {s \in Sessions : session[s] # "gone"} \in SUBSET Sessions
    OBVIOUS
<1>4. p \in PassRecord /\ p.todo = {} /\ p.count < MaxRetries
    BY <1>2, <1>3 DEF PassRecord
<1>5. pass' = [pass EXCEPT ![d] = p]
    BY <1>1
<1> HIDE DEF p
<1>6. /\ typed' \in [Interrupts -> Nat] /\ failed' \in [Interrupts -> Nat]
      /\ faults' \in 0 .. MaxFaults
      /\ UNCHANGED <<row, due, raising, session, terminal>>
    BY DEF Scan, history, IInv, TypeOK
<1> QED
    BY <1>4, <1>5, <1>6, PassOnly

LEMMA ListIInv == ASSUME IInv, NEW d \in Dashboards, List(d) PROVE IInv'
<1> DEFINE p == [pass[d] EXCEPT !.at = "choosing",
                                !.todo = {i \in Interrupts : Deliverable(i, row')}]
<1>1. p \in PassRecord /\ p.count = pass[d].count /\ p.todo = {i \in Interrupts : Deliverable(i, row')}
    BY Typing DEF PassRecord
<1>2. pass' = [pass EXCEPT ![d] = p]
    BY DEF List
<1>3. \A i \in p.todo : i \in Interrupts /\ row'[i].state = "pending"
    BY <1>1 DEF Deliverable
<1> HIDE DEF p
<1>4. /\ pass' \in [Dashboards -> PassRecord] /\ pass'[d] = p
      /\ \A e \in Dashboards : e # d => pass'[e] = pass[e]
    BY <1>1, <1>2, Typing, PassSet
<1>5. /\ row' \in [Interrupts -> Row]
      /\ \A i \in Interrupts :
             \/ row'[i] = row[i]
             \/ row[i].state \in Active /\ row'[i].state = "expired"
    BY ExpiredTyped DEF List
<1>6. UNCHANGED <<due, raising, session, terminal, typed, failed, faults>>
    BY DEF List, history
<1>7. TypeOK'
    BY <1>4, <1>5, <1>6 DEF IInv, TypeOK, Row, PassRecord
<1>8. RetriesLeft'
    BY <1>1, <1>4, <1>5 DEF IInv, RetriesLeft
<1>9. NotInserted'
    BY <1>5, <1>6, Typing DEF IInv, NotInserted, Active
<1>10. Raised'
    BY <1>3, <1>4, <1>5, Typing DEF IInv, Raised
<1> QED
    BY <1>7, <1>8, <1>9, <1>10 DEF IInv

LEMMA ChoiceIInv == ASSUME IInv, NEW d \in Dashboards, Skip(d) \/ Send(d) PROVE IInv'
<1>1. CASE Skip(d)
    <2>1. PICK i \in Interrupts : pass' = [pass EXCEPT ![d].todo = @ \ {i}]
        BY <1>1 DEF Skip
    <2> DEFINE p == [pass[d] EXCEPT !.todo = @ \ {i}]
    <2>2. p \in PassRecord /\ p.todo \subseteq pass[d].todo /\ p.count = pass[d].count
        BY Typing DEF PassRecord
    <2>3. pass' = [pass EXCEPT ![d] = p]
        BY <2>1
    <2> HIDE DEF p
    <2>4. /\ typed' \in [Interrupts -> Nat] /\ failed' \in [Interrupts -> Nat]
          /\ faults' \in 0 .. MaxFaults
          /\ UNCHANGED <<row, due, raising, session, terminal>>
        BY <1>1 DEF Skip, history, IInv, TypeOK
    <2>5. p.count < MaxRetries
        BY <2>2 DEF IInv, RetriesLeft
    <2> QED
        BY <2>2, <2>3, <2>4, <2>5, PassOnly
<1>2. CASE Send(d)
    <2>1. PICK at \in {"typed", "failed"} : pass' = [pass EXCEPT ![d].at = at]
        BY <1>2 DEF Send
    <2> DEFINE p == [pass[d] EXCEPT !.at = at]
    <2>2. p \in PassRecord /\ p.todo = pass[d].todo /\ p.count = pass[d].count
        BY Typing DEF PassRecord
    <2>3. pass' = [pass EXCEPT ![d] = p]
        BY <2>1
    <2> HIDE DEF p
    <2>4. PICK i \in Interrupts :
            /\ typed' = [typed EXCEPT ![i] = @ + 1] \/ typed' = typed
            /\ failed' = [failed EXCEPT ![i] = @ + 1] \/ failed' = failed
        BY <1>2 DEF Send
    <2>5. typed \in [Interrupts -> Nat] /\ failed \in [Interrupts -> Nat]
        BY DEF IInv, TypeOK
    <2>6. typed' \in [Interrupts -> Nat]
        BY <2>4, <2>5
    <2>7. failed' \in [Interrupts -> Nat]
        BY <2>4, <2>5
    <2>8. faults' \in 0 .. MaxFaults /\ UNCHANGED <<row, due, raising, session, terminal>>
        BY <1>2 DEF Send, IInv, TypeOK
    <2>9. p.count < MaxRetries
        BY <2>2 DEF IInv, RetriesLeft
    <2> QED
        BY <2>2, <2>3, <2>6, <2>7, <2>8, <2>9, PassOnly
<1> QED
    BY <1>1, <1>2

LEMMA TurnRaised ==
    ASSUME IInv, NEW d \in Dashboards, NEW i \in Interrupts, Turn(d, i)
    PROVE  row[i] \in Row /\ row[i].state \in {"pending", "delivered", "acknowledged", "expired"}
BY Typing DEF Turn, IInv, Raised, States, Active

LEMMA DeliveredIInv == ASSUME IInv, NEW d \in Dashboards, RecordDelivered(d) PROVE IInv'
<1>1. PICK i \in Interrupts : Turn(d, i) /\ row' = Delivered(i) /\ Done(d, i)
    BY DEF RecordDelivered
<1>2. row[i] \in Row /\ row[i].state \in {"pending", "delivered", "acknowledged", "expired"}
    BY <1>1, TurnRaised
<1>3. UNCHANGED <<due, raising, session, terminal, history>>
    BY DEF RecordDelivered
<1>4. CASE row[i].state = "pending"
    <2> DEFINE r == [row[i] EXCEPT !.state = "delivered", !.later = FALSE]
    <2>1. r \in Row /\ r.state = "delivered"
        BY <1>2 DEF Row, States, Active
    <2>2. row' = [row EXCEPT ![i] = r]
        BY <1>1, <1>4 DEF Delivered
    <2> HIDE DEF r
    <2> QED
        BY <1>1, <1>2, <1>3, <2>1, <2>2, RecordIInv
<1>5. CASE row[i].state # "pending"
    <2>1. row' = [row EXCEPT ![i] = row[i]]
        BY <1>1, <1>5, Typing DEF Delivered
    <2> QED
        BY <1>1, <1>2, <1>3, <1>5, <2>1, RecordIInv
<1> QED
    BY <1>4, <1>5

LEMMA FailureIInv ==
    ASSUME IInv, NEW d \in Dashboards, ReadFailure(d) \/ RecordFailure(d) PROVE IInv'
<1> USE InterruptAssumption
<1>1. CASE ReadFailure(d)
    <2>1. PICK i \in Interrupts : Turn(d, i) /\ (IF row[i].state = "pending"
             THEN pass' = [pass EXCEPT ![d].at = "counted", ![d].count = row[i].retries]
             ELSE Done(d, i))
        BY <1>1 DEF ReadFailure
    <2>2. UNCHANGED <<row, due, raising, session, terminal, history>>
        BY <1>1 DEF ReadFailure
    <2>3. CASE row[i].state = "pending"
        <3> DEFINE p == [pass[d] EXCEPT !.at = "counted", !.count = row[i].retries]
        <3>1. row[i].retries \in 0 .. MaxRetries /\ row[i].retries < MaxRetries
            BY <2>3, Typing DEF IInv, RetriesLeft
        <3>2. pass[d] \in PassRecord
            BY Typing
        <3>3. p \in PassRecord /\ p.todo = pass[d].todo /\ p.count = row[i].retries
            BY <3>1, <3>2 DEF PassRecord
        <3>4. pass' = [pass EXCEPT ![d] = p]
            BY <2>1, <2>3
        <3> HIDE DEF p
        <3>5. /\ typed' \in [Interrupts -> Nat] /\ failed' \in [Interrupts -> Nat]
              /\ faults' \in 0 .. MaxFaults
            BY <2>2 DEF history, IInv, TypeOK
        <3> QED
            BY <2>2, <3>1, <3>3, <3>4, <3>5, PassOnly
    <2>4. CASE row[i].state # "pending"
        <3>1. row' = [row EXCEPT ![i] = row[i]]
            BY <2>2, Typing
        <3>2. row[i] \in Row /\ row[i].state \in {"delivered", "acknowledged", "expired"}
            BY <2>1, <2>4, TurnRaised
        <3> QED
            BY <2>1, <2>2, <2>4, <3>1, <3>2, RecordIInv
    <2> QED
        BY <2>3, <2>4
<1>2. CASE RecordFailure(d)
    <2> DEFINE n == Counted(d)
               gone == [state |-> "expired", retries |-> n, later |-> FALSE]
               kept == [state |-> "pending", retries |-> n, later |-> TRUE]
    <2>1. PICK i \in Interrupts :
             /\ Turn(d, i) /\ Done(d, i)
             /\ row' = IF row[i].state # "pending" THEN row
                  ELSE IF n >= MaxRetries THEN [row EXCEPT ![i] = gone] ELSE [row EXCEPT ![i] = kept]
        BY <1>2 DEF RecordFailure
    <2>2. row[i] \in Row /\ row[i].state \in {"pending", "delivered", "acknowledged", "expired"}
        BY <2>1, TurnRaised
    <2>3. UNCHANGED <<due, raising, session, terminal, history>>
        BY <1>2 DEF RecordFailure
    <2>4. n \in 0 .. MaxRetries
        BY Typing DEF Counted, IInv, RetriesLeft
    <2>5. gone \in Row /\ kept \in Row /\ gone.state = "expired" /\ kept.state = "pending" /\ kept.retries = n
        BY <2>4 DEF Row, States, Active
    <2> HIDE DEF n, gone, kept
    <2>6. CASE row[i].state # "pending"
        <3>1. row' = [row EXCEPT ![i] = row[i]]
            BY <2>1, <2>6, Typing
        <3> QED
            BY <2>1, <2>2, <2>3, <2>6, <3>1, RecordIInv
    <2>7. CASE row[i].state = "pending" /\ n >= MaxRetries
        BY <2>1, <2>3, <2>5, <2>7, RecordIInv
    <2>8. CASE row[i].state = "pending" /\ n < MaxRetries
        <3>1. row' = [row EXCEPT ![i] = kept]
            BY <2>1, <2>4, <2>8
        <3> QED
            BY <2>1, <2>3, <2>5, <2>8, <3>1, RecordIInv
    <2> QED
        BY <2>4, <2>6, <2>7, <2>8
<1> QED
    BY <1>1, <1>2

LEMMA FinishIInv == ASSUME IInv, NEW d \in Dashboards, Finish(d) \/ Crash(d) PROVE IInv'
<1>1. /\ pass' = [pass EXCEPT ![d] = Resting]
      /\ UNCHANGED <<row, due, raising, session, terminal, typed, failed>>
      /\ faults' = faults \/ (faults < MaxFaults /\ faults' = faults + 1)
    BY DEF Finish, Crash, history
<1>2. typed' \in [Interrupts -> Nat] /\ failed' \in [Interrupts -> Nat]
    BY <1>1 DEF IInv, TypeOK
<1>3. faults \in 0 .. MaxFaults
    BY DEF IInv, TypeOK
<1>4. faults' \in 0 .. MaxFaults
    BY <1>1, <1>3, InterruptAssumption
<1> QED
    BY <1>1, <1>2, <1>4, RestingTyped, PassOnly

LEMMA FailsIInv == ASSUME IInv, NEW d \in Dashboards, RecordFails(d) PROVE IInv'
<1>1. PICK i \in Interrupts : Done(d, i)
    BY DEF RecordFails
<1> DEFINE p == [pass[d] EXCEPT !.at = "choosing", !.todo = @ \ {i}, !.count = 0]
<1>2. pass[d] \in PassRecord /\ 0 \in 0 .. MaxRetries
    BY Typing, InterruptAssumption
<1>3. p \in PassRecord /\ p.todo = pass[d].todo \ {i} /\ p.count = 0
    BY <1>2 DEF PassRecord
<1>4. pass' = [pass EXCEPT ![d] = p]
    BY <1>1 DEF Done
<1> HIDE DEF p
<1>5. /\ UNCHANGED <<row, due, raising, session, terminal, typed, failed>>
      /\ faults < MaxFaults /\ faults' = faults + 1
    BY DEF RecordFails
<1>6. /\ typed \in [Interrupts -> Nat] /\ failed \in [Interrupts -> Nat]
      /\ faults \in 0 .. MaxFaults
    BY DEF IInv, TypeOK
<1>7. faults' \in 0 .. MaxFaults /\ p.count < MaxRetries /\ p.todo \subseteq pass[d].todo
    BY <1>3, <1>5, <1>6, InterruptAssumption
<1> QED
    BY <1>3, <1>4, <1>5, <1>6, <1>7, PassOnly

(* What a refresh does to the rows.                                         *)
LEMMA Refreshed ==
    ASSUME IInv, NEW d, Refresh(d)
    PROVE  /\ row' \in [Interrupts -> Row]
           /\ \A i \in Interrupts :
                 \/ row'[i] = row[i]
                 \/ row[i].state \in Active /\ row'[i].state = "expired"
<1>1. row' = [i \in Interrupts |-> IF IsStale(i) THEN Stale(i) ELSE row[i]]
    BY DEF Refresh
<1>2. ASSUME NEW i \in Interrupts
      PROVE  /\ row'[i] \in Row
             /\ row'[i] = row[i] \/ (row[i].state \in Active /\ row'[i].state = "expired")
    <2>1. row[i] \in Row
        BY Typing
    <2> QED
        BY <1>1, <2>1 DEF IsStale, Stale, Row, States
<1> QED
    BY <1>1, <1>2

LEMMA RefreshIInv == ASSUME IInv, NEW d \in Dashboards, Refresh(d) PROVE IInv'
<1>1. /\ row' \in [Interrupts -> Row]
      /\ \A i \in Interrupts :
            \/ row'[i] = row[i]
            \/ row[i].state \in Active /\ row'[i].state = "expired"
    BY Refreshed
<1>2. UNCHANGED <<due, raising, pass, session, terminal, typed, failed, faults>>
    BY DEF Refresh, history
<1>3. TypeOK'
    BY <1>1, <1>2 DEF IInv, TypeOK, Row
<1>4. RetriesLeft'
    BY <1>1, <1>2 DEF IInv, RetriesLeft
<1>5. NotInserted'
    BY <1>1, <1>2, Typing DEF IInv, NotInserted, Active
<1>6. Raised'
    BY <1>1, <1>2, Typing DEF IInv, Raised
<1> QED
    BY <1>3, <1>4, <1>5, <1>6 DEF IInv

LEMMA PassIInv ==
    ASSUME IInv, NEW d \in Dashboards, Pass(d) \/ Refresh(d) \/ RecordFails(d) \/ Crash(d)
    PROVE  IInv'
BY ScanIInv, ListIInv, ChoiceIInv, DeliveredIInv, FailureIInv, FinishIInv, FailsIInv, RefreshIInv
   DEF Pass

LEMMA WorldIInv ==
    ASSUME IInv,
           \/ \E i \in Interrupts : Acknowledge(i) \/ Deadline(i) \/ RetryDue(i)
           \/ \E s \in Sessions : SessionMoves(s)
    PROVE  IInv'
<1>1. ASSUME NEW i \in Interrupts, Acknowledge(i) PROVE IInv'
    <2>1. /\ row' = [row EXCEPT ![i].state = "acknowledged"] /\ row[i].state = "delivered"
          /\ UNCHANGED <<due, raising, pass, session, terminal, typed, failed, faults>>
        BY <1>1 DEF Acknowledge, history
    <2>2. "acknowledged" \in States /\ row \in [Interrupts -> Row]
        BY Typing DEF States
    <2>3. /\ row' \in [Interrupts -> Row] /\ row'[i].state = "acknowledged"
          /\ \A j \in Interrupts : j # i => row'[j] = row[j]
        BY <2>1, <2>2, StateSet
    <2>4. TypeOK'
        BY <2>1, <2>3 DEF IInv, TypeOK, Row
    <2>5. RetriesLeft' /\ Raised'
        BY <2>1, <2>3, Typing DEF IInv, RetriesLeft, Raised
    <2>6. NotInserted'
        BY <2>1, <2>3, Typing DEF IInv, NotInserted
    <2> QED
        BY <2>4, <2>5, <2>6 DEF IInv
<1>2. ASSUME NEW i \in Interrupts, Deadline(i) PROVE IInv'
    <2>1. due' = [due EXCEPT ![i] = IF @ = "ahead" THEN "now" ELSE "past"]
          /\ UNCHANGED <<row, raising, pass, session, terminal, typed, failed, faults>>
        BY <1>2 DEF Deadline, history
    <2>2. due' \in [Interrupts -> {"ahead", "now", "past"}]
        BY <2>1 DEF IInv, TypeOK
    <2> QED
        BY <2>1, <2>2 DEF IInv, TypeOK, RetriesLeft, NotInserted, Raised
<1>3. ASSUME NEW i \in Interrupts, RetryDue(i) PROVE IInv'
    <2> DEFINE r == [row[i] EXCEPT !.later = FALSE]
    <2>1. row' = [row EXCEPT ![i] = r]
          /\ UNCHANGED <<due, raising, pass, session, terminal, typed, failed, faults>>
        BY <1>3 DEF RetryDue, history
    <2>2. r \in Row /\ r.state = row[i].state /\ r.retries = row[i].retries
        BY Typing DEF Row
    <2> HIDE DEF r
    <2>3. /\ row' \in [Interrupts -> Row]
          /\ \A j \in Interrupts : row'[j].state = row[j].state /\ row'[j].retries = row[j].retries
        BY <2>1, <2>2, Typing
    <2>4. TypeOK'
        BY <2>1, <2>3 DEF IInv, TypeOK, Row
    <2>5. RetriesLeft'
        BY <2>1, <2>3 DEF IInv, RetriesLeft
    <2>6. NotInserted' /\ Raised'
        BY <2>1, <2>3, Typing DEF IInv, NotInserted, Raised
    <2> QED
        BY <2>4, <2>5, <2>6 DEF IInv
<1>4. ASSUME NEW s \in Sessions, SessionMoves(s) PROVE IInv'
    <2>1. PICK to \in {"waiting", "in tool", "gone"} : session' = [session EXCEPT ![s] = to]
        BY <1>4 DEF SessionMoves
    <2>2. UNCHANGED <<row, due, raising, pass, terminal, typed, failed, faults>>
        BY <1>4 DEF SessionMoves, history
    <2>3. session' \in [Sessions -> {"waiting", "in tool", "gone"}]
        BY <2>1 DEF IInv, TypeOK
    <2> QED
        BY <2>2, <2>3 DEF IInv, TypeOK, RetriesLeft, NotInserted, Raised
<1> QED
    BY <1>1, <1>2, <1>3, <1>4

LEMMA NextIInv == IInv /\ [Next]_vars => IInv'
<1> SUFFICES ASSUME IInv, [Next]_vars PROVE IInv'
    OBVIOUS
<1>1. CASE UNCHANGED vars
    BY <1>1, StutterIInv
<1>2. CASE Next
    BY <1>2, RaiserIInv, PassIInv, WorldIInv DEF Next
<1> QED
    BY <1>1, <1>2

(* Every state is well formed: TypeOK, for any interrupts and dashboards.   *)
THEOREM Typed == Spec => []TypeOK
<1>1. Spec => []IInv
    BY InitIInv, NextIInv, PTL DEF Spec
<1>2. IInv => TypeOK
    BY DEF IInv
<1> QED
    BY <1>1, <1>2, PTL
-----------------------------------------------------------------------------
(* How the state of an interrupt moves.                                     *)

Forward(i) ==
    row'[i].state # row[i].state =>
        <<row[i].state, row'[i].state>> \in
            {<<"none", "pending">>, <<"none", "refused">>, <<"pending", "delivered">>,
             <<"pending", "expired">>, <<"delivered", "expired">>,
             <<"delivered", "acknowledged">>}

LEMMA ForwardNext == IInv /\ [Next]_vars => \A i \in Interrupts : Forward(i)
<1> SUFFICES ASSUME IInv, [Next]_vars, NEW i \in Interrupts PROVE Forward(i)
    OBVIOUS
<1>1. ASSUME row' = row PROVE Forward(i)
    BY <1>1 DEF Forward
<1>2. ASSUME NEW j \in Interrupts, NEW to, row' = [row EXCEPT ![j].state = to],
             <<row[j].state, to>> \in {<<"none", "refused">>, <<"delivered", "acknowledged">>}
      PROVE  Forward(i)
    <2>1. row'[i] = row[i] \/ (i = j /\ row'[i].state = to)
        BY <1>2, Typing DEF Row
    <2> QED
        BY <1>2, <2>1 DEF Forward
<1>3. ASSUME NEW r \in Raisers, FindDuplicate(r) PROVE Forward(i)
    BY <1>1, <1>2, <1>3 DEF FindDuplicate
<1>4. ASSUME NEW r \in Raisers, Insert(r) PROVE Forward(i)
    <2>1. /\ i \in raising[r] => row'[i].state = "pending" /\ row[i].state = "none"
          /\ i \notin raising[r] => row'[i] = row[i]
        BY <1>4, Typing DEF Insert, IInv, NotInserted, Row
    <2> QED
        BY <2>1 DEF Forward
<1>5. ASSUME NEW d \in Dashboards, List(d) PROVE Forward(i)
    <2>1. row'[i] = row[i] \/ (row[i].state \in Active /\ row'[i].state = "expired")
        BY <1>5, ExpiredTyped DEF List
    <2> QED
        BY <2>1 DEF Forward, Active
<1>6. ASSUME NEW d \in Dashboards, RecordDelivered(d) PROVE Forward(i)
    <2>1. PICK j \in Interrupts : row' = Delivered(j)
        BY <1>6 DEF RecordDelivered
    <2>2. row'[i] = row[i] \/ (row[i].state = "pending" /\ row'[i].state = "delivered")
        BY <2>1, Typing DEF Delivered, Row
    <2> QED
        BY <2>2 DEF Forward
<1>7. ASSUME NEW d \in Dashboards, RecordFailure(d) PROVE Forward(i)
    <2>1. PICK j \in Interrupts :
             row' = IF row[j].state # "pending" THEN row
                    ELSE IF Counted(d) >= MaxRetries
                    THEN [row EXCEPT ![j] = [state |-> "expired", retries |-> Counted(d), later |-> FALSE]]
                    ELSE [row EXCEPT ![j] = [state |-> "pending", retries |-> Counted(d), later |-> TRUE]]
        BY <1>7 DEF RecordFailure
    <2>2. \/ row'[i].state = row[i].state
          \/ row[i].state = "pending" /\ row'[i].state = "expired"
        BY <2>1, Typing
    <2> QED
        BY <2>2 DEF Forward
<1>8. ASSUME NEW j \in Interrupts, RetryDue(j) PROVE Forward(i)
    <2>1. row'[i].state = row[i].state
        BY <1>8, Typing DEF RetryDue, Row
    <2> QED
        BY <2>1 DEF Forward
<1>9. ASSUME NEW j \in Interrupts, Acknowledge(j) PROVE Forward(i)
    BY <1>2, <1>9 DEF Acknowledge
<1>10. CASE UNCHANGED vars
    BY <1>1, <1>10 DEF vars
<1>11. ASSUME NEW d \in Dashboards, Pass(d) \/ RecordFails(d) \/ Crash(d) PROVE Forward(i)
    BY <1>1, <1>5, <1>6, <1>7, <1>11
       DEF Pass, Scan, Skip, Send, ReadFailure, Finish, RecordFails, Crash
<1>12. ASSUME NEW j \in Interrupts, Deadline(j) PROVE Forward(i)
    BY <1>1, <1>12 DEF Deadline
<1>13. ASSUME NEW t \in Sessions, SessionMoves(t) PROVE Forward(i)
    BY <1>1, <1>13 DEF SessionMoves
<1>14. ASSUME NEW d \in Dashboards, Refresh(d) PROVE Forward(i)
    <2>1. row'[i] = row[i] \/ (row[i].state \in Active /\ row'[i].state = "expired")
        BY <1>14, Refreshed
    <2> QED
        BY <2>1 DEF Forward, Active
<1> QED
    BY <1>3, <1>4, <1>8, <1>9, <1>10, <1>11, <1>12, <1>13, <1>14 DEF Next

(* Lifecycle: an interrupt only moves forward, whoever is late.             *)
THEOREM MovesForward == Spec => Lifecycle
<1>1. Spec => []IInv
    BY InitIInv, NextIInv, PTL DEF Spec
<1>2. IInv /\ [Next]_vars
        => [\A i \in Interrupts :
              row'[i].state # row[i].state =>
                <<row[i].state, row'[i].state>> \in
                    {<<"none", "pending">>, <<"none", "refused">>, <<"pending", "delivered">>,
                     <<"pending", "expired">>, <<"delivered", "expired">>,
                     <<"delivered", "acknowledged">>}]_vars
    BY ForwardNext DEF Forward
<1> QED
    BY <1>1, <1>2, PTL DEF Spec, Lifecycle
-----------------------------------------------------------------------------
(* How often an interrupt is typed.  Until it is settled, what was typed is *)
(* still unrecorded, or its record was lost; once it is, only the passes    *)
(* that listed it before may type it again.                                 *)

Settled(i) == row[i].state \in {"delivered", "acknowledged", "expired"}
Typer(d, i) == pass[d].at = "typed" /\ Turn(d, i)
Owes(d, i) == i \in pass[d].todo /\ ~Typer(d, i)
Typers(i) == {d \in Dashboards : Typer(d, i)}
Owing(i) == {d \in Dashboards : Owes(d, i)}

WithinBudget(i) ==
    IF Settled(i) THEN typed[i] + Cardinality(Owing(i)) <= Cardinality(Dashboards) + faults
    ELSE typed[i] <= Cardinality(Typers(i)) + faults

Counts == typed \in [Interrupts -> Nat] /\ faults \in Nat
Budget == Counts /\ \A i \in Interrupts : WithinBudget(i)

(* What one step of dashboard d means for an interrupt.                     *)
Keeps(d, i) ==
    /\ typed'[i] = typed[i] /\ faults' = faults
    /\ Typer(d, i) => Typer(d, i)' \/ Settled(i)'
    /\ ~(Typer(d, i) /\ Owes(d, i)')
    /\ Settled(i) /\ Owes(d, i)' => Owes(d, i)
Types(d, i) ==
    /\ typed'[i] = typed[i] + 1 /\ faults' = faults /\ Settled(i)' = Settled(i)
    /\ ~Typer(d, i) /\ Typer(d, i)' /\ Owes(d, i)
Loses(d, i) ==
    /\ typed'[i] = typed[i] /\ faults' = faults + 1 /\ Settled(i)' = Settled(i)
    /\ Owes(d, i)' => Owes(d, i)

LEMMA Finite ==
    ASSUME NEW i
    PROVE  /\ IsFiniteSet(Typers(i)) /\ Cardinality(Typers(i)) \in Nat
           /\ IsFiniteSet(Owing(i)) /\ Cardinality(Owing(i)) \in Nat
           /\ Cardinality(Owing(i)) <= Cardinality(Dashboards)
           /\ Cardinality(Dashboards) \in Nat
<1>1. Typers(i) \subseteq Dashboards /\ Owing(i) \subseteq Dashboards
    BY DEF Typers, Owing
<1>2. IsFiniteSet(Typers(i)) /\ IsFiniteSet(Owing(i)) /\ Cardinality(Owing(i)) <= Cardinality(Dashboards)
    BY <1>1, FS_Subset, InterruptAssumption
<1> QED
    BY <1>2, FS_CardinalityType, InterruptAssumption

(* A step of one dashboard stays within the budget.                         *)
LEMMA BudgetStep ==
    ASSUME Counts, NEW i \in Interrupts, WithinBudget(i), NEW d \in Dashboards,
           \A e \in Dashboards : e # d =>
               (Typer(e, i)' <=> Typer(e, i)) /\ (Owes(e, i)' <=> Owes(e, i)),
           \A e \in Dashboards : ~(Typer(e, i) /\ Owes(e, i)),
           Settled(i) => Settled(i)',
           Keeps(d, i) \/ Types(d, i) \/ Loses(d, i)
    PROVE  WithinBudget(i)'
<1> DEFINE T == Typers(i)
           TT == Typers(i)'
           O == Owing(i)
           OO == Owing(i)'
<1>1. /\ IsFiniteSet(T) /\ Cardinality(T) \in Nat
      /\ IsFiniteSet(O) /\ Cardinality(O) \in Nat
      /\ Cardinality(Dashboards) \in Nat
    BY Finite
<1>2. TT \subseteq Dashboards /\ OO \subseteq Dashboards
    BY DEF Typers, Owing
<1>3. IsFiniteSet(TT) /\ IsFiniteSet(OO)
    BY <1>2, FS_Subset, InterruptAssumption
<1>4. Cardinality(TT) \in Nat /\ Cardinality(OO) \in Nat
    BY <1>3, FS_CardinalityType
<1>5. /\ \A e \in Dashboards : e # d => (e \in TT <=> e \in T) /\ (e \in OO <=> e \in O)
      /\ (d \in TT <=> Typer(d, i)') /\ (d \in T <=> Typer(d, i))
      /\ (d \in OO <=> Owes(d, i)') /\ (d \in O <=> Owes(d, i))
      /\ T \subseteq Dashboards /\ O \subseteq Dashboards /\ T \cap O = {}
    BY DEF Typers, Owing
<1>6. typed[i] \in Nat /\ faults \in Nat
    BY DEF Counts
<1>7. /\ Settled(i) => typed[i] + Cardinality(O) <= Cardinality(Dashboards) + faults
      /\ ~Settled(i) => typed[i] <= Cardinality(T) + faults
    BY DEF WithinBudget
<1>8. SUFFICES /\ Settled(i)' => typed'[i] + Cardinality(OO) <= Cardinality(Dashboards) + faults'
               /\ ~Settled(i)' => typed'[i] <= Cardinality(TT) + faults'
    BY DEF WithinBudget
<1> HIDE DEF T, TT, O, OO
<1>9. CASE Keeps(d, i) /\ ~Settled(i)'
    <2>1. T \subseteq TT
        BY <1>5, <1>9 DEF Keeps
    <2>2. Cardinality(T) <= Cardinality(TT)
        BY <1>3, <2>1, FS_Subset
    <2> QED
        BY <1>1, <1>4, <1>6, <1>7, <1>9, <2>2 DEF Keeps
<1>10. CASE Keeps(d, i) /\ Settled(i)
    <2>1. OO \subseteq O
        BY <1>2, <1>5, <1>10 DEF Keeps
    <2>2. Cardinality(OO) <= Cardinality(O)
        BY <1>1, <2>1, FS_Subset
    <2> QED
        BY <1>1, <1>4, <1>6, <1>7, <1>10, <2>2 DEF Keeps
<1>11. CASE Keeps(d, i) /\ Settled(i)' /\ ~Settled(i)
    <2>1. T \cap OO = {}
        BY <1>2, <1>5, <1>11 DEF Keeps
    <2>2. /\ IsFiniteSet(T \cup OO) /\ Cardinality(T \cup OO) = Cardinality(T) + Cardinality(OO) - Cardinality(T \cap OO)
        BY <1>1, <1>3, FS_Union
    <2>3. Cardinality(T \cap OO) = 0
        BY <2>1, FS_EmptySet
    <2>4. T \cup OO \subseteq Dashboards
        BY <1>2, <1>5
    <2>5. Cardinality(T \cup OO) <= Cardinality(Dashboards)
        BY <2>4, FS_Subset, InterruptAssumption
    <2>6. Cardinality(T) + Cardinality(OO) <= Cardinality(Dashboards)
        BY <1>1, <1>4, <2>2, <2>3, <2>5
    <2> QED
        BY <1>1, <1>4, <1>6, <1>7, <1>11, <2>6 DEF Keeps
<1>12. CASE Types(d, i)
    <2>1. T \cup {d} \subseteq TT /\ d \notin T /\ d \in O
        BY <1>5, <1>12 DEF Types
    <2>2. OO \subseteq O \ {d}
        BY <1>2, <1>5, <1>12 DEF Types, Owes
    <2>3. Cardinality(T \cup {d}) = Cardinality(T) + 1 /\ Cardinality(T \cup {d}) <= Cardinality(TT)
        BY <1>1, <1>3, <2>1, FS_AddElement, FS_Subset
    <2>4. /\ IsFiniteSet(O \ {d}) /\ Cardinality(O \ {d}) = Cardinality(O) - 1
        BY <1>1, <2>1, FS_RemoveElement
    <2>5. Cardinality(OO) <= Cardinality(O \ {d})
        BY <2>2, <2>4, FS_Subset
    <2> QED
        BY <1>1, <1>4, <1>6, <1>7, <1>12, <2>3, <2>4, <2>5 DEF Types
<1>13. CASE Loses(d, i)
    <2>1. T \ {d} \subseteq TT /\ OO \subseteq O
        BY <1>2, <1>5, <1>13 DEF Loses
    <2>2. Cardinality(T \ {d}) >= Cardinality(T) - 1 /\ Cardinality(T \ {d}) <= Cardinality(TT)
        BY <1>1, <1>3, <2>1, FS_RemoveElement, FS_Subset
    <2>3. Cardinality(T \ {d}) \in Nat
        BY <1>1, FS_RemoveElement, FS_CardinalityType
    <2>4. Cardinality(T) <= Cardinality(TT) + 1
        BY <1>1, <1>4, <2>2, <2>3
    <2>5. Cardinality(OO) <= Cardinality(O)
        BY <1>1, <2>1, FS_Subset
    <2> QED
        BY <1>1, <1>4, <1>6, <1>7, <1>13, <2>4, <2>5 DEF Loses
<1> QED
    BY <1>9, <1>10, <1>11, <1>12, <1>13

(* Where each step of a pass leaves its dashboard.                          *)
LEMMA TurnOne ==
    ASSUME NEW d, NEW i \in Interrupts, NEW j \in Interrupts, Turn(d, i), Turn(d, j)
    PROVE  i = j
BY InterruptAssumption DEF Turn

LEMMA OtherPasses ==
    ASSUME NEW d \in Dashboards, NEW i \in Interrupts, NEW e \in Dashboards, pass'[e] = pass[e]
    PROVE  (Typer(e, i)' <=> Typer(e, i)) /\ (Owes(e, i)' <=> Owes(e, i))
BY DEF Typer, Owes, Turn

LEMMA SettledStays ==
    ASSUME IInv, [Next]_vars, NEW i \in Interrupts, Settled(i)
    PROVE  Settled(i)'
BY ForwardNext DEF Forward, Settled

LEMMA ScanKeeps ==
    ASSUME IInv, NEW d \in Dashboards, Scan(d), NEW i \in Interrupts
    PROVE  Keeps(d, i)
<1>1. pass[d].at = "idle" /\ pass'[d].todo = {}
    BY Typing DEF Scan, Resting
<1> QED
    BY <1>1 DEF Scan, Keeps, Typer, Owes, history

LEMMA ListKeeps ==
    ASSUME IInv, NEW d \in Dashboards, List(d), NEW i \in Interrupts, Settled(i) => Settled(i)'
    PROVE  Keeps(d, i)
<1>1. pass'[d].todo = {j \in Interrupts : Deliverable(j, row')}
    BY Typing DEF List, PassRecord
<1>2. pass[d].at = "scanned" /\ typed' = typed /\ faults' = faults
    BY DEF List, history
<1>3. i \in pass'[d].todo => row'[i].state = "pending"
    BY <1>1 DEF Deliverable
<1> QED
    BY <1>2, <1>3 DEF Keeps, Typer, Owes, Settled

LEMMA SkipKeeps ==
    ASSUME IInv, NEW d \in Dashboards, Skip(d), NEW i \in Interrupts
    PROVE  Keeps(d, i)
<1>1. PICK j \in Interrupts : pass' = [pass EXCEPT ![d].todo = @ \ {j}]
    BY DEF Skip
<1>2. pass'[d].todo \subseteq pass[d].todo /\ pass'[d].at = pass[d].at
    BY <1>1, Typing DEF PassRecord
<1>3. pass[d].at = "choosing" /\ typed' = typed /\ faults' = faults
    BY DEF Skip, history
<1> QED
    BY <1>2, <1>3 DEF Keeps, Typer, Owes

LEMMA SendEffect ==
    ASSUME IInv, NEW d \in Dashboards, Send(d), NEW i \in Interrupts
    PROVE  Keeps(d, i) \/ Types(d, i)
<1>1. PICK j \in Interrupts :
        /\ Turn(d, j)
        /\ \/ typed' = [typed EXCEPT ![j] = @ + 1] /\ pass' = [pass EXCEPT ![d].at = "typed"]
           \/ typed' = typed /\ pass' = [pass EXCEPT ![d].at = "typed"]
           \/ typed' = typed /\ pass' = [pass EXCEPT ![d].at = "failed"]
    BY DEF Send
<1>2. pass[d].at = "choosing" /\ row' = row /\ faults' = faults
    BY DEF Send
<1>3. pass'[d].todo = pass[d].todo /\ (pass'[d].at = "typed" \/ pass'[d].at = "failed")
      /\ (typed' # typed => pass'[d].at = "typed")
    BY <1>1, Typing DEF PassRecord
<1>4. typed \in [Interrupts -> Nat]
    BY DEF IInv, TypeOK
<1>5. ~Typer(d, i) /\ (Owes(d, i) <=> i \in pass[d].todo)
    BY <1>2 DEF Typer, Owes
<1>6. Turn(d, i)' <=> Turn(d, i)
    BY <1>3 DEF Turn
<1>7. Owes(d, i)' => i \in pass[d].todo
    BY <1>3 DEF Owes
<1>8. CASE typed'[i] = typed[i]
    BY <1>2, <1>5, <1>7, <1>8 DEF Keeps
<1>9. CASE typed'[i] # typed[i]
    <2>1. i = j /\ typed'[i] = typed[i] + 1 /\ pass'[d].at = "typed"
        BY <1>1, <1>3, <1>4, <1>9
    <2>2. Typer(d, i)' /\ i \in pass[d].todo
        BY <1>1, <1>6, <2>1 DEF Typer, Turn
    <2> QED
        BY <1>2, <1>5, <2>1, <2>2 DEF Types, Settled
<1> QED
    BY <1>8, <1>9

LEMMA DoneEffect ==
    ASSUME IInv, NEW d \in Dashboards, NEW j \in Interrupts, Turn(d, j), Done(d, j),
           pass[d].at = "typed" => Settled(j)',
           typed' = typed, faults' = faults,
           NEW i \in Interrupts
    PROVE  Keeps(d, i)
<1>1. pass'[d].todo = pass[d].todo \ {j} /\ pass'[d].at = "choosing"
    BY Typing DEF Done, PassRecord
<1>2. Typer(d, i) => i = j /\ pass[d].at = "typed"
    BY TurnOne DEF Typer
<1>3. Owes(d, i)' => i # j /\ i \in pass[d].todo
    BY <1>1 DEF Owes
<1> QED
    BY <1>2, <1>3 DEF Keeps, Owes

LEMMA RecordKeeps ==
    ASSUME IInv, NEW d \in Dashboards, RecordDelivered(d) \/ ReadFailure(d) \/ RecordFailure(d),
           NEW i \in Interrupts
    PROVE  Keeps(d, i)
<1>1. CASE RecordDelivered(d)
    <2>1. PICK j \in Interrupts : Turn(d, j) /\ row' = Delivered(j) /\ Done(d, j)
        BY <1>1 DEF RecordDelivered
    <2>2. row[j].state \in {"pending", "delivered", "acknowledged", "expired"} /\ row[j] \in Row
        BY <2>1, TurnRaised
    <2>3. row[j].state = "pending" => row'[j].state = "delivered"
        BY <2>1, <2>2, Typing DEF Delivered, Row
    <2>4. row[j].state # "pending" => row'[j] = row[j]
        BY <2>1 DEF Delivered
    <2>5. Settled(j)'
        BY <2>2, <2>3, <2>4 DEF Settled
    <2> QED
        BY <1>1, <2>1, <2>5, DoneEffect DEF RecordDelivered, history
<1>2. CASE ReadFailure(d)
    <2>1. PICK j \in Interrupts :
             /\ Turn(d, j)
             /\ \/ pass' = [pass EXCEPT ![d].at = "counted", ![d].count = row[j].retries]
                \/ Done(d, j)
        BY <1>2 DEF ReadFailure
    <2>2. pass[d].at = "failed" /\ typed' = typed /\ faults' = faults
        BY <1>2 DEF ReadFailure, history
    <2>3. CASE Done(d, j)
        BY <2>1, <2>2, <2>3, DoneEffect
    <2>4. CASE pass' = [pass EXCEPT ![d].at = "counted", ![d].count = row[j].retries]
        <3>1. pass'[d].todo = pass[d].todo
            BY <2>4, Typing DEF PassRecord
        <3> QED
            BY <2>2, <3>1 DEF Keeps, Typer, Owes
    <2> QED
        BY <2>1, <2>3, <2>4
<1>3. CASE RecordFailure(d)
    <2>1. PICK j \in Interrupts : Turn(d, j) /\ Done(d, j)
        BY <1>3 DEF RecordFailure
    <2> QED
        BY <1>3, <2>1, DoneEffect DEF RecordFailure, history
<1> QED
    BY <1>1, <1>2, <1>3

LEMMA RestEffect ==
    ASSUME IInv, NEW d \in Dashboards, Finish(d) \/ Crash(d), NEW i \in Interrupts
    PROVE  Keeps(d, i) \/ Loses(d, i)
<1>1. pass'[d].todo = {} /\ typed' = typed /\ row' = row
    BY Typing, RestingTyped DEF Finish, Crash, history
<1>2. ~Owes(d, i)'
    BY <1>1 DEF Owes
<1>3. CASE Finish(d)
    BY <1>1, <1>2, <1>3 DEF Finish, Keeps, Typer, history
<1>4. CASE Crash(d)
    BY <1>1, <1>2, <1>4 DEF Crash, Loses, Settled
<1> QED
    BY <1>3, <1>4

LEMMA FailsEffect ==
    ASSUME IInv, NEW d \in Dashboards, RecordFails(d), NEW i \in Interrupts
    PROVE  Loses(d, i)
<1>1. PICK j \in Interrupts : Turn(d, j) /\ Done(d, j)
    BY DEF RecordFails
<1>2. typed' = typed /\ row' = row /\ faults' = faults + 1
    BY DEF RecordFails
<1>3. pass'[d].todo = pass[d].todo \ {j}
    BY <1>1, Typing DEF Done, PassRecord
<1>4. Owes(d, i)' => i # j /\ i \in pass[d].todo
    BY <1>3 DEF Owes
<1>5. Typer(d, i) => i = j
    BY <1>1, TurnOne DEF Typer
<1> QED
    BY <1>2, <1>4, <1>5 DEF Loses, Settled, Owes

LEMMA PassEffect ==
    ASSUME IInv, NEW d \in Dashboards, Pass(d) \/ RecordFails(d) \/ Crash(d),
           NEW i \in Interrupts, Settled(i) => Settled(i)'
    PROVE  Keeps(d, i) \/ Types(d, i) \/ Loses(d, i)
BY ScanKeeps, ListKeeps, SkipKeeps, SendEffect, RecordKeeps, RestEffect, FailsEffect DEF Pass

LEMMA OnePass ==
    ASSUME IInv, NEW d \in Dashboards, Pass(d) \/ RecordFails(d) \/ Crash(d), NEW e \in Dashboards, e # d
    PROVE  pass'[e] = pass[e]
BY Typing DEF Pass, Scan, List, Skip, Send, RecordDelivered, ReadFailure, RecordFailure,
              RecordFails, Finish, Crash, Done

LEMMA InitBudget == Init => Budget
<1> SUFFICES ASSUME Init PROVE Budget
    OBVIOUS
<1>1. Counts
    BY DEF Init, Counts
<1>2. ASSUME NEW i \in Interrupts PROVE WithinBudget(i)
    BY <1>2, Finite DEF Init, WithinBudget, Settled
<1> QED
    BY <1>1, <1>2 DEF Budget

LEMMA NextBudget == IInv /\ IInv' /\ Budget /\ [Next]_vars => Budget'
<1> SUFFICES ASSUME IInv, IInv', Budget, [Next]_vars PROVE Budget'
    OBVIOUS
<1>1. Counts'
    <2>1. typed' \in [Interrupts -> Nat] /\ faults' \in 0 .. MaxFaults
        BY DEF IInv, TypeOK
    <2> QED
        BY <2>1, InterruptAssumption DEF Counts
<1>2. ASSUME NEW i \in Interrupts PROVE WithinBudget(i)'
    <2>1. Settled(i) => Settled(i)'
        BY SettledStays
    <2>2. ASSUME NEW d \in Dashboards, Pass(d) \/ RecordFails(d) \/ Crash(d)
          PROVE  WithinBudget(i)'
        <3>1. \A e \in Dashboards : e # d =>
                  (Typer(e, i)' <=> Typer(e, i)) /\ (Owes(e, i)' <=> Owes(e, i))
            BY <2>2, OnePass, OtherPasses
        <3>2. \A e \in Dashboards : ~(Typer(e, i) /\ Owes(e, i))
            BY DEF Owes
        <3>3. Keeps(d, i) \/ Types(d, i) \/ Loses(d, i)
            BY <2>1, <2>2, PassEffect
        <3>4. Counts /\ WithinBudget(i)
            BY DEF Budget
        <3> QED
            BY <2>1, <3>1, <3>2, <3>3, <3>4, BudgetStep
    <2>3. ASSUME UNCHANGED <<pass, typed, faults>> PROVE WithinBudget(i)'
        <3>1. \A e \in Dashboards :
                  (Typer(e, i)' <=> Typer(e, i)) /\ (Owes(e, i)' <=> Owes(e, i))
            BY <2>3, OtherPasses
        <3>2. Typers(i)' = Typers(i) /\ Owing(i)' = Owing(i)
            BY <3>1 DEF Typers, Owing
        <3>3. WithinBudget(i) /\ typed[i] \in Nat /\ faults \in Nat
            BY DEF Budget, Counts
        <3>4. /\ IsFiniteSet(Typers(i)) /\ Cardinality(Typers(i)) \in Nat
              /\ IsFiniteSet(Owing(i)) /\ Cardinality(Owing(i)) \in Nat
              /\ Cardinality(Dashboards) \in Nat
            BY Finite
        <3>5. CASE Settled(i)' /\ ~Settled(i)
            <4>1. Typers(i) \cap Owing(i) = {} /\ Typers(i) \cup Owing(i) \subseteq Dashboards
                BY DEF Typers, Owing, Owes
            <4>2. Cardinality(Typers(i) \cup Owing(i))
                      = Cardinality(Typers(i)) + Cardinality(Owing(i)) - Cardinality(Typers(i) \cap Owing(i))
                BY <3>4, FS_Union
            <4>3. Cardinality(Typers(i) \cap Owing(i)) = 0
                BY <4>1, FS_EmptySet
            <4>4. Cardinality(Typers(i) \cup Owing(i)) <= Cardinality(Dashboards)
                BY <4>1, FS_Subset, InterruptAssumption
            <4>5. Cardinality(Typers(i)) + Cardinality(Owing(i)) <= Cardinality(Dashboards)
                BY <3>4, <4>2, <4>3, <4>4
            <4> QED
                BY <2>3, <3>2, <3>3, <3>4, <3>5, <4>5 DEF WithinBudget
        <3>6. CASE Settled(i)' <=> Settled(i)
            BY <2>3, <3>2, <3>3, <3>6 DEF WithinBudget
        <3> QED
            BY <2>1, <3>5, <3>6
    <2>4. \/ \E d \in Dashboards : Pass(d) \/ RecordFails(d) \/ Crash(d)
          \/ UNCHANGED <<pass, typed, faults>>
        BY DEF Next, vars, history, Refresh, FindDuplicate, Insert, Acknowledge, Deadline, RetryDue, SessionMoves
    <2> QED
        BY <2>2, <2>3, <2>4
<1> QED
    BY <1>1, <1>2 DEF Budget

LEMMA BudgetSuffices == Budget => TypedOnceEach
<1> SUFFICES ASSUME Budget, NEW i \in Interrupts
             PROVE  typed[i] <= Cardinality(Dashboards) + faults
    BY DEF TypedOnceEach
<1>1. WithinBudget(i) /\ typed[i] \in Nat /\ faults \in Nat
    BY DEF Budget, Counts
<1>2. /\ Cardinality(Typers(i)) \in Nat /\ Cardinality(Owing(i)) \in Nat
      /\ Cardinality(Dashboards) \in Nat
    BY Finite
<1>3. Cardinality(Typers(i)) <= Cardinality(Dashboards)
    <2>1. Typers(i) \subseteq Dashboards
        BY DEF Typers
    <2> QED
        BY <2>1, FS_Subset, InterruptAssumption
<1>4. CASE Settled(i)
    BY <1>1, <1>2, <1>4 DEF WithinBudget
<1>5. CASE ~Settled(i)
    BY <1>1, <1>2, <1>3, <1>5 DEF WithinBudget
<1> QED
    BY <1>4, <1>5

(* TypedOnceEach: whatever the dashboards, their deaths and failed records, *)
(* an interrupt is typed at most once by each, and once more for each.      *)
THEOREM TypedOnce == Spec => []TypedOnceEach
<1>1. Spec => []IInv
    BY InitIInv, NextIInv, PTL DEF Spec
<1>2. Init => Budget
    BY InitBudget
<1>3. IInv /\ IInv' /\ Budget /\ [Next]_vars => Budget'
    BY NextBudget
<1>4. Budget => TypedOnceEach
    BY BudgetSuffices
<1> QED
    BY <1>1, <1>2, <1>3, <1>4, PTL DEF Spec
-----------------------------------------------------------------------------
(* How often an interrupt is attempted.  While it may be listed, every      *)
(* retry counted so far has cost one attempt of each dashboard at most, and *)
(* who is at it makes the next.  From the first failure recorded until the  *)
(* back-off ends, and for good once it is settled, only the passes that     *)
(* hold it already may attempt it: the round of that failure's count.       *)

Attempts(i) == typed[i] + failed[i]
Open(i) == ~Settled(i) /\ ~row[i].later
Trying(d, i) == pass[d].at \in {"typed", "failed", "counted"} /\ Turn(d, i)
Ahead(d, i) == i \in pass[d].todo /\ ~Trying(d, i)
Tryers(i) == {d \in Dashboards : Trying(d, i)}
Aheads(i) == {d \in Dashboards : Ahead(d, i)}
Counting(d, i) == pass[d].at = "counted" /\ Turn(d, i)
CountedFrom(i, n) == \A d \in Dashboards : Counting(d, i) => pass[d].count >= n

Everyone == Cardinality(Dashboards)
Round(i, n) ==
    /\ n < row[i].retries /\ CountedFrom(i, n)
    /\ Attempts(i) + Cardinality(Aheads(i)) <= Everyone * (n + 1) + faults
WithinRounds(i) ==
    /\ Open(i) => /\ Attempts(i) <= Everyone * row[i].retries + Cardinality(Tryers(i)) + faults
                  /\ CountedFrom(i, row[i].retries)
    /\ ~Open(i) /\ ~Settled(i) => \E n \in Nat : Round(i, n)
    /\ Settled(i) => Attempts(i) + Cardinality(Aheads(i)) <= Everyone * MaxRetries + faults
Rounds == \A i \in Interrupts : WithinRounds(i)

(* What one step of dashboard d means for an interrupt.                     *)
KeepsRound(d, i) ==
    /\ Attempts(i)' = Attempts(i) /\ faults' = faults
    /\ Trying(d, i) => Trying(d, i)' \/ ~Open(i)'
    /\ ~(Trying(d, i) /\ Ahead(d, i)')
    /\ Ahead(d, i)' => Ahead(d, i) \/ Open(i)
Tries(d, i) ==
    /\ Attempts(i)' = Attempts(i) + 1 /\ faults' = faults /\ row' = row
    /\ ~Trying(d, i) /\ Trying(d, i)' /\ Ahead(d, i)
LosesRound(d, i) ==
    /\ Attempts(i)' = Attempts(i) /\ faults' = faults + 1 /\ row' = row
    /\ Ahead(d, i)' => Ahead(d, i)
Effect(d, i) == KeepsRound(d, i) \/ Tries(d, i) \/ LosesRound(d, i)

LEMMA Numbers ==
    ASSUME IInv, NEW i \in Interrupts
    PROVE  /\ typed[i] \in Nat /\ failed[i] \in Nat /\ Attempts(i) \in Nat /\ faults \in Nat
           /\ row[i].retries \in Nat /\ row[i].retries <= MaxRetries /\ MaxRetries \in Nat
           /\ \A d \in Dashboards : pass[d].count \in Nat
           /\ Everyone \in Nat
           /\ IsFiniteSet(Tryers(i)) /\ Cardinality(Tryers(i)) \in Nat
           /\ Cardinality(Tryers(i)) <= Everyone
           /\ IsFiniteSet(Aheads(i)) /\ Cardinality(Aheads(i)) \in Nat
<1>1. typed[i] \in Nat /\ failed[i] \in Nat /\ faults \in Nat
    <2>1. /\ typed \in [Interrupts -> Nat] /\ failed \in [Interrupts -> Nat]
          /\ faults \in 0 .. MaxFaults /\ MaxFaults \in Nat
        BY InterruptAssumption DEF IInv, TypeOK
    <2> QED
        BY <2>1
<1>2. row[i].retries \in Nat /\ row[i].retries <= MaxRetries /\ MaxRetries \in Nat
    BY Typing, InterruptAssumption
<1>3. \A d \in Dashboards : pass[d].count \in Nat
    BY Typing, InterruptAssumption
<1>4. Tryers(i) \subseteq Dashboards /\ Aheads(i) \subseteq Dashboards
    BY DEF Tryers, Aheads
<1>5. /\ IsFiniteSet(Tryers(i)) /\ IsFiniteSet(Aheads(i))
      /\ Cardinality(Tryers(i)) <= Everyone
    BY <1>4, FS_Subset, InterruptAssumption DEF Everyone
<1> QED
    BY <1>1, <1>2, <1>3, <1>5, FS_CardinalityType, InterruptAssumption DEF Everyone, Attempts

LEMMA Times ==
    /\ \A c, a \in Nat : c * a \in Nat /\ c * (a + 1) = c * a + c
    /\ \A c, a, b \in Nat : a <= b => c * a <= c * b
<1>1. ASSUME NEW c \in Nat, NEW a \in Nat PROVE c * a \in Nat /\ c * (a + 1) = c * a + c
    OBVIOUS
<1>2. ASSUME NEW c \in Nat, NEW a \in Nat, NEW b \in Nat, a <= b PROVE c * a <= c * b
    <2>1. PICK k \in Nat : b = a + k
        <3>1. b - a \in Nat /\ b = a + (b - a)
            BY <1>2
        <3> QED
            BY <3>1
    <2>2. c * (a + k) = c * a + c * k /\ c * k \in Nat /\ c * a \in Nat
        OBVIOUS
    <2> QED
        BY <2>1, <2>2
<1> QED
    BY <1>1, <1>2

(* The three ways a step of one dashboard weighs.                           *)
Others(d, i) ==
    \A e \in Dashboards : e # d => (Trying(e, i)' <=> Trying(e, i)) /\ (Ahead(e, i)' <=> Ahead(e, i))

LEMMA ClosedStep ==
    ASSUME IInv, IInv', NEW i \in Interrupts, NEW d \in Dashboards, Others(d, i), Effect(d, i), ~Open(i)
    PROVE  Attempts(i)' + Cardinality(Aheads(i)') + faults <= Attempts(i) + Cardinality(Aheads(i)) + faults'
<1> DEFINE A == Aheads(i)
           AA == Aheads(i)'
<1>1. /\ IsFiniteSet(A) /\ Cardinality(A) \in Nat /\ Attempts(i) \in Nat /\ faults \in Nat
    BY Numbers
<1>2. /\ IsFiniteSet(AA) /\ Cardinality(AA) \in Nat /\ AA \subseteq Dashboards
    <2>1. AA \subseteq Dashboards
        BY DEF Aheads
    <2> QED
        BY <2>1, FS_Subset, FS_CardinalityType, InterruptAssumption
<1>3. /\ \A e \in Dashboards : e # d => (e \in AA <=> e \in A)
      /\ (d \in AA <=> Ahead(d, i)') /\ (d \in A <=> Ahead(d, i))
    BY DEF Others, Aheads
<1> HIDE DEF A, AA
<1>4. CASE KeepsRound(d, i) \/ LosesRound(d, i)
    <2>1. AA \subseteq A
        BY <1>2, <1>3, <1>4 DEF KeepsRound, LosesRound
    <2>2. Cardinality(AA) <= Cardinality(A)
        BY <1>1, <2>1, FS_Subset
    <2> QED
        BY <1>1, <1>2, <1>4, <2>2 DEF KeepsRound, LosesRound, A, AA
<1>5. CASE Tries(d, i)
    <2>1. AA \subseteq A \ {d} /\ d \in A
        BY <1>2, <1>3, <1>5 DEF Tries, Ahead
    <2>2. IsFiniteSet(A \ {d}) /\ Cardinality(A \ {d}) = Cardinality(A) - 1
        BY <1>1, <2>1, FS_RemoveElement
    <2>3. Cardinality(AA) <= Cardinality(A \ {d})
        BY <2>1, <2>2, FS_Subset
    <2> QED
        BY <1>1, <1>2, <1>5, <2>2, <2>3 DEF Tries, A, AA
<1> QED
    BY <1>4, <1>5 DEF Effect

LEMMA OpenStep ==
    ASSUME IInv, IInv', NEW i \in Interrupts, NEW d \in Dashboards, Others(d, i), Effect(d, i), Open(i)'
    PROVE  Attempts(i)' + Cardinality(Tryers(i)) + faults <= Attempts(i) + Cardinality(Tryers(i)') + faults'
<1> DEFINE T == Tryers(i)
           TT == Tryers(i)'
<1>1. /\ IsFiniteSet(T) /\ Cardinality(T) \in Nat /\ Attempts(i) \in Nat /\ faults \in Nat
    BY Numbers
<1>2. /\ IsFiniteSet(TT) /\ Cardinality(TT) \in Nat /\ TT \subseteq Dashboards /\ T \subseteq Dashboards
    <2>1. TT \subseteq Dashboards /\ T \subseteq Dashboards
        BY DEF Tryers
    <2> QED
        BY <2>1, FS_Subset, FS_CardinalityType, InterruptAssumption
<1>3. /\ \A e \in Dashboards : e # d => (e \in TT <=> e \in T)
      /\ (d \in TT <=> Trying(d, i)') /\ (d \in T <=> Trying(d, i))
    BY DEF Others, Tryers
<1> HIDE DEF T, TT
<1>4. CASE KeepsRound(d, i)
    <2>1. T \subseteq TT
        BY <1>2, <1>3, <1>4 DEF KeepsRound
    <2>2. Cardinality(T) <= Cardinality(TT)
        BY <1>2, <2>1, FS_Subset
    <2> QED
        BY <1>1, <1>2, <1>4, <2>2 DEF KeepsRound, T, TT
<1>5. CASE Tries(d, i)
    <2>1. T \cup {d} \subseteq TT /\ d \notin T
        BY <1>2, <1>3, <1>5 DEF Tries
    <2>2. Cardinality(T \cup {d}) = Cardinality(T) + 1 /\ Cardinality(T \cup {d}) <= Cardinality(TT)
        BY <1>1, <1>2, <2>1, FS_AddElement, FS_Subset
    <2> QED
        BY <1>1, <1>2, <1>5, <2>2 DEF Tries, T, TT
<1>6. CASE LosesRound(d, i)
    <2>1. T \ {d} \subseteq TT
        BY <1>2, <1>3
    <2>2. /\ Cardinality(T \ {d}) >= Cardinality(T) - 1 /\ Cardinality(T \ {d}) <= Cardinality(TT)
          /\ Cardinality(T \ {d}) \in Nat
        BY <1>1, <1>2, <2>1, FS_RemoveElement, FS_Subset, FS_CardinalityType
    <2> QED
        BY <1>1, <1>2, <1>6, <2>2 DEF LosesRound, T, TT
<1> QED
    BY <1>4, <1>5, <1>6 DEF Effect

LEMMA ClosingStep ==
    ASSUME IInv, IInv', NEW i \in Interrupts, NEW d \in Dashboards, Others(d, i), Effect(d, i),
           Open(i), ~Open(i)'
    PROVE  /\ Attempts(i)' = Attempts(i) /\ faults' = faults
           /\ Cardinality(Tryers(i)) + Cardinality(Aheads(i)') <= Everyone
<1> DEFINE T == Tryers(i)
           AA == Aheads(i)'
<1>1. KeepsRound(d, i)
    BY DEF Effect, Tries, LosesRound, Open, Settled
<1>2. /\ IsFiniteSet(T) /\ Cardinality(T) \in Nat /\ T \subseteq Dashboards
      /\ IsFiniteSet(AA) /\ Cardinality(AA) \in Nat /\ AA \subseteq Dashboards
      /\ Everyone \in Nat
    <2>1. T \subseteq Dashboards /\ AA \subseteq Dashboards
        BY DEF Tryers, Aheads
    <2> QED
        BY <2>1, Numbers, FS_Subset, FS_CardinalityType, InterruptAssumption
<1>3. T \cap AA = {}
    BY <1>1 DEF Others, Tryers, Aheads, KeepsRound, Ahead
<1> HIDE DEF T, AA
<1>4. Cardinality(T \cup AA) = Cardinality(T) + Cardinality(AA) - Cardinality(T \cap AA)
    BY <1>2, FS_Union
<1>5. Cardinality(T \cap AA) = 0
    BY <1>3, FS_EmptySet
<1>6. Cardinality(T \cup AA) <= Everyone
    <2>1. T \cup AA \subseteq Dashboards
        BY <1>2
    <2> QED
        BY <2>1, FS_Subset, InterruptAssumption DEF Everyone
<1>7. Cardinality(T) + Cardinality(AA) <= Everyone
    BY <1>2, <1>4, <1>5, <1>6
<1> QED
    BY <1>1, <1>7 DEF KeepsRound, T, AA

(* What a step of dashboard d does to the row of an interrupt, and to the   *)
(* count it has in hand for it.                                             *)
RowEffect(d, i) ==
    \/ row'[i] = row[i]
    \/ Settled(i)'
    \/ /\ Counting(d, i) /\ ~Settled(i)
       /\ row'[i] = [state |-> "pending", retries |-> pass[d].count + 1, later |-> TRUE]
CountEffect(d, i) ==
    Counting(d, i)' =>
        \/ Counting(d, i) /\ pass'[d].count = pass[d].count
        \/ pass'[d].count = row[i].retries

OtherCounts(d, i) ==
    \A e \in Dashboards : e # d => (Counting(e, i)' <=> Counting(e, i)) /\ pass'[e].count = pass[e].count

LEMMA CountedStep ==
    ASSUME IInv, NEW i \in Interrupts, NEW d \in Dashboards, OtherCounts(d, i), CountEffect(d, i),
           NEW n \in Nat, n <= row[i].retries, CountedFrom(i, n)
    PROVE  CountedFrom(i, n)'
BY DEF CountedFrom, OtherCounts, CountEffect

LEMMA RetriesOf ==
    ASSUME IInv, NEW i \in Interrupts, ~Settled(i)
    PROVE  row[i].retries < MaxRetries
BY Typing DEF IInv, RetriesLeft, Settled, States, Active

LEMMA RoundsStep ==
    ASSUME IInv, IInv', NEW i \in Interrupts, NEW d \in Dashboards,
           Others(d, i), OtherCounts(d, i), Effect(d, i), RowEffect(d, i), CountEffect(d, i),
           Settled(i) => Settled(i)', WithinRounds(i)
    PROVE  WithinRounds(i)'
<1> DEFINE a == Attempts(i)
           aa == Attempts(i)'
           t == Cardinality(Tryers(i))
           tt == Cardinality(Tryers(i)')
           h == Cardinality(Aheads(i))
           hh == Cardinality(Aheads(i)')
<1>0. PICK r \in Nat : r = row[i].retries
    BY Numbers
<1>1. /\ a \in Nat /\ t \in Nat /\ h \in Nat /\ r \in Nat /\ faults \in Nat /\ Everyone \in Nat
      /\ MaxRetries \in Nat /\ pass[d].count \in Nat
    BY Numbers
<1>2. aa \in Nat /\ faults' \in Nat
    BY <1>1 DEF Effect, KeepsRound, Tries, LosesRound
<1>3. tt \in Nat /\ hh \in Nat
    <2>1. Tryers(i)' \subseteq Dashboards /\ Aheads(i)' \subseteq Dashboards
        BY DEF Tryers, Aheads
    <2> QED
        BY <2>1, FS_Subset, FS_CardinalityType, InterruptAssumption
<1>4. Everyone' = Everyone
    BY DEF Everyone
<1>5. /\ ~Open(i) => aa + hh + faults <= a + h + faults'
      /\ Open(i)' => aa + t + faults <= a + tt + faults'
      /\ Open(i) /\ ~Open(i)' => aa = a /\ faults' = faults /\ t + hh <= Everyone
    BY ClosedStep, OpenStep, ClosingStep
<1>6. \A n \in Nat : n <= r /\ CountedFrom(i, n) => CountedFrom(i, n)'
    BY <1>0, CountedStep
<1>7. CASE Settled(i)
    <2>1. a + h <= Everyone * MaxRetries + faults /\ ~Open(i)
        BY <1>7 DEF WithinRounds, Open
    <2>2. Everyone * MaxRetries \in Nat
        BY <1>1, Times
    <2>3. aa + hh <= Everyone * MaxRetries + faults'
        BY <1>1, <1>2, <1>3, <1>5, <2>1, <2>2
    <2> QED
        BY <1>4, <1>7, <2>3 DEF WithinRounds, Open
<1>8. CASE ~Settled(i) /\ ~Open(i)
    <2>1. PICK n \in Nat : Round(i, n)
        BY <1>8 DEF WithinRounds
    <2>2. n < r /\ CountedFrom(i, n) /\ a + h <= Everyone * (n + 1) + faults
        BY <1>0, <2>1 DEF Round
    <2>3. Everyone * (n + 1) \in Nat /\ Everyone * MaxRetries \in Nat
        BY <1>1, Times
    <2>4. aa + hh <= Everyone * (n + 1) + faults'
        BY <1>1, <1>2, <1>3, <1>5, <1>8, <2>2, <2>3
    <2>5. CountedFrom(i, n)'
        BY <1>1, <1>6, <2>2
    <2>6. CASE Settled(i)'
        <3>1. n + 1 <= MaxRetries
            BY <1>0, <1>1, <1>8, <2>2, RetriesOf
        <3>2. Everyone * (n + 1) <= Everyone * MaxRetries
            BY <1>1, <3>1, Times
        <3>3. aa + hh <= Everyone * MaxRetries + faults'
            BY <1>2, <1>3, <2>3, <2>4, <3>2
        <3> QED
            BY <1>4, <2>6, <3>3 DEF WithinRounds, Open
    <2>7. CASE ~Settled(i)'
        <3>1. row[i].later
            BY <1>8 DEF Open
        <3>2. n < row'[i].retries /\ row'[i].later
            <4>1. CASE row'[i] = row[i]
                BY <1>0, <2>2, <3>1, <4>1
            <4>2. CASE /\ Counting(d, i)
                       /\ row'[i] = [state |-> "pending", retries |-> pass[d].count + 1, later |-> TRUE]
                <5>1. pass[d].count >= n
                    BY <2>2, <4>2 DEF CountedFrom
                <5> QED
                    BY <1>1, <4>2, <5>1
            <4> QED
                BY <2>7, <4>1, <4>2 DEF RowEffect
        <3>3. Round(i, n)'
            BY <1>4, <2>4, <2>5, <3>2 DEF Round
        <3> QED
            BY <2>7, <3>2, <3>3 DEF WithinRounds, Open
    <2> QED
        BY <2>6, <2>7
<1>9. CASE Open(i)
    <2>1. a <= Everyone * r + t + faults /\ CountedFrom(i, r)
        BY <1>0, <1>9 DEF WithinRounds
    <2>2. /\ Everyone * r \in Nat /\ Everyone * (r + 1) = Everyone * r + Everyone
          /\ Everyone * MaxRetries \in Nat
        BY <1>1, Times
    <2>3. CountedFrom(i, r)'
        BY <1>1, <1>6, <2>1
    <2>4. ~Open(i)' => aa + hh <= Everyone * (r + 1) + faults'
        BY <1>1, <1>2, <1>3, <1>5, <1>9, <2>1, <2>2
    <2>5. CASE Settled(i)'
        <3>1. r + 1 <= MaxRetries
            BY <1>0, <1>1, <1>9, RetriesOf DEF Open
        <3>2. Everyone * (r + 1) <= Everyone * MaxRetries
            BY <1>1, <3>1, Times
        <3>3. aa + hh <= Everyone * MaxRetries + faults'
            BY <1>1, <1>2, <1>3, <2>2, <2>4, <2>5, <3>2 DEF Open
        <3> QED
            BY <1>4, <2>5, <3>3 DEF WithinRounds, Open
    <2>6. CASE ~Settled(i)' /\ row'[i] = row[i]
        <3>1. Open(i)' /\ row'[i].retries = r
            BY <1>0, <1>9, <2>6 DEF Open
        <3>2. aa <= Everyone * r + tt + faults'
            BY <1>1, <1>2, <1>3, <1>5, <2>1, <2>2, <3>1
        <3> QED
            BY <1>4, <2>3, <2>6, <3>1, <3>2 DEF WithinRounds, Open
    <2>7. CASE /\ ~Settled(i)' /\ Counting(d, i)
               /\ row'[i] = [state |-> "pending", retries |-> pass[d].count + 1, later |-> TRUE]
        <3>1. pass[d].count >= r
            BY <2>1, <2>7 DEF CountedFrom
        <3>2. r < row'[i].retries /\ row'[i].later
            BY <1>1, <2>7, <3>1
        <3>3. ~Open(i)'
            BY <3>2 DEF Open
        <3>4. /\ CountedFrom(i, r)'
              /\ Attempts(i)' + Cardinality(Aheads(i)') <= Everyone * (r + 1) + faults'
              /\ r < row'[i].retries
            BY <2>3, <2>4, <3>2, <3>3
        <3>5. r \in Nat /\ ~Settled(i)'
            BY <1>1, <2>7
        <3>6. \E n \in Nat : Round(i, n)'
            BY <1>4, <3>4, <3>5 DEF Round
        <3> QED
            BY <3>3, <3>5, <3>6 DEF WithinRounds
    <2> QED
        BY <2>5, <2>6, <2>7 DEF RowEffect
<1> QED
    BY <1>7, <1>8, <1>9

(* Where each step of a pass leaves its dashboard.                          *)
LEMMA OtherRounds ==
    ASSUME NEW d \in Dashboards, NEW i \in Interrupts, NEW e \in Dashboards, pass'[e] = pass[e]
    PROVE  /\ (Trying(e, i)' <=> Trying(e, i)) /\ (Ahead(e, i)' <=> Ahead(e, i))
           /\ (Counting(e, i)' <=> Counting(e, i)) /\ pass'[e].count = pass[e].count
BY DEF Trying, Ahead, Counting, Turn

(* What a step of a pass must be for the rounds to hold.                    *)
FitsRound(d, i) == Effect(d, i) /\ RowEffect(d, i) /\ CountEffect(d, i)

LEMMA ScanRound ==
    ASSUME IInv, NEW d \in Dashboards, Scan(d), NEW i \in Interrupts
    PROVE  FitsRound(d, i)
<1>1. pass[d].at = "idle" /\ pass'[d].todo = {} /\ pass'[d].at = "scanned"
    BY Typing DEF Scan, Resting
<1>2. row' = row /\ typed' = typed /\ failed' = failed /\ faults' = faults
    BY DEF Scan, history
<1> QED
    BY <1>1, <1>2 DEF FitsRound, Effect, KeepsRound, RowEffect, CountEffect, Trying, Ahead, Counting, Attempts

LEMMA ListRound ==
    ASSUME IInv, NEW d \in Dashboards, List(d), NEW i \in Interrupts
    PROVE  FitsRound(d, i)
<1>1. pass'[d].todo = {j \in Interrupts : Deliverable(j, row')} /\ pass'[d].at = "choosing"
    BY Typing DEF List, PassRecord
<1>2. pass[d].at = "scanned" /\ typed' = typed /\ failed' = failed /\ faults' = faults
    BY DEF List, history
<1>3. row'[i] = row[i] \/ row'[i].state = "expired"
    BY ExpiredTyped DEF List
<1>4. i \in pass'[d].todo => row'[i].state = "pending" /\ ~row'[i].later
    BY <1>1 DEF Deliverable
<1>5. Ahead(d, i)' => Open(i)
    BY <1>3, <1>4 DEF Ahead, Open, Settled
<1>6. KeepsRound(d, i)
    BY <1>2, <1>5 DEF KeepsRound, Trying, Attempts
<1> QED
    BY <1>1, <1>3, <1>6 DEF FitsRound, Effect, RowEffect, CountEffect, Counting, Settled

LEMMA SkipRound ==
    ASSUME IInv, NEW d \in Dashboards, Skip(d), NEW i \in Interrupts
    PROVE  FitsRound(d, i)
<1>1. PICK j \in Interrupts : pass' = [pass EXCEPT ![d].todo = @ \ {j}]
    BY DEF Skip
<1>2. pass'[d].todo \subseteq pass[d].todo /\ pass'[d].at = pass[d].at
    BY <1>1, Typing DEF PassRecord
<1>3. /\ pass[d].at = "choosing" /\ row' = row
      /\ typed' = typed /\ failed' = failed /\ faults' = faults
    BY DEF Skip, history
<1> QED
    BY <1>2, <1>3 DEF FitsRound, Effect, KeepsRound, RowEffect, CountEffect, Trying, Ahead, Counting, Attempts

LEMMA SendRound ==
    ASSUME IInv, NEW d \in Dashboards, Send(d), NEW i \in Interrupts
    PROVE  FitsRound(d, i)
<1>1. PICK j \in Interrupts :
        /\ Turn(d, j)
        /\ \/ typed' = [typed EXCEPT ![j] = @ + 1] /\ failed' = failed /\ pass' = [pass EXCEPT ![d].at = "typed"]
           \/ typed' = typed /\ failed' = failed /\ pass' = [pass EXCEPT ![d].at = "typed"]
           \/ typed' = typed /\ failed' = [failed EXCEPT ![j] = @ + 1] /\ pass' = [pass EXCEPT ![d].at = "failed"]
    BY DEF Send
<1>2. pass[d].at = "choosing" /\ row' = row /\ faults' = faults
    BY DEF Send
<1>3. pass'[d].todo = pass[d].todo /\ pass'[d].at \in {"typed", "failed"}
    BY <1>1, Typing DEF PassRecord
<1>4. typed \in [Interrupts -> Nat] /\ failed \in [Interrupts -> Nat]
    BY DEF IInv, TypeOK
<1>5. ~Trying(d, i) /\ (Ahead(d, i) <=> i \in pass[d].todo) /\ ~Counting(d, i)'
    BY <1>2, <1>3 DEF Trying, Ahead, Counting
<1>6. Turn(d, i)' <=> Turn(d, i)
    BY <1>3 DEF Turn
<1>7. Ahead(d, i)' => Ahead(d, i)
    BY <1>3, <1>5 DEF Ahead
<1>8. i # j => Attempts(i)' = Attempts(i)
    BY <1>1, <1>4 DEF Attempts
<1>9. i = j => /\ Attempts(i)' = Attempts(i) \/ Attempts(i)' = Attempts(i) + 1
               /\ Trying(d, i)' /\ Ahead(d, i)
    <2>1. Attempts(j)' = Attempts(j) \/ Attempts(j)' = Attempts(j) + 1
        BY <1>1, <1>4 DEF Attempts
    <2>2. Turn(d, j) => j \in pass[d].todo
        BY DEF Turn
    <2> QED
        BY <1>1, <1>3, <1>5, <1>6, <2>1, <2>2 DEF Trying
<1>10. Effect(d, i)
    BY <1>2, <1>5, <1>7, <1>8, <1>9 DEF Effect, KeepsRound, Tries
<1> QED
    BY <1>2, <1>5, <1>10 DEF FitsRound, RowEffect, CountEffect

LEMMA DoneRound ==
    ASSUME IInv, NEW d \in Dashboards, NEW j \in Interrupts, Turn(d, j), Done(d, j), ~Open(j)',
           typed' = typed, failed' = failed, faults' = faults,
           NEW i \in Interrupts
    PROVE  Effect(d, i) /\ CountEffect(d, i)
<1>1. pass'[d].todo = pass[d].todo \ {j} /\ pass'[d].at = "choosing"
    BY Typing DEF Done, PassRecord
<1>2. Trying(d, i) => i = j
    BY TurnOne DEF Trying
<1>3. Ahead(d, i)' => i # j /\ i \in pass[d].todo
    BY <1>1 DEF Ahead
<1>4. KeepsRound(d, i)
    BY <1>2, <1>3 DEF KeepsRound, Ahead, Attempts
<1> QED
    BY <1>1, <1>4 DEF Effect, CountEffect, Counting

LEMMA DeliveredRound ==
    ASSUME IInv, NEW d \in Dashboards, RecordDelivered(d), NEW i \in Interrupts
    PROVE  FitsRound(d, i)
<1>1. PICK j \in Interrupts : Turn(d, j) /\ row' = Delivered(j) /\ Done(d, j)
    BY DEF RecordDelivered
<1>2. row[j].state \in {"pending", "delivered", "acknowledged", "expired"} /\ row[j] \in Row
    BY <1>1, TurnRaised
<1>3. row[j].state = "pending" => row'[j].state = "delivered"
    BY <1>1, <1>2, Typing DEF Delivered, Row
<1>4. row[j].state # "pending" => row'[j] = row[j]
    BY <1>1 DEF Delivered
<1>5. Settled(j)' /\ (i # j => row'[i] = row[i])
    BY <1>1, <1>2, <1>3, <1>4, Typing DEF Settled, Delivered
<1>6. Effect(d, i) /\ CountEffect(d, i)
    BY <1>1, <1>5, DoneRound DEF RecordDelivered, history, Open
<1> QED
    BY <1>5, <1>6 DEF FitsRound, RowEffect

LEMMA ReadRound ==
    ASSUME IInv, NEW d \in Dashboards, ReadFailure(d), NEW i \in Interrupts
    PROVE  FitsRound(d, i)
<1>1. PICK j \in Interrupts :
        /\ Turn(d, j)
        /\ \/ /\ row[j].state = "pending"
              /\ pass' = [pass EXCEPT ![d].at = "counted", ![d].count = row[j].retries]
           \/ row[j].state # "pending" /\ Done(d, j)
    BY DEF ReadFailure
<1>2. /\ pass[d].at = "failed" /\ row' = row
      /\ typed' = typed /\ failed' = failed /\ faults' = faults
    BY DEF ReadFailure, history
<1>3. CASE row[j].state # "pending" /\ Done(d, j)
    <2>1. ~Open(j)'
        BY <1>1, <1>2, <1>3, TurnRaised DEF Open, Settled
    <2>2. Effect(d, i) /\ CountEffect(d, i)
        BY <1>1, <1>2, <1>3, <2>1, DoneRound
    <2> QED
        BY <1>2, <2>2 DEF FitsRound, RowEffect
<1>4. CASE pass' = [pass EXCEPT ![d].at = "counted", ![d].count = row[j].retries]
    <2>1. pass'[d].todo = pass[d].todo /\ pass'[d].at = "counted" /\ pass'[d].count = row[j].retries
        BY <1>4, Typing DEF PassRecord
    <2>2. Turn(d, i)' <=> Turn(d, i)
        BY <2>1 DEF Turn
    <2>3. KeepsRound(d, i)
        BY <1>2, <2>1, <2>2 DEF KeepsRound, Trying, Ahead, Attempts
    <2>4. Turn(d, i) => i = j
        BY <1>1, TurnOne
    <2>5. CountEffect(d, i)
        BY <2>1, <2>2, <2>4 DEF CountEffect, Counting
    <2> QED
        BY <1>2, <2>3, <2>5 DEF FitsRound, Effect, RowEffect
<1> QED
    BY <1>1, <1>3, <1>4

LEMMA FailureRound ==
    ASSUME IInv, NEW d \in Dashboards, RecordFailure(d), NEW i \in Interrupts
    PROVE  FitsRound(d, i)
<1> DEFINE n == pass[d].count + 1
           gone == [state |-> "expired", retries |-> n, later |-> FALSE]
           kept == [state |-> "pending", retries |-> n, later |-> TRUE]
<1>1. PICK j \in Interrupts :
        /\ Turn(d, j) /\ Done(d, j)
        /\ row' = IF row[j].state # "pending" THEN row
                  ELSE IF n >= MaxRetries THEN [row EXCEPT ![j] = gone] ELSE [row EXCEPT ![j] = kept]
    BY DEF RecordFailure, Counted
<1>2. pass[d].at = "counted" /\ typed' = typed /\ failed' = failed /\ faults' = faults
    BY DEF RecordFailure, history
<1>3. row[j].state \in {"pending", "delivered", "acknowledged", "expired"} /\ row \in [Interrupts -> Row]
    BY <1>1, TurnRaised, Typing
<1>4. /\ i # j => row'[i] = row[i]
      /\ row[j].state # "pending" => row' = row
      /\ row[j].state = "pending" => row'[j] \in {gone, kept}
    BY <1>1, <1>3
<1>5. ~Open(j)'
    BY <1>3, <1>4 DEF Open, Settled
<1>6. Effect(d, i) /\ CountEffect(d, i)
    BY <1>1, <1>2, <1>5, DoneRound
<1>7. RowEffect(d, i)
    <2>1. CASE row'[i] = row[i]
        BY <2>1 DEF RowEffect
    <2>2. CASE i = j /\ row[j].state = "pending" /\ row'[j] = gone
        BY <2>2 DEF RowEffect, Settled
    <2>3. CASE i = j /\ row[j].state = "pending" /\ row'[j] = kept
        BY <1>1, <1>2, <2>3 DEF RowEffect, Counting, Settled
    <2> QED
        BY <1>4, <2>1, <2>2, <2>3
<1> QED
    BY <1>6, <1>7 DEF FitsRound

LEMMA EndRound ==
    ASSUME IInv, NEW d \in Dashboards, Finish(d) \/ Crash(d) \/ RecordFails(d), NEW i \in Interrupts
    PROVE  FitsRound(d, i)
<1>1. typed' = typed /\ failed' = failed /\ row' = row
    BY DEF Finish, Crash, RecordFails, history
<1>2. CASE Finish(d) \/ Crash(d)
    <2>1. pass'[d].todo = {} /\ pass'[d].at = "idle"
        BY <1>2, Typing, RestingTyped DEF Finish, Crash, Resting
    <2>2. ~Ahead(d, i)' /\ ~Counting(d, i)'
        BY <2>1 DEF Ahead, Counting
    <2>3. CASE Finish(d)
        <3>1. KeepsRound(d, i)
            BY <1>1, <2>2, <2>3 DEF Finish, KeepsRound, Trying, Attempts, history
        <3> QED
            BY <1>1, <2>2, <3>1 DEF FitsRound, Effect, RowEffect, CountEffect
    <2>4. CASE Crash(d)
        <3>1. LosesRound(d, i)
            BY <1>1, <2>2, <2>4 DEF Crash, LosesRound, Attempts
        <3> QED
            BY <1>1, <2>2, <3>1 DEF FitsRound, Effect, RowEffect, CountEffect
    <2> QED
        BY <1>2, <2>3, <2>4
<1>3. CASE RecordFails(d)
    <2>1. PICK j \in Interrupts : Turn(d, j) /\ Done(d, j)
        BY <1>3 DEF RecordFails
    <2>2. pass'[d].todo = pass[d].todo \ {j} /\ pass'[d].at = "choosing"
        BY <2>1, Typing DEF Done, PassRecord
    <2>3. Trying(d, i) => i = j
        BY <2>1, TurnOne DEF Trying
    <2>4. Ahead(d, i)' => Ahead(d, i)
        BY <2>2, <2>3 DEF Ahead
    <2>5. LosesRound(d, i)
        BY <1>1, <1>3, <2>2, <2>4 DEF RecordFails, LosesRound, Attempts
    <2> QED
        BY <1>1, <2>2, <2>5 DEF FitsRound, Effect, RowEffect, CountEffect, Counting
<1> QED
    BY <1>2, <1>3

LEMMA PassRound ==
    ASSUME IInv, NEW d \in Dashboards, Pass(d) \/ RecordFails(d) \/ Crash(d), NEW i \in Interrupts
    PROVE  FitsRound(d, i)
BY ScanRound, ListRound, SkipRound, SendRound, DeliveredRound, ReadRound, FailureRound, EndRound
   DEF Pass

(* Nobody is at an interrupt whose back-off ends.                           *)
LEMMA RetryRound ==
    ASSUME IInv, NEW i \in Interrupts, RetryDue(i), WithinRounds(i)
    PROVE  WithinRounds(i)'
<1>1. /\ row[i].later /\ row' = [row EXCEPT ![i].later = FALSE]
      /\ \A d \in Dashboards : i \notin pass[d].todo
      /\ pass' = pass /\ typed' = typed /\ failed' = failed /\ faults' = faults
    BY DEF RetryDue, history
<1>2. row'[i].state = row[i].state /\ row'[i].retries = row[i].retries /\ ~row'[i].later
    BY <1>1, Typing DEF Row
<1>3. Settled(i)' <=> Settled(i)
    BY <1>2 DEF Settled
<1>4. Attempts(i)' = Attempts(i) /\ Everyone' = Everyone
    BY <1>1 DEF Attempts, Everyone
<1>5. Aheads(i)' = Aheads(i)
    BY <1>1 DEF Aheads, Ahead, Trying, Turn
<1>6. CASE Settled(i)
    BY <1>1, <1>3, <1>4, <1>5, <1>6 DEF WithinRounds, Open
<1>7. CASE ~Settled(i)
    <2>1. PICK n \in Nat : n < row[i].retries /\ Attempts(i) + Cardinality(Aheads(i)) <= Everyone * (n + 1) + faults
        BY <1>1, <1>7 DEF WithinRounds, Open, Round
    <2>2. PICK r \in Nat : r = row[i].retries
        BY Numbers
    <2>3. /\ Attempts(i) \in Nat /\ Cardinality(Aheads(i)) \in Nat /\ faults \in Nat /\ Everyone \in Nat
        BY Numbers
    <2>4. Everyone * (n + 1) <= Everyone * r /\ Everyone * (n + 1) \in Nat /\ Everyone * r \in Nat
        BY <2>1, <2>2, <2>3, Times
    <2>5. Attempts(i) <= Everyone * r + faults
        BY <2>1, <2>3, <2>4
    <2>6. Tryers(i)' = {} /\ \A d \in Dashboards : ~Counting(d, i)'
        BY <1>1 DEF Tryers, Trying, Counting, Turn
    <2>7. Cardinality(Tryers(i)') = 0
        BY <2>6, FS_EmptySet
    <2>8. Attempts(i)' <= Everyone' * row'[i].retries + Cardinality(Tryers(i)') + faults'
        BY <1>1, <1>2, <1>4, <2>2, <2>3, <2>4, <2>5, <2>7
    <2>9. CountedFrom(i, row[i].retries)'
        BY <2>6 DEF CountedFrom
    <2> QED
        BY <1>2, <1>3, <1>7, <2>8, <2>9 DEF WithinRounds, Open
<1> QED
    BY <1>6, <1>7

(* A step that leaves the passes alone, and the interrupt as far as it was. *)
LEMMA StillRound ==
    ASSUME IInv, NEW i \in Interrupts, WithinRounds(i), UNCHANGED <<pass, typed, failed, faults>>,
           \/ row'[i] = row[i]
           \/ Settled(i) /\ Settled(i)'
           \/ /\ ~Settled(i) /\ ~Settled(i)'
              /\ row'[i].later = row[i].later /\ row'[i].retries = row[i].retries
    PROVE  WithinRounds(i)'
<1>1. /\ Attempts(i)' = Attempts(i) /\ Everyone' = Everyone
      /\ Aheads(i)' = Aheads(i) /\ Tryers(i)' = Tryers(i)
    BY DEF Attempts, Everyone, Aheads, Ahead, Tryers, Trying, Turn
<1>2. \A n \in Nat : CountedFrom(i, n)' <=> CountedFrom(i, n)
    BY DEF CountedFrom, Counting, Turn
<1>3. CASE Settled(i) /\ Settled(i)'
    BY <1>1, <1>3 DEF WithinRounds, Open
<1>4. CASE /\ ~Settled(i) /\ ~Settled(i)'
           /\ row'[i].later = row[i].later /\ row'[i].retries = row[i].retries
    <2>1. PICK r \in Nat : r = row[i].retries /\ r = row'[i].retries
        BY <1>4, Numbers
    <2>2. Open(i)' <=> Open(i)
        BY <1>4 DEF Open
    <2>3. \A n \in Nat : Round(i, n)' <=> Round(i, n)
        BY <1>1, <1>2, <1>4 DEF Round
    <2>4. CountedFrom(i, r)' <=> CountedFrom(i, r)
        BY <1>2
    <2> QED
        BY <1>1, <1>4, <2>1, <2>2, <2>3, <2>4 DEF WithinRounds
<1>5. row'[i] = row[i] => (Settled(i)' <=> Settled(i))
    BY DEF Settled
<1> QED
    BY <1>3, <1>4, <1>5

LEMMA NextRounds == IInv /\ IInv' /\ Rounds /\ [Next]_vars => Rounds'
<1> SUFFICES ASSUME IInv, IInv', Rounds, [Next]_vars, NEW i \in Interrupts PROVE WithinRounds(i)'
    BY DEF Rounds
<1>1. Settled(i) => Settled(i)'
    BY SettledStays
<1>2. WithinRounds(i)
    BY DEF Rounds
<1>3. ASSUME NEW d \in Dashboards, Pass(d) \/ RecordFails(d) \/ Crash(d) PROVE WithinRounds(i)'
    <2>1. Others(d, i) /\ OtherCounts(d, i)
        BY <1>3, OnePass, OtherRounds DEF Others, OtherCounts
    <2>2. Effect(d, i) /\ RowEffect(d, i) /\ CountEffect(d, i)
        BY <1>3, PassRound DEF FitsRound
    <2> QED
        BY <1>1, <1>2, <2>1, <2>2, RoundsStep
<1>4. ASSUME NEW d \in Dashboards, Refresh(d) PROVE WithinRounds(i)'
    <2>1. UNCHANGED <<pass, typed, failed, faults>>
        BY <1>4 DEF Refresh, history
    <2>2. RowEffect(d, i)
        BY <1>4, Refreshed DEF RowEffect, Settled
    <2>3. Others(d, i) /\ OtherCounts(d, i) /\ CountEffect(d, i)
        BY <2>1, OtherRounds DEF Others, OtherCounts, CountEffect
    <2>4. Effect(d, i)
        BY <2>1 DEF Effect, KeepsRound, Attempts, Trying, Ahead, Turn
    <2> QED
        BY <1>1, <1>2, <2>2, <2>3, <2>4, RoundsStep
<1>5. ASSUME NEW r \in Raisers, FindDuplicate(r) \/ Insert(r) PROVE WithinRounds(i)'
    <2>1. UNCHANGED <<pass, typed, failed, faults>>
        BY <1>5 DEF FindDuplicate, Insert, history
    <2>2. CASE row'[i] = row[i]
        BY <1>2, <2>1, <2>2, StillRound
    <2>3. CASE row'[i] # row[i]
        <3>1. /\ row[i].state = "none" /\ row'[i].state \in {"refused", "pending"}
              /\ row'[i].later = row[i].later /\ row'[i].retries = row[i].retries
            <4>1. CASE FindDuplicate(r)
                <5>1. PICK j \in Interrupts : /\ row[j].state = "none"
                                              /\ row' = [row EXCEPT ![j].state = "refused"] \/ row' = row
                    BY <4>1 DEF FindDuplicate
                <5>2. row' = [row EXCEPT ![j].state = "refused"] /\ i = j
                    BY <2>3, <5>1, Typing
                <5> QED
                    BY <5>1, <5>2, Typing DEF Row
            <4>2. CASE Insert(r)
                <5>1. i \in raising[r] /\ row'[i] = [row[i] EXCEPT !.state = "pending"]
                    BY <2>3, <4>2 DEF Insert
                <5>2. row[i].state = "none" /\ row[i] \in Row
                    BY <5>1, Typing DEF IInv, NotInserted
                <5> QED
                    BY <5>1, <5>2 DEF Row
            <4> QED
                BY <1>5, <4>1, <4>2
        <3>2. ~Settled(i) /\ ~Settled(i)'
            BY <3>1 DEF Settled
        <3> QED
            BY <1>2, <2>1, <3>1, <3>2, StillRound
    <2> QED
        BY <2>2, <2>3
<1>6. ASSUME NEW j \in Interrupts, Acknowledge(j) PROVE WithinRounds(i)'
    <2>1. UNCHANGED <<pass, typed, failed, faults>>
        BY <1>6 DEF Acknowledge, history
    <2>2. row'[i] = row[i] \/ (i = j /\ row[i].state = "delivered")
        BY <1>6, Typing DEF Acknowledge
    <2>3. row'[i] = row[i] \/ (Settled(i) /\ Settled(i)')
        BY <1>1, <2>2 DEF Settled
    <2> QED
        BY <1>2, <2>1, <2>3, StillRound
<1>7. ASSUME NEW j \in Interrupts, RetryDue(j) PROVE WithinRounds(i)'
    <2>1. CASE i = j
        BY <1>2, <1>7, <2>1, RetryRound
    <2>2. CASE i # j
        <3>1. row'[i] = row[i] /\ UNCHANGED <<pass, typed, failed, faults>>
            BY <1>7, <2>2, Typing DEF RetryDue, history
        <3> QED
            BY <1>2, <3>1, StillRound
    <2> QED
        BY <2>1, <2>2
<1>8. ASSUME UNCHANGED <<row, pass, typed, failed, faults>> PROVE WithinRounds(i)'
    BY <1>2, <1>8, StillRound
<1>9. ASSUME NEW j \in Interrupts, Deadline(j) PROVE WithinRounds(i)'
    BY <1>8, <1>9 DEF Deadline, history
<1>10. ASSUME NEW s \in Sessions, SessionMoves(s) PROVE WithinRounds(i)'
    BY <1>8, <1>10 DEF SessionMoves, history
<1>11. CASE UNCHANGED vars
    BY <1>8, <1>11 DEF vars
<1> QED
    BY <1>3, <1>4, <1>5, <1>6, <1>7, <1>9, <1>10, <1>11 DEF Next

LEMMA InitRounds == Init => Rounds
<1> SUFFICES ASSUME Init, NEW i \in Interrupts PROVE WithinRounds(i)
    BY DEF Rounds
<1>1. IInv
    BY InitIInv
<1>2. /\ Attempts(i) = 0 /\ faults = 0 /\ row[i].retries = 0 /\ ~row[i].later /\ ~Settled(i)
      /\ \A d \in Dashboards : pass[d].at = "idle"
    BY DEF Init, Attempts, Settled, Resting
<1>3. Everyone \in Nat /\ Cardinality(Tryers(i)) \in Nat
    BY <1>1, Numbers
<1>4. Attempts(i) <= Everyone * row[i].retries + Cardinality(Tryers(i)) + faults
    BY <1>2, <1>3, Times
<1>5. CountedFrom(i, row[i].retries)
    BY <1>2 DEF CountedFrom, Counting
<1> QED
    BY <1>2, <1>4, <1>5 DEF WithinRounds, Open

LEMMA RoundsSuffice == IInv /\ Rounds => AttemptsBounded
<1> SUFFICES ASSUME IInv, Rounds, NEW i \in Interrupts
             PROVE  typed[i] + failed[i] <= Cardinality(Dashboards) * MaxRetries + faults
    BY DEF AttemptsBounded
<1>1. PICK r \in Nat : r = row[i].retries
    BY Numbers
<1>2. /\ WithinRounds(i) /\ Attempts(i) \in Nat /\ faults \in Nat /\ Everyone \in Nat /\ MaxRetries \in Nat
      /\ Cardinality(Tryers(i)) \in Nat /\ Cardinality(Tryers(i)) <= Everyone
      /\ Cardinality(Aheads(i)) \in Nat
    BY Numbers DEF Rounds
<1>3. Everyone * MaxRetries \in Nat /\ Everyone * r \in Nat /\ Everyone * (r + 1) = Everyone * r + Everyone
    BY <1>2, Times
<1>4. CASE Settled(i)
    BY <1>2, <1>3, <1>4 DEF WithinRounds, Attempts, Everyone
<1>5. CASE ~Settled(i)
    <2>1. r + 1 <= MaxRetries
        BY <1>1, <1>2, <1>5, RetriesOf
    <2>2. Everyone * (r + 1) <= Everyone * MaxRetries
        BY <1>2, <2>1, Times
    <2>3. Attempts(i) <= Everyone * (r + 1) + faults
        <3>1. CASE Open(i)
            BY <1>1, <1>2, <1>3, <3>1 DEF WithinRounds
        <3>2. CASE ~Open(i)
            <4>1. PICK n \in Nat : n < r /\ Attempts(i) + Cardinality(Aheads(i)) <= Everyone * (n + 1) + faults
                BY <1>1, <1>2, <1>5, <3>2 DEF WithinRounds, Round
            <4>2. Everyone * (n + 1) <= Everyone * (r + 1) /\ Everyone * (n + 1) \in Nat
                BY <1>2, <4>1, Times
            <4> QED
                BY <1>2, <1>3, <4>1, <4>2
        <3> QED
            BY <3>1, <3>2
    <2>4. Attempts(i) <= Everyone * MaxRetries + faults
        BY <1>2, <1>3, <2>2, <2>3
    <2> QED
        BY <2>4 DEF Attempts, Everyone
<1> QED
    BY <1>4, <1>5

(* AttemptsBounded: whatever the dashboards, their deaths and failed        *)
(* records, an interrupt costs at most one attempt of each for each retry.  *)
THEOREM RetriesBounded == Spec => []AttemptsBounded
<1>1. Spec => []IInv
    BY InitIInv, NextIInv, PTL DEF Spec
<1>2. Init => Rounds
    BY InitRounds
<1>3. IInv /\ IInv' /\ Rounds /\ [Next]_vars => Rounds'
    BY NextRounds
<1>4. IInv /\ Rounds => AttemptsBounded
    BY RoundsSuffice
<1> QED
    BY <1>1, <1>2, <1>3, <1>4, PTL DEF Spec
===============================================================================
