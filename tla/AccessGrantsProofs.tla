------------------------- MODULE AccessGrantsProofs -------------------------
(***************************************************************************)
(* AccessGrants for any requests, revocations, joins, budget and faults:   *)
(* its types, that it implements GrantGate, and, until another process     *)
(* rewrites the record, that the file holds one and counts what it should. *)
(***************************************************************************)
EXTENDS AccessGrants, FiniteSetTheorems, TLAPS

Procs == proc \in [Processes -> Process]
Lines == {"none", "allowed", "other"}

(* What one process's step may do to the others: at most rename the file   *)
(* they have open.                                                         *)
Alone(p) ==
    \A q \in Processes \ {p} :
      /\ proc'[q].pc = proc[q].pc /\ proc'[q].job = proc[q].job
      /\ proc'[q].late = proc[q].late /\ proc'[q].honoured = proc[q].honoured
      /\ proc'[q].told = proc[q].told

LEMMA Update ==
    ASSUME Procs, NEW p \in Processes, NEW s \in Process, Becomes(p, s)
    PROVE  Procs' /\ proc'[p] = s /\ Alone(p)
  BY DEF Procs, Becomes, Alone

LEMMA FreshIsGrant == Fresh \in Grant
  BY GrantAssumption DEF Fresh, Grant, Allowance

(* What a state of a process keeps when its work changes.                  *)
History(s, t) == t.late = s.late /\ t.honoured = s.honoured /\ t.told = s.told

(* Ending a process keeps its history.                                     *)
LEMMA EndedFacts ==
    ASSUME Procs, NEW p \in Processes, NEW line \in Lines
    PROVE  /\ Ended(p, line) \in Process
           /\ Ended(p, line).pc = "done"
           /\ History(proc[p], Ended(p, line))
  <1> DEFINE f == Forgotten(p)
  <1>1. proc[p] \in Process
    BY DEF Procs
  <1>2. f \in Process
    BY <1>1, FreshIsGrant DEF Forgotten, Process, Jobs
  <1>3. History(proc[p], f)
    BY <1>1 DEF Forgotten, Process, History
  <1>4. Ended(p, line) = [f EXCEPT !.pc = "done", !.line = line]
    BY DEF Ended
  <1> HIDE DEF f
  <1>5. Ended(p, line) \in Process
    BY <1>2, <1>4 DEF Process, Lines, Points
  <1> QED BY <1>2, <1>3, <1>4, <1>5 DEF Process, History

(* A revocation is told it succeeded only from its write on.               *)
LEMMA SpoiltFacts ==
    ASSUME Procs, NEW p \in Processes
    PROVE  /\ Spoilt(p) \in Process
           /\ Spoilt(p).pc = "done"
           /\ Spoilt(p).late = proc[p].late
           /\ Spoilt(p).honoured = proc[p].honoured
           /\ Spoilt(p).told => \/ proc[p].told
                                \/ proc[p].pc \in {"open", "write", "publish"}
  <1> DEFINE e == Ended(p, "none")
             done == proc[p].pc \in {"open", "write", "publish"}
  <1>1. "none" \in Lines /\ "other" \in Lines
    BY DEF Lines
  <1>2. e \in Process /\ e.pc = "done" /\ History(proc[p], e)
    BY <1>1, EndedFacts
  <1>3. CASE proc[p].job = "use"
    BY <1>2, <1>3 DEF Spoilt, History
  <1>4. CASE proc[p].job = "revoke"
    <2>1. Spoilt(p) = [e EXCEPT !.told = done]
      BY <1>4 DEF Spoilt
    <2>2. done \in BOOLEAN
      OBVIOUS
    <2> HIDE DEF e, done
    <2>3. /\ Spoilt(p) \in Process /\ Spoilt(p).pc = "done" /\ Spoilt(p).told = done
          /\ Spoilt(p).late = proc[p].late /\ Spoilt(p).honoured = proc[p].honoured
      BY <1>2, <2>1, <2>2 DEF Process, History
    <2> QED BY <2>3 DEF done
  <1>5. CASE proc[p].job \notin {"use", "revoke"}
    BY <1>1, <1>5, EndedFacts DEF Spoilt, History
  <1> QED BY <1>3, <1>4, <1>5

LEMMA StoredFacts ==
    ASSUME Procs, NEW p \in Processes
    PROVE  /\ Stored(p) \in Process
           /\ Stored(p).pc \in {"done", "work", "log"}
           /\ Stored(p).late = proc[p].late
           /\ Stored(p).honoured = proc[p].honoured
           /\ Stored(p).told => proc[p].told \/ Stored(p).pc = "done"
  <1> DEFINE e == Ended(p, "none")
             o == Ended(p, "other")
             day == proc[p].rec.day
             r == Reloading(p)
  <1>1. "none" \in Lines /\ "other" \in Lines
    BY DEF Lines
  <1>2. proc[p] \in Process /\ day \in Days \cup {0}
    BY DEF Procs, Process, Grant
  <1>3. /\ e \in Process /\ e.pc = "done" /\ History(proc[p], e)
        /\ o \in Process /\ o.pc = "done" /\ History(proc[p], o)
    BY <1>1, EndedFacts
  <1>4. r \in Process /\ History(proc[p], r)
    BY <1>2, FreshIsGrant DEF Process, Reloading, History
  <1>5. Stored(p) \in {[o EXCEPT !.paid = day],
                       [r EXCEPT !.pc = "work", !.paid = day, !.today = 0],
                       [r EXCEPT !.pc = "log"], [e EXCEPT !.told = TRUE], o}
    BY DEF Stored
  <1> HIDE DEF e, o, r, day
  <1>6. CASE Stored(p) = [o EXCEPT !.paid = day]
    BY <1>2, <1>3, <1>6 DEF Process, History
  <1>7. CASE Stored(p) = [r EXCEPT !.pc = "work", !.paid = day, !.today = 0]
    BY <1>2, <1>4, <1>7 DEF Process, History, Points
  <1>8. CASE Stored(p) = [r EXCEPT !.pc = "log"]
    BY <1>4, <1>8 DEF Process, History, Points
  <1>9. CASE Stored(p) = [e EXCEPT !.told = TRUE]
    BY <1>3, <1>9 DEF Process, History
  <1>10. CASE Stored(p) = o
    BY <1>3, <1>10 DEF History
  <1> QED BY <1>5, <1>6, <1>7, <1>8, <1>9, <1>10

-----------------------------------------------------------------------------
(* A quiet step: p goes on, nobody is honoured, the tombstone stays as it  *)
(* is.  Only callers start to write of themselves, only a writer is told   *)
(* that a revocation is done.                                              *)
Writing == {"open", "write", "publish"}

Advances(p, s) ==
    /\ proc[p].pc \notin {"idle", "done"} /\ s.pc # "idle"
    /\ s.late = proc[p].late /\ s.honoured = proc[p].honoured
    /\ s.told => proc[p].told \/ (proc[p].pc \in Writing /\ s.pc = "done")
    /\ s.pc \in Writing => p \in Callers \/ proc[p].pc \in Writing
    /\ s.pc = "tomb" => p \in Revokers

Quiet(p) == Alone(p) /\ tomb' = tomb /\ Advances(p, proc'[p])

LEMMA GoesOn ==
    ASSUME TypeOK, NEW p \in Processes, NEW s \in Process, Becomes(p, s), tomb' = tomb,
           Advances(p, s)
    PROVE  Procs' /\ Quiet(p)
  BY Update DEF TypeOK, Procs, Quiet

LEMMA EndAdvances ==
    ASSUME TypeOK, NEW p \in Processes, NEW line \in Lines,
           proc[p].pc \notin {"idle", "done"}, End(p, line), tomb' = tomb
    PROVE  Procs' /\ Quiet(p) /\ lock' \in Requests \cup {Nobody}
  <1>1. Procs /\ Writing \subseteq Points /\ "done" \notin Writing
    BY DEF TypeOK, Procs, Writing, Points
  <1>2. Ended(p, line) \in Process /\ Advances(p, Ended(p, line))
    BY <1>1, EndedFacts DEF Advances, History
  <1>3. lock' \in Requests \cup {Nobody}
    BY DEF TypeOK, End, Unlock
  <1> QED BY <1>2, <1>3, GoesOn DEF End

LEMMA SpoilAdvances ==
    ASSUME TypeOK, NEW p \in Processes, proc[p].pc \notin {"idle", "done"}, Spoil(p),
           tomb' = tomb
    PROVE  Procs' /\ Quiet(p) /\ lock' \in Requests \cup {Nobody}
  <1>1. Procs /\ "done" \notin Writing
    BY DEF TypeOK, Procs, Writing
  <1>2. Spoilt(p) \in Process /\ Advances(p, Spoilt(p))
    BY <1>1, SpoiltFacts DEF Advances, Writing
  <1>3. lock' \in Requests \cup {Nobody}
    BY DEF TypeOK, Spoil, Unlock
  <1> QED BY <1>2, <1>3, GoesOn DEF Spoil

(* load returns a grant, with the tombstone folded in.                     *)
LEMMA LoadedIsGrant ==
    ASSUME TypeOK, NEW p \in Processes
    PROVE  Loaded(p) \in Grant /\ (tomb => Loaded(p).revoked)
  <1>1. proc[p].rec \in Grant
    BY DEF TypeOK, Process
  <1> QED BY <1>1 DEF TypeOK, Loaded, Grant

(* Saving a grant is an advance of a caller.                               *)
LEMMA SaveAdvances ==
    ASSUME TypeOK, NEW c \in Callers, At(c, "fold"), NEW g \in Grant, Save(c, g)
    PROVE  TypeOK' /\ Quiet(c)
  <1> DEFINE s == [proc[c] EXCEPT !.rec = g, !.pc = "open"]
  <1>1. c \in Processes /\ proc[c] \in Process
    BY DEF Processes, TypeOK
  <1>2. s \in Process /\ Advances(c, s)
    BY <1>1 DEF At, Process, Points, Advances, Writing
  <1>3. Procs' /\ Quiet(c)
    BY <1>1, <1>2, GoesOn DEF Save, disk
  <1> QED BY <1>3 DEF Save, TypeOK, Procs, disk

-----------------------------------------------------------------------------
(* The actions that are quiet.                                             *)

LEMMA ReadQuiet == ASSUME TypeOK, NEW p \in Processes, Read(p) PROVE TypeOK' /\ Quiet(p)
  <1> DEFINE s == [proc[p] EXCEPT !.pc = "fold", !.rec = live]
  <1>1. CASE live \in Malformed /\ Spoil(p)
    BY <1>1, SpoilAdvances DEF Read, At, TypeOK, Procs, disk
  <1>2. CASE live \notin Malformed /\ Becomes(p, s) /\ UNCHANGED lock
    <2>1. proc[p] \in Process /\ live \in Grant
      BY <1>2 DEF TypeOK
    <2>2. s \in Process /\ Advances(p, s)
      BY <2>1 DEF Read, At, Process, Points, Advances, Writing
    <2>3. Procs' /\ Quiet(p)
      BY <1>2, <2>2, GoesOn DEF Read, disk
    <2> QED BY <1>2, <2>3 DEF Read, TypeOK, Procs, disk
  <1> QED BY <1>1, <1>2 DEF Read

LEMMA AcquireQuiet == ASSUME TypeOK, NEW r \in Requests, Acquire(r) PROVE TypeOK' /\ Quiet(r)
  <1> DEFINE s == [proc[r] EXCEPT !.pc = "read"]
  <1>1. r \in Processes /\ proc[r] \in Process
    BY DEF Processes, Callers, TypeOK
  <1>2. s \in Process /\ Advances(r, s)
    BY <1>1 DEF Acquire, At, Process, Points, Advances, Writing
  <1>3. Procs' /\ Quiet(r)
    BY <1>1, <1>2, GoesOn DEF Acquire, disk
  <1> QED BY <1>3 DEF Acquire, TypeOK, Procs, disk

LEMMA ChargeQuiet == ASSUME TypeOK, NEW r \in Requests, Charge(r) PROVE TypeOK' /\ Quiet(r)
  <1> DEFINE g == Rolled(Loaded(r), proc[r].today)
             h == [g EXCEPT !.used = @ + 1]
  <1>1. /\ r \in Processes /\ r \in Callers /\ proc[r] \in Process
        /\ At(r, "fold") /\ "other" \in Lines
    BY DEF Processes, Callers, TypeOK, Charge, Doing, Lines
  <1>2. Allowance \in Nat
    BY GrantAssumption DEF Allowance
  <1>3. g \in Grant
    <2>1. Loaded(r) \in Grant /\ proc[r].today \in Days \cup {0}
      BY <1>1, LoadedIsGrant DEF Process
    <2> DEFINE l == Loaded(r)
               today == proc[r].today
    <2>2. 0 \in 0 .. Allowance
      BY <1>2
    <2> HIDE DEF l, today
    <2>3. [l EXCEPT !.day = today, !.used = 0] \in Grant
      BY <2>1, <2>2 DEF Grant, l, today
    <2> QED BY <2>1, <2>3 DEF Rolled, l, today
  <1>4. CASE Spent(g)
    <2>1. End(r, "other") /\ UNCHANGED <<disk, foreign, faults>>
      BY <1>4 DEF Charge
    <2> QED BY <1>1, <2>1, EndAdvances DEF At, TypeOK, Procs, disk
  <1>5. CASE ~Spent(g)
    <2>1. Save(r, h)
      BY <1>5 DEF Charge
    <2>2. h \in Grant
      BY <1>2, <1>3, <1>5 DEF Spent, Grant
    <2> QED BY <1>1, <2>1, <2>2, SaveAdvances
  <1> QED BY <1>4, <1>5

LEMMA UseQuiet == ASSUME TypeOK, NEW c \in Callers, Use(c) PROVE TypeOK' /\ Quiet(c)
  <1>1. c \in Processes /\ At(c, "fold")
    BY DEF Processes, Use, Doing
  <1>2. [Loaded(c) EXCEPT !.uses = @ + 1] \in Grant
    BY <1>1, LoadedIsGrant DEF Grant
  <1> QED BY <1>1, <1>2, SaveAdvances DEF Use

LEMMA FlagQuiet == ASSUME TypeOK, NEW r \in Requests, Flag(r) PROVE TypeOK' /\ Quiet(r)
  <1>1. /\ r \in Processes /\ r \in Callers /\ At(r, "fold") /\ "other" \in Lines
    BY DEF Processes, Callers, Flag, Doing, Lines
  <1>2. [Loaded(r) EXCEPT !.flag = r] \in Grant
    BY <1>1, LoadedIsGrant DEF Grant
  <1>3. CASE End(r, "other") /\ UNCHANGED <<disk, foreign, faults>>
    BY <1>1, <1>3, EndAdvances DEF At, TypeOK, Procs, disk
  <1>4. CASE Save(r, [Loaded(r) EXCEPT !.flag = r])
    BY <1>1, <1>2, <1>4, SaveAdvances
  <1> QED BY <1>3, <1>4 DEF Flag

LEMMA WorkQuiet == ASSUME TypeOK, NEW r \in Requests, Work(r) PROVE TypeOK' /\ Quiet(r)
  <1> DEFINE u == Recorded(r)
             f == [proc[r] EXCEPT !.job = "flag", !.pc = "lock"]
  <1>1. /\ r \in Processes /\ proc[r] \in Process /\ proc[r].pc = "work"
        /\ UNCHANGED <<disk, foreign, faults>>
    BY DEF Processes, Callers, TypeOK, Work, At
  <1>2. u \in Process /\ Advances(r, u) /\ f \in Process /\ Advances(r, f)
    BY <1>1 DEF Recorded, Process, Points, Jobs, Advances, Writing
  <1>3. CASE (Becomes(r, u) \/ Becomes(r, f)) /\ UNCHANGED lock
    BY <1>1, <1>2, <1>3, GoesOn DEF TypeOK, Procs, disk
  <1>4. CASE End(r, "other") \/ End(r, "none")
    BY <1>1, <1>4, EndAdvances DEF Lines, TypeOK, Procs, disk
  <1> QED BY <1>3, <1>4 DEF Work, QueueUnwritable

LEMMA RevokeQuiet == ASSUME TypeOK, NEW v \in Revokers, Revoke(v) PROVE TypeOK' /\ Quiet(v)
  <1> DEFINE g == [Loaded(v) EXCEPT !.revoked = TRUE]
             s == [proc[v] EXCEPT !.rec = g, !.pc = "tomb"]
  <1>1. v \in Processes /\ proc[v] \in Process /\ proc[v].pc = "fold"
    BY DEF Processes, TypeOK, Revoke, Doing, At
  <1>2. g \in Grant
    BY <1>1, LoadedIsGrant DEF Grant
  <1> HIDE DEF g
  <1>3. s \in Process /\ Advances(v, s)
    BY <1>1, <1>2 DEF Process, Points, Advances, Writing
  <1>4. Procs' /\ Quiet(v)
    BY <1>1, <1>3, GoesOn DEF Revoke, disk, g
  <1> QED BY <1>4 DEF Revoke, TypeOK, Procs, disk

LEMMA OpenTempQuiet == ASSUME TypeOK, NEW p \in Processes, OpenTemp(p) PROVE TypeOK' /\ Quiet(p)
  <1> DEFINE s == [proc[p] EXCEPT !.pc = "write", !.fd = "temp"]
  <1>1. proc[p] \in Process /\ proc[p].pc = "open"
    BY DEF TypeOK, OpenTemp, At
  <1>2. s \in Process /\ Advances(p, s)
    BY <1>1 DEF Process, Points, Advances, Writing
  <1>3. Procs' /\ Quiet(p)
    BY <1>2, GoesOn DEF OpenTemp
  <1> QED BY <1>3 DEF OpenTemp, TypeOK, Procs, Malformed

LEMMA WriteTempQuiet == ASSUME TypeOK, NEW p \in Processes, WriteTemp(p) PROVE TypeOK' /\ Quiet(p)
  <1> DEFINE s == [proc[p] EXCEPT !.pc = "publish", !.fd = "none"]
  <1>1. proc[p] \in Process /\ proc[p].pc = "write" /\ proc[p].rec \in Grant
    BY DEF TypeOK, WriteTemp, At, Process
  <1>2. s \in Process /\ Advances(p, s)
    BY <1>1 DEF Process, Points, Advances, Writing
  <1>3. Procs' /\ Quiet(p)
    BY <1>2, GoesOn DEF WriteTemp
  <1>4. \A old : Over(old, proc[p].rec) \subseteq Grant \cup Malformed
    BY <1>1 DEF Over, Malformed
  <1> QED BY <1>3, <1>4 DEF WriteTemp, TypeOK, Procs

LEMMA PublishQuiet == ASSUME TypeOK, NEW p \in Processes, Publish(p) PROVE TypeOK' /\ Quiet(p)
  <1>1. proc[p].pc = "publish" /\ Procs /\ UNCHANGED <<foreign, faults>>
    BY DEF Publish, At, TypeOK, Procs
  <1>2. CASE Spoil(p) /\ UNCHANGED disk
    BY <1>1, <1>2, SpoilAdvances DEF TypeOK, Procs, disk
  <1>3. CASE ~(Spoil(p) /\ UNCHANGED disk)
    <2>1. /\ temp # Absent /\ live' = temp /\ temp' = Absent /\ tomb' = tomb
          /\ proc' = [q \in Processes |-> IF q = p THEN Stored(p)
                                          ELSE [proc[q] EXCEPT !.fd = Moved(@)]]
          /\ lock' \in Requests \cup {Nobody}
      BY <1>3 DEF Publish, Unlock, TypeOK
    <2>2. Stored(p) \in Process /\ Advances(p, Stored(p))
      BY <1>1, StoredFacts DEF Advances, Writing
    <2>3. ASSUME NEW q \in Processes \ {p}
          PROVE  /\ proc'[q] \in Process
                 /\ proc'[q].pc = proc[q].pc /\ proc'[q].job = proc[q].job
                 /\ proc'[q].late = proc[q].late /\ proc'[q].honoured = proc[q].honoured
                 /\ proc'[q].told = proc[q].told
      <3>1. proc'[q] = [proc[q] EXCEPT !.fd = Moved(proc[q].fd)]
        BY <2>1
      <3>2. proc[q] \in Process /\ Moved(proc[q].fd) \in {"none", "temp", "live", "gone"}
        BY <1>1 DEF Procs, Process, Moved
      <3> QED BY <3>1, <3>2 DEF Process
    <2>4. Procs' /\ Quiet(p)
      BY <2>1, <2>2, <2>3 DEF Procs, Quiet, Alone
    <2> QED BY <1>1, <2>1, <2>4 DEF TypeOK, Procs
  <1> QED BY <1>2, <1>3

LEMMA LogQuiet == ASSUME TypeOK, NEW p \in Processes, Log(p) PROVE TypeOK' /\ Quiet(p)
  BY EndAdvances DEF Log, At, Lines, TypeOK, Procs, disk

-----------------------------------------------------------------------------
(* The actions the gate sees.                                              *)

Comes(c) ==
    /\ Alone(c) /\ tomb' = tomb
    /\ proc[c].pc = "idle" /\ proc'[c].pc = "read"
    /\ proc'[c].late = tomb /\ proc'[c].honoured = proc[c].honoured

Admits(c) ==
    /\ Alone(c) /\ tomb' = tomb /\ ~tomb
    /\ proc[c].pc = "fold" /\ proc'[c].pc \notin Writing \cup {"idle", "tomb"}
    /\ proc'[c].late = proc[c].late /\ proc'[c].honoured

Starts(v) ==
    /\ Alone(v) /\ tomb' = tomb
    /\ proc[v].pc = "idle" /\ proc'[v].pc = "read" /\ proc'[v].told = proc[v].told

Closes(p) ==
    /\ Alone(p) /\ tomb' = TRUE
    /\ proc[p].pc = "tomb" /\ proc'[p].pc \in {"open", "done"}
    /\ proc'[p].told => proc[p].told

Dies(P) ==
    /\ tomb' = tomb
    /\ \A q \in Processes :
         \/ proc'[q] = proc[q]
         \/ /\ q \in P /\ Running(q) /\ proc'[q].pc = "done"
            /\ History(proc[q], proc'[q])

LEMMA ArriveComes == ASSUME TypeOK, NEW c \in Callers, Arrive(c) PROVE TypeOK' /\ Comes(c)
  <1>1. c \in Processes /\ proc[c] \in Process /\ proc[c].pc = "idle" /\ tomb \in BOOLEAN
    BY DEF Processes, TypeOK, Arrive, At
  <1>2. PICK op \in Ops(c), d \in Days :
          Becomes(c, [proc[c] EXCEPT !.pc = "read", !.op = op, !.today = d, !.late = tomb])
    BY DEF Arrive
  <1> DEFINE s == [proc[c] EXCEPT !.pc = "read", !.op = op, !.today = d, !.late = tomb]
  <1>3. /\ s \in Process /\ s.pc = "read" /\ s.late = tomb /\ s.honoured = proc[c].honoured
    BY <1>1 DEF Process, Points, Ops
  <1>4. Procs /\ UNCHANGED <<disk, lock, foreign, faults>>
    BY DEF TypeOK, Procs, Arrive
  <1> HIDE DEF s
  <1>5. Procs' /\ proc'[c] = s /\ Alone(c)
    BY <1>1, <1>2, <1>3, <1>4, Update DEF s
  <1> QED BY <1>1, <1>3, <1>4, <1>5 DEF Comes, TypeOK, Procs, disk

LEMMA RunRevokeStarts ==
    ASSUME TypeOK, NEW v \in Revokers, RunRevoke(v) PROVE TypeOK' /\ Starts(v)
  <1> DEFINE s == [proc[v] EXCEPT !.pc = "read"]
  <1>1. v \in Processes /\ proc[v] \in Process /\ proc[v].pc = "idle" /\ Procs
    BY DEF Processes, TypeOK, Procs, RunRevoke, At
  <1>2. s \in Process /\ s.pc = "read" /\ s.told = proc[v].told
    BY <1>1 DEF Process, Points
  <1>3. Procs' /\ proc'[v] = s /\ Alone(v)
    BY <1>1, <1>2, Update DEF RunRevoke
  <1> QED BY <1>1, <1>2, <1>3 DEF RunRevoke, Starts, TypeOK, Procs, disk

LEMMA TombstoneCloses ==
    ASSUME TypeOK, NEW v \in Revokers, Tombstone(v) PROVE TypeOK' /\ Closes(v)
  <1> DEFINE s == [proc[v] EXCEPT !.pc = "open"]
  <1>1. v \in Processes /\ proc[v] \in Process /\ proc[v].pc = "tomb" /\ Procs
    BY DEF Processes, TypeOK, Procs, Tombstone, At
  <1>2. s \in Process /\ s.pc = "open" /\ s.told = proc[v].told
    BY <1>1 DEF Process, Points
  <1>3. Procs' /\ proc'[v] = s /\ Alone(v)
    BY <1>1, <1>2, Update DEF Tombstone
  <1> QED BY <1>1, <1>2, <1>3 DEF Tombstone, Closes, TypeOK, Procs

LEMMA StoreErrorMoves ==
    ASSUME TypeOK, NEW p \in Processes, StoreError(p)
    PROVE  TypeOK' /\ (Quiet(p) \/ Closes(p))
  <1>1. /\ proc[p].pc \notin {"idle", "done"} /\ Spoil(p) /\ faults' \in 0 .. MaxFaults
        /\ UNCHANGED <<live, temp, foreign>>
    BY GrantAssumption DEF StoreError, TypeOK
  <1>2. CASE tomb' = tomb
    BY <1>1, <1>2, SpoilAdvances DEF TypeOK, Procs
  <1>3. CASE tomb' = TRUE /\ proc[p].pc = "tomb"
    <2>1. Procs /\ Spoilt(p) \in Process /\ Spoilt(p).pc = "done"
          /\ (Spoilt(p).told => proc[p].told)
      BY <1>3, SpoiltFacts DEF TypeOK, Procs
    <2>2. Procs' /\ proc'[p] = Spoilt(p) /\ Alone(p)
      BY <1>1, <2>1, Update DEF Spoil
    <2>3. lock' \in Requests \cup {Nobody}
      BY <1>1 DEF TypeOK, Spoil, Unlock
    <2> QED BY <1>1, <1>3, <2>1, <2>2, <2>3 DEF Closes, TypeOK, Procs
  <1> QED BY <1>2, <1>3 DEF StoreError, At

LEMMA CrashKills == ASSUME TypeOK, NEW P \in Programs, Crash(P) PROVE TypeOK' /\ Dies(P)
  <1>1. Procs /\ UNCHANGED <<disk, foreign>> /\ faults' \in 0 .. MaxFaults
    BY GrantAssumption DEF TypeOK, Procs, Crash
  <1>2. lock' \in Requests \cup {Nobody}
    BY DEF TypeOK, Crash
  <1>3. ASSUME NEW q \in Processes
        PROVE  /\ proc'[q] \in Process
               /\ \/ proc'[q] = proc[q]
                  \/ /\ q \in P /\ Running(q) /\ proc'[q].pc = "done"
                     /\ History(proc[q], proc'[q])
    <2>1. proc[q] \in Process /\ proc[q].line \in Lines
      BY <1>1 DEF Procs, Process, Lines
    <2>2. Ended(q, proc[q].line) \in Process /\ Ended(q, proc[q].line).pc = "done"
          /\ History(proc[q], Ended(q, proc[q].line))
      BY <1>1, <2>1, EndedFacts
    <2> QED BY <2>1, <2>2 DEF Crash
  <1>4. Procs'
    BY <1>3 DEF Procs, Crash
  <1> QED BY <1>1, <1>2, <1>3, <1>4 DEF Dies, TypeOK, Procs, disk

(* Verification lets a caller through only while there is no tombstone.    *)
LEMMA VerifyMoves ==
    ASSUME TypeOK, NEW c \in Callers, Verify(c)
    PROVE  TypeOK' /\ (Quiet(c) \/ Admits(c))
  <1> DEFINE r == Reloading(c)
             poll == proc[c].op = "poll"
             limited == [Ended(c, "other") EXCEPT !.honoured = TRUE]
             goes == [r EXCEPT !.honoured = TRUE,
                               !.job = IF poll THEN @ ELSE "charge",
                               !.pc = IF poll THEN "work" ELSE "lock",
                               !.line = IF proc[c].op = "probe" THEN "other" ELSE @]
             joins == [r EXCEPT !.honoured = TRUE, !.job = "use", !.pc = "read", !.today = 0]
  <1>1. /\ c \in Processes /\ proc[c] \in Process /\ proc[c].pc = "fold" /\ Procs
        /\ "other" \in Lines /\ UNCHANGED <<disk, foreign, faults>>
    BY DEF Processes, TypeOK, Procs, Verify, Doing, At, Lines
  <1>2. r \in Process /\ History(proc[c], r)
    BY <1>1, FreshIsGrant DEF Reloading, Process, History
  <1>3. CASE End(c, "other")
    BY <1>1, <1>3, EndAdvances DEF TypeOK, Procs, disk
  <1>4. CASE ~Loaded(c).revoked /\ UNCHANGED lock
             /\ (Becomes(c, limited) \/ Becomes(c, goes) \/ Becomes(c, joins))
    <2>1. ~tomb
      BY <1>1, <1>4, LoadedIsGrant DEF TypeOK
    <2>2. /\ limited \in Process /\ limited.pc = "done" /\ limited.honoured
          /\ limited.late = proc[c].late
      <3> DEFINE e == Ended(c, "other")
      <3>1. e \in Process /\ e.pc = "done" /\ History(proc[c], e)
        BY <1>1, EndedFacts
      <3> HIDE DEF e
      <3>2. [e EXCEPT !.honoured = TRUE] \in Process
            /\ [e EXCEPT !.honoured = TRUE].pc = "done"
            /\ [e EXCEPT !.honoured = TRUE].honoured
            /\ [e EXCEPT !.honoured = TRUE].late = proc[c].late
        BY <3>1 DEF Process, History
      <3> QED BY <3>2 DEF e
    <2> HIDE DEF r
    <2>3. /\ goes \in Process /\ goes.pc \in {"work", "lock"} /\ goes.honoured
          /\ goes.late = proc[c].late
      BY <1>2 DEF Process, History, Points, Jobs
    <2>4. /\ joins \in Process /\ joins.pc = "read" /\ joins.honoured
          /\ joins.late = proc[c].late
      BY <1>2 DEF Process, History, Points, Jobs
    <2> HIDE DEF limited, goes, joins
    <2>5. PICK s \in {limited, goes, joins} : Becomes(c, s)
      BY <1>4
    <2>6. /\ s \in Process /\ s.pc \in {"done", "work", "lock", "read"} /\ s.honoured
          /\ s.late = proc[c].late
      BY <2>2, <2>3, <2>4
    <2>7. Procs' /\ proc'[c] = s /\ Alone(c)
      BY <1>1, <2>5, <2>6, Update
    <2> QED BY <1>1, <1>4, <2>1, <2>6, <2>7 DEF Admits, Writing, TypeOK, Procs, disk
  <1> QED BY <1>1, <1>3, <1>4 DEF Verify

(* Every step is one of these.                                             *)
Move ==
    \/ \E p \in Processes : Quiet(p) \/ Closes(p)
    \/ \E c \in Callers : Comes(c) \/ Admits(c)
    \/ \E v \in Revokers : Starts(v)
    \/ \E P \in Programs : Dies(P)
    \/ UNCHANGED <<proc, tomb>>

LEMMA Moves == ASSUME TypeOK, [Next]_vars PROVE TypeOK' /\ Move
  <1>1. ASSUME NEW p \in Processes, Store(p) PROVE TypeOK' /\ Move
    BY <1>1, ReadQuiet, OpenTempQuiet, WriteTempQuiet, PublishQuiet, LogQuiet, StoreErrorMoves
       DEF Store, Move
  <1>2. ASSUME NEW c \in Callers, Arrive(c) \/ Verify(c) \/ Use(c) PROVE TypeOK' /\ Move
    BY <1>2, ArriveComes, VerifyMoves, UseQuiet DEF Move, Processes
  <1>3. ASSUME NEW r \in Requests, Serve(r) PROVE TypeOK' /\ Move
    BY <1>3, AcquireQuiet, ChargeQuiet, WorkQuiet, FlagQuiet DEF Serve, Move, Processes, Callers
  <1>4. ASSUME NEW v \in Revokers, RunRevoke(v) \/ Revoke(v) \/ Tombstone(v)
        PROVE  TypeOK' /\ Move
    BY <1>4, RunRevokeStarts, RevokeQuiet, TombstoneCloses DEF Move, Processes
  <1>5. ASSUME NEW P \in Programs, Crash(P) PROVE TypeOK' /\ Move
    BY <1>5, CrashKills DEF Move
  <1>6. CASE UNCHANGED vars
    BY <1>6 DEF vars, disk, TypeOK, Move
  <1> QED BY <1>1, <1>2, <1>3, <1>4, <1>5, <1>6 DEF Next, Finished

LEMMA InitType == Init => TypeOK
  <1> SUFFICES ASSUME Init PROVE TypeOK
    OBVIOUS
  <1>1. proc \in [Processes -> Process]
    BY FreshIsGrant DEF Init, Process, Points, Jobs
  <1>2. /\ live \in Grant /\ temp \in {Absent} /\ tomb \in BOOLEAN /\ foreign \in BOOLEAN
        /\ lock \in {Nobody}
    BY FreshIsGrant DEF Init
  <1>3. faults \in 0 .. MaxFaults
    BY GrantAssumption DEF Init
  <1> QED BY <1>1, <1>2, <1>3 DEF TypeOK

(* Type correctness: the grant file holds a whole record or bytes that are *)
(* no grant, and no counter in it ever exceeds the allowance.              *)
THEOREM Typed == Spec => []TypeOK
  BY InitType, Moves, PTL DEF Spec

-----------------------------------------------------------------------------
(* The gate.                                                               *)

(* Nobody is late before the tombstone, whoever is late has not been       *)
(* honoured, and a revocation writes the record, or has been reported,     *)
(* only once the tombstone is there.                                       *)
GateInv ==
    /\ \A c \in Callers :
         /\ proc[c].pc # "tomb"
         /\ proc[c].late => tomb /\ ~proc[c].honoured
         /\ proc[c].pc = "idle" => ~proc[c].late /\ ~proc[c].honoured
    /\ \A v \in Revokers :
         /\ proc[v].pc \in Writing => tomb
         /\ proc[v].told => tomb /\ proc[v].pc = "done"

IInv == TypeOK /\ GateInv

LEMMA GateInvStep == ASSUME IInv, Move PROVE GateInv'
  <1> USE GrantAssumption DEF IInv, Processes
  <1>1. ASSUME NEW p \in Processes, Quiet(p) PROVE GateInv'
    BY <1>1 DEF GateInv, Quiet, Alone, Advances, Writing
  <1>2. ASSUME NEW p \in Processes, Closes(p) PROVE GateInv'
    BY <1>2 DEF GateInv, Closes, Alone, Writing
  <1>3. ASSUME NEW c \in Callers, Comes(c) PROVE GateInv'
    BY <1>3 DEF GateInv, Comes, Alone, Writing
  <1>4. ASSUME NEW c \in Callers, Admits(c) PROVE GateInv'
    BY <1>4 DEF GateInv, Admits, Alone, Writing
  <1>5. ASSUME NEW v \in Revokers, Starts(v) PROVE GateInv'
    BY <1>5 DEF GateInv, Starts, Alone, Writing
  <1>6. ASSUME NEW P \in Programs, Dies(P) PROVE GateInv'
    BY <1>6 DEF GateInv, Dies, History, Running, Writing
  <1>7. CASE UNCHANGED <<proc, tomb>>
    BY <1>7 DEF GateInv
  <1> QED BY <1>1, <1>2, <1>3, <1>4, <1>5, <1>6, <1>7 DEF Move

LEMMA Invariance == Spec => []IInv
  <1>1. Init => IInv
    BY InitType DEF IInv, GateInv, Init, Processes, Writing
  <1>2. IInv /\ [Next]_vars => IInv'
    BY Moves, GateInvStep DEF IInv
  <1> QED BY <1>1, <1>2, PTL DEF Spec

(* What the gate makes of the processes.                                   *)
Shown == [c \in Callers |-> Standing(c)]
Told == {v \in Revokers : proc[v].told}

(* A step that leaves the others' standing alone.                          *)
LEMMA OthersStand ==
    ASSUME NEW p, Alone(p), NEW c \in Callers \ {p}
    PROVE  Standing(c)' = Standing(c)
  BY DEF Alone, Standing, At, Processes

LEMMA OthersTold ==
    ASSUME NEW p, Alone(p)
    PROVE  /\ p \in Revokers /\ proc'[p].told => Told' = Told \cup {p}
           /\ p \in Revokers /\ ~proc'[p].told /\ ~proc[p].told => Told' = Told
           /\ p \notin Revokers => Told' = Told
  BY DEF Alone, Told, Processes

LEMMA GateStep == ASSUME IInv, Move PROVE [Gate!Next]_<<tomb, Shown, Told>>
  <1> USE GrantAssumption DEF IInv, Processes
  <1> DEFINE Same == Shown' = Shown
  <1>0. Same /\ Told' = Told /\ tomb' = tomb => [Gate!Next]_<<tomb, Shown, Told>>
    OBVIOUS
  <1>1. ASSUME NEW p \in Processes, Quiet(p) PROVE [Gate!Next]_<<tomb, Shown, Told>>
    <2>1. Alone(p) /\ tomb' = tomb /\ Advances(p, proc'[p])
      BY <1>1 DEF Quiet
    <2>2. CASE p \in Revokers
      <3>1. Same
        BY <2>1, <2>2, OthersStand DEF Shown, Callers
      <3>2. CASE proc'[p].told
        <4>1. tomb /\ Told' = Told \cup {p}
          BY <2>1, <2>2, <3>2, OthersTold DEF Advances, GateInv
        <4> QED BY <2>1, <2>2, <3>1, <4>1 DEF Gate!Next, Gate!Report, Shown, Told
      <3>3. CASE ~proc'[p].told
        <4>1. ~proc[p].told
          BY <2>1, <2>2 DEF Advances, GateInv
        <4> QED BY <1>0, <2>1, <2>2, <3>1, <3>3, <4>1, OthersTold
      <3> QED BY <3>2, <3>3
    <2>3. CASE p \in Callers
      <3>1. Told' = Told
        BY <2>1, <2>3, OthersTold
      <3>2. \/ Standing(p)' = Standing(p)
            \/ Standing(p) \in {"waiting", "late"} /\ Standing(p)' = "refused"
        BY <2>1 DEF Advances, Standing, At
      <3>3. Same \/ (/\ Standing(p) \in {"waiting", "late"}
                     /\ Shown' = [c \in Callers |-> IF c \in {p} THEN "refused" ELSE Shown[c]])
        BY <2>1, <3>2, OthersStand DEF Shown
      <3> QED BY <1>0, <2>1, <2>3, <3>1, <3>3 DEF Gate!Next, Gate!TurnAway, Shown, Told
    <2> QED BY <2>2, <2>3
  <1>2. ASSUME NEW p \in Processes, Closes(p) PROVE [Gate!Next]_<<tomb, Shown, Told>>
    <2>1. p \in Revokers /\ Alone(p) /\ tomb' = TRUE /\ ~proc'[p].told /\ ~proc[p].told
      BY <1>2 DEF Closes, GateInv
    <2>2. Same /\ Told' = Told
      BY <2>1, OthersStand, OthersTold DEF Shown, Callers
    <2> QED BY <2>1, <2>2 DEF Gate!Next, Gate!Close, Shown, Told
  <1>3. ASSUME NEW c \in Callers, Comes(c) PROVE [Gate!Next]_<<tomb, Shown, Told>>
    <2>1. Alone(c) /\ tomb' = tomb /\ Told' = Told
      BY <1>3, OthersTold DEF Comes
    <2>2. Standing(c) = "away" /\ Standing(c)' = IF tomb THEN "late" ELSE "waiting"
      BY <1>3 DEF Comes, GateInv, Standing, At, TypeOK
    <2>3. Shown' = [Shown EXCEPT ![c] = IF tomb THEN "late" ELSE "waiting"]
      BY <2>1, <2>2, OthersStand DEF Shown
    <2> QED BY <2>1, <2>2, <2>3 DEF Gate!Next, Gate!Arrive, Shown, Told
  <1>4. ASSUME NEW c \in Callers, Admits(c) PROVE [Gate!Next]_<<tomb, Shown, Told>>
    <2>1. Alone(c) /\ tomb' = tomb /\ Told' = Told
      BY <1>4, OthersTold DEF Admits
    <2>2. Standing(c) \in {"waiting", "honoured"} /\ Standing(c)' = "honoured"
      BY <1>4 DEF Admits, GateInv, Standing, At
    <2>3. Shown' = [Shown EXCEPT ![c] = "honoured"]
      BY <2>1, <2>2, OthersStand DEF Shown
    <2>4. Standing(c) = "honoured" => Same
      BY <2>3 DEF Shown
    <2> QED BY <1>0, <2>1, <2>2, <2>3, <2>4 DEF Gate!Next, Gate!Honour, Shown, Told
  <1>5. ASSUME NEW v \in Revokers, Starts(v) PROVE [Gate!Next]_<<tomb, Shown, Told>>
    <2>1. Alone(v) /\ tomb' = tomb /\ ~proc[v].told /\ ~proc'[v].told
      BY <1>5 DEF Starts, GateInv
    <2>2. Same /\ Told' = Told
      BY <2>1, OthersStand, OthersTold DEF Shown, Callers
    <2> QED BY <1>0, <2>1, <2>2
  <1>6. ASSUME NEW P \in Programs, Dies(P) PROVE [Gate!Next]_<<tomb, Shown, Told>>
    <2> DEFINE Out == {c \in Callers : Standing(c) \in {"waiting", "late"}
                                       /\ Standing(c)' = "refused"}
    <2>1. tomb' = tomb /\ Told' = Told
      BY <1>6 DEF Dies, Told, History
    <2>2. ASSUME NEW c \in Callers PROVE Standing(c)' = Standing(c) \/ c \in Out
      BY <1>6 DEF Dies, Standing, At, History, Running
    <2>3. Shown' = [c \in Callers |-> IF c \in Out THEN "refused" ELSE Shown[c]]
      BY <2>2 DEF Shown
    <2>4. Out \in SUBSET Callers /\ \A c \in Out : Shown[c] \in {"waiting", "late"}
      BY DEF Shown
    <2> HIDE DEF Out
    <2> QED BY <2>1, <2>3, <2>4 DEF Gate!Next, Gate!TurnAway, Shown, Told
  <1>7. CASE UNCHANGED <<proc, tomb>>
    BY <1>0, <1>7 DEF Shown, Told, Standing, At
  <1> QED BY <1>1, <1>2, <1>3, <1>4, <1>5, <1>6, <1>7 DEF Move

(* Revocation is final, with any number of requests, joins, revocations,   *)
(* stale records and crashes: the grant store implements GrantGate.        *)
THEOREM RevocationIsFinal == Spec => ImplementsGate
  <1>1. Init => Gate!Init
    BY DEF Init, Gate!Init, Standing, At, Processes, Callers
  <1>2. IInv /\ [Next]_vars => [Gate!Next]_<<tomb, Shown, Told>>
    BY Moves, GateStep DEF IInv
  <1>3. Spec => [][Gate!Next]_<<tomb, Shown, Told>>
    BY <1>2, Invariance, PTL DEF Spec
  <1> QED BY <1>1, <1>3, PTL DEF Spec, ImplementsGate, Gate!Spec, Gate!gate, Shown, Told

-----------------------------------------------------------------------------
(* The record in the file.                                                 *)

(* The steps of a request's read-modify-write.                             *)
Guarded(r) == \/ proc[r].pc \in Writing \cup {"log"}
              \/ proc[r].pc \in {"read", "fold"} /\ proc[r].job # "verify"

(* A request rewrites the record only under the lock, so that, until       *)
(* another process starts, one thread at a time has the temporary file     *)
(* open, and publishes it with a record in it.                             *)
FileInv ==
    /\ \A r \in Requests : Guarded(r) => lock = r
    /\ \A r \in Requests : proc[r].pc = "idle" => proc[r].job = "verify"
    /\ ~foreign =>
         /\ live \in Grant
         /\ \A p \in Processes \ Requests : proc[p].pc \notin {"write", "publish"}
         /\ \A r \in Requests :
              /\ proc[r].pc = "write" => proc[r].fd = "temp" /\ temp = Empty
              /\ proc[r].pc = "publish" => temp \in Grant

(* A step that touches neither the file nor the temporary one.             *)
Aside(p, s) ==
    /\ Becomes(p, s) /\ UNCHANGED <<live, temp, foreign>>
    /\ s.pc \notin {"idle", "write", "publish"}
    /\ \/ lock' = lock
       \/ lock = p /\ lock' = Nobody
       \/ lock = Nobody /\ lock' = p
    /\ p \in Requests /\ \/ s.pc \in Writing \cup {"log"}
                         \/ s.pc \in {"read", "fold"} /\ s.job # "verify"
         => lock' = p

LEMMA AsideKeeps ==
    ASSUME TypeOK, FileInv, NEW p \in Processes, NEW s, Aside(p, s)
    PROVE  FileInv'
  <1>1. /\ proc'[p] = s /\ \A q \in Processes \ {p} : proc'[q] = proc[q]
    BY DEF Aside, Becomes, TypeOK
  <1>2. \A q \in Processes : q # Nobody
    BY GrantAssumption
  <1>3. Requests \subseteq Processes
    BY DEF Processes, Callers
  <1> QED BY <1>1, <1>2, <1>3 DEF FileInv, Guarded, Aside, Writing

LEMMA EndKeeps ==
    ASSUME TypeOK, FileInv, NEW p \in Processes, NEW s, s.pc = "done", Becomes(p, s),
           Unlock(p), UNCHANGED <<live, temp, foreign>>
    PROVE  FileInv'
  <1>1. Aside(p, s)
    BY DEF Aside, Unlock, Writing
  <1> QED BY <1>1, AsideKeeps

LEMMA EndLineKeeps ==
    ASSUME TypeOK, FileInv, NEW p \in Processes, NEW line \in Lines, End(p, line),
           UNCHANGED <<live, temp, foreign>>
    PROVE  FileInv'
  <1>1. Ended(p, line).pc = "done"
    BY EndedFacts DEF TypeOK, Procs
  <1> QED BY <1>1, EndKeeps DEF End

LEMMA SpoilKeeps ==
    ASSUME TypeOK, FileInv, NEW p \in Processes, Spoil(p), UNCHANGED <<live, temp, foreign>>
    PROVE  FileInv'
  <1>1. Spoilt(p).pc = "done"
    BY SpoiltFacts DEF TypeOK, Procs
  <1> QED BY <1>1, EndKeeps DEF Spoil

(* A request that saves has the lock already; others take none.            *)
LEMMA SaveKeeps ==
    ASSUME TypeOK, FileInv, NEW p \in Processes, NEW g, Save(p, g),
           p \in Requests => Guarded(p)
    PROVE  FileInv'
  <1> DEFINE s == [proc[p] EXCEPT !.rec = g, !.pc = "open"]
  <1>1. s.pc = "open"
    BY DEF TypeOK, Process
  <1>2. Aside(p, s)
    BY <1>1 DEF Save, Aside, FileInv, disk, Writing
  <1> QED BY <1>2, AsideKeeps

LEMMA StoreKeeps == ASSUME TypeOK, FileInv, NEW p \in Processes, Store(p) PROVE FileInv'
  <1>0. /\ proc[p] \in Process /\ Requests \subseteq Processes
        /\ \A q \in Processes : proc[q] \in Process /\ q # Nobody
    BY GrantAssumption DEF TypeOK, Processes, Callers
  <1>1. CASE Read(p)
    <2> DEFINE s == [proc[p] EXCEPT !.pc = "fold", !.rec = live]
    <2>1. CASE Spoil(p)
      BY <1>1, <2>1, SpoilKeeps DEF Read, disk
    <2>2. CASE Becomes(p, s) /\ UNCHANGED lock
      <3>1. s.pc = "fold" /\ s.job = proc[p].job
        BY <1>0 DEF Process
      <3>2. Aside(p, s)
        BY <1>1, <2>2, <3>1 DEF Read, At, Aside, FileInv, Guarded, disk, Writing
      <3> QED BY <3>2, AsideKeeps
    <2> QED BY <1>1, <2>1, <2>2 DEF Read
  <1>2. CASE OpenTemp(p)
    <2>1. /\ proc[p].pc = "open" /\ proc'[p].pc = "write" /\ proc'[p].fd = "temp"
          /\ proc'[p].job = proc[p].job
          /\ \A q \in Processes \ {p} : proc'[q] = proc[q]
      BY <1>0, <1>2 DEF OpenTemp, At, Becomes, TypeOK, Process
    <2>2. /\ live' = live /\ temp' = Empty /\ lock' = lock
          /\ foreign' = (foreign \/ p \notin Requests)
      BY <1>2 DEF OpenTemp
    <2>3. \A r \in Requests : Guarded(r)' => lock' = r
      BY <1>0, <2>1, <2>2 DEF FileInv, Guarded, Writing
    <2>4. ASSUME ~foreign'
          PROVE  /\ ~foreign /\ p \in Requests /\ lock = p
                 /\ \A q \in Processes \ {p} : proc'[q].pc \notin {"write", "publish"}
      BY <1>0, <2>1, <2>2, <2>4 DEF FileInv, Guarded, Writing, TypeOK
    <2>5. \A r \in Requests : proc'[r].pc = "idle" => proc'[r].job = "verify"
      BY <1>0, <2>1 DEF FileInv
    <2>6. ASSUME ~foreign'
          PROVE  /\ live' \in Grant
                 /\ \A q \in Processes \ Requests : proc'[q].pc \notin {"write", "publish"}
                 /\ \A r \in Requests :
                      /\ proc'[r].pc = "write" => proc'[r].fd = "temp" /\ temp' = Empty
                      /\ proc'[r].pc = "publish" => temp' \in Grant
      <3>1. live' \in Grant
        BY <2>2, <2>4, <2>6 DEF FileInv
      <3> QED BY <1>0, <2>1, <2>2, <2>4, <2>6, <3>1
    <2> QED BY <2>3, <2>5, <2>6 DEF FileInv
  <1>3. CASE WriteTemp(p)
    <2>1. /\ proc[p].pc = "write" /\ proc'[p].pc = "publish" /\ proc[p].rec \in Grant
          /\ \A q \in Processes \ {p} : proc'[q] = proc[q]
      BY <1>0, <1>3 DEF WriteTemp, At, Becomes, TypeOK, Process
    <2>2. ~foreign => /\ p \in Requests /\ live' = live
                      /\ temp' = proc[p].rec
      BY <1>0, <1>3, <2>1 DEF WriteTemp, FileInv, Over
    <2>3. lock' = lock /\ foreign' = foreign
      BY <1>3 DEF WriteTemp
    <2>4. \A r \in Requests : /\ Guarded(r)' => lock' = r
                              /\ proc'[r].pc = "idle" => proc'[r].job = "verify"
      <3>1. p \in Requests => lock' = p /\ proc'[p].pc # "idle"
        BY <2>1, <2>3 DEF FileInv, Guarded, Writing
      <3>2. \A r \in Requests \ {p} : /\ Guarded(r)' => lock' = r
                                      /\ proc'[r].pc = "idle" => proc'[r].job = "verify"
        BY <1>0, <2>1, <2>3 DEF FileInv, Guarded
      <3> QED BY <3>1, <3>2
    <2>5. ASSUME ~foreign'
          PROVE  \A q \in Processes \ {p} : proc'[q].pc \notin {"write", "publish"}
      BY <1>0, <2>1, <2>2, <2>3, <2>5 DEF FileInv, Guarded, Writing
    <2>6. ~foreign' => live' \in Grant /\ temp' \in Grant /\ p \in Requests
      BY <2>1, <2>2, <2>3 DEF FileInv
    <2>7. ASSUME ~foreign'
          PROVE  /\ live' \in Grant
                 /\ \A q \in Processes \ Requests : proc'[q].pc \notin {"write", "publish"}
                 /\ \A r \in Requests :
                      /\ proc'[r].pc = "write" => proc'[r].fd = "temp" /\ temp' = Empty
                      /\ proc'[r].pc = "publish" => temp' \in Grant
      BY <1>0, <2>1, <2>5, <2>6, <2>7
    <2> QED BY <2>4, <2>7 DEF FileInv
  <1>4. CASE Publish(p)
    <2>0. proc[p].pc = "publish" /\ foreign' = foreign
      BY <1>4 DEF Publish, At
    <2>1. CASE Spoil(p) /\ UNCHANGED disk
      BY <2>0, <2>1, SpoilKeeps DEF disk
    <2>2. CASE ~(Spoil(p) /\ UNCHANGED disk)
      <3>1. /\ live' = temp /\ proc'[p] = Stored(p)
            /\ \A q \in Processes \ {p} : proc'[q] = [proc[q] EXCEPT !.fd = Moved(@)]
            /\ IF proc[p].job = "use" THEN lock' = lock ELSE Unlock(p)
        BY <1>4, <2>2 DEF Publish
      <3>2. ASSUME NEW q \in Processes \ {p}
            PROVE  proc'[q].pc = proc[q].pc /\ proc'[q].job = proc[q].job
        <4>1. proc[q] \in Process /\ proc'[q] = [proc[q] EXCEPT !.fd = Moved(proc[q].fd)]
          BY <1>0, <3>1
        <4> QED BY <4>1 DEF Process
      <3>3. /\ Stored(p).pc \in {"done", "work", "log"}
            /\ Stored(p).pc = "log" => proc[p].job = "use"
        <4>1. "none" \in Lines /\ "other" \in Lines /\ Procs
          BY DEF Lines, TypeOK, Procs
        <4>2. Stored(p).pc \in {"done", "work", "log"}
          BY <4>1, StoredFacts
        <4>3. CASE proc[p].job = "charge"
          <5> DEFINE o == Ended(p, "other")
          <5>1. o \in Process /\ o.pc = "done"
            BY <4>1, EndedFacts
          <5>2. Reloading(p) \in Process
            BY <1>0, FreshIsGrant DEF Reloading, Process
          <5> HIDE DEF o
          <5>3. [o EXCEPT !.paid = proc[p].rec.day].pc = "done"
            BY <5>1 DEF Process
          <5>4. [Reloading(p) EXCEPT !.pc = "work", !.paid = proc[p].rec.day,
                                     !.today = 0].pc = "work"
            BY <5>2 DEF Process
          <5> QED BY <4>3, <5>3, <5>4 DEF Stored, o
        <4>4. CASE proc[p].job = "revoke"
          <5> DEFINE e == Ended(p, "none")
          <5>1. e \in Process /\ e.pc = "done"
            BY <4>1, EndedFacts
          <5> HIDE DEF e
          <5>2. [e EXCEPT !.told = TRUE].pc = "done"
            BY <5>1 DEF Process
          <5> QED BY <4>4, <5>2 DEF Stored, e
        <4>5. CASE proc[p].job \notin {"charge", "revoke", "use"}
          BY <4>1, <4>5, EndedFacts DEF Stored
        <4> QED BY <4>2, <4>3, <4>4, <4>5
      <3>4. ~foreign => p \in Requests /\ temp \in Grant
        BY <2>0 DEF FileInv
      <3>5. p \in Requests => lock = p
        BY <2>0 DEF FileInv, Guarded, Writing
      <3>6. ASSUME NEW r \in Requests, Guarded(r)' PROVE lock' = r
        <4>1. CASE r = p
          BY <1>0, <3>1, <3>3, <3>5, <3>6, <4>1 DEF Guarded, Writing
        <4>2. CASE r # p
          <5>1. Guarded(r)
            BY <1>0, <3>2, <3>6, <4>2 DEF Guarded
          <5> QED BY <3>1, <4>2, <5>1 DEF FileInv, Unlock
        <4> QED BY <4>1, <4>2
      <3>7. ASSUME ~foreign', NEW q \in Processes PROVE proc'[q].pc \notin {"write", "publish"}
        BY <1>0, <2>0, <3>1, <3>2, <3>3, <3>4, <3>5, <3>7 DEF FileInv, Guarded, Writing
      <3>8. \A r \in Requests : proc'[r].pc = "idle" => proc'[r].job = "verify"
        BY <1>0, <3>1, <3>2, <3>3 DEF FileInv
      <3> QED BY <1>0, <2>0, <3>1, <3>4, <3>6, <3>7, <3>8 DEF FileInv
    <2> QED BY <2>1, <2>2
  <1>5. CASE Log(p)
    BY <1>5, EndLineKeeps DEF Log, Lines, disk
  <1>6. CASE StoreError(p)
    BY <1>6, SpoilKeeps DEF StoreError
  <1> QED BY <1>1, <1>2, <1>3, <1>4, <1>5, <1>6 DEF Store


(* A request that is not in its read-modify-write keeps off the lock.      *)
LEMMA GoesAside ==
    ASSUME TypeOK, FileInv, NEW p \in Processes, NEW s, Becomes(p, s),
           UNCHANGED <<live, temp, lock, foreign>>,
           s.pc \in {"read", "fold", "lock", "work", "tomb", "open", "done"},
           p \in Requests =>
             s.pc \in {"lock", "work", "done"} \/ (s.pc = "read" /\ s.job = "verify")
    PROVE  FileInv'
  <1>1. Aside(p, s)
    BY DEF Aside, Writing
  <1> QED BY <1>1, AsideKeeps

LEMMA CallerKeeps ==
    ASSUME TypeOK, FileInv, NEW c \in Callers, Arrive(c) \/ Verify(c) \/ Use(c)
    PROVE  FileInv'
  <1>0. c \in Processes /\ proc[c] \in Process /\ "other" \in Lines
    BY DEF Processes, TypeOK, Lines
  <1>1. CASE Arrive(c)
    <2>1. PICK op \in Ops(c), d \in Days :
            Becomes(c, [proc[c] EXCEPT !.pc = "read", !.op = op, !.today = d, !.late = tomb])
      BY <1>1 DEF Arrive
    <2> DEFINE s == [proc[c] EXCEPT !.pc = "read", !.op = op, !.today = d, !.late = tomb]
    <2>2. s.pc = "read" /\ s.job = proc[c].job
      BY <1>0 DEF Process
    <2>3. c \in Requests => proc[c].job = "verify"
      BY <1>1 DEF Arrive, At, FileInv
    <2> QED BY <1>0, <1>1, <2>1, <2>2, <2>3, GoesAside DEF Arrive, disk
  <1>2. CASE Verify(c)
    <2> DEFINE r == Reloading(c)
               poll == proc[c].op = "poll"
               e == Ended(c, "other")
               limited == [e EXCEPT !.honoured = TRUE]
               goes == [r EXCEPT !.honoured = TRUE,
                                 !.job = IF poll THEN @ ELSE "charge",
                                 !.pc = IF poll THEN "work" ELSE "lock",
                                 !.line = IF proc[c].op = "probe" THEN "other" ELSE @]
               joins == [r EXCEPT !.honoured = TRUE, !.job = "use", !.pc = "read", !.today = 0]
    <2>1. UNCHANGED <<live, temp, foreign>>
      BY <1>2 DEF Verify, disk
    <2>2. CASE End(c, "other")
      BY <1>0, <2>1, <2>2, EndLineKeeps
    <2>3. CASE /\ UNCHANGED lock
               /\ \/ Becomes(c, limited) \/ Becomes(c, goes)
                  \/ c \in Joins /\ Becomes(c, joins)
      <3>1. r \in Process
        BY <1>0, FreshIsGrant DEF Reloading, Process
      <3>2. e \in Process /\ e.pc = "done"
        BY <1>0, EndedFacts DEF TypeOK, Procs
      <3> HIDE DEF r, e
      <3>3. /\ limited.pc = "done" /\ goes.pc \in {"work", "lock"} /\ joins.pc = "read"
        BY <3>1, <3>2 DEF Process
      <3> HIDE DEF limited, goes, joins
      <3>4. c \in Joins => c \notin Requests
        BY GrantAssumption
      <3> QED BY <1>0, <2>1, <2>3, <3>3, <3>4, GoesAside
    <2> QED BY <1>2, <2>2, <2>3 DEF Verify
  <1>3. CASE Use(c)
    BY <1>0, <1>3, SaveKeeps DEF Use, Doing, At, Guarded
  <1> QED BY <1>1, <1>2, <1>3

LEMMA ServeKeeps == ASSUME TypeOK, FileInv, NEW r \in Requests, Serve(r) PROVE FileInv'
  <1>0. r \in Processes /\ proc[r] \in Process /\ "other" \in Lines /\ "none" \in Lines
    BY DEF Processes, Callers, TypeOK, Lines
  <1>1. CASE Acquire(r)
    <2> DEFINE s == [proc[r] EXCEPT !.pc = "read"]
    <2>1. s.pc = "read"
      BY <1>0 DEF Process
    <2>2. Aside(r, s)
      BY <1>1, <2>1 DEF Acquire, Aside, disk, Writing
    <2> QED BY <1>0, <2>2, AsideKeeps
  <1>2. CASE Charge(r)
    <2>1. Guarded(r)
      BY <1>2 DEF Charge, Doing, At, Guarded
    <2>2. CASE End(r, "other") /\ UNCHANGED <<disk, foreign, faults>>
      BY <1>0, <2>2, EndLineKeeps DEF disk
    <2>3. CASE \E g : Save(r, g)
      BY <1>0, <2>1, <2>3, SaveKeeps
    <2> QED BY <1>2, <2>2, <2>3 DEF Charge
  <1>3. CASE Flag(r)
    <2>1. Guarded(r)
      BY <1>3 DEF Flag, Doing, At, Guarded
    <2>2. CASE End(r, "other") /\ UNCHANGED <<disk, foreign, faults>>
      BY <1>0, <2>2, EndLineKeeps DEF disk
    <2>3. CASE \E g : Save(r, g)
      BY <1>0, <2>1, <2>3, SaveKeeps
    <2> QED BY <1>3, <2>2, <2>3 DEF Flag
  <1>4. CASE Work(r)
    <2> DEFINE u == Recorded(r)
               f == [proc[r] EXCEPT !.job = "flag", !.pc = "lock"]
    <2>1. UNCHANGED <<live, temp, foreign>>
      BY <1>4 DEF Work, disk
    <2>2. u.pc = "lock" /\ f.pc = "lock"
      BY <1>0 DEF Recorded, Process
    <2>3. CASE (Becomes(r, u) \/ Becomes(r, f)) /\ UNCHANGED lock
      BY <1>0, <2>1, <2>2, <2>3, GoesAside
    <2>4. CASE End(r, "other") \/ End(r, "none")
      BY <1>0, <2>1, <2>4, EndLineKeeps
    <2> QED BY <1>4, <2>3, <2>4 DEF Work, QueueUnwritable
  <1> QED BY <1>1, <1>2, <1>3, <1>4 DEF Serve

LEMMA RevokerKeeps ==
    ASSUME TypeOK, FileInv, NEW v \in Revokers, RunRevoke(v) \/ Revoke(v) \/ Tombstone(v)
    PROVE  FileInv'
  <1>0. v \in Processes /\ v \notin Requests /\ proc[v] \in Process
    BY GrantAssumption DEF Processes, Callers, TypeOK
  <1> DEFINE g == [Loaded(v) EXCEPT !.revoked = TRUE]
  <1>1. PICK s \in {[proc[v] EXCEPT !.pc = "read"], [proc[v] EXCEPT !.pc = "open"],
                    [proc[v] EXCEPT !.rec = g, !.pc = "tomb"]} : Becomes(v, s)
    BY DEF RunRevoke, Revoke, Tombstone
  <1> HIDE DEF g
  <1>2. s.pc \in {"read", "open", "tomb"}
    BY <1>0 DEF Process
  <1>3. UNCHANGED <<live, temp, lock, foreign>>
    BY DEF RunRevoke, Revoke, Tombstone, disk
  <1> QED BY <1>0, <1>1, <1>2, <1>3, GoesAside

(* A dead server holds no lock and has no file open; what it left in the   *)
(* temporary file is truncated by the next one.                            *)
LEMMA CrashKeeps == ASSUME TypeOK, FileInv, NEW P \in Programs, Crash(P) PROVE FileInv'
  <1>1. Dies(P) /\ UNCHANGED <<live, temp, foreign>>
    BY CrashKills DEF Crash, disk
  <1>2. Requests \subseteq Processes /\ \A q \in Processes : q # Nobody
    BY GrantAssumption DEF Processes, Callers
  <1>3. ASSUME NEW q \in Processes
        PROVE  proc'[q] = proc[q] \/ (q \in P /\ proc'[q].pc = "done")
    BY <1>1 DEF Dies
  <1>4. ASSUME NEW r \in Requests, Guarded(r)' PROVE lock' = r
    <2>1. proc'[r] = proc[r] /\ Guarded(r)
      BY <1>2, <1>3, <1>4 DEF Guarded, Writing
    <2>2. lock = r
      BY <2>1 DEF FileInv
    <2>3. CASE r \in P
      <3>1. P = Requests
        BY <2>3, GrantAssumption DEF Programs, Processes, Callers
      <3>2. proc'[r] = Ended(r, proc[r].line) /\ Running(r)
        BY <1>2, <2>1, <2>3 DEF Crash, Guarded, Running, Writing
      <3>3. proc'[r].pc = "done"
        BY <1>2, <3>2, EndedFacts DEF TypeOK, Procs, Process, Lines
      <3> QED BY <1>4, <3>3 DEF Guarded, Writing
    <2>4. CASE r \notin P
      BY <2>2, <2>4 DEF Crash
    <2> QED BY <2>3, <2>4
  <1> QED BY <1>1, <1>2, <1>3, <1>4 DEF FileInv

LEMMA FileInvariance == Spec => [](TypeOK /\ FileInv)
  <1>1. Init => TypeOK /\ FileInv
    <2>1. Init => Fresh \in Grant /\ \A p \in Processes : proc[p].pc = "idle"
      BY FreshIsGrant DEF Init
    <2>2. Init => \A r \in Requests : proc[r].pc = "idle" /\ proc[r].job = "verify"
      BY GrantAssumption DEF Init, Processes, Callers
    <2> QED BY <2>1, <2>2, InitType DEF Init, FileInv, Guarded, Writing
  <1>2. TypeOK /\ FileInv /\ [Next]_vars => TypeOK' /\ FileInv'
    <2> SUFFICES ASSUME TypeOK, FileInv, [Next]_vars PROVE FileInv'
      BY Moves
    <2>1. CASE UNCHANGED vars
      BY <2>1 DEF vars, disk, FileInv, Guarded
    <2> QED BY <2>1, StoreKeeps, CallerKeeps, ServeKeeps, RevokerKeeps, CrashKeeps
            DEF Next, Finished
  <1> QED BY <1>1, <1>2, PTL DEF Spec

(* The lock keeps the file whole: with any number of requests, crashes and *)
(* store errors, whoever loads the file before another process rewrites it *)
(* finds a record.                                                         *)
THEOREM WholeRecords == Spec => []FileParses
  <1>1. ASSUME TypeOK, FileInv PROVE FileParses
    BY <1>1, FileAssumption DEF FileInv, FileParses, Malformed
  <1> QED BY <1>1, FileInvariance, PTL

-----------------------------------------------------------------------------
(* What the record counts.  A request under the lock has loaded the file's  *)
(* record, and what it writes is that record with its own change, so that   *)
(* each publication adds to the counters what the history adds.             *)

(* What a job makes of the record g it loaded.                              *)
Rewrites(job, g, h) ==
    CASE job = "charge" ->
           /\ h.uses = g.uses /\ h.flag = g.flag /\ h.used <= Allowance
           /\ \/ h.day = g.day /\ h.used = g.used + 1
              \/ h.day > g.day /\ h.used = 1
      [] job = "use" ->
           h.uses = g.uses + 1 /\ h.flag = g.flag /\ h.day = g.day /\ h.used = g.used
      [] OTHER ->
           /\ job = "flag" /\ g.flag = Nobody
           /\ h.uses = g.uses /\ h.day = g.day /\ h.used = g.used

Holds(r) ==
    /\ proc[r].job # "revoke" /\ proc[r].paid \in Days \cup {0}
    /\ proc[r].pc = "fold" /\ proc[r].job # "verify" => proc[r].rec = live
    /\ proc[r].pc \in Writing => Rewrites(proc[r].job, live, proc[r].rec)
    /\ proc[r].pc = "publish" => temp = proc[r].rec
    /\ proc[r].op = "poll" => proc[r].paid = 0 /\ proc[r].job # "charge"
    /\ proc[r].pc = "idle" => proc[r].paid = 0
    /\ faults = 0 /\ proc[r].pc = "done" /\ proc[r].paid # 0 => proc[r].line # "none"

Payers(d) == {r \in Requests : proc[r].paid = d}
Logs(r) == proc[r].line = "allowed" \/ proc[r].pc = "log"
Loggers == {r \in Requests : Logs(r)}

Counters ==
    /\ \A d \in Days :
         /\ IsFiniteSet(Payers(d)) /\ Cardinality(Payers(d)) <= Allowance
         /\ d = live.day => Cardinality(Payers(d)) <= live.used
         /\ d > live.day => Payers(d) = {}
    /\ IsFiniteSet(Loggers) /\ Cardinality(Loggers) <= live.uses

RecordInv == ~foreign => (\A r \in Requests : Holds(r)) /\ Counters

(* Who keeps what the history counts.                                      *)
Steady(q) == proc'[q].paid = proc[q].paid /\ (Logs(q)' => Logs(q))

(* A step leaves alone whoever does not hold the lock.                     *)
Spares(p) ==
    \A q \in Requests \ {p} :
      /\ proc'[q].pc = proc[q].pc /\ proc'[q].job = proc[q].job /\ proc'[q].op = proc[q].op
      /\ proc'[q].rec = proc[q].rec /\ proc'[q].paid = proc[q].paid /\ proc'[q].line = proc[q].line

LEMMA OthersHold ==
    ASSUME FileInv, ~foreign, NEW p \in Processes, Spares(p), faults' = 0 => faults = 0,
           \/ live' = live /\ temp' = temp
           \/ p \in Requests /\ Guarded(p),
           NEW q \in Requests \ {p}, Holds(q)
    PROVE  Holds(q)' /\ Steady(q)
  <1>1. Steady(q)
    BY DEF Spares, Steady, Logs
  <1>2. CASE live' = live /\ temp' = temp
    BY <1>1, <1>2 DEF Holds, Spares
  <1>3. CASE p \in Requests /\ Guarded(p)
    <2>1. ~Guarded(q)
      BY <1>3 DEF FileInv
    <2> QED BY <1>1, <2>1 DEF Holds, Spares, Guarded, Writing
  <1> QED BY <1>2, <1>3

LEMMA BecomesSpares ==
    ASSUME Procs, NEW p \in Processes, NEW s, Becomes(p, s)
    PROVE  proc'[p] = s /\ Spares(p)
  <1>1. Requests \subseteq Processes
    BY DEF Processes, Callers
  <1> QED BY <1>1 DEF Procs, Becomes, Spares

LEMMA EndedFields ==
    ASSUME Procs, NEW p \in Processes, NEW line
    PROVE  /\ Ended(p, line).pc = "done" /\ Ended(p, line).line = line
           /\ Ended(p, line).job = "verify" /\ Ended(p, line).op = "none"
           /\ Ended(p, line).paid = proc[p].paid
  <1> DEFINE f == Forgotten(p)
  <1>1. proc[p] \in Process
    BY DEF Procs
  <1>2. f \in Process /\ f.job = "verify" /\ f.op = "none" /\ f.paid = proc[p].paid
    BY <1>1, FreshIsGrant DEF Forgotten, Process, Jobs
  <1>3. Ended(p, line) = [f EXCEPT !.pc = "done", !.line = line]
    BY DEF Ended
  <1> HIDE DEF f
  <1> QED BY <1>2, <1>3 DEF Process

LEMMA SpoiltFields ==
    ASSUME Procs, NEW p \in Processes, proc[p].job # "revoke"
    PROVE  /\ Spoilt(p).pc = "done" /\ Spoilt(p).line # "allowed"
           /\ Spoilt(p).job = "verify" /\ Spoilt(p).op = "none"
           /\ Spoilt(p).paid = proc[p].paid
  <1>1. Spoilt(p) = Ended(p, "none") \/ Spoilt(p) = Ended(p, "other")
    BY DEF Spoilt
  <1>2. CASE Spoilt(p) = Ended(p, "none")
    BY <1>2, EndedFields
  <1>3. CASE Spoilt(p) = Ended(p, "other")
    BY <1>3, EndedFields
  <1> QED BY <1>1, <1>2, <1>3

-----------------------------------------------------------------------------
(* A step that publishes nothing.                                          *)
Beside == live' = live /\ \A r \in Requests : Holds(r)' /\ Steady(r)

(* What RecordInv says while it says anything.                             *)
Sound == TypeOK /\ FileInv /\ ~foreign /\ \A r \in Requests : Holds(r)

LEMMA Alike ==
    ASSUME Sound, NEW r \in Requests
    PROVE  /\ r \in Processes /\ proc[r] \in Process /\ Procs /\ Holds(r)
           /\ live \in Grant /\ live \notin Malformed
           /\ r # Nobody
           /\ proc[r].rec \in Grant /\ proc[r].line \in Lines
  BY GrantAssumption, FileAssumption
     DEF Sound, TypeOK, Procs, Processes, Callers, FileInv, Malformed, Process, Lines

LEMMA BesideIf ==
    ASSUME Sound, NEW p \in Processes, Spares(p), live' = live, faults' = 0 => faults = 0,
           temp' = temp \/ (p \in Requests /\ Guarded(p)),
           p \in Requests => Holds(p)' /\ Steady(p)
    PROVE  Beside
  BY OthersHold DEF Sound, Beside

(* A request ends, with a line or without having paid.                     *)
LEMMA EndBeside ==
    ASSUME Sound, NEW p \in Processes, NEW line, End(p, line), UNCHANGED <<live, temp, faults>>,
           p \in Requests => /\ line = "none" => proc[p].paid = 0
                             /\ line = "allowed" => Logs(p)
    PROVE  Beside
  <1>1. Procs /\ proc'[p] = Ended(p, line) /\ Spares(p)
    BY BecomesSpares DEF End, Sound, TypeOK, Procs
  <1>2. /\ proc'[p].pc = "done" /\ proc'[p].line = line /\ proc'[p].job = "verify"
        /\ proc'[p].op = "none" /\ proc'[p].paid = proc[p].paid
    BY <1>1, EndedFields
  <1>3. ASSUME p \in Requests PROVE Holds(p)' /\ Steady(p)
    BY <1>2, <1>3, Alike DEF Holds, Steady, Logs, Writing
  <1> QED BY <1>1, <1>3, BesideIf

LEMMA SpoilBeside ==
    ASSUME Sound, NEW p \in Processes, Spoil(p), UNCHANGED <<live, temp>>,
           faults' = 0 => faults = 0,
           p \in Requests => faults' # 0
    PROVE  Beside
  <1>1. Procs /\ proc'[p] = Spoilt(p) /\ Spares(p)
    BY BecomesSpares DEF Spoil, Sound, TypeOK, Procs
  <1>2. ASSUME p \in Requests PROVE Holds(p)' /\ Steady(p)
    <2>1. Holds(p)
      BY <1>2, Alike
    <2>2. /\ proc'[p].pc = "done" /\ proc'[p].line # "allowed" /\ proc'[p].job = "verify"
          /\ proc'[p].op = "none" /\ proc'[p].paid = proc[p].paid
      BY <1>1, <2>1, SpoiltFields DEF Holds
    <2> QED BY <1>2, <2>1, <2>2 DEF Holds, Steady, Logs, Writing
  <1> QED BY <1>1, <1>2, BesideIf

(* A request goes on to a point where nothing is asked of its record.      *)
LEMMA GoesBeside ==
    ASSUME Sound, NEW p \in Processes, NEW s, Becomes(p, s), UNCHANGED <<live, temp, faults>>,
           p \in Requests =>
             /\ s.pc \in {"read", "lock", "work"} \/ (s.pc = "fold" /\ s.rec = live)
             /\ s.paid = proc[p].paid
             /\ s.line # "allowed" \/ s.line = proc[p].line
             /\ s.job # "revoke"
             /\ s.op = "poll" => proc[p].paid = 0 /\ s.job # "charge"
    PROVE  Beside
  <1>1. proc'[p] = s /\ Spares(p)
    BY BecomesSpares DEF Sound, TypeOK, Procs
  <1>2. ASSUME p \in Requests PROVE Holds(p)' /\ Steady(p)
    BY <1>1, <1>2, Alike DEF Holds, Steady, Logs, Writing
  <1> QED BY <1>1, <1>2, BesideIf

(* What a job saves is the file's record with its own change.              *)
LEMMA SaveBeside ==
    ASSUME Sound, NEW p \in Processes, NEW g, Save(p, g),
           p \in Requests => g \in Grant /\ Rewrites(proc[p].job, live, g)
    PROVE  Beside
  <1> DEFINE s == [proc[p] EXCEPT !.rec = g, !.pc = "open"]
  <1>1. proc'[p] = s /\ Spares(p) /\ UNCHANGED <<live, temp, faults>>
    BY BecomesSpares DEF Save, disk, Sound, TypeOK, Procs
  <1>2. ASSUME p \in Requests PROVE Holds(p)' /\ Steady(p)
    <2>1. proc[p] \in Process /\ Holds(p)
      BY <1>2, Alike
    <2>2. /\ s.pc = "open" /\ s.rec = g /\ s.job = proc[p].job /\ s.op = proc[p].op
          /\ s.paid = proc[p].paid /\ s.line = proc[p].line
      BY <2>1 DEF Process
    <2> HIDE DEF s
    <2> QED BY <1>1, <1>2, <2>1, <2>2 DEF Holds, Steady, Logs, Writing
  <1> QED BY <1>1, <1>2, BesideIf

LEMMA LoadedFields ==
    ASSUME Sound, NEW r \in Requests, proc[r].pc = "fold", proc[r].job # "verify"
    PROVE  /\ Loaded(r) \in Grant /\ Loaded(r).uses = live.uses /\ Loaded(r).flag = live.flag
           /\ Loaded(r).day = live.day /\ Loaded(r).used = live.used
  <1>1. proc[r].rec = live /\ live \in Grant /\ r \in Processes
    BY Alike DEF Holds
  <1> QED BY <1>1, LoadedIsGrant DEF Sound, Loaded, Grant

LEMMA ChargeBeside == ASSUME Sound, NEW r \in Requests, Charge(r) PROVE Beside
  <1> DEFINE l == Loaded(r)
             today == proc[r].today
             g == Rolled(l, today)
             h == [g EXCEPT !.used = @ + 1]
  <1>0. r \in Processes /\ proc[r] \in Process /\ proc[r].pc = "fold" /\ proc[r].job = "charge"
    BY Alike DEF Charge, Doing, At
  <1>1. /\ l \in Grant /\ l.uses = live.uses /\ l.flag = live.flag
        /\ l.day = live.day /\ l.used = live.used /\ live \in Grant
    BY <1>0, LoadedFields, Alike
  <1>2. CASE Spent(g)
    <2>1. End(r, "other") /\ UNCHANGED <<disk, foreign, faults>>
      BY <1>2 DEF Charge
    <2> QED BY <1>0, <2>1, EndBeside DEF disk
  <1>3. CASE ~Spent(g)
    <2>1. Save(r, h)
      BY <1>3 DEF Charge
    <2>2. Allowance \in Nat /\ 0 \in 0 .. Allowance /\ today \in Days \cup {0}
      BY <1>0, GrantAssumption DEF Allowance, Process
    <2> HIDE DEF l, today
    <2>3. /\ g \in Grant /\ g.uses = l.uses /\ g.flag = l.flag
          /\ \/ g.day = l.day /\ g.used = l.used
             \/ g.day > l.day /\ g.used = 0
      <3>1. CASE today > l.day
        <4>1. g = [l EXCEPT !.day = today, !.used = 0]
          BY <3>1 DEF Rolled
        <4> QED BY <1>1, <2>2, <3>1, <4>1 DEF Grant
      <3>2. CASE ~(today > l.day)
        BY <1>1, <3>2 DEF Rolled
      <3> QED BY <3>1, <3>2
    <2>4. g.used < Allowance /\ g.used \in Nat
      BY <1>3, <2>2, <2>3 DEF Spent, Grant
    <2> HIDE DEF g
    <2>5. h \in Grant /\ h.uses = g.uses /\ h.flag = g.flag /\ h.day = g.day /\ h.used = g.used + 1
      BY <2>2, <2>3, <2>4 DEF Grant
    <2> HIDE DEF h
    <2>6. Rewrites("charge", live, h)
      BY <1>1, <2>2, <2>3, <2>4, <2>5 DEF Rewrites
    <2> QED BY <1>0, <2>1, <2>5, <2>6, SaveBeside
  <1> QED BY <1>2, <1>3

LEMMA UseBeside == ASSUME Sound, NEW c \in Callers, Use(c) PROVE Beside
  <1> DEFINE h == [Loaded(c) EXCEPT !.uses = @ + 1]
  <1>0. c \in Processes /\ Save(c, h) /\ proc[c].pc = "fold" /\ proc[c].job = "use"
    BY DEF Processes, Use, Doing, At
  <1>1. ASSUME c \in Requests PROVE h \in Grant /\ Rewrites("use", live, h)
    <2> DEFINE l == Loaded(c)
    <2>1. /\ l \in Grant /\ l.uses = live.uses /\ l.flag = live.flag
          /\ l.day = live.day /\ l.used = live.used
      BY <1>0, <1>1, LoadedFields
    <2> HIDE DEF l
    <2>2. /\ [l EXCEPT !.uses = @ + 1] \in Grant
          /\ [l EXCEPT !.uses = @ + 1].uses = l.uses + 1 /\ [l EXCEPT !.uses = @ + 1].flag = l.flag
          /\ [l EXCEPT !.uses = @ + 1].day = l.day /\ [l EXCEPT !.uses = @ + 1].used = l.used
      BY <2>1 DEF Grant
    <2> QED BY <2>1, <2>2 DEF Rewrites, l
  <1> HIDE DEF h
  <1> QED BY <1>0, <1>1, SaveBeside

LEMMA FlagBeside == ASSUME Sound, NEW r \in Requests, Flag(r) PROVE Beside
  <1> DEFINE l == Loaded(r)
             h == [l EXCEPT !.flag = r]
  <1>0. r \in Processes /\ proc[r].pc = "fold" /\ proc[r].job = "flag"
    BY Alike DEF Flag, Doing, At
  <1>1. /\ l \in Grant /\ l.uses = live.uses /\ l.flag = live.flag
        /\ l.day = live.day /\ l.used = live.used
    BY <1>0, LoadedFields
  <1>2. CASE End(r, "other") /\ UNCHANGED <<disk, foreign, faults>>
    BY <1>0, <1>2, EndBeside DEF disk
  <1>3. CASE l.flag = Nobody /\ Save(r, h)
    <2> HIDE DEF l
    <2>1. h \in Grant /\ h.uses = l.uses /\ h.day = l.day /\ h.used = l.used
      BY <1>1 DEF Grant
    <2> HIDE DEF h
    <2>2. Rewrites("flag", live, h)
      BY <1>1, <1>3, <2>1 DEF Rewrites
    <2> QED BY <1>0, <1>3, <2>1, <2>2, SaveBeside
  <1> QED BY <1>2, <1>3 DEF Flag

LEMMA WorkBeside == ASSUME Sound, NEW r \in Requests, Work(r) PROVE Beside
  <1> DEFINE u == Recorded(r)
             f == [proc[r] EXCEPT !.job = "flag", !.pc = "lock"]
  <1>0. r \in Processes /\ proc[r] \in Process /\ Holds(r) /\ UNCHANGED <<live, temp, faults>>
    BY Alike DEF Work, disk
  <1>1. /\ u.pc = "lock" /\ u.job = "use" /\ u.op = proc[r].op /\ u.paid = proc[r].paid /\ u.line = proc[r].line
        /\ f.pc = "lock" /\ f.job = "flag" /\ f.op = proc[r].op /\ f.paid = proc[r].paid /\ f.line = proc[r].line
    BY <1>0 DEF Recorded, Process
  <1>2. CASE (Becomes(r, u) \/ Becomes(r, f))
    BY <1>0, <1>1, <1>2, GoesBeside DEF Holds
  <1>3. CASE End(r, "other") \/ (End(r, "none") /\ proc[r].op = "poll")
    BY <1>0, <1>3, EndBeside DEF Holds
  <1> QED BY <1>2, <1>3 DEF Work, QueueUnwritable

LEMMA AcquireBeside == ASSUME Sound, NEW r \in Requests, Acquire(r) PROVE Beside
  <1> DEFINE s == [proc[r] EXCEPT !.pc = "read"]
  <1>0. r \in Processes /\ proc[r] \in Process /\ Holds(r) /\ UNCHANGED <<live, temp, faults>>
    BY Alike DEF Acquire, disk
  <1>1. s.pc = "read" /\ s.job = proc[r].job /\ s.op = proc[r].op /\ s.paid = proc[r].paid /\ s.line = proc[r].line
    BY <1>0 DEF Process
  <1>2. Becomes(r, s)
    BY DEF Acquire
  <1> HIDE DEF s
  <1> QED BY <1>0, <1>1, <1>2, GoesBeside DEF Holds

LEMMA ArriveBeside == ASSUME Sound, NEW c \in Callers, Arrive(c) PROVE Beside
  <1>0. /\ c \in Processes /\ proc[c] \in Process /\ proc[c].pc = "idle"
        /\ UNCHANGED <<live, temp, faults>>
    BY DEF Processes, Sound, TypeOK, Arrive, At, disk
  <1>1. PICK op \in Ops(c), d \in Days :
          Becomes(c, [proc[c] EXCEPT !.pc = "read", !.op = op, !.today = d, !.late = tomb])
    BY DEF Arrive
  <1> DEFINE s == [proc[c] EXCEPT !.pc = "read", !.op = op, !.today = d, !.late = tomb]
  <1>2. s.pc = "read" /\ s.job = proc[c].job /\ s.paid = proc[c].paid /\ s.line = proc[c].line
    BY <1>0 DEF Process
  <1>3. c \in Requests => proc[c].paid = 0 /\ proc[c].job = "verify"
    BY <1>0, Alike DEF Sound, FileInv, Holds
  <1>4. Becomes(c, s)
    BY <1>1
  <1> HIDE DEF s
  <1> QED BY <1>0, <1>2, <1>3, <1>4, GoesBeside

LEMMA VerifyBeside == ASSUME Sound, NEW c \in Callers, Verify(c) PROVE Beside
  <1> DEFINE r == Reloading(c)
             poll == proc[c].op = "poll"
             e == Ended(c, "other")
             limited == [e EXCEPT !.honoured = TRUE]
             goes == [r EXCEPT !.honoured = TRUE,
                               !.job = IF poll THEN @ ELSE "charge",
                               !.pc = IF poll THEN "work" ELSE "lock",
                               !.line = IF proc[c].op = "probe" THEN "other" ELSE @]
             joins == [r EXCEPT !.honoured = TRUE, !.job = "use", !.pc = "read", !.today = 0]
  <1>0. /\ c \in Processes /\ proc[c] \in Process /\ Procs /\ proc[c].job = "verify"
        /\ UNCHANGED <<live, temp, faults>>
    BY DEF Processes, Sound, TypeOK, Procs, Verify, Doing, At, disk
  <1>1. CASE End(c, "other")
    BY <1>0, <1>1, EndBeside
  <1>2. CASE c \in Requests /\ Becomes(c, limited)
    <2>1. /\ e \in Process /\ e.pc = "done" /\ e.line = "other" /\ e.job = "verify"
          /\ e.op = "none" /\ e.paid = proc[c].paid
      BY <1>0, EndedFacts, EndedFields DEF Lines
    <2> HIDE DEF e
    <2>2. /\ limited.pc = "done" /\ limited.line = "other" /\ limited.job = "verify"
          /\ limited.op = "none" /\ limited.paid = proc[c].paid
      BY <2>1 DEF Process
    <2> HIDE DEF limited
    <2>3. proc'[c] = limited /\ Spares(c)
      BY <1>0, <1>2, BecomesSpares
    <2>4. Holds(c)' /\ Steady(c)
      BY <1>2, <2>2, <2>3, Alike DEF Holds, Steady, Logs, Writing
    <2> QED BY <1>0, <2>3, <2>4, BesideIf
  <1>3. CASE c \in Requests /\ Becomes(c, goes)
    <2>1. /\ r \in Process /\ r.job = "verify" /\ r.op = proc[c].op
          /\ r.paid = proc[c].paid /\ r.line = proc[c].line
      BY <1>0, FreshIsGrant DEF Reloading, Process
    <2> HIDE DEF r
    <2>2. /\ goes.op = proc[c].op /\ goes.paid = proc[c].paid
          /\ goes.line = "other" \/ goes.line = proc[c].line
          /\ poll => goes.pc = "work" /\ goes.job = "verify"
          /\ ~poll => goes.pc = "lock" /\ goes.job = "charge"
      BY <2>1 DEF Process
    <2> HIDE DEF goes
    <2> QED BY <1>0, <1>3, <2>2, Alike, GoesBeside DEF Holds
  <1>4. CASE c \in Joins /\ Becomes(c, joins)
    BY <1>0, <1>4, GrantAssumption, GoesBeside
  <1> QED BY <1>1, <1>2, <1>3, <1>4 DEF Verify

LEMMA RevokerBeside ==
    ASSUME Sound, NEW v \in Revokers, RunRevoke(v) \/ Revoke(v) \/ Tombstone(v) PROVE Beside
  <1>0. v \in Processes /\ v \notin Requests /\ Procs
    BY GrantAssumption DEF Processes, Callers, Sound, TypeOK, Procs
  <1>1. PICK s : Becomes(v, s)
    BY DEF RunRevoke, Revoke, Tombstone
  <1>2. UNCHANGED <<live, temp, faults>>
    BY DEF RunRevoke, Revoke, Tombstone, disk
  <1> QED BY <1>0, <1>1, <1>2, BecomesSpares, BesideIf

LEMMA ReadBeside == ASSUME Sound, NEW p \in Processes, Read(p) PROVE Beside
  <1> DEFINE s == [proc[p] EXCEPT !.pc = "fold", !.rec = live]
  <1>1. live \in Grant /\ live \notin Malformed /\ UNCHANGED <<live, temp, faults>>
    BY FileAssumption DEF Sound, FileInv, Malformed, Read, disk
  <1>2. Becomes(p, s)
    BY <1>1 DEF Read
  <1>3. p \in Requests => /\ s.pc = "fold" /\ s.rec = live /\ s.job = proc[p].job /\ s.op = proc[p].op
                          /\ s.paid = proc[p].paid /\ s.line = proc[p].line
    BY <1>1, Alike DEF Process
  <1> HIDE DEF s
  <1> QED BY <1>1, <1>2, <1>3, Alike, GoesBeside DEF Holds

LEMMA OpenBeside == ASSUME Sound, ~foreign', NEW p \in Processes, OpenTemp(p) PROVE Beside
  <1> DEFINE s == [proc[p] EXCEPT !.pc = "write", !.fd = "temp"]
  <1>1. /\ p \in Requests /\ proc[p].pc = "open" /\ UNCHANGED <<live, faults>> /\ Becomes(p, s)
    BY DEF OpenTemp, At
  <1>2. proc'[p] = s /\ Spares(p)
    BY <1>1, BecomesSpares DEF Sound, TypeOK, Procs
  <1>3. /\ s.pc = "write" /\ s.rec = proc[p].rec /\ s.job = proc[p].job /\ s.op = proc[p].op
        /\ s.paid = proc[p].paid /\ s.line = proc[p].line
    BY <1>1, Alike DEF Process
  <1> HIDE DEF s
  <1>4. Holds(p)' /\ Steady(p)
    BY <1>1, <1>2, <1>3, Alike DEF Holds, Steady, Logs, Writing
  <1>5. Guarded(p)
    BY <1>1 DEF Guarded, Writing
  <1> QED BY <1>1, <1>2, <1>4, <1>5, BesideIf

LEMMA WriteBeside == ASSUME Sound, NEW p \in Processes, WriteTemp(p) PROVE Beside
  <1> DEFINE s == [proc[p] EXCEPT !.pc = "publish", !.fd = "none"]
  <1>1. /\ p \in Requests /\ proc[p].pc = "write" /\ faults' = faults /\ Becomes(p, s)
        /\ proc[p].fd = "temp" /\ temp = Empty
    BY DEF WriteTemp, At, Sound, FileInv
  <1>2. temp' = proc[p].rec /\ live' = live
    BY <1>1 DEF WriteTemp, Over
  <1>3. proc'[p] = s /\ Spares(p)
    BY <1>1, BecomesSpares DEF Sound, TypeOK, Procs
  <1>4. /\ s.pc = "publish" /\ s.rec = proc[p].rec /\ s.job = proc[p].job /\ s.op = proc[p].op
        /\ s.paid = proc[p].paid /\ s.line = proc[p].line
    BY <1>1, Alike DEF Process
  <1> HIDE DEF s
  <1>5. Holds(p)' /\ Steady(p)
    BY <1>1, <1>2, <1>3, <1>4, Alike DEF Holds, Steady, Logs, Writing
  <1>6. Guarded(p)
    BY <1>1 DEF Guarded, Writing
  <1> QED BY <1>1, <1>2, <1>3, <1>5, <1>6, BesideIf

(* The publication of a request: what it adds to the record is what it     *)
(* adds to the history.                                                    *)
Published(p) ==
    /\ p \in Requests /\ live' \in Grant /\ Rewrites(proc[p].job, live, live')
    /\ \A q \in Requests \ {p} : Steady(q)
    /\ proc'[p].paid = IF proc[p].job = "charge" THEN live'.day ELSE proc[p].paid
    /\ Logs(p)' => Logs(p) \/ proc[p].job = "use"
    /\ \A r \in Requests : Holds(r)'

LEMMA StoredFields ==
    ASSUME Procs, NEW p \in Processes, proc[p].job \in {"charge", "use", "flag"}
    PROVE  /\ Stored(p).pc \in {"done", "work", "log"} /\ Stored(p).job # "revoke"
           /\ Stored(p).op \in {"none", proc[p].op}
           /\ Stored(p).job = "charge" => proc[p].job = "charge"
           /\ Stored(p).paid = IF proc[p].job = "charge" THEN proc[p].rec.day ELSE proc[p].paid
           /\ Stored(p).pc = "done" => Stored(p).line = "other"
           /\ Stored(p).line \in {"other", proc[p].line}
           /\ Stored(p).pc = "log" => proc[p].job = "use"
  <1> DEFINE o == Ended(p, "other")
             r == Reloading(p)
             day == proc[p].rec.day
  <1>1. proc[p] \in Process /\ day \in Days \cup {0}
    BY DEF Procs, Process, Grant
  <1>2. /\ o \in Process /\ o.pc = "done" /\ o.line = "other" /\ o.job = "verify" /\ o.op = "none"
        /\ o.paid = proc[p].paid
    BY EndedFacts, EndedFields DEF Lines
  <1>3. /\ r \in Process /\ r.job = proc[p].job /\ r.op = proc[p].op /\ r.line = proc[p].line
        /\ r.paid = proc[p].paid
    BY <1>1, FreshIsGrant DEF Reloading, Process
  <1>4. /\ proc[p].job = "charge" => Stored(p) \in {[o EXCEPT !.paid = day],
                                            [r EXCEPT !.pc = "work", !.paid = day, !.today = 0]}
        /\ proc[p].job = "use" => Stored(p) = [r EXCEPT !.pc = "log"]
        /\ proc[p].job = "flag" => Stored(p) = o
    BY DEF Stored
  <1> HIDE DEF o, r
  <1>5. CASE proc[p].job = "charge" /\ Stored(p) = [o EXCEPT !.paid = day]
    BY <1>1, <1>2, <1>5 DEF Process
  <1>6. CASE proc[p].job = "charge" /\ Stored(p) = [r EXCEPT !.pc = "work", !.paid = day, !.today = 0]
    BY <1>1, <1>3, <1>6 DEF Process
  <1>7. CASE proc[p].job = "use"
    BY <1>3, <1>4, <1>7 DEF Process
  <1>8. CASE proc[p].job = "flag"
    BY <1>2, <1>4, <1>8
  <1> QED BY <1>4, <1>5, <1>6, <1>7, <1>8

LEMMA PublishPublishes == ASSUME Sound, NEW p \in Processes, Publish(p) PROVE Published(p)
  <1>1. /\ p \in Requests /\ proc[p].pc = "publish" /\ temp \in Grant
    BY DEF Publish, At, Sound, FileInv
  <1>2. Holds(p) /\ proc[p] \in Process /\ Procs /\ live \in Grant
    BY <1>1, Alike
  <1>3. temp = proc[p].rec /\ temp # Absent /\ Rewrites(proc[p].job, live, proc[p].rec)
    BY <1>1, <1>2, FileAssumption DEF Holds, Writing
  <1>4. /\ live' = proc[p].rec /\ faults' = faults
        /\ proc' = [q \in Processes |-> IF q = p THEN Stored(p)
                                          ELSE [proc[q] EXCEPT !.fd = Moved(@)]]
    BY <1>3 DEF Publish
  <1>5. proc[p].job \in {"charge", "use", "flag"}
    BY <1>3 DEF Rewrites
  <1>6. proc'[p] = Stored(p)
    BY <1>4
  <1>7. Spares(p)
    <2>1. ASSUME NEW q \in Requests \ {p}
          PROVE  /\ proc'[q].pc = proc[q].pc /\ proc'[q].job = proc[q].job /\ proc'[q].op = proc[q].op
                 /\ proc'[q].rec = proc[q].rec /\ proc'[q].paid = proc[q].paid
                 /\ proc'[q].line = proc[q].line
      <3>1. proc[q] \in Process /\ proc'[q] = [proc[q] EXCEPT !.fd = Moved(proc[q].fd)]
        BY <1>4, Alike
      <3> QED BY <3>1 DEF Process
    <2> QED BY <2>1 DEF Spares
  <1>8. Guarded(p)
    BY <1>1 DEF Guarded, Writing
  <1>9. \A q \in Requests \ {p} : Holds(q)' /\ Steady(q)
    BY <1>1, <1>4, <1>7, <1>8, OthersHold DEF Sound
  <1>10. proc[p].rec.day \in Days \cup {0}
    BY <1>2 DEF Process, Grant
  <1>11. Holds(p)'
    BY <1>2, <1>5, <1>6, <1>10, StoredFields DEF Holds, Writing
  <1>12. Logs(p)' => Logs(p) \/ proc[p].job = "use"
    BY <1>2, <1>5, <1>6, StoredFields DEF Logs
  <1>13. proc'[p].paid = IF proc[p].job = "charge" THEN live'.day ELSE proc[p].paid
    BY <1>2, <1>4, <1>5, <1>6, StoredFields
  <1>14. live' \in Grant /\ Rewrites(proc[p].job, live, live')
    BY <1>1, <1>3, <1>4
  <1> QED BY <1>1, <1>9, <1>11, <1>12, <1>13, <1>14 DEF Published

LEMMA StoreBeside ==
    ASSUME Sound, ~foreign', NEW p \in Processes, Store(p)
    PROVE  Beside \/ \E r \in Requests : Published(r)
  <1>1. CASE Publish(p)
    BY <1>1, PublishPublishes DEF Published
  <1>2. CASE Log(p)
    BY <1>2, EndBeside DEF Log, disk, At, Logs
  <1>3. CASE StoreError(p)
    <2>1. /\ Spoil(p) /\ UNCHANGED <<live, temp>> /\ faults \in 0 .. MaxFaults /\ faults' = faults + 1
      BY <1>3 DEF StoreError, Sound, TypeOK
    <2>2. faults' # 0
      BY <2>1, GrantAssumption
    <2> QED BY <2>1, <2>2, SpoilBeside
  <1> QED BY <1>1, <1>2, <1>3, ReadBeside, OpenBeside, WriteBeside DEF Store

LEMMA CrashBeside == ASSUME Sound, NEW P \in Programs, Crash(P) PROVE Beside
  <1>1. UNCHANGED <<live, temp>> /\ faults' = faults + 1 /\ faults \in 0 .. MaxFaults
    BY DEF Crash, disk, Sound, TypeOK
  <1>2. faults' # 0
    BY <1>1, GrantAssumption
  <1>3. ASSUME NEW r \in Requests PROVE Holds(r)' /\ Steady(r)
    <2>1. /\ r \in Processes /\ Procs /\ Holds(r)
          /\ proc'[r] = proc[r] \/ proc'[r] = Ended(r, proc[r].line)
      BY Alike DEF Crash
    <2>2. CASE proc'[r] = proc[r]
      BY <1>1, <1>2, <2>1, <2>2 DEF Holds, Steady, Logs
    <2>3. CASE proc'[r] = Ended(r, proc[r].line)
      <3>1. /\ proc'[r].pc = "done" /\ proc'[r].line = proc[r].line /\ proc'[r].job = "verify"
            /\ proc'[r].op = "none" /\ proc'[r].paid = proc[r].paid
        BY <2>1, <2>3, EndedFields
      <3> QED BY <1>2, <2>1, <3>1 DEF Holds, Steady, Logs, Writing
    <2> QED BY <2>1, <2>2, <2>3
  <1> QED BY <1>1, <1>3 DEF Beside

(* Until another process rewrites the record, every step is one of these.  *)
LEMMA RecordMoves ==
    ASSUME Sound, ~foreign', [Next]_vars
    PROVE  Beside \/ \E r \in Requests : Published(r)
  <1>1. CASE UNCHANGED vars
    BY <1>1 DEF vars, disk, Beside, Sound, Holds, Steady, Logs
  <1>2. ASSUME NEW r \in Requests, Serve(r) PROVE Beside
    BY <1>2, AcquireBeside, ChargeBeside, WorkBeside, FlagBeside DEF Serve
  <1>3. ASSUME NEW c \in Callers, Arrive(c) \/ Verify(c) \/ Use(c) PROVE Beside
    BY <1>3, ArriveBeside, VerifyBeside, UseBeside
  <1> QED BY <1>1, <1>2, <1>3, StoreBeside, RevokerBeside, CrashBeside DEF Next, Finished

LEMMA ForeignStays == [Next]_vars /\ ~foreign' => ~foreign
  BY DEF Next, Finished, vars, disk, Store, Serve, Read, OpenTemp, WriteTemp, Publish, Log, StoreError,
         Acquire, Charge, Work, Flag, Arrive, Verify, Use, Save, RunRevoke, Revoke, Tombstone, Crash

-----------------------------------------------------------------------------
(* The counters.                                                           *)

LEMMA BesideCounts == ASSUME Beside, Counters, live \in Grant PROVE Counters'
  <1>1. \A d \in Days : Payers(d)' = Payers(d)
    BY DEF Beside, Steady, Payers
  <1>2. Loggers' \subseteq Loggers
    BY DEF Beside, Steady, Loggers
  <1>3. /\ IsFiniteSet(Loggers) /\ Cardinality(Loggers) <= live.uses /\ live.uses \in Nat
        /\ live' = live
    BY DEF Counters, Grant, Beside
  <1>4. IsFiniteSet(Loggers') /\ Cardinality(Loggers') <= Cardinality(Loggers)
    BY <1>2, <1>3, FS_Subset
  <1>5. Cardinality(Loggers) \in Nat /\ Cardinality(Loggers') \in Nat
    BY <1>3, <1>4, FS_CardinalityType
  <1> QED BY <1>1, <1>3, <1>4, <1>5 DEF Counters

(* One more member adds one at most.                                       *)
LEMMA OneMore ==
    ASSUME NEW S, IsFiniteSet(S), NEW x, NEW T, T \subseteq S \cup {x}
    PROVE  /\ IsFiniteSet(T) /\ Cardinality(T) \in Nat /\ Cardinality(S) \in Nat
           /\ Cardinality(T) <= Cardinality(S) + 1
  <1>1. /\ IsFiniteSet(S \cup {x}) /\ Cardinality(S) \in Nat
        /\ Cardinality(S \cup {x}) <= Cardinality(S) + 1
    <2>1. IsFiniteSet(S \cup {x}) /\ Cardinality(S) \in Nat
      BY FS_AddElement, FS_CardinalityType
    <2>2. CASE x \in S
      <3>1. S \cup {x} = S
        BY <2>2
      <3> QED BY <2>1, <3>1
    <2>3. CASE x \notin S
      <3>1. Cardinality(S \cup {x}) = Cardinality(S) + 1
        BY <2>3, FS_AddElement
      <3> QED BY <2>1, <3>1
    <2> QED BY <2>2, <2>3
  <1>2. IsFiniteSet(T) /\ Cardinality(T) <= Cardinality(S \cup {x})
    BY <1>1, FS_Subset
  <1> QED BY <1>1, <1>2, FS_CardinalityType

LEMMA PublishedCounts ==
    ASSUME Counters, live \in Grant, NEW p \in Requests, Published(p) PROVE Counters'
  <1>0. /\ live' \in Grant /\ live.day \in Nat /\ live'.day \in Nat /\ live.used \in Nat
        /\ live'.used \in Nat /\ live.uses \in Nat /\ live'.uses \in Nat /\ Allowance \in Nat
        /\ live.used <= Allowance /\ live'.used <= Allowance /\ Days \subseteq Nat
    <2>1. Allowance \in Nat /\ Days \subseteq Nat
      BY GrantAssumption DEF Allowance
    <2>0. \A d \in Days \cup {0} : d \in Nat
      BY <2>1
    <2>2. ASSUME NEW g \in Grant
          PROVE  g.day \in Nat /\ g.used \in Nat /\ g.uses \in Nat /\ g.used <= Allowance
      <3>1. g.day \in Days \cup {0} /\ g.used \in 0 .. Allowance /\ g.uses \in Nat
        BY DEF Grant
      <3>2. g.day \in Nat
        BY <2>0, <3>1
      <3> QED BY <2>1, <3>1, <3>2
    <2>3. live' \in Grant
      BY DEF Published
    <2> QED BY <2>1, <2>2, <2>3
  <1>1. Rewrites(proc[p].job, live, live')
    BY DEF Published
  <1>2. ASSUME NEW d \in Days
        PROVE  /\ IsFiniteSet(Payers(d)') /\ Cardinality(Payers(d)') <= Allowance
               /\ d = live'.day => Cardinality(Payers(d)') <= live'.used
               /\ d > live'.day => Payers(d)' = {}
    <2>1. /\ IsFiniteSet(Payers(d)) /\ Cardinality(Payers(d)) <= Allowance
          /\ d = live.day => Cardinality(Payers(d)) <= live.used
          /\ d > live.day => Payers(d) = {}
          /\ d \in Nat
      BY <1>0 DEF Counters
    <2>2. CASE proc[p].job = "charge"
      <3>1. /\ Payers(d)' \subseteq Payers(d) \cup {p}
            /\ d # live'.day => Payers(d)' \subseteq Payers(d)
        BY <2>2 DEF Published, Steady, Payers
      <3>2. /\ IsFiniteSet(Payers(d)') /\ Cardinality(Payers(d)') \in Nat
            /\ Cardinality(Payers(d)) \in Nat
            /\ Cardinality(Payers(d)') <= Cardinality(Payers(d)) + 1
        BY <2>1, <3>1, OneMore
      <3>3. \/ live'.day = live.day /\ live'.used = live.used + 1
            \/ live'.day > live.day /\ live'.used = 1
        BY <1>1, <2>2 DEF Rewrites
      <3>4. CASE d = live'.day
        <4>1. d > live.day => Cardinality(Payers(d)) = 0
          BY <2>1, FS_EmptySet
        <4> QED BY <1>0, <2>1, <3>2, <3>3, <3>4, <4>1
      <3>5. CASE d # live'.day
        <4>1. Cardinality(Payers(d)') <= Cardinality(Payers(d))
          BY <2>1, <3>1, <3>5, FS_Subset
        <4>2. d > live'.day => Payers(d)' = {}
          BY <1>0, <2>1, <3>1, <3>3, <3>5
        <4> QED BY <1>0, <2>1, <3>2, <3>5, <4>1, <4>2
      <3> QED BY <3>4, <3>5
    <2>3. CASE proc[p].job # "charge"
      <3>1. Payers(d)' = Payers(d)
        BY <2>3 DEF Published, Steady, Payers
      <3>2. live'.day = live.day /\ live'.used = live.used
        BY <1>1, <2>3 DEF Rewrites
      <3> QED BY <2>1, <3>1, <3>2
    <2> QED BY <2>2, <2>3
  <1>3. IsFiniteSet(Loggers') /\ Cardinality(Loggers') <= live'.uses
    <2>1. IsFiniteSet(Loggers) /\ Cardinality(Loggers) <= live.uses
      BY DEF Counters
    <2>2. /\ Loggers' \subseteq Loggers \cup {p}
          /\ proc[p].job # "use" => Loggers' \subseteq Loggers
      BY DEF Published, Steady, Loggers
    <2>3. /\ IsFiniteSet(Loggers') /\ Cardinality(Loggers') \in Nat /\ Cardinality(Loggers) \in Nat
          /\ Cardinality(Loggers') <= Cardinality(Loggers) + 1
      BY <2>1, <2>2, OneMore
    <2>4. proc[p].job # "use" => Cardinality(Loggers') <= Cardinality(Loggers)
      BY <2>1, <2>2, FS_Subset
    <2>5. live'.uses = IF proc[p].job = "use" THEN live.uses + 1 ELSE live.uses
      BY <1>1 DEF Rewrites
    <2> QED BY <1>0, <2>1, <2>3, <2>4, <2>5
  <1> QED BY <1>2, <1>3 DEF Counters

LEMMA InitRecord == Init => RecordInv
  <1> SUFFICES ASSUME Init PROVE RecordInv
    OBVIOUS
  <1>1. ASSUME NEW r \in Requests
        PROVE  /\ proc[r].pc = "idle" /\ proc[r].job = "verify" /\ proc[r].paid = 0
               /\ proc[r].op = "none" /\ proc[r].line = "none"
    BY GrantAssumption DEF Init, Processes, Callers
  <1>2. \A r \in Requests : Holds(r)
    BY <1>1 DEF Holds, Writing
  <1>3. /\ \A d \in Days : Payers(d) = {}
        /\ Loggers = {}
    BY <1>1, GrantAssumption DEF Payers, Loggers, Logs
  <1>4. live.used = 0 /\ live.uses = 0 /\ Allowance \in Nat
    BY GrantAssumption DEF Init, Fresh, Allowance
  <1>5. Counters
    BY <1>3, <1>4, FS_EmptySet DEF Counters
  <1> QED BY <1>2, <1>5 DEF RecordInv

LEMMA NextRecord == TypeOK /\ FileInv /\ RecordInv /\ [Next]_vars => RecordInv'
  <1> SUFFICES ASSUME TypeOK, FileInv, RecordInv, [Next]_vars, ~foreign'
               PROVE  (\A r \in Requests : Holds(r)') /\ Counters'
    BY DEF RecordInv
  <1>1. ~foreign
    BY ForeignStays
  <1>2. Sound /\ Counters /\ live \in Grant
    BY <1>1 DEF Sound, RecordInv, FileInv
  <1>3. Beside \/ \E r \in Requests : Published(r)
    BY <1>2, RecordMoves
  <1>4. CASE Beside
    BY <1>2, <1>4, BesideCounts DEF Beside
  <1>5. ASSUME NEW r \in Requests, Published(r)
        PROVE  (\A q \in Requests : Holds(q)') /\ Counters'
    BY <1>2, <1>5, PublishedCounts DEF Published
  <1> QED BY <1>3, <1>4, <1>5

LEMMA RecordInvariance == Spec => [](TypeOK /\ FileInv /\ RecordInv)
  <1>1. Init => RecordInv
    BY InitRecord
  <1>2. TypeOK /\ FileInv /\ RecordInv /\ [Next]_vars => RecordInv'
    BY NextRecord
  <1> QED BY <1>1, <1>2, FileInvariance, PTL DEF Spec

(* BudgetKept: with any number of requests, whichever way their clocks are *)
(* set and whatever crashes, a day's charges stay within the allowance.    *)
THEOREM BudgetHolds == Spec => []BudgetKept
  <1>1. RecordInv => BudgetKept
    BY DEF RecordInv, Counters, Payers, BudgetKept
  <1> QED BY <1>1, RecordInvariance, PTL

(* LogAgrees: every use in the audit log is one the record counts.         *)
THEOREM LogHolds == Spec => []LogAgrees
  <1>1. TypeOK /\ FileInv /\ RecordInv => LogAgrees
    <2> SUFFICES ASSUME TypeOK, FileInv, RecordInv, ~foreign
                 PROVE  Cardinality({r \in Requests : proc[r].line = "allowed"}) <= live.uses
      BY DEF LogAgrees
    <2> DEFINE allowed == {r \in Requests : proc[r].line = "allowed"}
    <2>1. IsFiniteSet(Loggers) /\ Cardinality(Loggers) <= live.uses /\ live.uses \in Nat
      BY DEF RecordInv, Counters, FileInv, Grant
    <2>2. allowed \subseteq Loggers
      BY DEF Loggers, Logs
    <2> HIDE DEF allowed
    <2>3. IsFiniteSet(allowed) /\ Cardinality(allowed) <= Cardinality(Loggers)
      BY <2>1, <2>2, FS_Subset
    <2>4. Cardinality(allowed) \in Nat /\ Cardinality(Loggers) \in Nat
      BY <2>1, <2>3, FS_CardinalityType
    <2>5. Cardinality(allowed) <= live.uses
      BY <2>1, <2>3, <2>4
    <2> QED BY <2>5 DEF allowed
  <1> QED BY <1>1, RecordInvariance, PTL

(* PaidIsLogged: a request that paid and is over has its line, unless a    *)
(* crash or a store error ended it.                                        *)
THEOREM PaymentsLogged == Spec => []PaidIsLogged
  <1>1. RecordInv => PaidIsLogged
    BY DEF RecordInv, Holds, PaidIsLogged, At
  <1> QED BY <1>1, RecordInvariance, PTL

(* FirstFlagWins: no request replaces the flag of another, since whoever   *)
(* flags has looked at the record that it writes back.                     *)
THEOREM FlagStays == Spec => FirstFlagWins
  <1>1. TypeOK /\ FileInv /\ RecordInv /\ [Next]_vars
          => [~foreign' /\ live \in Grant /\ live.flag # Nobody
                => live' \in Grant /\ live'.flag = live.flag]_vars
    <2> SUFFICES ASSUME TypeOK, FileInv, RecordInv, [Next]_vars, ~foreign', live \in Grant,
                        live.flag # Nobody
                 PROVE  live' \in Grant /\ live'.flag = live.flag
      OBVIOUS
    <2>1. Sound
      BY ForeignStays DEF Sound, RecordInv
    <2>2. Beside \/ \E r \in Requests : Published(r)
      BY <2>1, RecordMoves
    <2>3. CASE Beside
      BY <2>3 DEF Beside
    <2>4. ASSUME NEW r \in Requests, Published(r) PROVE live' \in Grant /\ live'.flag = live.flag
      BY <2>4 DEF Published, Rewrites
    <2> QED BY <2>2, <2>3, <2>4
  <1> QED BY <1>1, RecordInvariance, PTL DEF Spec, FirstFlagWins
=============================================================================
