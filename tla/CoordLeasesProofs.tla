------------------------- MODULE CoordLeasesProofs -------------------------
(***************************************************************************)
(* Proofs about CoordLeases, for any claims, owners, resources, times and  *)
(* interleavings.                                                          *)
(*  - The lock: Exclusion is not inductive alone.  A grant is safe only    *)
(*    because the lease it writes was not there before, which for a local  *)
(*    claim follows from where its process is (Fresh).                     *)
(*  - The queue: deleting and adding rows keeps it a queue of waiters      *)
(*    (InOrderRows, FreshId), and the transaction that grants looks at it. *)
(*  - What a claim leaves behind: Answered for its lease, OneRow for its   *)
(*    place in the queue.                                                  *)
(*  - Sweeps: what one believes while it renews is not out of date (Sight).*)
(***************************************************************************)
EXTENDS CoordLeases, FiniteSetTheorems, WellFoundedInduction, TLAPS

Leases == [Claims -> [status : LeaseStatus, left : Nat]]

(* lease and pc keep their domains, lease its fields.                      *)
Shape == /\ lease \in Leases
         /\ pc = [p \in Procs |-> pc[p]]

(* A local claim holds a lease, or held one, only once it is done.         *)
Fresh == \A c \in Claims : c \notin Fleet /\ lease[c].status # "none" => pc[c] = "held"

IInv == Shape /\ Fresh /\ Exclusion

Status == [c \in Claims |-> lease[c].status]
Pairs == {p \in Exclusive \X Exclusive : Contend(p[1], p[2])}

-----------------------------------------------------------------------------
(* What a step may do to the leases: grant the one a claim asks for, end   *)
(* some, or change expiry times only.                                      *)
Granted(c) == /\ pc[c] = "claim" /\ ~Recognised(c)
              /\ c \in Exclusive => ~Conflict(c) /\ ~Ahead(c)
              /\ lease' = [lease EXCEPT ![c] = [status |-> "active", left |-> TTL]]
Ended(E, how) ==
    /\ \A c \in E : Active(c)
    /\ how \in {"expired", "released"}
    /\ \A c \in Claims : lease'[c].status = IF c \in E THEN how ELSE lease[c].status
SameStatus == \A c \in Claims : lease'[c].status = lease[c].status

(* A local claim that is done stays done; a grant makes it so.             *)
Finishes ==
    /\ pc' = [p \in Procs |-> pc'[p]]
    /\ \A c \in Claims : c \notin Fleet /\ pc[c] = "held" => pc'[c] = "held"

LeaseMove ==
    /\ lease' \in Leases
    /\ Finishes
    /\ \/ \E c \in Claims : Granted(c) /\ (c \notin Fleet => pc'[c] = "held")
       \/ \E c \in Claims : Ended({c}, "released")
       \/ \E E \in SUBSET Claims : Ended(E, "expired")
       \/ SameStatus

(* Moving one process that is not a finished local claim keeps Finishes.   *)
LEMMA GotoFinishes ==
    ASSUME Shape, NEW p \in Procs, NEW next, Goto(p, next),
           p \in Claims /\ p \notin Fleet => pc[p] # "held"
    PROVE  Finishes /\ pc'[p] = next
  BY DEF Shape, Goto, Finishes, Procs

(* Renewing a lease changes no status.                                     *)
LEMMA RenewedKeeps ==
    ASSUME Shape, NEW c \in Claims, lease' = Renewed(c)
    PROVE  lease' \in Leases /\ SameStatus
  BY LeasesAssumption DEF Shape, Renewed, SameStatus, Leases, Active

LEMMA SweepMoves == ASSUME IInv, NEW p \in Procs, Sweep(p) PROVE LeaseMove
  <1> USE DEF IInv, Procs
  <1>1. CASE ScanSessions(p)
    <2>1. Finishes
      BY <1>1, GotoFinishes DEF ScanSessions
    <2> QED BY <1>1, <2>1 DEF ScanSessions, LeaseMove, SameStatus, Shape
  <1>2. CASE SelectRenewable(p)
    <2>1. Finishes
      BY <1>2, GotoFinishes DEF SelectRenewable
    <2> QED BY <1>2, <2>1 DEF SelectRenewable, LeaseMove, SameStatus, Shape
  <1>3. CASE RenewOne(p)
    <2>1. Finishes
      BY <1>3 DEF RenewOne, Finishes, Shape
    <2>2. PICK c \in todo[p] : lease' = Renewed(c)
      BY <1>3 DEF RenewOne
    <2>3. lease' \in Leases /\ SameStatus
      <3>1. CASE c \in Claims
        BY <2>2, <3>1, RenewedKeeps
      <3>2. CASE c \notin Claims
        BY <2>2, <3>2 DEF Renewed, Shape, SameStatus, Leases
      <3> QED BY <3>1, <3>2
    <2> QED BY <2>1, <2>3 DEF LeaseMove
  <1>4. CASE ExpireStale(p)
    <2>1. Finishes
      BY <1>4, GotoFinishes DEF ExpireStale
    <2> DEFINE E == {c \in Claims : Past(c)}
    <2>2. lease' \in Leases /\ Ended(E, "expired")
      BY <1>4 DEF ExpireStale, Ended, Past, Active, Shape, Leases, LeaseStatus
    <2> QED BY <2>1, <2>2 DEF LeaseMove
  <1>5. CASE DropStale(p)
    <2>1. Finishes
      BY <1>5, GotoFinishes DEF DropStale
    <2> QED BY <1>5, <2>1 DEF DropStale, LeaseMove, SameStatus, Shape
  <1> QED BY <1>1, <1>2, <1>3, <1>4, <1>5 DEF Sweep

LEMMA ClaimMoves == ASSUME IInv, NEW c \in Claims, ClaimOrQueue(c) PROVE LeaseMove
  <1> DEFINE o == ClaimOutcome(c)
  <1> USE DEF IInv
  <1>1. c \in Procs /\ pc[c] = "claim"
    BY DEF ClaimOrQueue, Procs
  <1>2. \E next : Goto(c, next) /\ (c \notin Fleet => next = Then(c, o))
    <2>1. CASE c \in Fleet
      BY <2>1 DEF ClaimOrQueue
    <2>2. CASE c \notin Fleet
      BY <2>2 DEF ClaimOrQueue
    <2> QED BY <2>1, <2>2
  <1>3. Finishes /\ (c \notin Fleet => pc'[c] = Then(c, o))
    BY <1>1, <1>2, GotoFinishes
  <1>4. CASE o = "granted" /\ ~Recognised(c)
    <2>1. lease' = [lease EXCEPT ![c] = [status |-> "active", left |-> TTL]]
      BY <1>4 DEF ClaimOrQueue
    <2>2. lease' \in Leases
      BY <2>1, LeasesAssumption DEF Shape, Leases, LeaseStatus
    <2>3. c \in Exclusive => ~Conflict(c) /\ ~Ahead(c)
      <3> SUFFICES ASSUME c \in Exclusive, Conflict(c) \/ Ahead(c) PROVE FALSE
        OBVIOUS
      <3>1. o \in {"gone", "blocked"}
        BY <1>4 DEF ClaimOutcome
      <3> QED BY <1>4, <3>1
    <2>4. c \notin Fleet => pc'[c] = "held"
      BY <1>3, <1>4 DEF Then
    <2>5. Granted(c)
      BY <1>1, <1>4, <2>1, <2>3 DEF Granted
    <2> QED BY <1>3, <2>2, <2>4, <2>5 DEF LeaseMove
  <1>5. CASE ~(o = "granted" /\ ~Recognised(c))
    <2>1. lease' = lease
      BY <1>5 DEF ClaimOrQueue
    <2> QED BY <1>3, <2>1 DEF LeaseMove, SameStatus, Shape
  <1> QED BY <1>4, <1>5

LEMMA TimeMoves == ASSUME IInv, TimePasses PROVE LeaseMove
  <1>1. \A n \in Nat : Less(n) \in Nat
    BY DEF Less
  <1>2. lease' \in Leases /\ SameStatus
    BY <1>1 DEF TimePasses, IInv, Shape, Leases, SameStatus
  <1>3. Finishes
    BY DEF TimePasses, IInv, Shape, Finishes
  <1> QED BY <1>2, <1>3 DEF LeaseMove

(* Every step is one of the moves.                                         *)
LEMMA Moves == ASSUME IInv, [Next]_vars PROVE LeaseMove
  <1> USE DEF IInv
  <1> DEFINE Still == lease' = lease /\ Finishes
  <1>0. Still => LeaseMove
    BY DEF LeaseMove, SameStatus, Shape
  <1>1. ASSUME NEW c \in Claims, ClaimStep(c) PROVE LeaseMove
    <2>0. c \in Procs
      BY DEF Procs
    <2>1. CASE Sweep(c)
      BY <2>0, <2>1, SweepMoves
    <2>2. CASE ClaimOrQueue(c)
      BY <2>2, ClaimMoves
    <2>3. CASE Enqueue(c)
      <3>1. \E next : Goto(c, next)
        BY <2>3 DEF Enqueue
      <3>2. Finishes
        BY <2>0, <2>3, <3>1, GotoFinishes DEF Enqueue
      <3> QED BY <1>0, <2>3, <3>2 DEF Enqueue
    <2>4. CASE Reply(c)
      <3>1. Finishes
        BY <2>0, <2>4, GotoFinishes DEF Reply
      <3> QED BY <1>0, <2>4, <3>1 DEF Reply
    <2>5. CASE Poll(c)
      <3>1. Finishes
        BY <2>0, <2>5, GotoFinishes DEF Poll
      <3> QED BY <1>0, <2>5, <3>1 DEF Poll
    <2> QED BY <1>1, <2>1, <2>2, <2>3, <2>4, <2>5 DEF ClaimStep
  <1>2. ASSUME NEW c \in Claims, Unanswered(c) PROVE LeaseMove
    <2>1. Finishes
      BY <1>2, GotoFinishes DEF Unanswered, Procs
    <2> QED BY <1>0, <1>2, <2>1 DEF Unanswered
  <1>3. ASSUME NEW c \in Claims, TimeOut(c) PROVE LeaseMove
    <2>1. Finishes
      BY <1>3, GotoFinishes DEF TimeOut, Procs
    <2> QED BY <1>0, <1>3, <2>1 DEF TimeOut
  <1>4. ASSUME NEW c \in Claims, Kill(c) PROVE LeaseMove
    <2>1. Finishes
      BY <1>4, GotoFinishes DEF Kill, Procs
    <2> QED BY <1>0, <1>4, <2>1 DEF Kill
  <1>5. ASSUME NEW c \in Claims, Release(c) PROVE LeaseMove
    <2>1. Finishes
      BY <1>5 DEF Release, Finishes, Shape
    <2>2. lease' \in Leases /\ Ended({c}, "released")
      BY <1>5 DEF Release, Ended, Active, Shape, Leases, LeaseStatus
    <2> QED BY <2>1, <2>2 DEF LeaseMove
  <1>6. ASSUME NEW p \in Sweepers, SweeperStep(p) PROVE LeaseMove
    <2>1. CASE Sweep(p)
      BY <2>1, SweepMoves DEF Procs
    <2>2. CASE AfterSweep(p)
      <3>1. Finishes
        BY <2>2, GotoFinishes DEF AfterSweep, Procs
      <3>2. lease' \in Leases /\ SameStatus
        <4>1. lease' = lease \/ \E c \in Claims : lease' = Renewed(c)
          BY <2>2 DEF AfterSweep
        <4> QED BY <4>1, RenewedKeeps DEF SameStatus, Shape
      <3> QED BY <3>1, <3>2 DEF LeaseMove
    <2> QED BY <1>6, <2>1, <2>2 DEF SweeperStep
  <1>7. ASSUME NEW o \in Owners, OwnerEnds(o) PROVE LeaseMove
    <2>1. Finishes
      BY <1>7 DEF OwnerEnds, Finishes, Shape
    <2> QED BY <1>0, <1>7, <2>1 DEF OwnerEnds
  <1>8. CASE TimePasses
    BY <1>8, TimeMoves
  <1>9. CASE UNCHANGED vars
    <2>1. Finishes
      BY <1>9 DEF vars, Finishes, Shape
    <2> QED BY <1>0, <1>9, <2>1 DEF vars
  <1> QED BY <1>1, <1>2, <1>3, <1>4, <1>5, <1>6, <1>7, <1>8, <1>9 DEF Next

-----------------------------------------------------------------------------
(* The invariant and what follows from it *)

LEMMA InitInv == Init => IInv
  <1> SUFFICES ASSUME Init PROVE IInv
    OBVIOUS
  <1>1. lease \in Leases
    BY DEF Init, Leases, LeaseStatus
  <1>2. pc = [p \in Procs |-> pc[p]]
    BY DEF Init
  <1>3. \A c \in Claims : lease[c].status = "none"
    BY DEF Init
  <1>4. Exclusion
    BY <1>3, LeasesAssumption DEF Exclusion, Active
  <1> QED BY <1>1, <1>2, <1>3, <1>4 DEF IInv, Shape, Fresh

(* A claim that never had a lease is the only one a grant can be for.      *)
LEMMA GrantIsFirst ==
    ASSUME IInv, NEW c \in Claims, Granted(c) PROVE lease[c].status = "none"
  <1>1. CASE c \in Fleet
    BY <1>1 DEF Granted, Recognised
  <1>2. CASE c \notin Fleet
    BY <1>2 DEF Granted, IInv, Fresh
  <1> QED BY <1>1, <1>2

LEMMA ExclusionStep == ASSUME IInv, LeaseMove PROVE Exclusion'
  <1> SUFFICES ASSUME NEW c \in Exclusive, NEW d \in Exclusive,
                      Active(c)', Active(d)', Contend(c, d)
               PROVE  FALSE
    BY DEF Exclusion, Contend
  <1>0. c \in Claims /\ d \in Claims /\ c # d /\ Contend(d, c)
    BY LeasesAssumption DEF Contend
  <1>1. ASSUME NEW g \in Claims, Granted(g) PROVE FALSE
    <2>1. \A x \in Claims : x # g => lease'[x] = lease[x]
      BY <1>1 DEF Granted, IInv, Shape, Leases
    <2>2. CASE g = c
      <3>1. Active(d)
        BY <1>0, <2>1, <2>2 DEF Active
      <3>2. Conflict(c)
        BY <3>1 DEF Conflict
      <3> QED BY <1>1, <2>2, <3>2 DEF Granted
    <2>3. CASE g = d
      <3>1. Active(c)
        BY <1>0, <2>1, <2>3 DEF Active
      <3>2. Conflict(d)
        BY <1>0, <3>1 DEF Conflict
      <3> QED BY <1>1, <2>3, <3>2 DEF Granted
    <2>4. CASE g # c /\ g # d
      <3>1. Active(c) /\ Active(d)
        BY <1>0, <2>1, <2>4 DEF Active
      <3> QED BY <3>1 DEF IInv, Exclusion
    <2> QED BY <2>2, <2>3, <2>4
  <1>2. ASSUME NEW E \in SUBSET Claims, NEW how, Ended(E, how) PROVE FALSE
    <2>1. Active(c) /\ Active(d)
      BY <1>0, <1>2 DEF Ended, Active
    <2> QED BY <2>1 DEF IInv, Exclusion
  <1>3. CASE SameStatus
    <2>1. Active(c) /\ Active(d)
      BY <1>0, <1>3 DEF SameStatus, Active
    <2> QED BY <2>1 DEF IInv, Exclusion
  <1>4. \A g \in Claims : {g} \in SUBSET Claims
    OBVIOUS
  <1> QED BY <1>1, <1>2, <1>3, <1>4 DEF LeaseMove

LEMMA FreshStep == ASSUME IInv, LeaseMove PROVE Fresh'
  <1> SUFFICES ASSUME NEW c \in Claims, c \notin Fleet, lease'[c].status # "none"
               PROVE  pc'[c] = "held"
    BY DEF Fresh
  <1>1. CASE lease[c].status # "none"
    BY <1>1 DEF IInv, Fresh, LeaseMove, Finishes
  <1>2. CASE lease[c].status = "none"
    <2>2. ~SameStatus
      BY <1>2 DEF SameStatus
    <2>3. ASSUME NEW E \in SUBSET Claims, NEW how, Ended(E, how) PROVE FALSE
      BY <1>2, <2>3 DEF Ended, Active
    <2>4. PICK g \in Claims : Granted(g) /\ (g \notin Fleet => pc'[g] = "held")
      <3>1. \A g \in Claims : {g} \in SUBSET Claims
        OBVIOUS
      <3> QED BY <2>2, <2>3, <3>1 DEF LeaseMove
    <2>5. g = c
      BY <1>2, <2>4 DEF Granted, IInv, Shape, Leases
    <2> QED BY <2>4, <2>5
  <1> QED BY <1>1, <1>2

LEMMA Inductive == IInv /\ [Next]_vars => IInv'
  <1> SUFFICES ASSUME IInv, [Next]_vars PROVE IInv'
    OBVIOUS
  <1>1. LeaseMove
    BY Moves
  <1>2. Shape'
    BY <1>1 DEF LeaseMove, Finishes, Shape, Leases
  <1> QED BY <1>1, <1>2, FreshStep, ExclusionStep DEF IInv

LEMMA Invariance == Spec => []IInv
  BY InitInv, Inductive, PTL DEF Spec

(* No two owners ever hold exclusive leases on overlapping resources,      *)
(* however sweeps, polls, retries, renewals and releases interleave: the   *)
(* claim transaction of store.rs is enough.                                *)
THEOREM Excluded == Spec => []Exclusion
  BY Invariance, PTL DEF IInv

-----------------------------------------------------------------------------
(* Every move is a step of the abstract lock *)

LEMMA LockStep ==
    ASSUME IInv, LeaseMove
    PROVE  [Lock!Next]_Status
  <1> USE DEF IInv
  <1>1. ASSUME NEW c \in Claims, Granted(c) PROVE Lock!Grant(c)
    <2>1. Status[c] = "none"
      BY <1>1, GrantIsFirst DEF Status
    <2>2. Status' = [Status EXCEPT ![c] = "active"]
      BY <1>1 DEF Granted, Status, Shape, Leases
    <2>3. ASSUME NEW d \in Claims, Status[d] = "active", <<c, d>> \in Pairs \/ <<d, c>> \in Pairs
          PROVE  FALSE
      <3>1. c \in Exclusive /\ d \in Exclusive /\ Contend(c, d)
        BY <2>3, LeasesAssumption DEF Pairs, Contend
      <3>2. Conflict(c)
        BY <2>3, <3>1 DEF Conflict, Active, Status
      <3> QED BY <1>1, <3>1, <3>2 DEF Granted
    <2> QED BY <2>1, <2>2, <2>3 DEF Lock!Grant, Lock!Excludes, Status, Pairs
  <1>2. ASSUME NEW c \in Claims, Ended({c}, "released") PROVE Lock!Release(c)
    <2>1. Status' = [Status EXCEPT ![c] = "released"]
      BY <1>2 DEF Ended, Status
    <2> QED BY <1>2, <2>1 DEF Lock!Release, Ended, Active, Status
  <1>3. ASSUME NEW E \in SUBSET Claims, Ended(E, "expired") PROVE Lock!Expire(E)
    BY <1>3 DEF Ended, Lock!Expire, Active, Status
  <1>4. CASE SameStatus
    BY <1>4 DEF SameStatus, Status
  <1> QED BY <1>1, <1>2, <1>3, <1>4 DEF LeaseMove, Lock!Next, Status

(* Each lease is granted at most once, only when nothing excludes it, and  *)
(* stays ended: the lease store implements the abstract lock.              *)
THEOREM Implements == Spec => ImplementsLock
  <1>1. Init => Lock!Init
    BY DEF Init, Lock!Init
  <1>2. IInv /\ [Next]_vars => [Lock!Next]_Status
    BY Moves, LockStep
  <1>3. Spec => [][Lock!Next]_Status
    BY <1>2, Invariance, PTL DEF Spec
  <1> QED BY <1>1, <1>3, PTL DEF Spec, ImplementsLock, Lock!Spec, Status

-----------------------------------------------------------------------------
(* The queue.  Deleting rows keeps the others in order: Nth is defined for  *)
(* every number of them there are, by the least position that has so many   *)
(* of them up to it.                                                        *)

LEMMA Least ==
    ASSUME NEW T, T \subseteq Nat, T # {}
    PROVE  \E x \in T : \A y \in T : x <= y
  <1> DEFINE R == {ss \in Nat \X Nat : ss[1] < ss[2]}
  <1>1. IsWellFoundedOn(R, Nat)
    BY NatLessThanWellFounded DEF OpToRel
  <1> HIDE DEF R
  <1>2. PICK x \in T : \A y \in T : ~ (<<y, x>> \in R)
    BY <1>1, WFMin
  <1>3. \A y \in T : ~ (y < x)
    BY <1>2 DEF R
  <1> QED BY <1>3

LEMMA Positions ==
    ASSUME queue \in Seq(Row), NEW S, S \subseteq DOMAIN queue
    PROVE  /\ Len(queue) \in Nat /\ S \subseteq 1 .. Len(queue)
           /\ IsFiniteSet(S) /\ Cardinality(S) \in Nat /\ Cardinality(S) <= Len(queue)
  <1>1. Len(queue) \in Nat /\ DOMAIN queue = 1 .. Len(queue)
    OBVIOUS
  <1>2. /\ IsFiniteSet(1 .. Len(queue))
        /\ Cardinality(1 .. Len(queue)) = IF 1 > Len(queue) THEN 0 ELSE Len(queue) - 1 + 1
    BY <1>1, FS_Interval
  <1>3. /\ IsFiniteSet(S) /\ Cardinality(S) <= Cardinality(1 .. Len(queue))
    BY <1>1, <1>2, FS_Subset
  <1>4. Cardinality(S) \in Nat
    BY <1>3, FS_CardinalityType
  <1> QED BY <1>1, <1>2, <1>3, <1>4

LEMMA NthExists ==
    ASSUME queue \in Seq(Row), NEW S, S \subseteq DOMAIN queue,
           NEW n \in 1 .. Cardinality(S)
    PROVE  Nth(S, n) \in S
  <1> DEFINE Upto(k) == {j \in S : j <= k}
             T == {k \in Nat : Cardinality(Upto(k)) >= n}
  <1>1. /\ Len(queue) \in Nat /\ S \subseteq 1 .. Len(queue)
        /\ IsFiniteSet(S) /\ Cardinality(S) \in Nat
    BY Positions
  <1>2. ASSUME NEW k \in Nat
        PROVE  IsFiniteSet(Upto(k)) /\ Cardinality(Upto(k)) \in Nat
    <2>1. Upto(k) \subseteq S
      OBVIOUS
    <2> HIDE DEF Upto
    <2> QED BY <1>1, <2>1, FS_Subset, FS_CardinalityType
  <1>3. Upto(Len(queue)) = S
    BY <1>1
  <1>4. Len(queue) \in T
    <2>1. Cardinality(Upto(Len(queue))) >= n
      <3> HIDE DEF Upto
      <3> QED BY <1>1, <1>3
    <2> QED BY <1>1, <2>1
  <1>5. PICK x \in T : \A y \in T : x <= y
    <2> HIDE DEF T
    <2>1. T \subseteq Nat
      BY DEF T
    <2> QED BY <1>4, <2>1, Least
  <1>6. x \in Nat /\ Cardinality(Upto(x)) >= n
    OBVIOUS
  <1>7. x # 0
    <2>1. SUFFICES ASSUME x = 0 PROVE FALSE
      OBVIOUS
    <2>2. Upto(x) = {}
      BY <1>1, <2>1
    <2> HIDE DEF Upto
    <2> QED BY <1>6, <2>2, FS_EmptySet
  <1>8. x - 1 \in Nat
    BY <1>6, <1>7
  <1>9. Cardinality(Upto(x - 1)) < n
    <2>1. x - 1 \notin T
      BY <1>5, <1>6
    <2> HIDE DEF Upto
    <2> QED BY <1>2, <1>8, <2>1
  <1>10. x \in S
    <2>1. SUFFICES ASSUME x \notin S PROVE FALSE
      OBVIOUS
    <2>2. Upto(x) = Upto(x - 1)
      BY <1>1, <1>6, <2>1
    <2> HIDE DEF Upto
    <2> QED BY <1>2, <1>6, <1>8, <1>9, <2>2
  <1>11. Cardinality(Upto(x)) = n
    <2>1. Upto(x) = Upto(x - 1) \cup {x} /\ x \notin Upto(x - 1)
      BY <1>1, <1>6, <1>10
    <2>2. IsFiniteSet(Upto(x - 1)) /\ Cardinality(Upto(x - 1)) \in Nat
      BY <1>2, <1>8
    <2> HIDE DEF Upto
    <2>3. Cardinality(Upto(x)) = Cardinality(Upto(x - 1)) + 1
      BY <2>1, <2>2, FS_AddElement
    <2> QED BY <1>6, <1>9, <2>2, <2>3
  <1>12. \E i \in S : Cardinality({j \in S : j <= i}) = n
    BY <1>10, <1>11
  <1> QED BY <1>12 DEF Nth

(* The rows that stay are rows that were there.                            *)
LEMMA InOrderRows ==
    ASSUME queue \in Seq(Row), NEW S, S \subseteq DOMAIN queue
    PROVE  /\ InOrder(S) \in Seq(Row)
           /\ \A n \in DOMAIN InOrder(S) : \E i \in S : InOrder(S)[n] = queue[i]
  <1>1. Cardinality(S) \in Nat
    BY Positions
  <1>2. ASSUME NEW n \in 1 .. Cardinality(S)
        PROVE  Nth(S, n) \in S /\ queue[Nth(S, n)] \in Row
    BY NthExists
  <1>3. InOrder(S) \in [1 .. Cardinality(S) -> Row]
    BY <1>2 DEF InOrder
  <1> QED BY <1>1, <1>2, <1>3 DEF InOrder

(* There is an identity that no row of the claim has.                      *)
LEMMA FreshId ==
    ASSUME queue \in Seq(Row), NEW c
    PROVE  /\ NewId(c) \in Nat \ {0}
           /\ \A i \in Rows(c) : queue[i].id # NewId(c)
  <1> DEFINE id == [i \in Rows(c) |-> queue[i].id]
             taken == {id[i] : i \in Rows(c)}
             more == 1 .. Len(queue) + 1
  <1>1. Rows(c) \subseteq DOMAIN queue
    BY DEF Rows
  <1>2. /\ Len(queue) \in Nat /\ IsFiniteSet(Rows(c))
        /\ Cardinality(Rows(c)) \in Nat /\ Cardinality(Rows(c)) <= Len(queue)
    BY <1>1, Positions
  <1>3. IsFiniteSet(taken) /\ Cardinality(taken) <= Cardinality(Rows(c))
    <2>1. id \in [Rows(c) -> taken] /\ \A t \in taken : \E i \in Rows(c) : id[i] = t
      OBVIOUS
    <2>2. id \in Surjection(Rows(c), taken)
      BY <2>1 DEF Surjection
    <2> HIDE DEF id, taken
    <2> QED BY <1>2, <2>2, FS_Surjection
  <1>4. IsFiniteSet(more) /\ Cardinality(more) = Len(queue) + 1
    BY <1>2, FS_Interval
  <1>5. \E n \in more : n \notin taken
    <2> HIDE DEF taken, more
    <2>1. SUFFICES ASSUME more \subseteq taken PROVE FALSE
      OBVIOUS
    <2>2. Cardinality(more) <= Cardinality(taken)
      BY <1>3, <2>1, FS_Subset
    <2>3. Cardinality(taken) \in Nat
      BY <1>3, FS_CardinalityType
    <2> QED BY <1>2, <1>3, <1>4, <2>2, <2>3
  <1>6. \E n \in 1 .. Len(queue) + 1 : \A i \in Rows(c) : queue[i].id # n
    BY <1>5
  <1> QED BY <1>2, <1>6 DEF NewId

-----------------------------------------------------------------------------
(* Every variable keeps its shape *)

LEMMA TypeInit == Init => TypeOK
  <1> SUFFICES ASSUME Init PROVE TypeOK
    OBVIOUS
  <1>1. /\ lease \in [Claims -> [status : LeaseStatus, left : 0..TTL]]
        /\ pc \in [Procs -> Step]
    BY LeasesAssumption DEF Init, LeaseStatus, Step
  <1>2. queue \in Seq(Row)
    BY DEF Init
  <1>3. /\ place \in [Claims -> Nat] /\ offer \in [Claims -> Nat] /\ tries \in [Claims -> Nat]
        /\ answer \in [Claims -> Outcome]
    BY DEF Init, Outcome
  <1>4. /\ sees \in [Procs -> SUBSET Owners] /\ todo \in [Procs -> SUBSET Claims]
        /\ live \subseteq Owners /\ slow \subseteq Procs
    BY DEF Init
  <1>5. lost \in 0..MaxLost /\ stalls \in 0..MaxStalls
    BY LeasesAssumption DEF Init
  <1> QED BY <1>1, <1>2, <1>3, <1>4, <1>5 DEF TypeOK

LEMMA GotoType ==
    ASSUME TypeOK, NEW p \in Procs, NEW next \in Step, Goto(p, next)
    PROVE  pc' \in [Procs -> Step]
  BY DEF TypeOK, Goto

LEMMA RenewedType ==
    ASSUME TypeOK, NEW c \in Claims
    PROVE  Renewed(c) \in [Claims -> [status : LeaseStatus, left : 0..TTL]]
  <1>1. lease \in [Claims -> [status : LeaseStatus, left : 0..TTL]]
    BY DEF TypeOK
  <1>2. TTL \in 0..TTL
    BY LeasesAssumption
  <1>3. CASE Active(c)
    <2>1. [lease[c] EXCEPT !.left = TTL] \in [status : LeaseStatus, left : 0..TTL]
      BY <1>1, <1>2
    <2> QED BY <1>1, <1>3, <2>1 DEF Renewed
  <1>4. CASE ~Active(c)
    BY <1>1, <1>4 DEF Renewed
  <1> QED BY <1>3, <1>4

(* A row that is polled stays a row.                                       *)
LEMMA TouchedRows ==
    ASSUME queue \in Seq(Row), NEW c
    PROVE  Touched(c) \in Seq(Row)
  <1>1. \A i \in DOMAIN queue : queue[i] \in Row
    OBVIOUS
  <1>2. WaiterStale \in 0..WaiterStale
    BY LeasesAssumption
  <1>3. \A i \in DOMAIN queue : [queue[i] EXCEPT !.fresh = WaiterStale] \in Row
    BY <1>1, <1>2 DEF Row
  <1>4. Len(queue) \in Nat /\ DOMAIN queue = 1..Len(queue)
    OBVIOUS
  <1>5. Touched(c) \in [1..Len(queue) -> Row]
    BY <1>1, <1>3, <1>4 DEF Touched
  <1> QED BY <1>4, <1>5

LEMMA WithoutRows ==
    ASSUME queue \in Seq(Row), NEW c
    PROVE  /\ Without(c) \in Seq(Row)
           /\ \A n \in DOMAIN Without(c) : \E i \in DOMAIN queue \ Place(c) : Without(c)[n] = queue[i]
  BY InOrderRows DEF Without

LEMMA SweepType == ASSUME TypeOK, NEW p \in Procs, Sweep(p) PROVE TypeOK'
  <1> USE DEF Procs
  <1>1. CASE ScanSessions(p)
    <2>1. sees' \in [Procs -> SUBSET Owners] /\ slow' \subseteq Procs
      BY <1>1 DEF ScanSessions, TypeOK
    <2>2. pc' \in [Procs -> Step]
      BY <1>1, GotoType DEF ScanSessions, Step
    <2> QED BY <1>1, <2>1, <2>2 DEF ScanSessions, TypeOK, fleetVars
  <1>2. CASE SelectRenewable(p)
    <2>1. todo' \in [Procs -> SUBSET Claims]
      BY <1>2 DEF SelectRenewable, TypeOK
    <2>2. pc' \in [Procs -> Step]
      BY <1>2, GotoType DEF SelectRenewable, Step
    <2> QED BY <1>2, <2>1, <2>2 DEF SelectRenewable, TypeOK, fleetVars, timeVars
  <1>3. CASE RenewOne(p)
    <2>1. PICK c \in todo[p] : lease' = Renewed(c) /\ todo' = [todo EXCEPT ![p] = @ \ {c}]
      BY <1>3 DEF RenewOne
    <2>2. c \in Claims /\ todo' \in [Procs -> SUBSET Claims]
      BY <2>1 DEF TypeOK
    <2>3. lease' \in [Claims -> [status : LeaseStatus, left : 0..TTL]]
      BY <2>1, <2>2, RenewedType
    <2> QED BY <1>3, <2>2, <2>3 DEF RenewOne, TypeOK, fleetVars, timeVars
  <1>4. CASE ExpireStale(p)
    <2>1. lease' \in [Claims -> [status : LeaseStatus, left : 0..TTL]]
      <3>1. lease \in [Claims -> [status : LeaseStatus, left : 0..TTL]] /\ "expired" \in LeaseStatus
        BY DEF TypeOK, LeaseStatus
      <3> QED BY <1>4, <3>1 DEF ExpireStale
    <2>2. pc' \in [Procs -> Step] /\ sees' \in [Procs -> SUBSET Owners]
      BY <1>4, GotoType DEF ExpireStale, Step, TypeOK
    <2> QED BY <1>4, <2>1, <2>2 DEF ExpireStale, TypeOK, fleetVars, timeVars
  <1>5. CASE DropStale(p)
    <2>1. queue' \in Seq(Row)
      BY <1>5, InOrderRows DEF DropStale, TypeOK
    <2>2. pc' \in [Procs -> Step]
      BY <1>5, GotoType DEF DropStale, Step
    <2> QED BY <1>5, <2>1, <2>2 DEF DropStale, TypeOK, fleetVars, sweepVars, timeVars
  <1> QED BY <1>1, <1>2, <1>3, <1>4, <1>5 DEF Sweep

(* The four outcomes, and where each leaves a claim.                       *)
LEMMA OutcomeType == ASSUME NEW c PROVE ClaimOutcome(c) \in Outcome
  BY DEF ClaimOutcome, Outcome

LEMMA ThenType == ASSUME NEW c, NEW o \in Outcome PROVE Then(c, o) \in {"held", "failed", "enqueue", "pause"}
  BY DEF Then, Outcome

LEMMA ClaimType == ASSUME TypeOK, NEW c \in Claims, ClaimOrQueue(c) PROVE TypeOK'
  <1> DEFINE o == ClaimOutcome(c)
  <1>0. o \in Outcome /\ c \in Procs
    BY OutcomeType DEF Procs
  <1> HIDE DEF o
  <1>1. lease' \in [Claims -> [status : LeaseStatus, left : 0..TTL]]
    <2>1. [status |-> "active", left |-> TTL] \in [status : LeaseStatus, left : 0..TTL]
      BY LeasesAssumption DEF LeaseStatus
    <2> QED BY <2>1 DEF ClaimOrQueue, TypeOK
  <1>2. queue' \in Seq(Row)
    <2>1. queue' \in {queue, Touched(c), Without(c)}
      BY DEF ClaimOrQueue
    <2> QED BY <2>1, TouchedRows, WithoutRows DEF TypeOK
  <1>3. place' \in [Claims -> Nat] /\ answer' \in [Claims -> Outcome]
    <2>1. place \in [Claims -> Nat] /\ answer \in [Claims -> Outcome]
      BY DEF TypeOK
    <2>2. /\ place' \in {place, Forgotten(c)}
          /\ answer' = answer \/ answer' = [answer EXCEPT ![c] = o]
      BY DEF ClaimOrQueue, o
    <2> QED BY <1>0, <2>1, <2>2 DEF Forgotten
  <1>4. pc' \in [Procs -> Step]
    <2>1. PICK next : Goto(c, next) /\ next \in {"enqueue", "reply", Then(c, o)}
      BY DEF ClaimOrQueue, o
    <2> QED BY <1>0, <2>1, ThenType, GotoType DEF Step
  <1> QED BY <1>1, <1>2, <1>3, <1>4 DEF ClaimOrQueue, TypeOK, sweepVars, timeVars

LEMMA EnqueueRows ==
    ASSUME TypeOK, NEW c \in Claims, Enqueue(c)
    PROVE  /\ NewId(c) \in Nat \ {0}
           /\ queue' \in Seq(Row) /\ Len(queue') = Len(queue) + 1
           /\ queue'[Len(queue) + 1] = [of |-> c, id |-> NewId(c), fresh |-> WaiterStale]
           /\ \A i \in DOMAIN queue : i \in DOMAIN queue' /\ queue'[i] = queue[i]
  <1> DEFINE row == [of |-> c, id |-> NewId(c), fresh |-> WaiterStale]
  <1>1. queue \in Seq(Row) /\ queue' = Append(queue, row)
    BY DEF TypeOK, Enqueue
  <1>2. NewId(c) \in Nat \ {0}
    BY <1>1, FreshId
  <1>3. row \in Row
    BY <1>2, LeasesAssumption DEF Row
  <1> HIDE DEF row
  <1>4. /\ queue' \in Seq(Row) /\ Len(queue') = Len(queue) + 1
        /\ queue'[Len(queue) + 1] = row
        /\ \A i \in DOMAIN queue : i \in DOMAIN queue' /\ queue'[i] = queue[i]
    BY <1>1, <1>3
  <1> QED BY <1>2, <1>4 DEF row

LEMMA TypeStep == TypeOK /\ [Next]_vars => TypeOK'
  <1> SUFFICES ASSUME TypeOK, [Next]_vars PROVE TypeOK'
    OBVIOUS
  <1>1. ASSUME NEW c \in Claims, ClaimStep(c) PROVE TypeOK'
    <2>0. c \in Procs
      BY DEF Procs
    <2>1. CASE Sweep(c)
      BY <2>0, <2>1, SweepType
    <2>2. CASE ClaimOrQueue(c)
      BY <2>2, ClaimType
    <2>3. CASE Enqueue(c)
      <3>1. NewId(c) \in Nat /\ queue' \in Seq(Row)
        BY <2>3, EnqueueRows
      <3>2. pc' \in [Procs -> Step]
        <4>1. PICK next : Goto(c, next) /\ next \in {"reply", "pause"}
          BY <2>3 DEF Enqueue
        <4> QED BY <2>0, <4>1, GotoType DEF Step
      <3>3. place' \in [Claims -> Nat] /\ offer' \in [Claims -> Nat]
        BY <2>3, <3>1 DEF Enqueue, TypeOK
      <3> QED BY <2>3, <3>1, <3>2, <3>3 DEF Enqueue, TypeOK, sweepVars, timeVars
    <2>4. CASE Reply(c)
      <3>1. place' \in [Claims -> Nat] /\ offer' \in [Claims -> Nat] /\ tries' \in [Claims -> Nat]
        BY <2>4 DEF Reply, TypeOK, Forgotten
      <3>2. answer[c] \in Outcome
        BY DEF TypeOK
      <3>3. pc' \in [Procs -> Step]
        BY <2>0, <2>4, <3>2, ThenType, GotoType DEF Reply, Step
      <3> QED BY <2>4, <3>1, <3>3 DEF Reply, TypeOK, sweepVars, timeVars
    <2>5. CASE Poll(c)
      <3>1. pc' \in [Procs -> Step]
        BY <2>0, <2>5, GotoType DEF Poll, Step
      <3> QED BY <2>5, <3>1 DEF Poll, TypeOK, sweepVars, fleetVars, timeVars
    <2> QED BY <1>1, <2>1, <2>2, <2>3, <2>4, <2>5 DEF ClaimStep
  <1>2. ASSUME NEW c \in Claims, Unanswered(c) PROVE TypeOK'
    <2>1. pc' \in [Procs -> Step]
      <3>1. PICK next : Goto(c, next) /\ next \in {"sweep", "failed"}
        BY <1>2 DEF Unanswered
      <3> QED BY <3>1, GotoType DEF Step, Procs
    <2>2. offer' \in [Claims -> Nat] /\ tries' \in [Claims -> Nat]
      BY <1>2 DEF Unanswered, TypeOK
    <2>3. lost' \in 0..MaxLost
      BY <1>2, LeasesAssumption DEF Unanswered, TypeOK
    <2> QED BY <1>2, <2>1, <2>2, <2>3 DEF Unanswered, TypeOK, sweepVars, timeVars
  <1>3. ASSUME NEW c \in Claims, TimeOut(c) PROVE TypeOK'
    <2>1. pc' \in [Procs -> Step]
      BY <1>3, GotoType DEF TimeOut, Step, Procs
    <2>2. queue' \in Seq(Row)
      BY <1>3, WithoutRows DEF TimeOut, TypeOK
    <2> QED BY <1>3, <2>1, <2>2 DEF TimeOut, TypeOK, sweepVars, fleetVars, timeVars
  <1>4. ASSUME NEW c \in Claims, Kill(c) PROVE TypeOK'
    <2>1. pc' \in [Procs -> Step]
      BY <1>4, GotoType DEF Kill, Step, Procs
    <2>2. sees' \in [Procs -> SUBSET Owners] /\ todo' \in [Procs -> SUBSET Claims]
      BY <1>4 DEF Kill, TypeOK
    <2> QED BY <1>4, <2>1, <2>2 DEF Kill, TypeOK, fleetVars, timeVars
  <1>5. ASSUME NEW c \in Claims, Release(c) PROVE TypeOK'
    <2>1. lease' \in [Claims -> [status : LeaseStatus, left : 0..TTL]]
      BY <1>5 DEF Release, TypeOK, LeaseStatus
    <2> QED BY <1>5, <2>1 DEF Release, TypeOK, sweepVars, fleetVars, timeVars
  <1>6. ASSUME NEW p \in Sweepers, SweeperStep(p) PROVE TypeOK'
    <2>1. CASE Sweep(p)
      BY <2>1, SweepType DEF Procs
    <2>2. CASE AfterSweep(p)
      <3>1. pc' \in [Procs -> Step]
        BY <2>2, GotoType DEF AfterSweep, Step, Procs
      <3>2. lease' \in [Claims -> [status : LeaseStatus, left : 0..TTL]]
        <4>1. lease' = lease \/ \E c \in Claims : lease' = Renewed(c)
          BY <2>2 DEF AfterSweep
        <4> QED BY <4>1, RenewedType DEF TypeOK
      <3> QED BY <2>2, <3>1, <3>2 DEF AfterSweep, TypeOK, sweepVars, fleetVars, timeVars
    <2> QED BY <1>6, <2>1, <2>2 DEF SweeperStep
  <1>7. ASSUME NEW o \in Owners, OwnerEnds(o) PROVE TypeOK'
    BY <1>7 DEF OwnerEnds, TypeOK, sweepVars, fleetVars, timeVars
  <1>8. CASE TimePasses
    <2>1. \A b \in Nat : \A n \in 0..b : Less(n) \in 0..b
      BY DEF Less
    <2>2. lease' \in [Claims -> [status : LeaseStatus, left : 0..TTL]]
      BY <1>8, <2>1, LeasesAssumption DEF TimePasses, TypeOK
    <2>3. queue' \in Seq(Row)
      <3>1. Len(queue) \in Nat /\ DOMAIN queue = 1..Len(queue)
        BY DEF TypeOK
      <3>2. \A i \in DOMAIN queue : queue[i] \in Row
        BY DEF TypeOK
      <3>3. \A i \in DOMAIN queue : [queue[i] EXCEPT !.fresh = Less(@)] \in Row
        BY <2>1, <3>2, LeasesAssumption DEF Row
      <3>4. queue' \in [1..Len(queue) -> Row]
        BY <1>8, <3>1, <3>3 DEF TimePasses
      <3> QED BY <3>1, <3>4
    <2>4. slow' \subseteq Procs /\ stalls' \in 0..MaxStalls
      BY <1>8, LeasesAssumption DEF TimePasses, TypeOK
    <2> QED BY <1>8, <2>2, <2>3, <2>4 DEF TimePasses, TypeOK, sweepVars, fleetVars
  <1>9. CASE UNCHANGED vars
    BY <1>9 DEF vars, TypeOK, sweepVars, fleetVars, timeVars
  <1> QED BY <1>1, <1>2, <1>3, <1>4, <1>5, <1>6, <1>7, <1>8, <1>9 DEF Next

(* Every variable keeps its shape: rows are added with an identity their   *)
(* claim has no other row for, and leave without disturbing the rest.      *)
THEOREM TypeCorrect == Spec => []TypeOK
  BY TypeInit, TypeStep, PTL DEF Spec

-----------------------------------------------------------------------------
(* Nobody overtakes the queue *)

(* A lease that becomes active is a grant: no renewal or late sweep makes  *)
(* one active.                                                             *)
LEMMA OnlyGrants ==
    ASSUME IInv, LeaseMove, NEW c \in Claims, ~Active(c), Active(c)'
    PROVE  Granted(c)
  <1>1. ~SameStatus
    BY DEF SameStatus, Active
  <1>2. ASSUME NEW E \in SUBSET Claims, NEW how, Ended(E, how) PROVE FALSE
    BY <1>2 DEF Ended, Active
  <1>3. PICK g \in Claims : Granted(g)
    <2>1. \A g \in Claims : {g} \in SUBSET Claims
      OBVIOUS
    <2> QED BY <1>1, <1>2, <2>1 DEF LeaseMove
  <1>4. g = c
    BY <1>3 DEF Granted, IInv, Shape, Leases, Active
  <1> QED BY <1>3, <1>4

LEMMA GrantWaitsItsTurn ==
    ASSUME queue \in Seq(Row), NEW c \in Exclusive, Granted(c),
           NEW i \in DOMAIN queue, queue[i].fresh > 0, Contend(c, queue[i].of)
    PROVE  \E j \in Rows(c) : j < i
  <1>1. ~Ahead(c)
    BY DEF Granted
  <1>2. PICK j \in Place(c) : ~(i < j)
    BY <1>1 DEF Ahead
  <1>3. j \in Rows(c) /\ j \in DOMAIN queue /\ queue[j].of = c
    BY <1>2 DEF Place, Rows
  <1>4. j # i
    BY <1>3 DEF Contend
  <1>5. DOMAIN queue = 1..Len(queue) /\ Len(queue) \in Nat
    OBVIOUS
  <1> QED BY <1>2, <1>3, <1>4, <1>5

(* An exclusive lease is never granted past an earlier waiter for an       *)
(* overlapping resource, whether or not the claimant has joined the queue: *)
(* the transaction that grants looks at the queue itself.                  *)
THEOREM QueueIsFair == Spec => NoOvertaking
  <1> DEFINE Turn == \A c \in Exclusive : ~Active(c) /\ Active(c)' =>
                        \A i \in DOMAIN queue :
                           queue[i].fresh > 0 /\ Contend(c, queue[i].of) =>
                              \E j \in Rows(c) : j < i
  <1>1. IInv /\ TypeOK /\ [Next]_vars => Turn
    <2> SUFFICES ASSUME IInv, TypeOK, [Next]_vars, NEW c \in Exclusive, ~Active(c), Active(c)',
                        NEW i \in DOMAIN queue, queue[i].fresh > 0, Contend(c, queue[i].of)
                 PROVE  \E j \in Rows(c) : j < i
      OBVIOUS
    <2>1. c \in Claims
      BY LeasesAssumption
    <2>2. Granted(c)
      BY <2>1, Moves, OnlyGrants
    <2>3. queue \in Seq(Row)
      BY DEF TypeOK
    <2> QED BY <2>2, <2>3, GrantWaitsItsTurn
  <1>2. Turn => [Turn]_vars
    OBVIOUS
  <1>3. Spec => [][Turn]_vars
    <2> HIDE DEF Turn
    <2> QED BY <1>1, Invariance, TypeCorrect, PTL DEF Spec
  <1> QED BY <1>3 DEF NoOvertaking

-----------------------------------------------------------------------------
(* What a step means to one claim: one of its own steps, or nothing but    *)
(* where it is in its sweep and the queue getting shorter around it.       *)

Own(c) == ClaimOrQueue(c) \/ Enqueue(c) \/ Reply(c) \/ Unanswered(c) \/ TimeOut(c)

Looking == {"select", "renew", "drop", "claim", "swept", "sweep", "killed"}

(* No row of c is new, and none changed its identity.                      *)
Kept(c) == \A n \in DOMAIN queue' : queue'[n].of = c =>
              \E i \in Rows(c) : queue[i].id = queue'[n].id

Aside(c) ==
    /\ answer'[c] = answer[c] /\ tries'[c] = tries[c] /\ place'[c] = place[c]
    /\ lost <= lost'
    /\ Kept(c)
    /\ pc'[c] = pc[c] \/ pc'[c] \in Looking

LEMMA KeptSame == ASSUME NEW c, queue' = queue PROVE Kept(c)
  BY DEF Kept, Rows

LEMMA KeptSome ==
    ASSUME queue \in Seq(Row), NEW c, NEW S, S \subseteq DOMAIN queue, queue' = InOrder(S)
    PROVE  Kept(c)
  <1>1. \A n \in DOMAIN InOrder(S) : \E i \in S : InOrder(S)[n] = queue[i]
    BY InOrderRows
  <1> QED BY <1>1 DEF Kept, Rows

LEMMA KeptTouched ==
    ASSUME queue \in Seq(Row), NEW c, NEW d, queue' = Touched(d)
    PROVE  Kept(c)
  <1>1. \A i \in DOMAIN queue : queue[i] \in Row
    OBVIOUS
  <1>2. \A r \in Row : \A f : [r EXCEPT !.fresh = f].of = r.of /\ [r EXCEPT !.fresh = f].id = r.id
    BY DEF Row
  <1>3. \A i \in DOMAIN queue' : /\ i \in DOMAIN queue
                                 /\ queue'[i].of = queue[i].of /\ queue'[i].id = queue[i].id
    BY <1>1, <1>2 DEF Touched
  <1> QED BY <1>3 DEF Kept, Rows

LEMMA KeptTime ==
    ASSUME queue \in Seq(Row), NEW c, TimePasses
    PROVE  Kept(c)
  <1>1. \A i \in DOMAIN queue : queue[i] \in Row
    OBVIOUS
  <1>2. \A r \in Row : \A f : [r EXCEPT !.fresh = f].of = r.of /\ [r EXCEPT !.fresh = f].id = r.id
    BY DEF Row
  <1>3. \A i \in DOMAIN queue' : /\ i \in DOMAIN queue
                                 /\ queue'[i].of = queue[i].of /\ queue'[i].id = queue[i].id
    BY <1>1, <1>2 DEF TimePasses
  <1> QED BY <1>3 DEF Kept, Rows

LEMMA KeptOther ==
    ASSUME TypeOK, NEW c, NEW d \in Claims, c # d, Enqueue(d)
    PROVE  Kept(c)
  <1>1. /\ queue' \in Seq(Row) /\ Len(queue') = Len(queue) + 1
        /\ queue'[Len(queue) + 1] = [of |-> d, id |-> NewId(d), fresh |-> WaiterStale]
        /\ \A i \in DOMAIN queue : i \in DOMAIN queue' /\ queue'[i] = queue[i]
    BY EnqueueRows
  <1>2. queue'[Len(queue) + 1].of = d
    BY <1>1
  <1>3. Len(queue) \in Nat /\ DOMAIN queue = 1..Len(queue) /\ DOMAIN queue' = 1..Len(queue')
    BY <1>1 DEF TypeOK
  <1>4. ASSUME NEW n \in DOMAIN queue', queue'[n].of = c PROVE n \in Rows(c) /\ queue'[n] = queue[n]
    <2>1. n # Len(queue) + 1
      BY <1>2, <1>4
    <2>2. n \in DOMAIN queue
      BY <1>1, <1>3, <2>1
    <2> QED BY <1>1, <1>4, <2>2 DEF Rows
  <1> QED BY <1>4 DEF Kept

(* A step that leaves the claims' books alone, with the queue kept.        *)
LEMMA AsideIf ==
    ASSUME TypeOK, NEW c \in Claims, Kept(c),
           UNCHANGED <<answer, tries, place, lost>>,
           pc'[c] = pc[c] \/ pc'[c] \in Looking
    PROVE  Aside(c)
  BY LeasesAssumption DEF Aside, TypeOK

LEMMA GotoSteps ==
    ASSUME TypeOK, NEW p \in Procs, NEW next, Goto(p, next)
    PROVE  \A q \in Procs : pc'[q] = IF q = p THEN next ELSE pc[q]
  BY DEF TypeOK, Goto

LEMMA SweepAside ==
    ASSUME TypeOK, NEW p \in Procs, NEW c \in Claims, Sweep(p)
    PROVE  Aside(c)
  <1>0. c \in Procs /\ queue \in Seq(Row)
    BY DEF Procs, TypeOK
  <1>1. UNCHANGED <<answer, tries, place, lost>>
    BY DEF Sweep, ScanSessions, SelectRenewable, RenewOne, ExpireStale, DropStale, fleetVars
  <1>2. Kept(c)
    <2>1. CASE DropStale(p)
      <3>1. queue' = InOrder({i \in DOMAIN queue : queue[i].fresh > 0})
        BY <2>1 DEF DropStale
      <3>2. {i \in DOMAIN queue : queue[i].fresh > 0} \subseteq DOMAIN queue
        OBVIOUS
      <3> QED BY <1>0, <3>1, <3>2, KeptSome
    <2>2. CASE ~DropStale(p)
      <3>1. queue' = queue
        BY <2>2 DEF Sweep, ScanSessions, SelectRenewable, RenewOne, ExpireStale
      <3> QED BY <3>1, KeptSame
    <2> QED BY <2>1, <2>2
  <1>3. pc'[c] = pc[c] \/ pc'[c] \in Looking
    <2>1. pc' = pc \/ \E next \in Looking : Goto(p, next)
      BY DEF Sweep, ScanSessions, SelectRenewable, RenewOne, ExpireStale, DropStale, Looking
    <2> QED BY <1>0, <2>1, GotoSteps
  <1> QED BY <1>1, <1>2, <1>3, AsideIf

LEMMA Others == ASSUME TypeOK, [Next]_vars, NEW c \in Claims PROVE Own(c) \/ Aside(c)
  <1>0. /\ c \in Procs /\ queue \in Seq(Row) /\ lost \in Nat
        /\ \A d \in Claims : d \in Procs
        /\ \A d \in Sweepers : d \in Procs /\ d # c
    BY LeasesAssumption DEF Procs, TypeOK
  <1>1. SUFFICES ASSUME ~Own(c) PROVE Aside(c)
    OBVIOUS
  <1>2. ASSUME NEW d \in Claims, ClaimOrQueue(d) PROVE Aside(c)
    <2>1. d # c
      BY <1>1, <1>2 DEF Own
    <2>2. \E next : Goto(d, next)
      BY <1>2 DEF ClaimOrQueue
    <2>3. pc'[c] = pc[c]
      BY <1>0, <2>1, <2>2, GotoSteps
    <2>4. queue' \in {queue, Touched(d), Without(d)}
      BY <1>2 DEF ClaimOrQueue
    <2>5. Kept(c)
      <3>1. DOMAIN queue \ Place(d) \subseteq DOMAIN queue
        OBVIOUS
      <3> QED BY <1>0, <2>4, <3>1, KeptSame, KeptTouched, KeptSome DEF Without
    <2>6. place'[c] = place[c] /\ answer'[c] = answer[c] /\ UNCHANGED <<tries, lost>>
      <3>1. place' \in {place, Forgotten(d)}
        BY <1>2 DEF ClaimOrQueue
      <3>2. answer' = answer \/ \E o : answer' = [answer EXCEPT ![d] = o]
        BY <1>2 DEF ClaimOrQueue
      <3> QED BY <1>2, <2>1, <3>1, <3>2 DEF ClaimOrQueue, Forgotten, TypeOK
    <2> QED BY <1>0, <2>3, <2>5, <2>6 DEF Aside
  <1>3. ASSUME NEW d \in Claims, Enqueue(d) PROVE Aside(c)
    <2>1. d # c
      BY <1>1, <1>3 DEF Own
    <2>2. \E next : Goto(d, next)
      BY <1>3 DEF Enqueue
    <2>3. pc'[c] = pc[c]
      BY <1>0, <2>1, <2>2, GotoSteps
    <2>4. Kept(c)
      BY <1>3, <2>1, KeptOther
    <2>5. place'[c] = place[c] /\ UNCHANGED <<answer, tries, lost>>
      BY <1>3, <2>1 DEF Enqueue, TypeOK
    <2> QED BY <1>0, <2>3, <2>4, <2>5 DEF Aside
  <1>4. ASSUME NEW d \in Claims, Reply(d) PROVE Aside(c)
    <2>1. d # c
      BY <1>1, <1>4 DEF Own
    <2>2. pc'[c] = pc[c]
      BY <1>0, <1>4, <2>1, GotoSteps DEF Reply
    <2>3. Kept(c)
      BY <1>4, KeptSame DEF Reply
    <2>4. place'[c] = place[c] /\ tries'[c] = tries[c] /\ UNCHANGED <<answer, lost>>
      BY <1>4, <2>1 DEF Reply, TypeOK, Forgotten
    <2> QED BY <1>0, <2>2, <2>3, <2>4 DEF Aside
  <1>5. ASSUME NEW d \in Claims, Unanswered(d) PROVE Aside(c)
    <2>1. d # c
      BY <1>1, <1>5 DEF Own
    <2>2. \E next : Goto(d, next)
      BY <1>5 DEF Unanswered
    <2>3. pc'[c] = pc[c]
      BY <1>0, <2>1, <2>2, GotoSteps
    <2>4. Kept(c)
      BY <1>5, KeptSame DEF Unanswered
    <2>5. tries'[c] = tries[c] /\ lost <= lost' /\ UNCHANGED <<answer, place>>
      BY <1>0, <1>5, <2>1 DEF Unanswered, TypeOK
    <2> QED BY <2>3, <2>4, <2>5 DEF Aside
  <1>6. ASSUME NEW d \in Claims, TimeOut(d) PROVE Aside(c)
    <2>1. d # c
      BY <1>1, <1>6 DEF Own
    <2>2. pc'[c] = pc[c]
      BY <1>0, <1>6, <2>1, GotoSteps DEF TimeOut
    <2>3. Kept(c)
      <3>1. queue' \in {queue, Without(d)}
        BY <1>6 DEF TimeOut
      <3>2. DOMAIN queue \ Place(d) \subseteq DOMAIN queue
        OBVIOUS
      <3> QED BY <1>0, <3>1, <3>2, KeptSame, KeptSome DEF Without
    <2> QED BY <1>6, <2>2, <2>3, AsideIf DEF TimeOut, fleetVars
  <1>7. ASSUME NEW d \in Claims, Poll(d) \/ Kill(d) \/ Release(d) PROVE Aside(c)
    <2>1. UNCHANGED <<queue, answer, tries, place, lost>>
      BY <1>7 DEF Poll, Kill, Release, fleetVars
    <2>2. pc' = pc \/ \E next \in Looking : Goto(d, next)
      BY <1>7 DEF Poll, Kill, Release, Looking
    <2>3. pc'[c] = pc[c] \/ pc'[c] \in Looking
      BY <1>0, <2>2, GotoSteps
    <2> QED BY <2>1, <2>3, KeptSame, AsideIf
  <1>8. ASSUME NEW p \in Sweepers, AfterSweep(p) PROVE Aside(c)
    <2>1. UNCHANGED <<queue, answer, tries, place, lost>> /\ Goto(p, "sweep")
      BY <1>8 DEF AfterSweep, fleetVars
    <2>2. pc'[c] = pc[c]
      BY <1>0, <2>1, GotoSteps
    <2> QED BY <2>1, <2>2, KeptSame, AsideIf
  <1>9. ASSUME NEW p \in Procs, Sweep(p) PROVE Aside(c)
    BY <1>9, SweepAside
  <1>10. ASSUME NEW o \in Owners, OwnerEnds(o) PROVE Aside(c)
    BY <1>10, KeptSame, AsideIf DEF OwnerEnds, fleetVars
  <1>11. CASE TimePasses
    <2>1. UNCHANGED <<answer, tries, place, lost, pc>>
      BY <1>11 DEF TimePasses, fleetVars
    <2> QED BY <1>0, <1>11, <2>1, KeptTime, AsideIf
  <1>12. CASE UNCHANGED vars
    BY <1>12, KeptSame, AsideIf DEF vars, fleetVars
  <1> QED BY <1>0, <1>2, <1>3, <1>4, <1>5, <1>6, <1>7, <1>8, <1>9, <1>10, <1>11, <1>12
          DEF Next, ClaimStep, SweeperStep

-----------------------------------------------------------------------------
(* A claim that failed holds nothing, unless more messages are lost than a *)
(* request is sent times: a claim that gives up then may leave behind the  *)
(* lease whose answer it never got.                                        *)

(* No request has gone unanswered more often than messages were lost, a    *)
(* claim that is to wait or to give up holds nothing, and an answer other  *)
(* than a grant is given only to a claim that holds nothing.               *)
Answered ==
    \A c \in Claims :
       /\ tries[c] <= lost
       /\ pc[c] = "reply" => c \in Fleet
       /\ pc[c] \in {"pause", "failed"} => ~Active(c)
       /\ c \in Fleet /\ pc[c] \in {"enqueue", "reply"} /\ answer[c] # "granted" => ~Active(c)
       /\ c \in Fleet /\ pc[c] = "enqueue" => answer[c] = "blocked"

(* Only the claim transaction makes a lease active.                        *)
LEMMA StaysEnded ==
    ASSUME IInv, [Next]_vars, NEW c \in Claims, ~Active(c), pc[c] # "claim"
    PROVE  ~Active(c)'
  <1> SUFFICES ASSUME Active(c)' PROVE FALSE
    OBVIOUS
  <1>1. Granted(c)
    BY Moves, OnlyGrants
  <1> QED BY <1>1 DEF Granted

(* A claim transaction that does not grant finds no lease of the claim.    *)
LEMMA RefusedHoldsNothing ==
    ASSUME IInv, TypeOK, NEW c \in Claims, ClaimOrQueue(c), ClaimOutcome(c) # "granted"
    PROVE  ~Active(c)'
  <1>1. lease' = lease
    BY DEF ClaimOrQueue
  <1>2. ~Active(c)
    <2>1. CASE Recognised(c)
      BY <2>1 DEF ClaimOutcome
    <2>2. CASE ~Recognised(c)
      <3>1. CASE c \in Fleet
        BY <2>2, <3>1 DEF Recognised, Active
      <3>2. CASE c \notin Fleet
        BY <3>2 DEF ClaimOrQueue, IInv, Fresh, Active
      <3> QED BY <3>1, <3>2
    <2> QED BY <2>1, <2>2
  <1> QED BY <1>1, <1>2 DEF Active

LEMMA AnsweredInit == Init => Answered
  <1> SUFFICES ASSUME Init PROVE Answered
    OBVIOUS
  <1>1. \A c \in Claims : c \in Procs /\ pc[c] = "start" /\ tries[c] = 0 /\ lost = 0
    BY DEF Init, Procs
  <1> QED BY <1>1 DEF Answered

LEMMA AnsweredStep ==
    MaxLost < RequestAttempts => (IInv /\ TypeOK /\ Answered /\ [Next]_vars => Answered')
  <1> SUFFICES ASSUME MaxLost < RequestAttempts, IInv, TypeOK, Answered, [Next]_vars,
                      NEW c \in Claims
               PROVE  /\ tries'[c] <= lost'
                      /\ pc'[c] = "reply" => c \in Fleet
                      /\ pc'[c] \in {"pause", "failed"} => ~Active(c)'
                      /\ c \in Fleet /\ pc'[c] \in {"enqueue", "reply"} /\ answer'[c] # "granted"
                            => ~Active(c)'
                      /\ c \in Fleet /\ pc'[c] = "enqueue" => answer'[c] = "blocked"
    BY DEF Answered
  <1>0. /\ c \in Procs /\ tries[c] \in Nat /\ lost \in Nat /\ lost <= MaxLost
        /\ answer[c] \in Outcome /\ tries[c] <= lost
    BY LeasesAssumption DEF Procs, TypeOK, Answered
  <1>1. CASE ClaimOrQueue(c)
    <2> DEFINE o == ClaimOutcome(c)
    <2>1. o \in Outcome
      BY OutcomeType
    <2>2. o # "granted" => ~Active(c)'
      BY <1>1, RefusedHoldsNothing
    <2> HIDE DEF o
    <2>3. tries' = tries /\ lost' = lost
      BY <1>1 DEF ClaimOrQueue
    <2>4. CASE c \in Fleet
      <3>1. Goto(c, IF o = "blocked" /\ c \in Waits /\ place[c] = 0 THEN "enqueue" ELSE "reply")
            /\ answer' = [answer EXCEPT ![c] = o]
        BY <1>1, <2>4 DEF ClaimOrQueue, o
      <3>2. /\ pc'[c] = IF o = "blocked" /\ c \in Waits /\ place[c] = 0 THEN "enqueue" ELSE "reply"
            /\ answer'[c] = o
        BY <1>0, <3>1 DEF Goto, TypeOK
      <3> QED BY <1>0, <2>2, <2>3, <2>4, <3>2
    <2>5. CASE c \notin Fleet
      <3>1. Goto(c, Then(c, o))
        BY <1>1, <2>5 DEF ClaimOrQueue, o
      <3>2. pc'[c] = Then(c, o)
        BY <1>0, <3>1 DEF Goto, TypeOK
      <3>3. pc'[c] \in {"held", "failed", "enqueue", "pause"}
        BY <2>1, <3>2, ThenType
      <3>4. o = "granted" => pc'[c] = "held"
        BY <3>2 DEF Then
      <3> QED BY <1>0, <2>2, <2>3, <2>5, <3>3, <3>4
    <2> QED BY <2>4, <2>5
  <1>2. CASE Enqueue(c)
    <2>1. UNCHANGED <<lease, answer, tries, lost>> /\ pc[c] = "enqueue"
      BY <1>2 DEF Enqueue
    <2>2. pc'[c] = IF c \in Fleet THEN "reply" ELSE "pause"
      BY <1>0, <1>2 DEF Enqueue, Goto, TypeOK
    <2>3. c \notin Fleet => ~Active(c)
      BY <2>1 DEF IInv, Fresh, Active
    <2> QED BY <1>0, <2>1, <2>2, <2>3 DEF Answered, Active
  <1>3. CASE Reply(c)
    <2>1. UNCHANGED <<lease, answer, lost>> /\ pc[c] = "reply" /\ tries'[c] = 0
      BY <1>3 DEF Reply, TypeOK
    <2>2. pc'[c] = Then(c, answer[c]) /\ c \in Fleet
      BY <1>0, <1>3, <2>1 DEF Reply, Goto, TypeOK, Answered
    <2>3. pc'[c] \in {"held", "failed", "pause"} /\ (answer[c] = "granted" => pc'[c] = "held")
      BY <1>0, <2>2 DEF Then, Outcome
    <2> QED BY <1>0, <2>1, <2>2, <2>3 DEF Answered, Active
  <1>4. CASE Unanswered(c)
    <2>1. lost < MaxLost /\ lost' = lost + 1 /\ tries'[c] = tries[c] + 1
      BY <1>4 DEF Unanswered, TypeOK
    <2>2. RequestAttempts \in Nat /\ MaxLost \in Nat
      BY LeasesAssumption
    <2>3. tries[c] + 1 < RequestAttempts
      BY <1>0, <2>1, <2>2
    <2>4. pc'[c] = "sweep"
      BY <1>0, <1>4, <2>3 DEF Unanswered, Goto, TypeOK
    <2> QED BY <1>0, <2>1, <2>4
  <1>5. CASE TimeOut(c)
    <2>1. UNCHANGED <<lease, answer, tries, lost>> /\ pc[c] = "pause"
      BY <1>5 DEF TimeOut, fleetVars
    <2>2. pc'[c] = "failed"
      BY <1>0, <1>5 DEF TimeOut, Goto, TypeOK
    <2> QED BY <1>0, <2>1, <2>2 DEF Answered, Active
  <1>6. CASE Aside(c)
    <2>1. /\ answer'[c] = answer[c] /\ tries'[c] = tries[c] /\ lost <= lost'
          /\ pc'[c] = pc[c] \/ pc'[c] \in Looking
      BY <1>6 DEF Aside
    <2>2. lost' \in Nat
      <3>1. TypeOK'
        BY TypeStep
      <3> QED BY <3>1, LeasesAssumption DEF TypeOK
    <2>3. tries'[c] <= lost'
      BY <1>0, <2>1, <2>2
    <2>4. CASE pc'[c] \in Looking
      BY <2>3, <2>4 DEF Looking
    <2>5. CASE pc'[c] = pc[c]
      <3>1. ~Active(c) /\ pc[c] # "claim" => ~Active(c)'
        BY StaysEnded
      <3> QED BY <2>1, <2>3, <2>5, <3>1 DEF Answered
    <2> QED BY <2>1, <2>4, <2>5
  <1> QED BY <1>1, <1>2, <1>3, <1>4, <1>5, <1>6, Others DEF Own

(* With fewer messages lost than a request is sent times, a claim that     *)
(* reported failure holds no lease: the retry of a lost answer finds the   *)
(* lease it already has.                                                   *)
THEOREM FailureIsClean ==
    ASSUME MaxLost < RequestAttempts
    PROVE  Spec => []FailedHoldsNothing
  <1>1. IInv /\ TypeOK /\ Answered /\ [Next]_vars => Answered'
    BY AnsweredStep
  <1>2. Answered => FailedHoldsNothing
    BY DEF Answered, FailedHoldsNothing
  <1> QED BY <1>1, <1>2, AnsweredInit, Invariance, TypeCorrect, PTL DEF Spec

-----------------------------------------------------------------------------
(* A claim made here that is done has left the queue.  It has one row at   *)
(* most, the one whose identity it presents.                               *)

OneRow ==
    \A c \in Claims \ Fleet :
       /\ pc[c] # "reply"
       /\ \A i \in Rows(c) : queue[i].id = place[c]
       /\ pc[c] = "enqueue" => place[c] = 0 /\ c \in Waits
       /\ c \notin Waits => place[c] = 0
       /\ pc[c] \in {"held", "failed"} => Rows(c) = {}

LEMMA OneRowInit == Init => OneRow
  <1> SUFFICES ASSUME Init PROVE OneRow
    OBVIOUS
  <1>1. \A c \in Claims : c \in Procs /\ pc[c] = "start" /\ place[c] = 0
    BY DEF Init, Procs
  <1>2. \A c \in Claims : Rows(c) = {}
    BY DEF Init, Rows
  <1> QED BY <1>1, <1>2 DEF OneRow

(* A claim whose rows are kept has none it had not, a claim whose row is   *)
(* taken out has none.                                                     *)
LEMMA KeptRows ==
    ASSUME NEW c, Kept(c), \A i \in Rows(c) : queue[i].id = place[c]
    PROVE  /\ \A n \in DOMAIN queue' : queue'[n].of = c => queue'[n].id = place[c]
           /\ Rows(c) = {} => Rows(c)' = {}
  BY DEF Kept, Rows

LEMMA OutOfQueue ==
    ASSUME queue \in Seq(Row), NEW c, queue' = Without(c), \A i \in Rows(c) : queue[i].id = place[c]
    PROVE  Rows(c)' = {}
  <1>1. \A n \in DOMAIN queue' : \E i \in DOMAIN queue \ Place(c) : queue'[n] = queue[i]
    BY WithoutRows
  <1>2. Rows(c) = Place(c)
    BY DEF Place
  <1>3. \A n \in DOMAIN queue' : queue'[n].of # c
    BY <1>1, <1>2 DEF Rows
  <1> QED BY <1>3 DEF Rows

LEMMA OneRowStep == IInv /\ TypeOK /\ OneRow /\ [Next]_vars => OneRow'
  <1> SUFFICES ASSUME IInv, TypeOK, OneRow, [Next]_vars, NEW c \in Claims \ Fleet
               PROVE  /\ pc'[c] # "reply"
                      /\ \A n \in DOMAIN queue' : queue'[n].of = c => queue'[n].id = place'[c]
                      /\ pc'[c] = "enqueue" => place'[c] = 0 /\ c \in Waits
                      /\ c \notin Waits => place'[c] = 0
                      /\ pc'[c] \in {"held", "failed"} => Rows(c)' = {}
    BY DEF OneRow, Rows
  <1>0. /\ c \in Claims /\ c \in Procs /\ c \notin Fleet /\ queue \in Seq(Row)
        /\ \A i \in Rows(c) : queue[i].id = place[c]
        /\ \A i \in DOMAIN queue : queue[i].id # 0
        /\ c \notin Waits => place[c] = 0
    <2>1. \A i \in DOMAIN queue : queue[i] \in Row
      BY DEF TypeOK
    <2>2. \A i \in DOMAIN queue : queue[i].id # 0
      BY <2>1 DEF Row
    <2> QED BY <2>2 DEF Procs, TypeOK, OneRow
  <1>1. Rows(c)' = {} => \A n \in DOMAIN queue' : queue'[n].of # c
    BY DEF Rows
  <1>2. place[c] = 0 => Rows(c) = {}
    BY <1>0 DEF Rows
  <1>3. CASE ClaimOrQueue(c)
    <2> DEFINE o == ClaimOutcome(c)
    <2>0. ~Recognised(c)
      BY <1>0 DEF Recognised
    <2>1. pc'[c] = Then(c, o) /\ place' = IF o = "gone" THEN Forgotten(c) ELSE place
      BY <1>0, <1>3 DEF ClaimOrQueue, Goto, TypeOK
    <2>2. o \in {"granted", "gone", "blocked"}
      BY <2>0 DEF ClaimOutcome
    <2>3. o = "gone" => place[c] # 0 /\ Place(c) = {}
      BY <2>0 DEF ClaimOutcome
    <2>4. queue' = IF o = "granted" THEN Without(c) ELSE IF o = "blocked" THEN Touched(c) ELSE queue
      BY <1>3, <2>0, <2>2 DEF ClaimOrQueue
    <2> HIDE DEF o
    <2>5. CASE o = "granted"
      <3>1. Rows(c)' = {}
        BY <1>0, <2>4, <2>5, OutOfQueue
      <3>2. pc'[c] = "held" /\ place' = place
        BY <2>1, <2>5 DEF Then
      <3> QED BY <1>0, <1>1, <3>1, <3>2
    <2>6. CASE o = "gone"
      <3>1. Rows(c)' = {}
        BY <1>0, <2>3, <2>4, <2>6 DEF Place, Rows
      <3>2. place'[c] = 0 /\ c \in Waits
        BY <1>0, <2>1, <2>3, <2>6 DEF Forgotten, TypeOK
      <3>3. pc'[c] = "enqueue"
        BY <1>0, <2>1, <2>6, <3>2 DEF Then
      <3> QED BY <1>1, <3>1, <3>2, <3>3
    <2>7. CASE o = "blocked"
      <3>1. Kept(c) /\ place' = place
        BY <1>0, <2>1, <2>4, <2>7, KeptTouched
      <3>2. /\ \A n \in DOMAIN queue' : queue'[n].of = c => queue'[n].id = place[c]
            /\ Rows(c) = {} => Rows(c)' = {}
        BY <1>0, <3>1, KeptRows
      <3>3. pc'[c] = IF c \notin Waits THEN "failed"
                     ELSE IF place[c] = 0 THEN "enqueue" ELSE "pause"
        BY <1>0, <2>1, <2>7 DEF Then
      <3> QED BY <1>0, <1>2, <3>1, <3>2, <3>3
    <2> QED BY <2>2, <2>5, <2>6, <2>7
  <1>4. CASE Enqueue(c)
    <2>1. place[c] = 0 /\ c \in Waits
      BY <1>0, <1>4 DEF Enqueue, OneRow
    <2>2. Rows(c) = {}
      BY <1>2, <2>1
    <2>3. pc'[c] = "pause" /\ place'[c] = NewId(c)
      BY <1>0, <1>4 DEF Enqueue, Goto, TypeOK
    <2>4. ASSUME NEW n \in DOMAIN queue', queue'[n].of = c PROVE queue'[n].id = NewId(c)
      <3>1. /\ queue' \in Seq(Row) /\ Len(queue') = Len(queue) + 1
            /\ queue'[Len(queue) + 1] = [of |-> c, id |-> NewId(c), fresh |-> WaiterStale]
            /\ \A i \in DOMAIN queue : i \in DOMAIN queue' /\ queue'[i] = queue[i]
        BY <1>0, <1>4, EnqueueRows
      <3>2. Len(queue) \in Nat /\ DOMAIN queue = 1..Len(queue) /\ DOMAIN queue' = 1..Len(queue')
        BY <1>0, <3>1
      <3>3. n \notin DOMAIN queue
        BY <2>2, <2>4, <3>1 DEF Rows
      <3>4. n = Len(queue) + 1
        BY <3>1, <3>2, <3>3
      <3> QED BY <3>1, <3>4
    <2> QED BY <2>1, <2>3, <2>4
  <1>5. CASE Reply(c)
    BY <1>0, <1>5 DEF Reply, OneRow
  <1>6. CASE Unanswered(c)
    BY <1>0, <1>6 DEF Unanswered
  <1>7. CASE TimeOut(c)
    <2>1. Rows(c)' = {}
      BY <1>0, <1>7, OutOfQueue DEF TimeOut
    <2>2. pc'[c] = "failed" /\ place' = place
      BY <1>0, <1>7 DEF TimeOut, Goto, TypeOK
    <2> QED BY <1>0, <1>1, <2>1, <2>2
  <1>8. CASE Aside(c)
    <2>1. Kept(c) /\ place'[c] = place[c] /\ (pc'[c] = pc[c] \/ pc'[c] \in Looking)
      BY <1>8 DEF Aside
    <2>2. /\ \A n \in DOMAIN queue' : queue'[n].of = c => queue'[n].id = place[c]
          /\ Rows(c) = {} => Rows(c)' = {}
      BY <1>0, <2>1, KeptRows
    <2>3. CASE pc'[c] \in Looking
      BY <1>0, <2>1, <2>2, <2>3 DEF Looking
    <2>4. CASE pc'[c] = pc[c]
      BY <1>0, <2>1, <2>2, <2>4 DEF OneRow
    <2> QED BY <2>1, <2>3, <2>4
  <1> QED BY <1>0, <1>3, <1>4, <1>5, <1>6, <1>7, <1>8, Others DEF Own

(* Where every claim is made on this machine, one that was granted, timed  *)
(* out or gave up is out of the queue, so nobody waits behind it.          *)
THEOREM QueueIsLeft ==
    ASSUME Fleet = {}
    PROVE  Spec => []LeavesQueue
  <1>1. OneRow => LeavesQueue
    BY DEF OneRow, LeavesQueue
  <1> QED BY <1>1, OneRowInit, OneRowStep, Invariance, TypeCorrect, PTL DEF Spec

-----------------------------------------------------------------------------
(* A running owner keeps its lease *)

(* The sessions p's sweep should find running.                             *)
Known(p) == IF p \in Fleet \cup Authority THEN live ELSE live \ FleetOwners

(* The tick, if any, that has passed since p began its sweep unremarked.   *)
Held(p) == IF p \in slow THEN 1 ELSE 0

(* Until a sweep has expired, it knows every owner that still runs, and a  *)
(* lease of theirs it need not renew any more is at most as old as the     *)
(* sweep: sessions only end, and every tick since is counted in slow or in *)
(* stalls.                                                                 *)
Sight ==
    \A p \in Procs :
       /\ pc[p] \in {"select", "renew"} => Known(p) \subseteq sees[p]
       /\ pc[p] = "renew" =>
             \A c \in Claims \ todo[p] :
                Active(c) /\ Owner[c] \in sees[p] => lease[c].left + Held(p) + stalls >= TTL

LEMMA SightInit == Init => Sight
  <1> SUFFICES ASSUME Init PROVE Sight
    OBVIOUS
  <1>1. \A p \in Procs : pc[p] \in {"start", "sweep"}
    BY DEF Init
  <1> QED BY <1>1 DEF Sight

(* No step but a tick makes an active lease older.                         *)
Younger == \A c \in Claims : Active(c)' => \/ lease'[c].left = TTL
                                           \/ Active(c) /\ lease'[c].left = lease[c].left

LEMMA RenewedYounger ==
    ASSUME TypeOK, NEW d \in Claims, lease' = Renewed(d)
    PROVE  Younger /\ (Active(d)' => lease'[d].left = TTL)
  <1>1. lease \in [Claims -> [status : LeaseStatus, left : 0..TTL]]
    BY DEF TypeOK
  <1>2. CASE Active(d)
    <2>1. lease' = [lease EXCEPT ![d].left = TTL]
      BY <1>2 DEF Renewed
    <2>2. \A c \in Claims : c # d => lease'[c] = lease[c]
      BY <1>1, <2>1
    <2>3. lease'[d].left = TTL
      BY <1>1, <2>1
    <2> QED BY <2>2, <2>3 DEF Younger, Active
  <1>3. CASE ~Active(d)
    BY <1>3 DEF Renewed, Younger, Active
  <1> QED BY <1>2, <1>3

LEMMA RenewedStatus ==
    ASSUME TypeOK, NEW d \in Claims, lease' = Renewed(d)
    PROVE  \A c \in Claims : lease'[c].status = lease[c].status
  BY DEF Renewed, TypeOK

(* What a step of another process may do to p's sweep.                     *)
Apart(p) == /\ pc'[p] = pc[p] /\ sees'[p] = sees[p] /\ todo'[p] = todo[p]
            /\ p \in slow => p \in slow'
            /\ live' \subseteq live /\ stalls' = stalls

LEMMA ApartSight ==
    ASSUME TypeOK, Sight, NEW p \in Procs, Apart(p), Younger
    PROVE  /\ pc'[p] \in {"select", "renew"} => Known(p)' \subseteq sees'[p]
           /\ pc'[p] = "renew" =>
                 \A c \in Claims \ todo'[p] :
                    Active(c)' /\ Owner[c] \in sees'[p] =>
                       lease'[c].left + Held(p)' + stalls' >= TTL
  <1>1. pc'[p] \in {"select", "renew"} => Known(p)' \subseteq sees'[p]
    BY DEF Apart, Sight, Known
  <1>2. stalls \in Nat /\ Held(p) \in {0, 1} /\ Held(p)' \in {0, 1} /\ Held(p) <= Held(p)'
    BY LeasesAssumption DEF Apart, Held, TypeOK
  <1>3. ASSUME pc'[p] = "renew", NEW c \in Claims \ todo'[p], Active(c)', Owner[c] \in sees'[p]
        PROVE  lease'[c].left + Held(p)' + stalls' >= TTL
    <2>1. CASE lease'[c].left = TTL
      BY <1>2, <2>1, LeasesAssumption DEF Apart
    <2>2. CASE Active(c) /\ lease'[c].left = lease[c].left
      <3>1. lease[c].left + Held(p) + stalls >= TTL
        BY <1>3, <2>2 DEF Apart, Sight
      <3>2. lease[c].left \in Nat
        BY DEF TypeOK
      <3> QED BY <1>2, <2>2, <3>1, <3>2, LeasesAssumption DEF Apart
    <2> QED BY <1>3, <2>1, <2>2 DEF Younger
  <1> QED BY <1>1, <1>3

(* No lease expires.                                                       *)
Unexpired == \A c \in Claims : lease'[c].status = "expired" => lease[c].status = "expired"

LEMMA SweepYounger ==
    ASSUME TypeOK, NEW p \in Procs, Sweep(p)
    PROVE  Younger /\ (Unexpired \/ ExpireStale(p))
  <1>1. CASE RenewOne(p)
    <2>1. PICK d \in todo[p] : lease' = Renewed(d)
      BY <1>1 DEF RenewOne
    <2>2. d \in Claims
      BY <2>1 DEF TypeOK
    <2> QED BY <2>1, <2>2, RenewedYounger, RenewedStatus DEF Unexpired
  <1>2. CASE ExpireStale(p)
    <2>1. \A c \in Claims : lease'[c] = lease[c] \/ lease'[c].status = "expired"
      BY <1>2 DEF ExpireStale, TypeOK, LeaseStatus
    <2> QED BY <1>2, <2>1 DEF Younger, Active
  <1>3. CASE ~RenewOne(p) /\ ~ExpireStale(p)
    <2>1. lease' = lease
      BY <1>3 DEF Sweep, ScanSessions, SelectRenewable, DropStale
    <2> QED BY <2>1 DEF Younger, Unexpired, Active
  <1> QED BY <1>1, <1>2, <1>3

LEMMA StepYounger ==
    ASSUME TypeOK, [Next]_vars, ~TimePasses
    PROVE  Younger /\ (Unexpired \/ \E p \in Procs : ExpireStale(p))
  <1>0. lease' = lease => Younger /\ Unexpired
    BY DEF Younger, Unexpired, Active
  <1>1. ASSUME NEW c \in Claims, ClaimOrQueue(c) PROVE Younger /\ Unexpired
    <2>1. CASE lease' = [lease EXCEPT ![c] = [status |-> "active", left |-> TTL]]
      BY <2>1 DEF Younger, Unexpired, Active, TypeOK
    <2>2. CASE lease' = lease
      BY <1>0, <2>2
    <2> QED BY <1>1, <2>1, <2>2 DEF ClaimOrQueue
  <1>2. ASSUME NEW c \in Claims,
               Enqueue(c) \/ Reply(c) \/ Poll(c) \/ Unanswered(c) \/ TimeOut(c) \/ Kill(c)
        PROVE  Younger /\ Unexpired
    BY <1>0, <1>2 DEF Enqueue, Reply, Poll, Unanswered, TimeOut, Kill
  <1>3. ASSUME NEW c \in Claims, Release(c) PROVE Younger /\ Unexpired
    <2>1. \A d \in Claims : lease'[d] = lease[d] \/ lease'[d].status = "released"
      BY <1>3 DEF Release, TypeOK, LeaseStatus
    <2> QED BY <2>1 DEF Younger, Unexpired, Active
  <1>4. ASSUME NEW p \in Sweepers, AfterSweep(p) PROVE Younger /\ Unexpired
    <2>1. lease' = lease \/ \E d \in Claims : lease' = Renewed(d)
      BY <1>4 DEF AfterSweep
    <2> QED BY <1>0, <2>1, RenewedYounger, RenewedStatus DEF Unexpired
  <1>5. ASSUME NEW p \in Procs, Sweep(p)
        PROVE  Younger /\ (Unexpired \/ \E q \in Procs : ExpireStale(q))
    BY <1>5, SweepYounger
  <1>6. ASSUME NEW o \in Owners, OwnerEnds(o) PROVE Younger /\ Unexpired
    BY <1>0, <1>6 DEF OwnerEnds
  <1>7. CASE UNCHANGED vars
    BY <1>0, <1>7 DEF vars
  <1>8. Claims \subseteq Procs /\ Sweepers \subseteq Procs
    BY DEF Procs
  <1> QED BY <1>1, <1>2, <1>3, <1>4, <1>5, <1>6, <1>7, <1>8 DEF Next, ClaimStep, SweeperStep

(* A process is apart from what another does, unless it is not sweeping.   *)
Cleared(f, p) == [f EXCEPT ![p] = {}]

LEMMA GotoApart ==
    ASSUME TypeOK, NEW a \in Procs, NEW next, Goto(a, next), NEW p \in Procs,
           sees' \in {sees, Cleared(sees, a)}, todo' \in {todo, Cleared(todo, a)},
           live' = live, slow' = slow, stalls' = stalls,
           next \notin {"select", "renew"} \/ p # a
    PROVE  Apart(p) \/ pc'[p] \notin {"select", "renew"}
  <1>1. \A q \in Procs : pc'[q] = IF q = a THEN next ELSE pc[q]
    BY GotoSteps
  <1>2. p # a => sees'[p] = sees[p] /\ todo'[p] = todo[p]
    BY DEF TypeOK, Cleared
  <1> QED BY <1>1, <1>2 DEF Apart

LEMMA SweepApart ==
    ASSUME TypeOK, NEW a \in Procs, Sweep(a), NEW p \in Procs
    PROVE  \/ Apart(p) \/ pc'[p] \notin {"select", "renew"}
           \/ p = a /\ (ScanSessions(p) \/ SelectRenewable(p) \/ RenewOne(p))
  <1>1. CASE p = a /\ (ScanSessions(p) \/ SelectRenewable(p) \/ RenewOne(p))
    BY <1>1
  <1>2. CASE p # a /\ ScanSessions(a)
    <2>1. Goto(a, "select")
      BY <1>2 DEF ScanSessions
    <2>2. pc'[p] = pc[p]
      BY <1>2, <2>1, GotoSteps
    <2> QED BY <1>2, <2>2 DEF ScanSessions, Apart, TypeOK
  <1>3. CASE p # a /\ SelectRenewable(a)
    <2>1. Goto(a, "renew")
      BY <1>3 DEF SelectRenewable
    <2>2. pc'[p] = pc[p]
      BY <1>3, <2>1, GotoSteps
    <2> QED BY <1>3, <2>2 DEF SelectRenewable, Apart, TypeOK, timeVars
  <1>4. CASE p # a /\ RenewOne(a)
    BY <1>4 DEF RenewOne, Apart, TypeOK, timeVars
  <1>5. CASE ExpireStale(a)
    <2>1. /\ Goto(a, "drop") /\ sees' = Cleared(sees, a)
          /\ todo' = todo /\ live' = live /\ slow' = slow /\ stalls' = stalls
      BY <1>5 DEF ExpireStale, timeVars, Cleared
    <2> QED BY <2>1, GotoApart
  <1>6. CASE DropStale(a)
    <2>1. PICK next : Goto(a, next) /\ next \notin {"select", "renew"}
      BY <1>6 DEF DropStale
    <2> QED BY <1>6, <2>1, GotoApart DEF DropStale, sweepVars, timeVars
  <1> QED BY <1>1, <1>2, <1>3, <1>4, <1>5, <1>6 DEF Sweep

LEMMA StepApart ==
    ASSUME TypeOK, [Next]_vars, ~TimePasses, NEW p \in Procs
    PROVE  \/ Apart(p) \/ pc'[p] \notin {"select", "renew"}
           \/ ScanSessions(p) \/ SelectRenewable(p) \/ RenewOne(p)
  <1> DEFINE Fine == Apart(p) \/ pc'[p] \notin {"select", "renew"}
             Elsewhere == {"held", "failed", "enqueue", "reply", "pause", "sweep", "killed"}
  <1>0. Claims \subseteq Procs /\ Sweepers \subseteq Procs
    BY DEF Procs
  <1>1. ASSUME NEW a \in Procs, NEW next \in Elsewhere, Goto(a, next),
               UNCHANGED <<sees, todo, live, slow, stalls>>
        PROVE  Fine
    BY <1>1, GotoApart
  <1>2. ASSUME pc' = pc, sees' = sees, todo' = todo, slow' = slow, stalls' = stalls,
               live' \subseteq live
        PROVE  Fine
    BY <1>2 DEF Apart
  <1> HIDE DEF Fine
  <1>3. ASSUME NEW c \in Claims, ClaimOrQueue(c) PROVE Fine
    <2>1. \E next \in Elsewhere : Goto(c, next)
      BY <1>3, OutcomeType, ThenType DEF ClaimOrQueue
    <2> QED BY <1>0, <1>1, <1>3, <2>1 DEF ClaimOrQueue, sweepVars, timeVars
  <1>4. ASSUME NEW c \in Claims, Enqueue(c) PROVE Fine
    <2>1. \E next \in Elsewhere : Goto(c, next)
      BY <1>4 DEF Enqueue
    <2> QED BY <1>0, <1>1, <1>4, <2>1 DEF Enqueue, sweepVars, timeVars
  <1>5. ASSUME NEW c \in Claims, Reply(c) PROVE Fine
    <2>1. answer[c] \in Outcome
      BY DEF TypeOK
    <2>2. \E next \in Elsewhere : Goto(c, next)
      BY <1>5, <2>1, ThenType DEF Reply
    <2> QED BY <1>0, <1>1, <1>5, <2>2 DEF Reply, sweepVars, timeVars
  <1>6. ASSUME NEW c \in Claims, Unanswered(c) PROVE Fine
    <2>1. \E next \in Elsewhere : Goto(c, next)
      BY <1>6 DEF Unanswered
    <2> QED BY <1>0, <1>1, <1>6, <2>1 DEF Unanswered, sweepVars, timeVars
  <1>7. ASSUME NEW c \in Claims, Poll(c) \/ TimeOut(c) PROVE Fine
    <2>1. \E next \in Elsewhere : Goto(c, next)
      BY <1>7 DEF Poll, TimeOut
    <2> QED BY <1>0, <1>1, <1>7, <2>1 DEF Poll, TimeOut, sweepVars, timeVars
  <1>8. ASSUME NEW c \in Claims, Kill(c) PROVE Fine
    <2>1. /\ Goto(c, "killed") /\ sees' = Cleared(sees, c) /\ todo' = Cleared(todo, c)
          /\ live' = live /\ slow' = slow /\ stalls' = stalls
      BY <1>8 DEF Kill, timeVars, Cleared
    <2> QED BY <1>0, <2>1, GotoApart DEF Fine
  <1>9. ASSUME NEW c \in Claims, Release(c) PROVE Fine
    BY <1>2, <1>9 DEF Release, sweepVars, timeVars
  <1>10. ASSUME NEW a \in Sweepers, AfterSweep(a) PROVE Fine
    BY <1>0, <1>1, <1>10 DEF AfterSweep, sweepVars, timeVars
  <1>11. ASSUME NEW o \in Owners, OwnerEnds(o) PROVE Fine
    BY <1>2, <1>11 DEF OwnerEnds, sweepVars, timeVars
  <1>12. CASE UNCHANGED vars
    <2>1. /\ pc' = pc /\ sees' = sees /\ todo' = todo
          /\ slow' = slow /\ stalls' = stalls /\ live' = live
      BY <1>12 DEF vars, sweepVars, timeVars
    <2> QED BY <1>2, <2>1 DEF Fine
  <1>13. ASSUME NEW a \in Procs, Sweep(a)
         PROVE  Fine \/ ScanSessions(p) \/ SelectRenewable(p) \/ RenewOne(p)
    BY <1>13, SweepApart DEF Fine
  <1>14. ASSUME NEW c \in Claims, ClaimStep(c)
         PROVE  Fine \/ ScanSessions(p) \/ SelectRenewable(p) \/ RenewOne(p)
    BY <1>0, <1>3, <1>4, <1>5, <1>7, <1>13, <1>14 DEF ClaimStep
  <1>15. ASSUME NEW a \in Sweepers, SweeperStep(a)
         PROVE  Fine \/ ScanSessions(p) \/ SelectRenewable(p) \/ RenewOne(p)
    BY <1>0, <1>10, <1>13, <1>15 DEF SweeperStep
  <1>16. Fine \/ ScanSessions(p) \/ SelectRenewable(p) \/ RenewOne(p)
    <2>1. CASE Next
      <3>1. CASE \E c \in Claims : ClaimStep(c) \/ Unanswered(c) \/ TimeOut(c) \/ Kill(c) \/ Release(c)
        BY <1>6, <1>7, <1>8, <1>9, <1>14, <3>1
      <3>2. CASE \E a \in Sweepers : SweeperStep(a)
        BY <1>15, <3>2
      <3>3. CASE \E o \in Owners : OwnerEnds(o)
        BY <1>11, <3>3
      <3> QED BY <2>1, <3>1, <3>2, <3>3 DEF Next
    <2> QED BY <1>12, <2>1 DEF Fine
  <1> QED BY <1>16 DEF Fine

(* The sweep of p itself.                                                  *)
LEMMA OwnSight ==
    ASSUME TypeOK, Sight, Younger, NEW p \in Procs,
           ScanSessions(p) \/ SelectRenewable(p) \/ RenewOne(p)
    PROVE  /\ pc'[p] \in {"select", "renew"} => Known(p)' \subseteq sees'[p]
           /\ pc'[p] = "renew" =>
                 \A c \in Claims \ todo'[p] :
                    Active(c)' /\ Owner[c] \in sees'[p] =>
                       lease'[c].left + Held(p)' + stalls' >= TTL
  <1>1. CASE ScanSessions(p)
    <2>1. pc'[p] = "select"
      BY <1>1, GotoSteps DEF ScanSessions
    <2>2. sees'[p] = Known(p) /\ Known(p)' = Known(p)
      BY <1>1 DEF ScanSessions, Known, TypeOK
    <2> QED BY <2>1, <2>2
  <1>2. CASE SelectRenewable(p)
    <2>1. pc'[p] = "renew" /\ Known(p) \subseteq sees[p]
      BY <1>2, GotoSteps DEF SelectRenewable, Sight
    <2>2. UNCHANGED <<lease, sees, live>> /\ Known(p)' = Known(p)
      BY <1>2 DEF SelectRenewable, Known
    <2>3. todo'[p] = {c \in Claims : Active(c) /\ Owner[c] \in sees[p]}
      BY <1>2 DEF SelectRenewable, TypeOK
    <2> QED BY <2>1, <2>2, <2>3 DEF Active
  <1>3. CASE RenewOne(p)
    <2>1. PICK d \in todo[p] : lease' = Renewed(d) /\ todo' = [todo EXCEPT ![p] = @ \ {d}]
      BY <1>3 DEF RenewOne
    <2>2. d \in Claims /\ todo'[p] = todo[p] \ {d}
      BY <2>1 DEF TypeOK
    <2>3. pc[p] = "renew" /\ UNCHANGED <<pc, sees, live, slow, stalls>>
      BY <1>3 DEF RenewOne, timeVars
    <2>4. stalls \in Nat /\ Held(p) \in {0, 1} /\ Held(p)' = Held(p) /\ Known(p)' = Known(p)
      BY <2>3, LeasesAssumption DEF Held, TypeOK, Known
    <2>5. Known(p) \subseteq sees[p]
      BY <2>3 DEF Sight
    <2>6. ASSUME NEW c \in Claims \ todo'[p], Active(c)', Owner[c] \in sees[p]
          PROVE  lease'[c].left + Held(p) + stalls >= TTL
      <3>1. CASE lease'[c].left = TTL
        BY <2>4, <3>1, LeasesAssumption
      <3>2. CASE lease'[c].left # TTL
        <4>1. Active(c) /\ lease'[c].left = lease[c].left
          BY <2>6, <3>2 DEF Younger
        <4>2. c # d
          BY <2>1, <2>2, <2>6, <3>2, RenewedYounger
        <4>3. c \in Claims \ todo[p]
          BY <2>2, <2>6, <4>2
        <4> QED BY <2>3, <2>6, <4>1, <4>3 DEF Sight
      <3> QED BY <3>1, <3>2
    <2> QED BY <2>3, <2>4, <2>5, <2>6
  <1> QED BY <1>1, <1>2, <1>3

(* A tick ages a lease by one, and counts against every sweep under way.   *)
LEMMA TickSight ==
    ASSUME TypeOK, Sight, TimePasses, NEW p \in Procs
    PROVE  /\ pc'[p] \in {"select", "renew"} => Known(p)' \subseteq sees'[p]
           /\ pc'[p] = "renew" =>
                 \A c \in Claims \ todo'[p] :
                    Active(c)' /\ Owner[c] \in sees'[p] =>
                       lease'[c].left + Held(p)' + stalls' >= TTL
  <1>1. UNCHANGED <<pc, sees, todo, live>> /\ Known(p)' = Known(p)
    BY DEF TimePasses, sweepVars, Known
  <1>2. ASSUME pc[p] = "renew", NEW c \in Claims \ todo[p], Active(c)', Owner[c] \in sees[p]
        PROVE  lease'[c].left + Held(p)' + stalls' >= TTL
    <2>1. InCycle(p)
      BY <1>2 DEF InCycle
    <2>2. Held(p)' = 1
      BY <2>1 DEF TimePasses, Held
    <2>3. stalls' = stalls + (IF \E q \in slow : InCycle(q) THEN 1 ELSE 0)
      BY DEF TimePasses
    <2>4. stalls \in Nat /\ lease[c].left \in Nat /\ TTL \in Nat
      BY LeasesAssumption DEF TypeOK
    <2>5. Active(c) /\ lease'[c].left = Less(lease[c].left)
      BY <1>2 DEF TimePasses, TypeOK, Active
    <2>6. lease'[c].left \in Nat /\ lease'[c].left + 1 >= lease[c].left
      BY <2>4, <2>5 DEF Less
    <2>7. lease[c].left + Held(p) + stalls >= TTL
      BY <1>2, <2>5 DEF Sight
    <2>8. CASE p \in slow
      <3>1. stalls' = stalls + 1 /\ Held(p) = 1
        BY <2>1, <2>3, <2>8 DEF Held
      <3> QED BY <2>2, <2>4, <2>6, <2>7, <3>1
    <2>9. CASE p \notin slow
      <3>1. stalls' \in Nat /\ stalls' >= stalls /\ Held(p) = 0
        BY <2>3, <2>4, <2>9 DEF Held
      <3> QED BY <2>2, <2>4, <2>6, <2>7, <3>1
    <2> QED BY <2>8, <2>9
  <1>3. pc[p] \in {"select", "renew"} => Known(p) \subseteq sees[p]
    BY DEF Sight
  <1> QED BY <1>1, <1>2, <1>3

LEMMA SightStep == TypeOK /\ Sight /\ [Next]_vars => Sight'
  <1> SUFFICES ASSUME TypeOK, Sight, [Next]_vars, NEW p \in Procs
               PROVE  /\ pc'[p] \in {"select", "renew"} => Known(p)' \subseteq sees'[p]
                      /\ pc'[p] = "renew" =>
                            \A c \in Claims \ todo'[p] :
                               Active(c)' /\ Owner[c] \in sees'[p] =>
                                  lease'[c].left + Held(p)' + stalls' >= TTL
    BY DEF Sight
  <1>1. CASE TimePasses
    BY <1>1, TickSight
  <1>2. CASE ~TimePasses
    <2>1. Younger
      BY <1>2, StepYounger
    <2>2. CASE Apart(p)
      BY <2>1, <2>2, ApartSight
    <2>3. CASE pc'[p] \notin {"select", "renew"}
      BY <2>3
    <2>4. CASE ScanSessions(p) \/ SelectRenewable(p) \/ RenewOne(p)
      BY <2>1, <2>4, OwnSight
    <2> QED BY <1>2, <2>2, <2>3, <2>4, StepApart
  <1> QED BY <1>1, <1>2

(* A lease that expires is past its time when a sweep expires it.          *)
LEMMA OnlyPast ==
    ASSUME TypeOK, [Next]_vars, NEW c \in Claims, Active(c), lease'[c].status = "expired"
    PROVE  \E p \in Procs : pc[p] = "renew" /\ todo[p] = {} /\ lease[c].left = 0
  <1>1. ~Unexpired
    BY DEF Unexpired, Active
  <1>2. ~TimePasses
    <2> SUFFICES ASSUME TimePasses PROVE FALSE
      OBVIOUS
    <2>1. lease'[c].status = lease[c].status
      BY DEF TimePasses, TypeOK
    <2> QED BY <2>1 DEF Active
  <1>3. PICK p \in Procs : ExpireStale(p)
    BY <1>1, <1>2, StepYounger
  <1>4. Past(c)
    BY <1>3 DEF ExpireStale, Active
  <1> QED BY <1>3, <1>4 DEF ExpireStale, Past

(* A sweep, however late, never expires the lease of an owner still        *)
(* running, as long as a lease outlives the time a sweep may be held up:   *)
(* a tick, and MaxStalls more.  Every process that sweeps has to see every *)
(* owner: no claims come from peers, or all sweepers know the peers'.      *)
THEOREM LiveKept ==
    ASSUME MaxStalls + 1 < TTL, Fleet = {} \/ Procs \subseteq Fleet \cup Authority
    PROVE  Spec => LiveOwnerKeeps
  <1> DEFINE Kind == \A c \in Claims :
                        Active(c) /\ lease'[c].status = "expired" => Owner[c] \notin live
  <1>1. TypeOK /\ Sight /\ [Next]_vars => Kind
    <2> SUFFICES ASSUME TypeOK, Sight, [Next]_vars, NEW c \in Claims, Active(c),
                        lease'[c].status = "expired", Owner[c] \in live
                 PROVE  FALSE
      OBVIOUS
    <2>1. PICK p \in Procs : pc[p] = "renew" /\ todo[p] = {} /\ lease[c].left = 0
      BY OnlyPast
    <2>2. Owner[c] \in Known(p)
      BY DEF Known, FleetOwners
    <2>3. Owner[c] \in sees[p]
      BY <2>1, <2>2 DEF Sight
    <2>4. lease[c].left + Held(p) + stalls >= TTL
      BY <2>1, <2>3 DEF Sight
    <2>5. Held(p) \in {0, 1} /\ stalls \in Nat /\ stalls <= MaxStalls /\ TTL \in Nat /\ MaxStalls \in Nat
      BY LeasesAssumption DEF Held, TypeOK
    <2> QED BY <2>1, <2>4, <2>5
  <1>2. Spec => [][Kind]_vars
    <2> HIDE DEF Kind
    <2> QED BY <1>1, SightInit, SightStep, TypeCorrect, PTL DEF Spec
  <1> QED BY <1>2 DEF LiveOwnerKeeps
=============================================================================
