------------------------ MODULE RelayDelegationProofs ------------------------
(***************************************************************************)
(* Type correctness of RelayDelegation, that a peer that has not restarted *)
(* runs one session of a supervised task, and that the ledger implements   *)
(* DelegationLedger.                                                       *)
(***************************************************************************)
EXTENDS RelayDelegation, TLAPS

-----------------------------------------------------------------------------
(* Type correctness.                                                       *)

LEMMA MessageTyped ==
    /\ \A a \in Attempts :
          /\ Message("delegate", a) \in Messages /\ Message("stop", a) \in Messages
          /\ Message("nudge", a) \in Messages /\ Message("running", a) \in Messages
          /\ Message("completed", a) \in Messages /\ Message("failed", a) \in Messages
          /\ Message("refused", a) \in Messages
    /\ \A m \in Messages : m.kind \in Requests \cup Reports /\ m.about \in Attempts
BY DEF Message, Messages, Requests, Reports, Settled

LEMMA TypedInit == Init => TypeOK
BY DelegationAssumption DEF Init, TypeOK

LEMMA SendTyped ==
    ASSUME TypeOK, NEW from \in SUBSET Messages, NEW m \in Messages, Send(from, m)
    PROVE  net' \subseteq Messages /\ lost' \in 0 .. MaxLost
<1>1. lost \in 0 .. MaxLost /\ MaxLost \in Nat
    BY DelegationAssumption DEF TypeOK
<1>2. CASE lost < MaxLost /\ lost' = lost + 1 /\ net' = from
    BY <1>1, <1>2
<1>3. CASE net' = from \cup {m} /\ UNCHANGED lost
    BY <1>1, <1>3
<1> QED
    BY <1>2, <1>3 DEF Send

LEMMA TypedNext == TypeOK /\ [Next]_vars => TypeOK'
<1> SUFFICES ASSUME TypeOK, [Next]_vars PROVE TypeOK'
    OBVIOUS
<1> USE DelegationAssumption, MessageTyped
<1>1. ASSUME NEW a \in Attempts, CommandSends(a) PROVE TypeOK'
    BY <1>1 DEF CommandSends, PeerUnchanged, TypeOK
<1>2. ASSUME NEW a \in Attempts, CommandRecords(a) PROVE TypeOK'
    BY <1>2 DEF CommandRecords, PeerUnchanged, TypeOK
<1>3. ASSUME NEW a \in Attempts, SupervisorRecords(a) PROVE TypeOK'
    BY <1>3 DEF SupervisorRecords, PeerUnchanged, TypeOK
<1>4. ASSUME NEW a \in Attempts, SupervisorSends(a) PROVE TypeOK'
    BY <1>4 DEF SupervisorSends, PeerUnchanged, TypeOK
<1>5. ASSUME NEW a \in Attempts, SupervisorReturns(a) PROVE TypeOK'
    BY <1>5 DEF SupervisorReturns, PeerUnchanged, TypeOK
<1>6. ASSUME NEW a \in Attempts, GiveUp(a) PROVE TypeOK'
    <2>1. net' \subseteq Messages /\ lost' \in 0 .. MaxLost
        BY <1>6, SendTyped DEF GiveUp, TypeOK
    <2> QED
        BY <1>6, <2>1 DEF GiveUp, PeerUnchanged, TypeOK
<1>7. ASSUME NEW a \in Attempts, UserInterrupts(a) PROVE TypeOK'
    BY <1>7 DEF UserInterrupts, PeerUnchanged, TypeOK
<1>8. ASSUME NEW a \in Attempts, Accept(a) PROVE TypeOK'
    <2>1. net \ {Message("delegate", a)} \in SUBSET Messages
        BY DEF TypeOK
    <2>2. net' \subseteq Messages /\ lost' \in 0 .. MaxLost
        BY <1>8, <2>1, SendTyped DEF Accept
    <2>3. task' \in [Attempts -> {"none", "running", "verifying", "completed", "failed"}]
        BY <1>8 DEF Accept, TypeOK
    <2>4. session' \in [Attempts -> {"none", "alive", "ok", "bad", "killed"}]
        BY <1>8 DEF Accept, TypeOK
    <2>5. UNCHANGED <<call, ledger, verifier, restarts>>
        BY <1>8 DEF Accept
    <2> QED
        BY <2>2, <2>3, <2>4, <2>5 DEF TypeOK
<1>9. ASSUME NEW a \in Attempts, SessionEnds(a) PROVE TypeOK'
    <2>1. session' \in [Attempts -> {"none", "alive", "ok", "bad", "killed"}]
        BY <1>9 DEF SessionEnds, TypeOK
    <2> QED
        BY <1>9, <2>1 DEF SessionEnds, TypeOK
<1>10. ASSUME NEW a \in Attempts, VerifierEnds(a) PROVE TypeOK'
    BY <1>10 DEF VerifierEnds, TypeOK
<1>11. ASSUME NEW a \in Attempts, TickStatus(a) PROVE TypeOK'
    BY <1>11 DEF TickStatus, TypeOK
<1>12. ASSUME NEW a \in Attempts, TickEnded(a) PROVE TypeOK'
    <2>1. net' \subseteq Messages /\ lost' \in 0 .. MaxLost
        BY <1>12, SendTyped DEF TickEnded, TypeOK
    <2>2. task' \in [Attempts -> {"none", "running", "verifying", "completed", "failed"}]
        BY <1>12 DEF TickEnded, TypeOK
    <2>3. verifier' \in [Attempts -> {"none", "alive", "ended"}]
        BY <1>12 DEF TickEnded, TypeOK
    <2>4. UNCHANGED <<call, ledger, session, restarts>>
        BY <1>12 DEF TickEnded
    <2> QED
        BY <2>1, <2>2, <2>3, <2>4 DEF TypeOK
<1>13. ASSUME NEW a \in Attempts, TickVerified(a) PROVE TypeOK'
    <2>1. net' \subseteq Messages /\ lost' \in 0 .. MaxLost
        BY <1>13, SendTyped DEF TickVerified, TypeOK
    <2> QED
        BY <1>13, <2>1 DEF TickVerified, TypeOK
<1>14. ASSUME NEW a \in Attempts, HandleStop(a) PROVE TypeOK'
    <2>1. net \ {Message("stop", a)} \in SUBSET Messages
        BY DEF TypeOK
    <2>2. net' \subseteq Messages /\ lost' \in 0 .. MaxLost
        BY <1>14, <2>1, SendTyped DEF HandleStop, TypeOK
    <2>3. task' \in [Attempts -> {"none", "running", "verifying", "completed", "failed"}]
        BY <1>14 DEF HandleStop, TypeOK
    <2>4. session' \in [Attempts -> {"none", "alive", "ok", "bad", "killed"}]
        <3>1. CASE task[a] = "none"
            BY <1>14, <3>1 DEF HandleStop, TypeOK
        <3>2. CASE task[a] # "none"
            <4>1. session' = [session EXCEPT ![a] = IF @ = "alive" THEN "killed" ELSE @]
                BY <1>14, <3>2 DEF HandleStop
            <4>2. session \in [Attempts -> {"none", "alive", "ok", "bad", "killed"}]
                BY DEF TypeOK
            <4> QED
                BY <4>1, <4>2
        <3> QED
            BY <3>1, <3>2
    <2>5. UNCHANGED <<call, ledger, verifier, restarts>>
        BY <1>14 DEF HandleStop
    <2> QED
        BY <2>2, <2>3, <2>4, <2>5 DEF TypeOK
<1>15. ASSUME NEW a \in Attempts, HandleNudge(a) PROVE TypeOK'
    BY <1>15 DEF HandleNudge, TypeOK
<1>16. ASSUME NEW a \in Attempts, Cleanup(a) PROVE TypeOK'
    BY <1>16 DEF Cleanup, TypeOK
<1>17. ASSUME NEW m \in net, Apply(m) PROVE TypeOK'
    BY <1>17 DEF Apply, PeerUnchanged, Reports, Settled, TypeOK
<1>18. CASE Restart
    <2>1. net' \subseteq net /\ UNCHANGED <<call, ledger, session, verifier, lost>>
        BY <1>18 DEF Restart
    <2>2. restarts' \in 0 .. MaxRestarts
        <3>1. restarts \in 0 .. MaxRestarts /\ MaxRestarts \in Nat
            BY DEF TypeOK, DelegationAssumption
        <3>2. restarts < MaxRestarts /\ restarts' = restarts + 1
            BY <1>18 DEF Restart
        <3> QED
            BY <3>1, <3>2
    <2>3. task' \in [Attempts -> {"none", "running", "verifying", "completed", "failed"}]
        BY <1>18 DEF Restart
    <2> QED
        BY <2>1, <2>2, <2>3 DEF TypeOK
<1>19. CASE UNCHANGED vars
    BY <1>19 DEF vars, TypeOK
<1> QED
    BY <1>1, <1>2, <1>3, <1>4, <1>5, <1>6, <1>7, <1>8, <1>9, <1>10, <1>11, <1>12, <1>13, <1>14, <1>15, <1>16, <1>17, <1>18, <1>19 DEF Next

\* Every variable keeps its type, whatever is lost, restarted or stopped
\* (relay/tasks.rs, relay/worker.rs).
THEOREM Typed == Spec => []TypeOK
<1>1. Init => TypeOK
    BY TypedInit
<1>2. TypeOK /\ [Next]_vars => TypeOK'
    BY TypedNext
<1> QED
    BY <1>1, <1>2, PTL DEF Spec
-----------------------------------------------------------------------------
(***************************************************************************)
(* One session of a supervised task.  The worker's test reads its map, so  *)
(* the strengthening says the map knows every session that is alive, and   *)
(* that a task past its session has none.                                  *)
(***************************************************************************)
Tracked(a) == restarts = 0 /\ session[a] = "alive" => task[a] = "running"

Past(a) == task[a] \in {"verifying", "completed", "failed"} => session[a] # "alive"

SessionInv == (\A a \in Attempts : Tracked(a) /\ Past(a)) /\ OneSessionPerTask

LEMMA SessionNext == TypeOK /\ SessionInv /\ [Next]_vars => SessionInv'
<1> SUFFICES ASSUME TypeOK, SessionInv, [Next]_vars PROVE SessionInv'
    OBVIOUS
<1>1. ASSUME UNCHANGED <<task, session, restarts>> PROVE SessionInv'
    BY <1>1 DEF SessionInv, Tracked, Past, OneSessionPerTask
<1>2. ASSUME NEW a \in Attempts, CommandSends(a) PROVE SessionInv'
    BY <1>1, <1>2 DEF CommandSends, PeerUnchanged
<1>3. ASSUME NEW a \in Attempts, CommandRecords(a) PROVE SessionInv'
    BY <1>1, <1>3 DEF CommandRecords, PeerUnchanged
<1>4. ASSUME NEW a \in Attempts, SupervisorRecords(a) PROVE SessionInv'
    BY <1>1, <1>4 DEF SupervisorRecords, PeerUnchanged
<1>5. ASSUME NEW a \in Attempts, SupervisorSends(a) PROVE SessionInv'
    BY <1>1, <1>5 DEF SupervisorSends, PeerUnchanged
<1>6. ASSUME NEW a \in Attempts, SupervisorReturns(a) PROVE SessionInv'
    BY <1>1, <1>6 DEF SupervisorReturns, PeerUnchanged
<1>7. ASSUME NEW a \in Attempts, GiveUp(a) PROVE SessionInv'
    BY <1>1, <1>7 DEF GiveUp, PeerUnchanged
<1>8. ASSUME NEW a \in Attempts, UserInterrupts(a) PROVE SessionInv'
    BY <1>1, <1>8 DEF UserInterrupts, PeerUnchanged
<1>9. ASSUME NEW a \in Attempts, Accept(a) PROVE SessionInv'
    <2>1. CASE UNCHANGED <<task, session, restarts>>
        BY <1>1, <2>1
    <2>2. ASSUME ~ Refuses(a), task' = [task EXCEPT ![a] = "running"],
                 session' = [session EXCEPT ![a] = "alive"], restarts' = restarts
          PROVE  SessionInv'
        <3>1. \A b \in Attempts : (Tracked(b) /\ Past(b))'
            BY <2>2 DEF SessionInv, Tracked, Past, TypeOK
        <3>2. restarts = 0 =>
                \A b \in Attempts : SameKey(a, b) /\ session[b] = "alive" => b = a
            BY <2>2 DEF SessionInv, Tracked, Refuses, Running, Busy
        <3>3. OneSessionPerTask'
            BY <2>2, <3>2 DEF SessionInv, OneSessionPerTask, SameKey, TypeOK
        <3> QED
            BY <3>1, <3>3 DEF SessionInv
    <2> QED
        BY <1>9, <2>1, <2>2 DEF Accept
<1>10. ASSUME NEW a \in Attempts, SessionEnds(a) PROVE SessionInv'
    <2>1. PICK how \in {"ok", "bad"} : session' = [session EXCEPT ![a] = how]
        BY <1>10 DEF SessionEnds
    <2>2. UNCHANGED <<task, restarts>>
        BY <1>10 DEF SessionEnds
    <2> QED
        BY <2>1, <2>2 DEF SessionInv, Tracked, Past, OneSessionPerTask, TypeOK
<1>11. ASSUME NEW a \in Attempts, VerifierEnds(a) PROVE SessionInv'
    BY <1>1, <1>11 DEF VerifierEnds
<1>12. ASSUME NEW a \in Attempts, TickStatus(a) PROVE SessionInv'
    BY <1>1, <1>12 DEF TickStatus
<1>13. ASSUME NEW a \in Attempts, TickEnded(a) PROVE SessionInv'
    <2>1. session[a] # "alive" /\ UNCHANGED <<session, restarts>>
        BY <1>13 DEF TickEnded
    <2>2. \E s \in {"verifying", "completed", "failed"} : task' = [task EXCEPT ![a] = s]
        BY <1>13 DEF TickEnded
    <2> QED
        BY <2>1, <2>2 DEF SessionInv, Tracked, Past, OneSessionPerTask, TypeOK
<1>14. ASSUME NEW a \in Attempts, TickVerified(a) PROVE SessionInv'
    BY <1>14 DEF TickVerified, SessionInv, Tracked, Past, OneSessionPerTask, TypeOK
<1>15. ASSUME NEW a \in Attempts, HandleStop(a) PROVE SessionInv'
    <2>1. CASE UNCHANGED <<task, session, restarts>>
        BY <1>1, <2>1
    <2>2. ASSUME task' = [task EXCEPT ![a] = "failed"], restarts' = restarts,
                 session' = [session EXCEPT ![a] = IF @ = "alive" THEN "killed" ELSE @]
          PROVE  SessionInv'
        <3>1. \A b \in Attempts : session'[b] = "alive" => session[b] = "alive" /\ b # a
            BY <2>2 DEF TypeOK
        <3> QED
            BY <2>2, <3>1 DEF SessionInv, Tracked, Past, OneSessionPerTask, TypeOK
    <2> QED
        BY <1>15, <2>1, <2>2 DEF HandleStop
<1>16. ASSUME NEW a \in Attempts, HandleNudge(a) PROVE SessionInv'
    BY <1>1, <1>16 DEF HandleNudge
<1>17. ASSUME NEW a \in Attempts, Cleanup(a) PROVE SessionInv'
    BY <1>17 DEF Cleanup, SessionInv, Tracked, Past, OneSessionPerTask, TypeOK
<1>18. ASSUME NEW m \in net, Apply(m) PROVE SessionInv'
    BY <1>1, <1>18 DEF Apply, PeerUnchanged
<1>19. CASE Restart
    <2>1. restarts' # 0
        <3>1. restarts \in 0 .. MaxRestarts /\ MaxRestarts \in Nat
            BY DelegationAssumption DEF TypeOK
        <3>2. restarts' = restarts + 1
            BY <1>19 DEF Restart
        <3> QED
            BY <3>1, <3>2
    <2> QED
        BY <1>19, <2>1 DEF Restart, SessionInv, Tracked, Past, OneSessionPerTask
<1>20. CASE UNCHANGED vars
    BY <1>1, <1>20 DEF vars
<1> QED
    BY <1>2, <1>3, <1>4, <1>5, <1>6, <1>7, <1>8, <1>9, <1>10, <1>11, <1>12, <1>13, <1>14,
       <1>15, <1>16, <1>17, <1>18, <1>19, <1>20 DEF Next

\* A peer whose relay has not restarted never has two sessions of one
\* supervised task alive (relay/worker.rs accept_task, #584).
THEOREM SessionsApart == Spec => []OneSessionPerTask
<1>1. Init => SessionInv
    BY DEF Init, SessionInv, Tracked, Past, OneSessionPerTask
<1>2. TypeOK /\ SessionInv /\ [Next]_vars => SessionInv'
    BY SessionNext
<1>3. SessionInv => OneSessionPerTask
    BY DEF SessionInv
<1> QED
    BY Typed, <1>1, <1>2, <1>3, PTL DEF Spec
-----------------------------------------------------------------------------
(***************************************************************************)
(* The ledger's promise.  Until its message is read nothing is known of an *)
(* attempt at the peer and nothing is reported; an attempt the command has *)
(* not recorded is not on record; and what is reported as settled is over. *)
(***************************************************************************)
Unsent(a) == call[a] \in {"idle", "sending"} => Message("delegate", a) \notin net

Untold(a) ==
    call[a] \in {"idle", "sending"} \/ Message("delegate", a) \in net =>
        /\ session[a] = "none" /\ task[a] = "none"
        /\ \A k \in Reports : Message(k, a) \notin net
        /\ ledger[a] \notin Settled

NoRecord(a) ==
    /\ call[a] = "idle" => ledger[a] = "none"
    /\ a \notin Supervised /\ call[a] = "waiting" => ledger[a] = "none"
    /\ call[a] = "sending" => a \in Supervised

Posthumous(a) ==
    /\ \A k \in Settled : Message(k, a) \in net => session[a] # "alive"
    /\ ledger[a] \in Settled => session[a] # "alive"
    /\ Past(a)

Good(a) == Unsent(a) /\ Untold(a) /\ NoRecord(a) /\ Posthumous(a)

LedgerInv == \A a \in Attempts : Good(a)

LEMMA MessagesApart ==
    \A k, l, a, b : Message(k, a) = Message(l, b) => k = l /\ a = b
BY DEF Message

LEMMA MessageFields ==
    \A m \in Messages : m = Message(m.kind, m.about)
BY DEF Message, Messages

\* The messages a step adds are of the kinds K and about attempt a.
Gains(a, K) ==
    \A k, b : Message(k, b) \in net' => Message(k, b) \in net \/ (b = a /\ k \in K)

LEMMA OneMessage ==
    ASSUME NEW a, NEW k, net' \subseteq net \cup {Message(k, a)}
    PROVE  Gains(a, {k})
BY MessagesApart DEF Gains

LEMMA SendReaches ==
    ASSUME NEW from, from \subseteq net, NEW a, NEW k, Send(from, Message(k, a))
    PROVE  Gains(a, {k}) /\ net' \subseteq from \cup {Message(k, a)}
<1>1. net' \subseteq from \cup {Message(k, a)}
    BY DEF Send
<1> QED
    BY <1>1, OneMessage

\* A step about one attempt leaves what is said of the others alone.
Framed(a) ==
    \A b \in Attempts : b # a =>
        /\ call'[b] = call[b] /\ ledger'[b] = ledger[b]
        /\ session'[b] = session[b] /\ task'[b] = task[b]
        /\ \A k : Message(k, b) \in net' => Message(k, b) \in net

LEMMA LedgerStep ==
    ASSUME NEW a \in Attempts, LedgerInv, Framed(a), Good(a)'
    PROVE  LedgerInv'
<1> SUFFICES ASSUME NEW b \in Attempts, b # a PROVE Good(b)'
    BY DEF LedgerInv
<1>1. Good(b)
    BY DEF LedgerInv
<1> QED
    BY <1>1 DEF Framed, Good, Unsent, Untold, NoRecord, Posthumous, Past

LEMMA LedgerNext == TypeOK /\ LedgerInv /\ [Next]_vars => LedgerInv'
<1> SUFFICES ASSUME TypeOK, LedgerInv, [Next]_vars PROVE LedgerInv'
    OBVIOUS
<1> USE DEF Reports, Settled
<1>0. \A a \in Attempts : Good(a)
    BY DEF LedgerInv
<1>1. ASSUME NEW a \in Attempts, CommandSends(a) PROVE LedgerInv'
    <2>1. Gains(a, {"delegate"})
        BY <1>1, OneMessage DEF CommandSends, PeerUnchanged, Gains
    <2>2. Framed(a)
        BY <1>1, <2>1 DEF CommandSends, PeerUnchanged, Framed, Gains, TypeOK
    <2>3. Good(a)'
        <3>1. /\ a \notin Supervised /\ call[a] = "idle" /\ call'[a] \in {"waiting", "failed"}
              /\ ledger'[a] = ledger[a] /\ session'[a] = session[a] /\ task'[a] = task[a]
            BY <1>1 DEF CommandSends, PeerUnchanged, TypeOK
        <3>2. Good(a)
            BY <1>0
        <3>3. \A k \in Reports : Message(k, a) \notin net'
            BY <2>1, <3>1, <3>2 DEF Gains, Good, Untold
        <3> QED
            BY <3>1, <3>2, <3>3 DEF Good, Unsent, Untold, NoRecord, Posthumous, Past
    <2> QED
        BY <2>2, <2>3, LedgerStep
<1>2. ASSUME NEW a \in Attempts, CommandRecords(a) PROVE LedgerInv'
    <2>1. Framed(a)
        BY <1>2 DEF CommandRecords, PeerUnchanged, Framed, TypeOK
    <2>2. Good(a)'
        BY <1>0, <1>2 DEF CommandRecords, PeerUnchanged, Good, Unsent, Untold, NoRecord, Posthumous, Past, TypeOK
    <2> QED
        BY <2>1, <2>2, LedgerStep
<1>3. ASSUME NEW a \in Attempts, SupervisorRecords(a) PROVE LedgerInv'
    <2>1. Framed(a)
        BY <1>3 DEF SupervisorRecords, PeerUnchanged, Framed, TypeOK
    <2>2. Good(a)'
        BY <1>0, <1>3 DEF SupervisorRecords, PeerUnchanged, Good, Unsent, Untold, NoRecord, Posthumous, Past, TypeOK
    <2> QED
        BY <2>1, <2>2, LedgerStep
<1>4. ASSUME NEW a \in Attempts, SupervisorSends(a) PROVE LedgerInv'
    <2>1. Gains(a, {"delegate"})
        BY <1>4, OneMessage DEF SupervisorSends, PeerUnchanged, Gains
    <2>2. Framed(a)
        BY <1>4, <2>1 DEF SupervisorSends, PeerUnchanged, Framed, Gains, TypeOK
    <2>3. Good(a)'
        BY <1>0, <1>4, <2>1 DEF SupervisorSends, PeerUnchanged, Gains, Good, Unsent, Untold, NoRecord, Posthumous, Past, TypeOK
    <2> QED
        BY <2>2, <2>3, LedgerStep
<1>5. ASSUME NEW a \in Attempts, SupervisorReturns(a) PROVE LedgerInv'
    <2>1. Framed(a)
        BY <1>5 DEF SupervisorReturns, PeerUnchanged, Framed, TypeOK
    <2>2. Good(a)'
        BY <1>0, <1>5 DEF SupervisorReturns, PeerUnchanged, Good, Unsent, Untold, NoRecord, Posthumous, Past, TypeOK
    <2> QED
        BY <2>1, <2>2, LedgerStep
<1>6. ASSUME NEW a \in Attempts, GiveUp(a) PROVE LedgerInv'
    <2>1. Gains(a, {"stop"})
        BY <1>6, SendReaches DEF GiveUp, PeerUnchanged, Gains
    <2>2. Framed(a)
        BY <1>6, <2>1 DEF GiveUp, PeerUnchanged, Framed, Gains, TypeOK
    <2>3. Good(a)'
        BY <1>0, <1>6, <2>1 DEF GiveUp, PeerUnchanged, Gains, Good, Unsent, Untold, NoRecord, Posthumous, Past, TypeOK
    <2> QED
        BY <2>2, <2>3, LedgerStep
<1>7. ASSUME NEW a \in Attempts, UserInterrupts(a) PROVE LedgerInv'
    <2>1. Gains(a, {"stop", "nudge"})
        BY <1>7, OneMessage DEF UserInterrupts, PeerUnchanged, Gains
    <2>2. Framed(a)
        BY <1>7, <2>1 DEF UserInterrupts, PeerUnchanged, Framed, Gains, TypeOK
    <2>3. Good(a)'
        BY <1>0, <1>7, <2>1 DEF UserInterrupts, PeerUnchanged, Gains, Good, Unsent, Untold, NoRecord, Posthumous, Past, TypeOK
    <2> QED
        BY <2>2, <2>3, LedgerStep
<1>8. ASSUME NEW a \in Attempts, Accept(a) PROVE LedgerInv'
    <2>1. Gains(a, {"running", "refused"})
        BY <1>8, SendReaches DEF Accept, Gains
    <2>2. Framed(a)
        <3>1. \A b \in Attempts : b # a => session'[b] = session[b] /\ task'[b] = task[b]
            BY <1>8 DEF Accept, TypeOK
        <3>2. UNCHANGED <<call, ledger>>
            BY <1>8 DEF Accept
        <3> QED
            BY <2>1, <3>1, <3>2 DEF Framed, Gains
    <2>3. Good(a)'
        <3>1. /\ Message("delegate", a) \in net /\ UNCHANGED <<call, ledger>>
              /\ Message("delegate", a) \notin net'
            BY <1>8, MessagesApart DEF Accept, Send
        <3>2. Good(a) /\ call[a] \notin {"idle", "sending"}
            BY <1>0, <3>1 DEF Good, Unsent
        <3>3. \A k \in Settled : Message(k, a) \in net' => k = "refused"
            BY <2>1, <3>1, <3>2 DEF Gains, Good, Untold
        <3>4. CASE /\ task' = [task EXCEPT ![a] = "running"]
                   /\ Send(net \ {Message("delegate", a)}, Message("running", a))
            <4>1. Gains(a, {"running"})
                BY <3>4, SendReaches
            <4>2. task'[a] = "running"
                BY <3>4 DEF TypeOK
            <4> QED
                BY <3>1, <3>2, <4>1, <4>2 DEF Gains, Good, Unsent, Untold, NoRecord, Posthumous, Past
        <3>5. CASE UNCHANGED <<task, session>>
            BY <3>1, <3>2, <3>5 DEF Good, Unsent, Untold, NoRecord, Posthumous, Past
        <3> QED
            BY <1>8, <3>4, <3>5 DEF Accept
    <2> QED
        BY <2>2, <2>3, LedgerStep
<1>9. ASSUME NEW a \in Attempts, SessionEnds(a) PROVE LedgerInv'
    <2>1. Framed(a)
        BY <1>9 DEF SessionEnds, Framed, TypeOK
    <2>2. Good(a)'
        BY <1>0, <1>9 DEF SessionEnds, Good, Unsent, Untold, NoRecord, Posthumous, Past, TypeOK
    <2> QED
        BY <2>1, <2>2, LedgerStep
<1>10. ASSUME NEW a \in Attempts, VerifierEnds(a) PROVE LedgerInv'
    <2>1. Framed(a)
        BY <1>10 DEF VerifierEnds, Framed, TypeOK
    <2>2. Good(a)'
        BY <1>0, <1>10 DEF VerifierEnds, Good, Unsent, Untold, NoRecord, Posthumous, Past, TypeOK
    <2> QED
        BY <2>1, <2>2, LedgerStep
<1>11. ASSUME NEW a \in Attempts, TickStatus(a) PROVE LedgerInv'
    <2>1. Gains(a, {"running"})
        BY <1>11, OneMessage DEF TickStatus, Gains
    <2>2. Framed(a)
        BY <1>11, <2>1 DEF TickStatus, Framed, Gains, TypeOK
    <2>3. Good(a)'
        BY <1>0, <1>11, <2>1 DEF TickStatus, Gains, Good, Unsent, Untold, NoRecord, Posthumous, Past, TypeOK
    <2> QED
        BY <2>2, <2>3, LedgerStep
<1>12. ASSUME NEW a \in Attempts, TickEnded(a) PROVE LedgerInv'
    <2>1. Gains(a, {"completed", "failed"})
        BY <1>12, SendReaches DEF TickEnded, Gains
    <2>2. Framed(a)
        BY <1>12, <2>1 DEF TickEnded, Framed, Gains, TypeOK
    <2>3. Good(a)'
        <3>1. /\ task[a] = "running" /\ session[a] # "alive"
              /\ UNCHANGED <<call, ledger, session>>
            BY <1>12 DEF TickEnded
        <3>2. Good(a)
            BY <1>0
        <3> QED
            BY <2>1, <3>1, <3>2 DEF Gains, Good, Unsent, Untold, NoRecord, Posthumous, Past
    <2> QED
        BY <2>2, <2>3, LedgerStep
<1>13. ASSUME NEW a \in Attempts, TickVerified(a) PROVE LedgerInv'
    <2>1. Gains(a, {"completed"})
        BY <1>13, SendReaches DEF TickVerified, Gains
    <2>2. Framed(a)
        BY <1>13, <2>1 DEF TickVerified, Framed, Gains, TypeOK
    <2>3. Good(a)'
        BY <1>0, <1>13, <2>1 DEF TickVerified, Gains, Good, Unsent, Untold, NoRecord, Posthumous, Past, TypeOK
    <2> QED
        BY <2>2, <2>3, LedgerStep
<1>14. ASSUME NEW a \in Attempts, HandleStop(a) PROVE LedgerInv'
    <2>1. Gains(a, {"failed"})
        BY <1>14, SendReaches DEF HandleStop, Gains
    <2>2. Framed(a)
        BY <1>14, <2>1 DEF HandleStop, Framed, Gains, TypeOK
    <2>3. Good(a)'
        <3>1. UNCHANGED <<call, ledger>>
            BY <1>14 DEF HandleStop
        <3>2. Good(a)
            BY <1>0
        <3>3. CASE UNCHANGED <<task, session>> /\ net' = net \ {Message("stop", a)}
            BY <3>1, <3>2, <3>3 DEF Good, Unsent, Untold, NoRecord, Posthumous, Past
        <3>4. CASE task[a] # "none"
                   /\ session' = [session EXCEPT ![a] = IF @ = "alive" THEN "killed" ELSE @]
            <4>1. session'[a] # "alive"
                BY <3>4 DEF TypeOK
            <4> QED
                BY <2>1, <3>1, <3>2, <3>4, <4>1 DEF Gains, Good, Unsent, Untold, NoRecord, Posthumous, Past
        <3> QED
            BY <1>14, <3>3, <3>4 DEF HandleStop
    <2> QED
        BY <2>2, <2>3, LedgerStep
<1>15. ASSUME NEW a \in Attempts, HandleNudge(a) PROVE LedgerInv'
    <2>1. Gains(a, {"running"})
        BY <1>15, OneMessage DEF HandleNudge, Gains
    <2>2. Framed(a)
        BY <1>15, <2>1 DEF HandleNudge, Framed, Gains, TypeOK
    <2>3. Good(a)'
        BY <1>0, <1>15, <2>1 DEF HandleNudge, Gains, Good, Unsent, Untold, NoRecord, Posthumous, Past, TypeOK
    <2> QED
        BY <2>2, <2>3, LedgerStep
<1>16. ASSUME NEW a \in Attempts, Cleanup(a) PROVE LedgerInv'
    <2>1. Framed(a)
        BY <1>16 DEF Cleanup, Framed, TypeOK
    <2>2. Good(a)'
        BY <1>0, <1>16 DEF Cleanup, Good, Unsent, Untold, NoRecord, Posthumous, Past, TypeOK
    <2> QED
        BY <2>1, <2>2, LedgerStep
<1>17. ASSUME NEW m \in net, Apply(m) PROVE LedgerInv'
    <2>1. m \in Messages /\ m.about \in Attempts /\ m = Message(m.kind, m.about)
        BY MessageTyped, MessageFields DEF TypeOK
    <2>2. m.kind \in Reports /\ net' \subseteq net /\ UNCHANGED <<call, task, session>>
        BY <1>17 DEF Apply, PeerUnchanged
    <2>3. \A b \in Attempts :
            ledger'[b] = IF b = m.about /\ ledger[b] \in {"delegated", "running"} THEN m.kind ELSE ledger[b]
        BY <1>17, <2>1 DEF Apply, TypeOK
    <2> QED
        BY <2>1, <2>2, <2>3 DEF LedgerInv, Good, Unsent, Untold, NoRecord, Posthumous, Past
<1>18. CASE Restart
    <2>1. net' \subseteq net /\ UNCHANGED <<call, ledger, session>>
        BY <1>18 DEF Restart
    <2>2. \A a \in Attempts : task'[a] = "none"
        BY <1>18 DEF Restart
    <2> QED
        BY <2>1, <2>2 DEF LedgerInv, Good, Unsent, Untold, NoRecord, Posthumous, Past
<1>19. CASE UNCHANGED vars
    BY <1>19 DEF vars, LedgerInv, Good, Unsent, Untold, NoRecord, Posthumous, Past
<1> QED
    BY <1>1, <1>2, <1>3, <1>4, <1>5, <1>6, <1>7, <1>8, <1>9, <1>10, <1>11, <1>12, <1>13, <1>14,
       <1>15, <1>16, <1>17, <1>18, <1>19 DEF Next

LEMMA LedgerStart == Init => LedgerInv
BY DEF Init, LedgerInv, Good, Unsent, Untold, NoRecord, Posthumous, Past, Reports, Settled

-----------------------------------------------------------------------------
(***************************************************************************)
(* The refinement.  What the supervisor and the user do are calls, entries *)
(* and withdrawals; what the peer does to a session begins or finishes     *)
(* work; a report that is applied settles; every other step is a stutter.  *)
(***************************************************************************)
Book(a) == IF ledger[a] \in {"delegated", "running"} THEN "open" ELSE ledger[a]

BookMap == [a \in Attempts |-> Book(a)]
CallingMap == {a \in Attempts : call[a] \in {"sending", "waiting"}}
AtWorkMap == {a \in Attempts : session[a] = "alive"}

LEMMA Mapped ==
    /\ Promise!Init <=> BookMap = [a \in Attempts |-> "none"] /\ CallingMap = {} /\ AtWorkMap = {}
    /\ \A a \in Attempts : CallingMap' = CallingMap \cup {a} /\ BookMap' = BookMap /\ AtWorkMap' = AtWorkMap
            => Promise!Next
    /\ \A a \in Attempts : CallingMap' = CallingMap \ {a} /\ BookMap' = BookMap /\ AtWorkMap' = AtWorkMap
            => Promise!Next
    /\ \A a \in Attempts : BookMap[a] = "none" /\ BookMap' = [BookMap EXCEPT ![a] = "open"]
            /\ CallingMap' \in {CallingMap \cup {a}, CallingMap \ {a}} /\ AtWorkMap' = AtWorkMap
            => Promise!Next
    /\ \A a \in Attempts : a \in CallingMap /\ BookMap' = [BookMap EXCEPT ![a] = "none"]
            /\ CallingMap' = CallingMap \ {a} /\ AtWorkMap' = AtWorkMap
            => Promise!Next
    /\ \A a \in Attempts : BookMap[a] \notin Settled /\ AtWorkMap' = AtWorkMap \cup {a}
            /\ BookMap' = BookMap /\ CallingMap' = CallingMap
            => Promise!Next
    /\ \A a \in Attempts : AtWorkMap' = AtWorkMap \ {a} /\ BookMap' = BookMap /\ CallingMap' = CallingMap
            => Promise!Next
    /\ \A a \in Attempts : \A o \in Settled :
            BookMap[a] = "open" /\ a \notin AtWorkMap /\ BookMap' = [BookMap EXCEPT ![a] = o]
            /\ CallingMap' = CallingMap /\ AtWorkMap' = AtWorkMap
            => Promise!Next
BY DEF BookMap, Book, CallingMap, AtWorkMap, Settled, Promise!Init, Promise!Next, Promise!Call,
       Promise!Return, Promise!Enter, Promise!Withdraw, Promise!Begin, Promise!Finish,
       Promise!Settle, Promise!Outcomes

MapVars == <<BookMap, CallingMap, AtWorkMap>>

LEMMA LedgerRefines == TypeOK /\ LedgerInv /\ [Next]_vars => [Promise!Next]_MapVars
<1> SUFFICES ASSUME TypeOK, LedgerInv, Next PROVE [Promise!Next]_MapVars
    BY DEF vars, MapVars, BookMap, Book, CallingMap, AtWorkMap
<1> USE Mapped DEF MapVars
<1>0. \A a \in Attempts : Good(a)
    BY DEF LedgerInv
<1>b. ASSUME UNCHANGED ledger PROVE BookMap' = BookMap
    BY <1>b DEF BookMap, Book
<1>c. ASSUME UNCHANGED call PROVE CallingMap' = CallingMap
    BY <1>c DEF CallingMap
<1>w. ASSUME UNCHANGED session PROVE AtWorkMap' = AtWorkMap
    BY <1>w DEF AtWorkMap
<1>1. ASSUME NEW a \in Attempts, CommandSends(a) PROVE [Promise!Next]_MapVars
    <2>1. CallingMap' = CallingMap \cup {a} \/ CallingMap' = CallingMap \ {a}
        BY <1>1 DEF CommandSends, CallingMap, TypeOK
    <2> QED
        BY <1>1, <1>b, <1>w, <2>1 DEF CommandSends, PeerUnchanged
<1>2. ASSUME NEW a \in Attempts, CommandRecords(a) PROVE [Promise!Next]_MapVars
    <2>1. CallingMap' = CallingMap \ {a}
        BY <1>2 DEF CommandRecords, CallingMap, TypeOK
    <2>2. CASE UNCHANGED ledger
        BY <1>2, <1>b, <1>w, <2>1, <2>2 DEF CommandRecords, PeerUnchanged
    <2>3. CASE ledger' = [ledger EXCEPT ![a] = "delegated"]
        <3>1. ledger[a] = "none"
            BY <1>0, <1>2 DEF CommandRecords, Good, NoRecord
        <3>2. BookMap[a] = "none" /\ BookMap' = [BookMap EXCEPT ![a] = "open"]
            BY <2>3, <3>1 DEF BookMap, Book, TypeOK
        <3> QED
            BY <1>2, <1>w, <2>1, <3>2 DEF CommandRecords, PeerUnchanged
    <2> QED
        BY <1>2, <2>2, <2>3 DEF CommandRecords
<1>3. ASSUME NEW a \in Attempts, SupervisorRecords(a) PROVE [Promise!Next]_MapVars
    <2>1. CallingMap' = CallingMap \cup {a}
        BY <1>3 DEF SupervisorRecords, CallingMap, TypeOK
    <2>2. ledger[a] = "none"
        BY <1>0, <1>3 DEF SupervisorRecords, Good, NoRecord
    <2>3. BookMap[a] = "none" /\ BookMap' = [BookMap EXCEPT ![a] = "open"]
        BY <1>3, <2>2 DEF SupervisorRecords, BookMap, Book, TypeOK
    <2> QED
        BY <1>3, <1>w, <2>1, <2>3 DEF SupervisorRecords, PeerUnchanged
<1>4. ASSUME NEW a \in Attempts, SupervisorSends(a) PROVE [Promise!Next]_MapVars
    <2>1. CallingMap' = CallingMap
        BY <1>4 DEF SupervisorSends, CallingMap, TypeOK
    <2> QED
        BY <1>4, <1>b, <1>w, <2>1 DEF SupervisorSends, PeerUnchanged
<1>5. ASSUME NEW a \in Attempts, SupervisorReturns(a) PROVE [Promise!Next]_MapVars
    <2>1. a \in CallingMap /\ CallingMap' = CallingMap \ {a}
        BY <1>5 DEF SupervisorReturns, CallingMap, TypeOK
    <2>2. CASE UNCHANGED ledger
        BY <1>5, <1>b, <1>w, <2>1, <2>2 DEF SupervisorReturns, PeerUnchanged
    <2>3. CASE ledger' = [ledger EXCEPT ![a] = "none"]
        <3>1. BookMap' = [BookMap EXCEPT ![a] = "none"]
            BY <2>3 DEF BookMap, Book, TypeOK
        <3> QED
            BY <1>5, <1>w, <2>1, <3>1 DEF SupervisorReturns, PeerUnchanged
    <2> QED
        BY <1>5, <2>2, <2>3 DEF SupervisorReturns
<1>6. ASSUME NEW a \in Attempts, GiveUp(a) PROVE [Promise!Next]_MapVars
    <2>1. CallingMap' = CallingMap
        BY <1>6 DEF GiveUp, CallingMap, TypeOK
    <2> QED
        BY <1>6, <1>b, <1>w, <2>1 DEF GiveUp, PeerUnchanged
<1>7. ASSUME NEW a \in Attempts, UserInterrupts(a) PROVE [Promise!Next]_MapVars
    BY <1>7, <1>b, <1>c, <1>w DEF UserInterrupts, PeerUnchanged
<1>8. ASSUME NEW a \in Attempts, Accept(a) PROVE [Promise!Next]_MapVars
    <2>1. CASE UNCHANGED session
        BY <1>8, <1>b, <1>c, <1>w, <2>1 DEF Accept
    <2>2. CASE session' = [session EXCEPT ![a] = "alive"]
        <3>1. AtWorkMap' = AtWorkMap \cup {a}
            BY <2>2 DEF AtWorkMap, TypeOK
        <3>2. BookMap[a] \notin Settled
            BY <1>0, <1>8 DEF Accept, Good, Untold, BookMap, Book, Settled
        <3> QED
            BY <1>8, <1>b, <1>c, <3>1, <3>2 DEF Accept
    <2> QED
        BY <1>8, <2>1, <2>2 DEF Accept
<1>9. ASSUME NEW a \in Attempts, SessionEnds(a) PROVE [Promise!Next]_MapVars
    <2>1. PICK how \in {"ok", "bad"} : session' = [session EXCEPT ![a] = how]
        BY <1>9 DEF SessionEnds
    <2>2. AtWorkMap' = AtWorkMap \ {a}
        BY <2>1 DEF AtWorkMap, TypeOK
    <2> QED
        BY <1>9, <1>b, <1>c, <2>2 DEF SessionEnds
<1>10. ASSUME NEW a \in Attempts, VerifierEnds(a) PROVE [Promise!Next]_MapVars
    BY <1>10, <1>b, <1>c, <1>w DEF VerifierEnds
<1>11. ASSUME NEW a \in Attempts, TickStatus(a) PROVE [Promise!Next]_MapVars
    BY <1>11, <1>b, <1>c, <1>w DEF TickStatus
<1>12. ASSUME NEW a \in Attempts, TickEnded(a) PROVE [Promise!Next]_MapVars
    BY <1>12, <1>b, <1>c, <1>w DEF TickEnded
<1>13. ASSUME NEW a \in Attempts, TickVerified(a) PROVE [Promise!Next]_MapVars
    BY <1>13, <1>b, <1>c, <1>w DEF TickVerified
<1>14. ASSUME NEW a \in Attempts, HandleStop(a) PROVE [Promise!Next]_MapVars
    <2>1. CASE UNCHANGED session
        BY <1>14, <1>b, <1>c, <1>w, <2>1 DEF HandleStop
    <2>2. CASE session' = [session EXCEPT ![a] = IF @ = "alive" THEN "killed" ELSE @]
        <3>1. /\ session'[a] # "alive"
              /\ \A b \in Attempts : b # a => session'[b] = session[b]
            BY <2>2 DEF TypeOK
        <3>2. AtWorkMap' = AtWorkMap \ {a}
            BY <3>1 DEF AtWorkMap
        <3> QED
            BY <1>14, <1>b, <1>c, <3>2 DEF HandleStop
    <2> QED
        BY <1>14, <2>1, <2>2 DEF HandleStop
<1>15. ASSUME NEW a \in Attempts, HandleNudge(a) PROVE [Promise!Next]_MapVars
    BY <1>15, <1>b, <1>c, <1>w DEF HandleNudge
<1>16. ASSUME NEW a \in Attempts, Cleanup(a) PROVE [Promise!Next]_MapVars
    BY <1>16, <1>b, <1>c, <1>w DEF Cleanup
<1>17. ASSUME NEW m \in net, Apply(m) PROVE [Promise!Next]_MapVars
    <2>1. m.about \in Attempts /\ m = Message(m.kind, m.about) /\ m.kind \in {"running"} \cup Settled
        BY <1>17, MessageTyped, MessageFields DEF TypeOK, Apply, Reports
    <2> DEFINE a == m.about
    <2>2. UNCHANGED <<call, session>>
        BY <1>17 DEF Apply, PeerUnchanged
    <2>3. CASE ledger[a] \in {"delegated", "running"} /\ m.kind \in Settled
        <3>1. a \notin AtWorkMap
            BY <1>0, <2>1, <2>3 DEF Good, Posthumous, AtWorkMap
        <3>2. BookMap[a] = "open" /\ BookMap' = [BookMap EXCEPT ![a] = m.kind]
            BY <1>17, <2>1, <2>3 DEF Apply, BookMap, Book, TypeOK, Settled
        <3> QED
            BY <1>c, <1>w, <2>1, <2>2, <2>3, <3>1, <3>2
    <2>4. CASE ~ (ledger[a] \in {"delegated", "running"} /\ m.kind \in Settled)
        <3>1. BookMap' = BookMap
            BY <1>17, <2>1, <2>4 DEF Apply, BookMap, Book, TypeOK, Settled
        <3> QED
            BY <1>c, <1>w, <2>2, <3>1
    <2> QED
        BY <2>3, <2>4
<1>18. CASE Restart
    BY <1>18, <1>b, <1>c, <1>w DEF Restart
<1> QED
    BY <1>1, <1>2, <1>3, <1>4, <1>5, <1>6, <1>7, <1>8, <1>9, <1>10, <1>11, <1>12, <1>13, <1>14,
       <1>15, <1>16, <1>17, <1>18 DEF Next

\* The delegating host's record keeps the ledger's promise: entered once,
\* settled only when the peer's session is over, and for good
\* (relay/tasks.rs, relay/worker.rs).
THEOREM LedgerKept == Spec => ImplementsLedger
<1>1. Init => LedgerInv /\ Promise!Init
    BY LedgerStart, Mapped DEF Init, BookMap, Book, CallingMap, AtWorkMap
<1>2. TypeOK /\ LedgerInv /\ [Next]_vars => LedgerInv'
    BY LedgerNext
<1>3. TypeOK /\ LedgerInv /\ [Next]_vars => [Promise!Next]_MapVars
    BY LedgerRefines
<1> QED
    BY Typed, <1>1, <1>2, <1>3, PTL
       DEF Spec, ImplementsLedger, Promise!Spec, MapVars, BookMap, Book, CallingMap, AtWorkMap
=============================================================================
