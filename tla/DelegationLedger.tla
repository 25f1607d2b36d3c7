-------------------------- MODULE DelegationLedger --------------------------
(***************************************************************************)
(* What a delegating host is promised about each attempt it hands to a     *)
(* peer: the attempt is on its books, the peer reports how it went, and    *)
(* the outcome that is written first stays, unless the sender, still in    *)
(* its call, takes the attempt back.                                       *)
(***************************************************************************)
CONSTANT Attempts

VARIABLES
    book,       \* "none", "open" or the outcome
    calling,    \* the attempts whose sender has not returned
    atWork      \* the attempts the peer has a session for

Outcomes == {"completed", "failed", "refused"}

Init ==
    /\ book = [a \in Attempts |-> "none"]
    /\ calling = {} /\ atWork = {}

Call(a) == calling' = calling \cup {a} /\ UNCHANGED <<book, atWork>>
Return(a) == calling' = calling \ {a} /\ UNCHANGED <<book, atWork>>

\* The attempt is written down as the call begins or as it ends.
Enter(a) ==
    /\ book[a] = "none"
    /\ book' = [book EXCEPT ![a] = "open"]
    /\ calling' \in {calling \cup {a}, calling \ {a}}
    /\ UNCHANGED atWork

Withdraw(a) ==
    /\ a \in calling
    /\ book' = [book EXCEPT ![a] = "none"]
    /\ calling' = calling \ {a}
    /\ UNCHANGED atWork

Begin(a) ==
    /\ book[a] \notin Outcomes
    /\ atWork' = atWork \cup {a}
    /\ UNCHANGED <<book, calling>>

Finish(a) == atWork' = atWork \ {a} /\ UNCHANGED <<book, calling>>

\* Nothing is settled while the peer is still at it.
Settle(a) ==
    /\ book[a] = "open" /\ a \notin atWork
    /\ \E o \in Outcomes : book' = [book EXCEPT ![a] = o]
    /\ UNCHANGED <<calling, atWork>>

Next == \E a \in Attempts :
            \/ Call(a) \/ Return(a) \/ Enter(a) \/ Withdraw(a)
            \/ Begin(a) \/ Finish(a) \/ Settle(a)

Spec == Init /\ [][Next]_<<book, calling, atWork>>
=============================================================================
