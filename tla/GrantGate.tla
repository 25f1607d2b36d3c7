----------------------------- MODULE GrantGate -----------------------------
(***************************************************************************)
(* What revoking a grant promises, with files, locks and budgets left out: *)
(* the gate closes once and for good, `access revoke` reports success only *)
(* when it is closed, and a caller that comes after it closed is never     *)
(* honoured.  One that came before may still be, since verification reads  *)
(* the gate a moment later.  AccessGrants is shown to implement this.      *)
(***************************************************************************)
CONSTANTS Callers, Owners

VARIABLES closed,     \* whether the grant has been revoked
          standing,   \* what each caller has been told
          told        \* the revocations reported as done

gate == <<closed, standing, told>>

Init == /\ closed = FALSE
        /\ standing = [c \in Callers |-> "away"]
        /\ told = {}

Arrive(c) ==
    /\ standing[c] = "away"
    /\ standing' = [standing EXCEPT ![c] = IF closed THEN "late" ELSE "waiting"]
    /\ UNCHANGED <<closed, told>>

Honour(c) ==
    /\ standing[c] = "waiting"
    /\ standing' = [standing EXCEPT ![c] = "honoured"]
    /\ UNCHANGED <<closed, told>>

(* A crash may turn several callers away at once.                          *)
TurnAway(C) ==
    /\ \A c \in C : standing[c] \in {"waiting", "late"}
    /\ standing' = [c \in Callers |-> IF c \in C THEN "refused" ELSE standing[c]]
    /\ UNCHANGED <<closed, told>>

Close ==
    /\ closed' = TRUE
    /\ UNCHANGED <<standing, told>>

Report(v) ==
    /\ closed
    /\ told' = told \cup {v}
    /\ UNCHANGED <<closed, standing>>

Next == \/ \E c \in Callers : Arrive(c) \/ Honour(c)
        \/ \E C \in SUBSET Callers : TurnAway(C)
        \/ Close
        \/ \E v \in Owners : Report(v)

Spec == Init /\ [][Next]_gate
=============================================================================
