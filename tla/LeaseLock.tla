----------------------------- MODULE LeaseLock -----------------------------
(***************************************************************************)
(* What the lease store promises, with queues, clocks, sweeps and lost     *)
(* answers left out: a lease is granted at most once, never while another  *)
(* owner's exclusive lease on an overlapping resource is active, and once  *)
(* it has ended it stays ended.  CoordLeases is shown to implement this.   *)
(***************************************************************************)
CONSTANTS Claims, Conflicts   \* Conflicts: the pairs of claims that exclude each other

Excludes(c, d) == <<c, d>> \in Conflicts \/ <<d, c>> \in Conflicts

VARIABLE status   \* status[c]: the `status` column of the lease c asks for

LeaseStatus == {"none", "active", "expired", "released"}

Init == status = [c \in Claims |-> "none"]

Grant(c) ==
    /\ status[c] = "none"
    /\ \A d \in Claims : status[d] = "active" => ~Excludes(c, d)
    /\ status' = [status EXCEPT ![c] = "active"]

Release(c) ==
    /\ status[c] = "active"
    /\ status' = [status EXCEPT ![c] = "released"]

(* One sweep may expire several leases.                                    *)
Expire(E) ==
    /\ \A c \in E : status[c] = "active"
    /\ status' = [c \in Claims |-> IF c \in E THEN "expired" ELSE status[c]]

Next == \/ \E c \in Claims : Grant(c) \/ Release(c)
        \/ \E E \in SUBSET Claims : Expire(E)

Spec == Init /\ [][Next]_status
=============================================================================
