--------------------------- MODULE MCAccessGrants ---------------------------
(* Small instances of AccessGrants for TLC.                                *)
EXTENDS AccessGrants, TLC

CONSTANTS r1, r2, j, v,
          MaxBusy   \* how many of them take part in one behaviour

FewTakePart == Cardinality({p \in Processes : ~At(p, "idle")}) <= MaxBusy

Symmetry == Permutations(Requests)
=============================================================================
