------------------------------ MODULE MCHiveSync ------------------------------
(* Small instances of HiveSync for TLC.                                     *)
EXTENDS HiveSync

CONSTANTS h, j1, j2, k

(* What the second joiner distils is the best there is.                    *)
SecondBest == [m \in Machines |-> IF m = j2 THEN 2 ELSE 1]
===============================================================================
