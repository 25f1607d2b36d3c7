--------------------------- MODULE MCCoordLeases ---------------------------
(* Small instances of CoordLeases for TLC.                                 *)
EXTENDS CoordLeases, TLC

CONSTANTS c1, c2, c3, s1, s2, s3, dir, file, other

(* Every claim for a session of its own.                                  *)
OwnSession == [c \in Claims |-> CASE c = c1 -> s1 [] c = c2 -> s2 [] OTHER -> s3]

(* Everything asks for one thing, or c1 for a directory that holds the     *)
(* files c2 and c3 ask for.                                                *)
OneResource == [c \in Claims |-> file]
Nested == [c \in Claims |-> CASE c = c1 -> dir [] c = c2 -> file [] OTHER -> other]
NestedOverlaps == {<<r, r>> : r \in {dir, file, other}} \cup
                  {<<dir, file>>, <<file, dir>>, <<dir, other>>, <<other, dir>>}
=============================================================================
