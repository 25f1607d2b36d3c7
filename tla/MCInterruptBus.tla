---------------------------- MODULE MCInterruptBus ----------------------------
(* Small instances of InterruptBus for TLC.                                 *)
EXTENDS InterruptBus

CONSTANTS i1, i2, a, b, s, k, none

(* Two interrupts of one key, by processes that may race.                   *)
ByEach == [i \in Interrupts |-> IF i = i1 THEN a ELSE b]
ForOne == [i \in Interrupts |-> s]
SameKey == [i \in Interrupts |-> k]
(* A compaction from the headless loop, and a command's own choice.         *)
BoundaryAndWaiting == [i \in Interrupts |-> IF i = i1 THEN "safe_boundary" ELSE "waiting_only"]
InOrder == [i \in Interrupts |-> IF i = i1 THEN 1 ELSE 2]
===============================================================================
