-------------------------- MODULE MCTaskSupervisor --------------------------
(* Small instances of TaskSupervisor for TLC.                              *)
EXTENDS TaskSupervisor, TLC

CONSTANTS t1, t2, p1, p2

NoDeps == [t \in Tasks |-> {}]
(* t2 starts only once t1 is DONE.                                         *)
Chain == [t \in Tasks |-> IF t = t2 THEN {t1} ELSE {}]

HereOnly == [t \in Tasks |-> {Here}]
Anywhere == [t \in Tasks |-> Machines]

(* The first task may go anywhere, the one after it stays here.            *)
FirstAnywhere == [t \in Tasks |-> IF t = t1 THEN Machines ELSE {Here}]

OneVerifier == [t \in Tasks |-> 1]
(* A task auto_route may hand to a role declares none.                     *)
FirstVerified == [t \in Tasks |-> IF t = t1 THEN 1 ELSE 0]
NoVerifiers == [t \in Tasks |-> 0]

AllPoints ==
    {<<"assign", "publish">>, <<"assign", "stamp">>, <<"assign", "commit">>,
     <<"spawn", "launch">>, <<"spawn", "record">>, <<"spawn", "commit">>,
     <<"delegate", "send">>, <<"delegate", "commit">>,
     <<"verify", "verifying">>, <<"verify", "verdict">>,
     <<"resume", "resume">>, <<"resume", "resuming">>}
(* The points whose loss the ledger can show: all but the ones between an  *)
(* outside effect and the write that records it.                           *)
RecordedPoints ==
    AllPoints \ {<<"assign", "stamp">>, <<"assign", "commit">>,
                 <<"spawn", "record">>, <<"delegate", "commit">>}
(* A placement written down whose session or message never follows.        *)
PlacedPoints == {<<"spawn", "launch">>, <<"delegate", "send">>}
NoPoints == {}
=============================================================================
