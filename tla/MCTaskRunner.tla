----------------------------- MODULE MCTaskRunner -----------------------------
(* Small instances of TaskRunner for TLC.                                    *)
EXTENDS TaskRunner

CONSTANTS a, b, c, d

(* b and d wait for a, b quotes it; c, for a peer, waits for b.              *)
Listed == <<a, d, b, c>>
Chained == [t \in Tasks |-> CASE t \in {b, d} -> {a} [] t = c -> {b} [] OTHER -> {}]
QuotesFirst == [t \in Tasks |-> IF t = b THEN {a} ELSE {}]
(* Only a's output is quoted, and it may be longer than a quote.            *)
PrintsFirst == [t \in Tasks |-> IF t = a THEN 2 ELSE 0]
RetryFirst == [t \in Tasks |-> IF t = a THEN 2 ELSE 1]
OwnSlug == [t \in Tasks |-> t]
(* Two names that differ in case or punctuation only.                       *)
SharedSlug == [t \in Tasks |-> IF t = d THEN a ELSE t]
===============================================================================
