--------------------------- MODULE TaskLifecycle ---------------------------
(***************************************************************************)
(* What the fleet supervisor promises about a task, with everything that   *)
(* brings it about left out: which states a task may move between, that a  *)
(* terminal state is never left, and that a task leaves PENDING for work   *)
(* only when everything it depends on is DONE.  TaskSupervisor is shown to *)
(* implement this specification.                                           *)
(***************************************************************************)

CONSTANTS Tasks,      \* the submitted tasks
          DependsOn   \* DependsOn[t]: the tasks t names in depends_on

VARIABLE state        \* state[t]: the `state` column of the row of task t

(* READY is a parseable state that no code path writes, so it is left out. *)
TaskState == {"PENDING", "ASSIGNED", "RUNNING", "VERIFYING", "DONE",
              "RETRYING", "RESUMING", "NEEDS_HUMAN", "CANCELLED"}

IsTerminal(q) == q \in {"DONE", "NEEDS_HUMAN", "CANCELLED"}

(* The moves of the working states; any of them may also go to a person or *)
(* be cancelled.                                                           *)
WorkEdges == {<<"PENDING", "ASSIGNED">>, <<"PENDING", "RUNNING">>,
              <<"ASSIGNED", "RUNNING">>, <<"RETRYING", "RUNNING">>,
              <<"RUNNING", "VERIFYING">>, <<"RUNNING", "RESUMING">>,
              <<"RESUMING", "PENDING">>, <<"VERIFYING", "RETRYING">>,
              <<"VERIFYING", "DONE">>}

Depended(t) == \A d \in DependsOn[t] : state[d] = "DONE"

Init == state = [t \in Tasks |-> "PENDING"]

Work(t, q) ==
    /\ <<state[t], q>> \in WorkEdges
    /\ Depended(t)
    /\ state' = [state EXCEPT ![t] = q]

(* A person takes the task, or cancels it.                                 *)
Leave(t, q) ==
    /\ ~IsTerminal(state[t])
    /\ q \in {"NEEDS_HUMAN", "CANCELLED"}
    /\ state' = [state EXCEPT ![t] = q]

Next == \E t \in Tasks, q \in TaskState : Work(t, q) \/ Leave(t, q)

Spec == Init /\ [][Next]_state
=============================================================================
