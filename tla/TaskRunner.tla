----------------------------- MODULE TaskRunner -----------------------------
(***************************************************************************)
(* `claudectl --run`: the batch runner that takes a task file and runs its  *)
(* sessions in dependency order, sequentially or in parallel, with retries  *)
(* and an abort.  One loop launches, polls and sleeps; the sessions, the    *)
(* threads that copy their output into log files and the Ctrl-C handler go  *)
(* on beside it.  A prompt may quote the output of a dependency, which is   *)
(* read back from its log.                                                  *)
(*                                                                          *)
(* A line is the task, the attempt and the place it has in what the session *)
(* printed; blanks around a quote, line ends and what a write that fails    *)
(* leaves of a line are not kept apart.  The 32 KB of a quote are counted in *)
(* lines.  The thread of an attempt that is tried again is forgotten: no     *)
(* prompt quotes its log.  A report is modelled by whether it can be written.*)
(* Reading a child's status, starting a thread and printing do not fail.    *)
(***************************************************************************)
EXTENDS Naturals, Sequences, FiniteSets

CONSTANTS
    Order,        \* the task file: its tasks, in order
    DependsOn,    \* the tasks each waits for
    Quotes,       \* the dependencies whose output its prompt quotes
    Remote,       \* tasks that name a peer
    MaxAttempts,  \* of each task: 1 + retries
    Slug,         \* what a task's name comes to in a file name
    MaxCaptured,  \* MAX_CAPTURED_OUTPUT: how much of a log a quote has
    Prints,       \* bound on the lines a session of the task prints
    PumpsKeepUp   \* is a log complete within a poll interval of the exit?

Tasks == {Order[i] : i \in DOMAIN Order}
Logs == {Slug[t] : t \in Tasks} \X Nat
Lines == Tasks \X Nat \X Nat

(* What load_tasks accepts: no cycle, and only dependencies are quoted.    *)
ASSUME RunnerAssumption ==
    /\ Order \in Seq(Tasks)
    /\ DependsOn \in [Tasks -> SUBSET Tasks]
    /\ \A S \in SUBSET Tasks : S # {} => \E t \in S : DependsOn[t] \cap S = {}
    /\ \A t \in Tasks : Quotes[t] \subseteq DependsOn[t]
    /\ Remote \subseteq Tasks
    /\ MaxAttempts \in [Tasks -> Nat \ {0}]
    /\ MaxCaptured \in Nat
    /\ Prints \in [Tasks -> Nat]
    /\ PumpsKeepUp \in BOOLEAN

VARIABLES
    parallel,   \* --parallel
    state,      \* TaskState of each task
    attempts,   \* attempts_started
    backoff,    \* tasks whose next_retry_at is still ahead
    child,      \* the process of the latest attempt
    printed,    \* how many lines that process printed so far
    pump,       \* its stdout thread
    copied,     \* how many of the lines the thread has read
    lost,       \* history: tasks whose log lacks a line that was printed
    log,        \* the log files that exist, and the lines in them
    given,      \* what its prompt quotes
    cancel,     \* cancel_requested
    pc          \* where the loop is

session == <<child, printed, pump, copied, lost>>
vars == <<parallel, state, attempts, backoff, session, log, given, cancel, pc>>

Terminal == {"completed", "failed", "skipped", "aborted"}
Unstarted == {"pending", "retry_queued"}
States == Terminal \cup Unstarted \cup {"running"}

Quote == [of : Tasks, lines : Seq(Lines), cut : BOOLEAN]

TypeOK ==
    /\ parallel \in BOOLEAN
    /\ state \in [Tasks -> States]
    /\ attempts \in [Tasks -> Nat] /\ \A t \in Tasks : attempts[t] <= MaxAttempts[t]
    /\ backoff \subseteq Tasks
    /\ child \in [Tasks -> {"none", "alive", "succeeded", "died"}]
    /\ printed \in [Tasks -> Nat] /\ copied \in [Tasks -> Nat]
    /\ pump \in [Tasks -> {"none", "opening", "reading", "done"}]
    /\ lost \subseteq Tasks
    /\ DOMAIN log \subseteq Logs /\ \A f \in DOMAIN log : log[f] \in Seq(Lines)
    /\ given \in [Tasks -> SUBSET Quote]
    /\ cancel \in BOOLEAN
    /\ pc \in ({"launch", "poll"} \X (1 .. Len(Order) + 1)) \cup ({"top", "done", "dead"} \X {0})

Init ==
    /\ parallel \in BOOLEAN
    /\ state = [t \in Tasks |-> "pending"]
    /\ attempts = [t \in Tasks |-> 0]
    /\ backoff = {}
    /\ child = [t \in Tasks |-> "none"]
    /\ printed = [t \in Tasks |-> 0]
    /\ pump = [t \in Tasks |-> "none"]
    /\ copied = [t \in Tasks |-> 0]
    /\ lost = {}
    /\ log = << >>
    /\ given = [t \in Tasks |-> {}]
    /\ cancel = FALSE
    /\ pc = <<"top", 0>>

-----------------------------------------------------------------------------
(* The loop.                                                                *)

(* The attempt's own log, the last one's once the task is completed.       *)
LogOf(t) == <<Slug[t], attempts[t]>>

(* abort_tasks, when Ctrl-C was seen.                                       *)
Aborted == [t \in Tasks |-> IF cancel /\ state[t] \notin Terminal THEN "aborted" ELSE state[t]]

(* Mutant of WithFailures: only a failed dependency counts, not a skipped   *)
(* or an aborted one.                                                       *)
WithFailed(s) ==
    [t \in Tasks |->
        IF s[t] \in Unstarted /\ \E d \in DependsOn[t] : s[d] = "failed"
        THEN "skipped" ELSE s[t]]

(* mark_dependency_failures, one level of dependants per pass.              *)
WithFailures(s) ==
    [t \in Tasks |->
        IF /\ s[t] \in Unstarted
           /\ \E d \in DependsOn[t] : s[d] \in {"failed", "skipped", "aborted"}
        THEN "skipped" ELSE s[t]]

(* The head of the loop: abort, killing and reaping what runs; then skip   *)
(* what can no longer start.                                                *)
Top ==
    /\ pc[1] = "top"
    /\ state' = WithFailures(Aborted)
    /\ child' = [t \in Tasks |-> IF cancel /\ state[t] = "running" THEN "died" ELSE child[t]]
    /\ pc' = <<"launch", 1>>
    /\ UNCHANGED <<parallel, attempts, backoff, printed, pump, copied, lost, log, given, cancel>>

(* queue_retry, or the end of the task.                                     *)
RetryOrFail(t, started) ==
    IF started < MaxAttempts[t]
    THEN /\ state' = [state EXCEPT ![t] = "retry_queued"]
         /\ backoff' = backoff \cup {t}
    ELSE /\ state' = [state EXCEPT ![t] = "failed"]
         /\ UNCHANGED backoff

(* May the task at hand start now?                                          *)
Ready(t) ==
    /\ state[t] \in Unstarted
    /\ t \notin backoff
    /\ \A d \in DependsOn[t] : state[d] = "completed"
Running == {t \in Tasks : state[t] = "running"}
(* The launch loop is left: aborted, or one session runs and that is all.  *)
StopsLaunching(t) ==
    /\ state[t] \in Unstarted
    /\ cancel \/ (Ready(t) /\ ~parallel /\ Running # {})

(* Mutant of OutputOf: the first attempt's log, whichever attempt completed.*)
FirstOutput(d) == <<Slug[d], 1>>

(* expand_prompt_templates: what the completed attempt's log holds, the     *)
(* first 32 KB of it with a notice that it was cut.                         *)
OutputOf(d) == LogOf(d)
Readable(t) == \A d \in Quotes[t] : OutputOf(d) \in DOMAIN log
TooLong(d) == Len(log[OutputOf(d)]) > MaxCaptured
Quoted(d) ==
    [of |-> d,
     lines |-> IF TooLong(d) THEN SubSeq(log[OutputOf(d)], 1, MaxCaptured) ELSE log[OutputOf(d)],
     cut |-> TooLong(d)]

(* The rest of a step of the launch loop for a task that starts: a task for*)
(* a peer is skipped, one whose quotes cannot be read fails for good, a     *)
(* launch that fails counts as an attempt, without a session or a thread.   *)
SkipRemote(t) ==
    /\ t \in Remote
    /\ state' = [state EXCEPT ![t] = "skipped"]
    /\ UNCHANGED <<attempts, backoff, session, given>>
FailTemplate(t) ==
    /\ t \notin Remote /\ Quotes[t] # {}
    /\ state' = [state EXCEPT ![t] = "failed"]
    /\ UNCHANGED <<attempts, backoff, session, given>>
LaunchSession(t) ==
    /\ t \notin Remote /\ Readable(t)
    /\ state' = [state EXCEPT ![t] = "running"]
    /\ attempts' = [attempts EXCEPT ![t] = @ + 1]
    /\ child' = [child EXCEPT ![t] = "alive"]
    /\ printed' = [printed EXCEPT ![t] = 0]
    /\ pump' = [pump EXCEPT ![t] = "opening"]
    /\ copied' = [copied EXCEPT ![t] = 0]
    /\ lost' = lost \ {t}
    /\ given' = [given EXCEPT ![t] = {Quoted(d) : d \in Quotes[t]}]
    /\ UNCHANGED backoff
LaunchError(t) ==
    /\ t \notin Remote /\ Readable(t)
    /\ attempts' = [attempts EXCEPT ![t] = @ + 1]
    /\ RetryOrFail(t, attempts[t] + 1)
    /\ pump' = [pump EXCEPT ![t] = "none"]
    /\ UNCHANGED <<child, printed, copied, lost, given>>

(* The process ends here and its sessions go on: String::truncate panics    *)
(* where the cut falls inside a character.                                  *)
Die ==
    /\ pc' = <<"dead", 0>>
    /\ UNCHANGED <<state, attempts, backoff, session, given>>
CutPanics(t) ==
    /\ t \notin Remote
    /\ \E d \in Quotes[t] : OutputOf(d) \in DOMAIN log /\ TooLong(d)
    /\ Die

Turn(next) == pc' = next /\ UNCHANGED <<state, attempts, backoff, session, given>>

(* One task of the launch loop.                                             *)
Launch ==
    /\ pc[1] = "launch"
    /\ \/ pc[2] > Len(Order) /\ Turn(<<"poll", 1>>)
       \/ /\ pc[2] <= Len(Order)
          /\ LET t == Order[pc[2]]
                 next == <<"launch", pc[2] + 1>>
             IN IF StopsLaunching(t) THEN Turn(<<"poll", 1>>)
                ELSE IF ~Ready(t) THEN Turn(next)
                ELSE \/ /\ pc' = next
                        /\ SkipRemote(t) \/ FailTemplate(t) \/ LaunchSession(t) \/ LaunchError(t)
                     \/ CutPanics(t)
    /\ UNCHANGED <<parallel, log, cancel>>

(* One task of the poll loop: a session that ended decides the attempt.     *)
Poll ==
    /\ pc[1] = "poll" /\ pc[2] <= Len(Order)
    /\ pc' = <<"poll", pc[2] + 1>>
    /\ LET t == Order[pc[2]] IN
       CASE state[t] = "running" /\ child[t] = "succeeded" ->
              /\ state' = [state EXCEPT ![t] = "completed"]
              /\ UNCHANGED backoff
         [] state[t] = "running" /\ child[t] = "died" -> RetryOrFail(t, attempts[t])
         [] OTHER -> UNCHANGED <<state, backoff>>
    /\ UNCHANGED <<parallel, attempts, session, log, given, cancel>>

(* The end of a pass: write_run_report fails, and run_tasks returns there   *)
(* and then; or all is done; or sleep and go round.                         *)
EndOfPass ==
    /\ pc = <<"poll", Len(Order) + 1>>
    /\ \/ Die
       \/ /\ \A t \in Tasks : state[t] \in Terminal
          /\ Turn(<<"done", 0>>)
       \/ /\ \E t \in Tasks : state[t] \notin Terminal
          /\ PumpsKeepUp => \A t \in Tasks : state[t] = "completed" => pump[t] = "done"
          /\ Turn(<<"top", 0>>)
    /\ UNCHANGED <<parallel, log, cancel>>

-----------------------------------------------------------------------------
(* Beside the loop.                                                         *)

Up == pc[1] \notin {"done", "dead"}
Rest == UNCHANGED <<parallel, state, attempts, backoff, given, cancel, pc>>

(* A session prints a line, and ends, one way or the other.                 *)
PrintLine(t) ==
    /\ child[t] = "alive" /\ printed[t] < Prints[t]
    /\ printed' = [printed EXCEPT ![t] = @ + 1]
    /\ Rest /\ UNCHANGED <<child, pump, copied, lost, log>>
Exit(t) ==
    /\ child[t] = "alive"
    /\ \E how \in {"succeeded", "died"} : child' = [child EXCEPT ![t] = how]
    /\ Rest /\ UNCHANGED <<printed, pump, copied, lost, log>>

(* The stdout thread: creates or truncates the attempt's log, or goes on   *)
(* without one; copies line by line, whether a line can be written or not; *)
(* stops at a line it cannot read or decode, or at the end of the output.  *)
OpenLog(t) ==
    /\ pump[t] = "opening"
    /\ pump' = [pump EXCEPT ![t] = "reading"]
    /\ log' = [f \in DOMAIN log \cup {LogOf(t)} |-> IF f = LogOf(t) THEN << >> ELSE log[f]]
    /\ UNCHANGED <<copied, lost>>
NoLog(t) ==
    /\ pump[t] = "opening"
    /\ pump' = [pump EXCEPT ![t] = "done"]
    /\ lost' = lost \cup {t}
    /\ UNCHANGED <<copied, log>>
LineAhead(t) == pump[t] = "reading" /\ copied[t] < printed[t]
Copy(t) ==
    /\ LineAhead(t)
    /\ copied' = [copied EXCEPT ![t] = @ + 1]
    /\ \/ /\ log' = [log EXCEPT ![LogOf(t)] = Append(@, <<t, attempts[t], copied[t] + 1>>)]
          /\ UNCHANGED lost
       \/ /\ lost' = lost \cup {t}
          /\ UNCHANGED log
    /\ UNCHANGED pump
StopReading(t) ==
    /\ LineAhead(t)
    /\ pump' = [pump EXCEPT ![t] = "done"]
    /\ lost' = lost \cup {t}
    /\ UNCHANGED <<copied, log>>
EndOfOutput(t) ==
    /\ pump[t] = "reading" /\ copied[t] = printed[t] /\ child[t] # "alive"
    /\ pump' = [pump EXCEPT ![t] = "done"]
    /\ UNCHANGED <<copied, lost, log>>
PumpStep(t) ==
    /\ Up
    /\ OpenLog(t) \/ NoLog(t) \/ Copy(t) \/ StopReading(t) \/ EndOfOutput(t)
    /\ Rest /\ UNCHANGED <<child, printed>>

(* The wait before a retry is over.                                         *)
RetryDue(t) ==
    /\ t \in backoff
    /\ backoff' = backoff \ {t}
    /\ UNCHANGED <<parallel, state, attempts, session, log, given, cancel, pc>>

CtrlC ==
    /\ ~cancel /\ Up
    /\ cancel' = TRUE
    /\ UNCHANGED <<parallel, state, attempts, backoff, session, log, given, pc>>

Loop == Top \/ Launch \/ Poll \/ EndOfPass
Next ==
    \/ Loop \/ CtrlC
    \/ \E t \in Tasks : PrintLine(t) \/ Exit(t) \/ PumpStep(t) \/ RetryDue(t)

Spec == Init /\ [][Next]_vars

(* The loop, the threads and the clock go on; a session may run for ever.   *)
FairSpec ==
    /\ Spec
    /\ WF_vars(Loop)
    /\ \A t \in Tasks : WF_vars(PumpStep(t)) /\ WF_vars(RetryDue(t))

-----------------------------------------------------------------------------
(* Properties.                                                              *)

FirstLines(t, n) == [i \in 1 .. n |-> <<t, attempts[t], i>>]
InOrder(t, lines) ==
    /\ \A i \in DOMAIN lines : \E k \in 1 .. printed[t] : lines[i] = <<t, attempts[t], k>>
    /\ \A i, j \in DOMAIN lines : i < j => lines[i][3] < lines[j][3]

(* What a prompt quotes of a dependency is what the attempt that completed *)
(* it printed, to the last line unless the quote says that it is cut, and   *)
(* then as much as fits (expand_prompt_templates).  Where the log lost     *)
(* something, it is still lines of that attempt, in order.                 *)
QuotesWhole ==
    \A t \in Tasks : \A quote \in given[t] :
        LET dep == quote.of IN
        IF dep \in lost THEN InOrder(dep, quote.lines)
        ELSE IF quote.cut
        THEN printed[dep] > MaxCaptured /\ quote.lines = FirstLines(dep, MaxCaptured)
        ELSE quote.lines = FirstLines(dep, printed[dep])

(* The run ends, every task settled and no session left behind, unless the  *)
(* runner itself dies or returns early, or a session goes on for ever and   *)
(* nobody presses Ctrl-C (orchestrator.rs: the loop's end).                 *)
Ends ==
    \/ <>(/\ pc[1] = "done"
          /\ \A t \in Tasks : state[t] \in Terminal /\ child[t] # "alive")
    \/ <>(pc[1] = "dead")
    \/ \E t \in Tasks : <>[](child[t] = "alive" /\ ~cancel)

(* However the process ends, none of its sessions is left running.          *)
NoSessionLeft == ~Up => \A t \in Tasks : child[t] # "alive"
=============================================================================
