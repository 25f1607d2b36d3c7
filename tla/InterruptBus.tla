----------------------------- MODULE InterruptBus -----------------------------
(***************************************************************************)
(* The interrupts of coord.db (coord/interrupt_bus.rs, coord/store.rs):     *)
(* commands and the headless loop raise them for a Claude Code session, and *)
(* each dashboard, once a refresh, types the deliverable ones into its      *)
(* terminal and records how that went.  Typing and recording are apart, and *)
(* every database call is a transaction of its own.                         *)
(*                                                                          *)
(* A pass works on sessions scanned anew (runtime/orchestrator.rs), of      *)
(* which it knows the file and not the state.                               *)
(***************************************************************************)
EXTENDS Naturals, FiniteSets

CONSTANTS
    Interrupts,    \* what may be raised
    Raisers,       \* the processes that raise, one interrupt at a time
    RaisedBy,
    Target,        \* the session of each interrupt
    Key,           \* its dedupe_key, or NoKey
    NoKey,
    Mode,          \* its delivery_mode
    Expiring,      \* interrupts with an expires_at
    Rank,          \* place in the order of a pass: priority, then age
    Dashboards,
    MaxRetries,    \* max_retries of every interrupt
    MaxFaults      \* bound: dashboards that die within a pass, records that fail

Sessions == {Target[i] : i \in Interrupts}

ASSUME InterruptAssumption ==
    /\ RaisedBy \in [Interrupts -> Raisers]
    /\ Mode \in [Interrupts -> {"immediate", "safe_boundary", "waiting_only", "manual_review"}]
    /\ Expiring \subseteq Interrupts
    /\ Rank \in [Interrupts -> Nat] /\ \A i, j \in Interrupts : Rank[i] = Rank[j] => i = j
    /\ IsFiniteSet(Dashboards)
    /\ MaxRetries \in Nat \ {0} /\ MaxFaults \in Nat

VARIABLES
    row,        \* of each interrupt: its state, retry_count, is next_retry_at ahead
    due,        \* expires_at: "ahead", "now" or "past"
    raising,    \* of each raiser, the interrupts whose duplicate test passed
    pass,       \* of each dashboard
    session,    \* what each session is doing
    terminal,   \* the terminal program
    typed,      \* how often an interrupt was typed into its session (history)
    failed,     \* how often typing it failed (history)
    faults

vars == <<row, due, raising, pass, session, terminal, typed, failed, faults>>
history == <<typed, failed, faults>>

Active == {"pending", "delivered"}
States == Active \cup {"none", "refused", "acknowledged", "expired"}
Resting == [at |-> "idle", sees |-> {}, todo |-> {}, count |-> 0]

TypeOK ==
    /\ row \in [Interrupts -> [state : States, retries : 0 .. MaxRetries, later : BOOLEAN]]
    /\ due \in [Interrupts -> {"ahead", "now", "past"}]
    /\ raising \in [Raisers -> SUBSET Interrupts]
    /\ pass \in [Dashboards ->
          [at : {"idle", "scanned", "choosing", "typed", "failed", "counted"},
           sees : SUBSET Sessions, todo : SUBSET Interrupts, count : 0 .. MaxRetries]]
    /\ session \in [Sessions -> {"waiting", "in tool", "gone"}]
    /\ terminal \in {"kitty", "tmux"}
    /\ typed \in [Interrupts -> Nat] /\ failed \in [Interrupts -> Nat]
    /\ faults \in 0 .. MaxFaults

Init ==
    /\ row = [i \in Interrupts |-> [state |-> "none", retries |-> 0, later |-> FALSE]]
    /\ due = [i \in Interrupts |-> "ahead"]
    /\ raising = [r \in Raisers |-> {}]
    /\ pass = [d \in Dashboards |-> Resting]
    /\ session = [s \in Sessions |-> "waiting"]
    /\ terminal \in {"kitty", "tmux"}
    /\ typed = [i \in Interrupts |-> 0] /\ failed = typed
    /\ faults = 0

-----------------------------------------------------------------------------
(* Raising and acknowledging.                                               *)

(* find_duplicate_interrupt.                                                *)
Duplicate(i) ==
    Key[i] # NoKey /\ \E j \in Interrupts : Key[j] = Key[i] /\ row[j].state \in Active

(* The duplicate test is one statement and the insert another.              *)
FindDuplicate(r) ==
    /\ raising[r] = {}
    /\ \E i \in Interrupts :
        /\ RaisedBy[i] = r /\ row[i].state = "none"
        /\ IF Duplicate(i)
           THEN row' = [row EXCEPT ![i].state = "refused"] /\ UNCHANGED raising
           ELSE raising' = [raising EXCEPT ![r] = {i}] /\ UNCHANGED row
    /\ UNCHANGED <<due, pass, session, terminal, history>>
Insert(r) ==
    /\ raising[r] # {}
    /\ row' = [i \in Interrupts |->
                  IF i \in raising[r] THEN [row[i] EXCEPT !.state = "pending"] ELSE row[i]]
    /\ raising' = [raising EXCEPT ![r] = {}]
    /\ UNCHANGED <<due, pass, session, terminal, history>>

(* mark_interrupt_acknowledged; only a delivered one is.                    *)
Acknowledge(i) ==
    /\ row[i].state = "delivered"
    /\ row' = [row EXCEPT ![i].state = "acknowledged"]
    /\ UNCHANGED <<due, raising, pass, session, terminal, history>>

-----------------------------------------------------------------------------
(* A pass: deliver_pending.                                                 *)

(* resolve_live: the sessions with a file; one that is gone may still have  *)
(* one.  Their status is what ClaudeSession::from_raw gives every session.  *)
Scan(d) ==
    /\ pass[d].at = "idle"
    /\ \E ghosts \in SUBSET {s \in Sessions : session[s] = "gone"} :
         pass' = [pass EXCEPT ![d] =
            [Resting EXCEPT !.at = "scanned",
                            !.sees = ghosts \cup {s \in Sessions : session[s] # "gone"}]]
    /\ UNCHANGED <<row, due, raising, session, terminal, history>>
SeenStatus == "idle"
SeenInTool == FALSE

(* expire_stale_interrupts and expire_exhausted_interrupts.                 *)
IsStale(i) == row[i].state \in Active /\ i \in Expiring /\ due[i] = "past"
Stale(i) == [row[i] EXCEPT !.state = "expired"]
IsExhausted(i) == row[i].state = "pending" /\ row[i].retries >= MaxRetries
Expired == [i \in Interrupts |->
    IF IsStale(i) THEN Stale(i)
    ELSE IF IsExhausted(i) THEN [row[i] EXCEPT !.state = "expired", !.later = FALSE] ELSE row[i]]

(* Mutant of Deliverable: the state is not looked at.                       *)
DeliverableAlways(i, r) ==
    /\ r[i].state \in Active
    /\ i \in Expiring => due[i] = "ahead"
    /\ ~r[i].later /\ r[i].retries < MaxRetries

(* list_deliverable_interrupts.                                             *)
Deliverable(i, r) ==
    /\ r[i].state = "pending"
    /\ i \in Expiring => due[i] = "ahead"
    /\ ~r[i].later /\ r[i].retries < MaxRetries

(* Between its passes a dashboard expires what is stale: coord_refresh.     *)
Refresh(d) ==
    /\ pass[d].at = "idle"
    /\ row' = [i \in Interrupts |-> IF IsStale(i) THEN Stale(i) ELSE row[i]]
    /\ UNCHANGED <<due, raising, pass, session, terminal, history>>

(* The pass expires what it must and lists what it may deliver.             *)
List(d) ==
    /\ pass[d].at = "scanned"
    /\ row' = Expired
    /\ pass' = [pass EXCEPT ![d].at = "choosing",
                            ![d].todo = {i \in Interrupts : Deliverable(i, Expired)}]
    /\ UNCHANGED <<due, raising, session, terminal, history>>

(* Mutant of CanDeliver: a safe boundary is a session that waits.           *)
CanDeliverWhenWaiting(i, status, inTool) ==
    Mode[i] = "immediate" \/ (Mode[i] # "manual_review" /\ status = "waiting")

(* can_deliver.                                                             *)
CanDeliver(i, status, inTool) ==
    CASE Mode[i] = "immediate" -> TRUE
      [] Mode[i] = "waiting_only" -> status = "waiting"
      [] Mode[i] = "manual_review" -> FALSE
      [] OTHER -> status # "processing" \/ ~inTool

(* Of the rest of the list, the interrupt whose turn it is.                 *)
Turn(d, i) == i \in pass[d].todo /\ \A j \in pass[d].todo : Rank[i] <= Rank[j]
Undelivered(d, i) ==
    Target[i] \notin pass[d].sees \/ ~CanDeliver(i, SeenStatus, SeenInTool)

Skip(d) ==
    /\ pass[d].at = "choosing"
    /\ \E i \in Interrupts :
        /\ Turn(d, i) /\ Undelivered(d, i)
        /\ pass' = [pass EXCEPT ![d].todo = @ \ {i}]
    /\ UNCHANGED <<row, due, raising, session, terminal, history>>

(* send_input: kitty finds the window by pid, or fails; tmux looks for a    *)
(* pane whose tty contains the session's, which the scan left empty, and    *)
(* types into the first pane there is, be it the session's or not.          *)
Send(d) ==
    /\ pass[d].at = "choosing"
    /\ \E i \in Interrupts :
        /\ Turn(d, i) /\ ~Undelivered(d, i)
        /\ \/ /\ session[Target[i]] # "gone"
              /\ typed' = [typed EXCEPT ![i] = @ + 1]
              /\ pass' = [pass EXCEPT ![d].at = "typed"]
              /\ UNCHANGED failed
           \/ /\ terminal = "tmux"
              /\ pass' = [pass EXCEPT ![d].at = "typed"]
              /\ UNCHANGED <<typed, failed>>
           \/ /\ failed' = [failed EXCEPT ![i] = @ + 1]
              /\ pass' = [pass EXCEPT ![d].at = "failed"]
              /\ UNCHANGED typed
    /\ UNCHANGED <<row, due, raising, session, terminal, faults>>

Done(d, i) == pass' = [pass EXCEPT ![d].at = "choosing", ![d].todo = @ \ {i}, ![d].count = 0]

(* Mutant of Delivered: whatever the state is by now.                       *)
DeliveredAnyway(i) == [row EXCEPT ![i].state = "delivered", ![i].later = FALSE]

(* mark_interrupt_delivered.                                                *)
Delivered(i) ==
    IF row[i].state = "pending"
    THEN [row EXCEPT ![i].state = "delivered", ![i].later = FALSE] ELSE row

RecordDelivered(d) ==
    /\ pass[d].at = "typed"
    /\ \E i \in Interrupts :
        /\ Turn(d, i)
        /\ row' = Delivered(i)
        /\ Done(d, i)
    /\ UNCHANGED <<due, raising, session, terminal, history>>

(* record_interrupt_delivery_failure reads the row, and then writes it if   *)
(* it is pending still.                                                     *)
ReadFailure(d) ==
    /\ pass[d].at = "failed"
    /\ \E i \in Interrupts :
        /\ Turn(d, i)
        /\ IF row[i].state = "pending"
           THEN pass' = [pass EXCEPT ![d].at = "counted", ![d].count = row[i].retries]
           ELSE Done(d, i)
    /\ UNCHANGED <<row, due, raising, session, terminal, history>>

(* Mutant of Counted: the failure is not counted.                           *)
Uncounted(d) == pass[d].count
(* The retry_count a failure is written with: one more than was read.       *)
Counted(d) == pass[d].count + 1

RecordFailure(d) ==
    /\ pass[d].at = "counted"
    /\ \E i \in Interrupts :
        LET retries == Counted(d) IN
        /\ Turn(d, i)
        /\ Done(d, i)
        /\ row' = IF row[i].state # "pending" THEN row
                  ELSE IF retries >= MaxRetries
                  THEN [row EXCEPT ![i] = [state |-> "expired", retries |-> retries, later |-> FALSE]]
                  ELSE [row EXCEPT ![i] = [state |-> "pending", retries |-> retries, later |-> TRUE]]
    /\ UNCHANGED <<due, raising, session, terminal, history>>

(* The record of what was done is an error, a busy database for one, and is *)
(* let go (`let _ =`).                                                      *)
RecordFails(d) ==
    /\ pass[d].at \in {"typed", "failed", "counted"} /\ faults < MaxFaults
    /\ faults' = faults + 1
    /\ \E i \in Interrupts : Turn(d, i) /\ Done(d, i)
    /\ UNCHANGED <<row, due, raising, session, terminal, typed, failed>>

Finish(d) ==
    /\ pass[d].at = "choosing" /\ pass[d].todo = {}
    /\ pass' = [pass EXCEPT ![d] = Resting]
    /\ UNCHANGED <<row, due, raising, session, terminal, history>>

(* A dashboard dies within a pass, and is started again.                    *)
Crash(d) ==
    /\ pass[d].at # "idle" /\ faults < MaxFaults
    /\ faults' = faults + 1
    /\ pass' = [pass EXCEPT ![d] = Resting]
    /\ UNCHANGED <<row, due, raising, session, terminal, typed, failed>>

-----------------------------------------------------------------------------
(* The sessions and the clock.                                              *)

SessionMoves(s) ==
    /\ session[s] # "gone"
    /\ session' \in {[session EXCEPT ![s] = to] : to \in {"waiting", "in tool", "gone"}}
    /\ UNCHANGED <<row, due, raising, pass, terminal, history>>

Deadline(i) ==
    /\ i \in Expiring /\ row[i].state # "none" /\ due[i] # "past"
    /\ due' = [due EXCEPT ![i] = IF @ = "ahead" THEN "now" ELSE "past"]
    /\ UNCHANGED <<row, raising, pass, session, terminal, history>>

(* A back-off, 30 s at least, outlasts every pass that was under way.       *)
RetryDue(i) ==
    /\ row[i].later
    /\ \A d \in Dashboards : i \notin pass[d].todo
    /\ row' = [row EXCEPT ![i].later = FALSE]
    /\ UNCHANGED <<due, raising, pass, session, terminal, history>>

Pass(d) ==
    \/ Scan(d) \/ List(d) \/ Skip(d) \/ Send(d)
    \/ RecordDelivered(d) \/ ReadFailure(d) \/ RecordFailure(d) \/ Finish(d)

Next ==
    \/ \E r \in Raisers : FindDuplicate(r) \/ Insert(r)
    \/ \E d \in Dashboards : Pass(d) \/ Refresh(d) \/ RecordFails(d) \/ Crash(d)
    \/ \E i \in Interrupts : Acknowledge(i) \/ Deadline(i) \/ RetryDue(i)
    \/ \E s \in Sessions : SessionMoves(s)

Spec == Init /\ [][Next]_vars

(* A dashboard refreshes for as long as it is open, and time passes.        *)
FairSpec ==
    /\ Spec
    /\ \A d \in Dashboards : WF_vars(Pass(d))
    /\ \A i \in Interrupts : WF_vars(Deadline(i)) /\ WF_vars(RetryDue(i))

-----------------------------------------------------------------------------
(* Properties.                                                              *)

(* Dashboards do not see each other type: an interrupt may be typed once by *)
(* each, and once more for each record that was lost or died with its       *)
(* dashboard, but never again by a later pass (interrupt_bus.rs:44).        *)
TypedOnceEach ==
    \A i \in Interrupts : typed[i] <= Cardinality(Dashboards) + faults

(* Failures counted from one reading are counted once, so every retry may   *)
(* cost one attempt of each dashboard, but no more (store.rs:1451).         *)
AttemptsBounded ==
    \A i \in Interrupts : typed[i] + failed[i] <= Cardinality(Dashboards) * MaxRetries + faults

(* An interrupt only moves forward: a pass that is late neither revives one *)
(* that expired nor takes back an acknowledgement (store.rs:1439).          *)
Lifecycle ==
    [][\A i \in Interrupts :
        row'[i].state # row[i].state =>
            <<row[i].state, row'[i].state>> \in
                {<<"none", "pending">>, <<"none", "refused">>, <<"pending", "delivered">>,
                 <<"pending", "expired">>, <<"delivered", "expired">>,
                 <<"delivered", "acknowledged">>}]_vars

(* An interrupt with a deadline, or one for a session that stays open and a *)
(* mode the dashboards deliver, does not stay pending (interrupt_bus.rs).   *)
Settles ==
    \A i \in Interrupts :
        \/ i \notin Expiring /\ Mode[i] \in {"waiting_only", "manual_review"}
        \/ row[i].state = "pending" ~>
               row[i].state # "pending" \/ (i \notin Expiring /\ session[Target[i]] = "gone")

(* Nothing is typed into a session at work in a tool unless its mode is     *)
(* immediate (can_deliver: "the agent is not mid-tool-execution").          *)
AtBoundary ==
    [][\A i \in Interrupts :
        typed'[i] > typed[i] /\ Mode[i] # "immediate" => session[Target[i]] # "in tool"]_vars

(* A waiting_only interrupt is delivered to a session that goes on waiting  *)
(* (interrupt_bus.rs: can_deliver_waiting_only_checks_status).              *)
WaitingIsServed ==
    \A i \in Interrupts :
        Mode[i] = "waiting_only" /\ row[i].state = "pending" /\ session[Target[i]] = "waiting"
            ~> row[i].state # "pending" \/ session[Target[i]] # "waiting"

(* What is recorded as delivered was typed into its session (tmux.rs).      *)
ReachesTarget ==
    \A i \in Interrupts : row[i].state = "delivered" => typed[i] > 0

(* One interrupt of a key is active at a time (cli.rs: "Deduplication       *)
(* check").                                                                 *)
OneActivePerKey ==
    \A i, j \in Interrupts :
        i # j /\ Key[i] = Key[j] /\ Key[i] # NoKey
            => row[i].state \notin Active \/ row[j].state \notin Active
===============================================================================
