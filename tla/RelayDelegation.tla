--------------------------- MODULE RelayDelegation ---------------------------
(***************************************************************************)
(* Delegation over the relay: the ledger of the host that delegates        *)
(* (relay/tasks.rs), the commands that write it (relay/cli.rs for the      *)
(* user's, coord/remote.rs for the supervisor's), the worker on the peer   *)
(* (relay/worker.rs) and the messages between them.                        *)
(*                                                                         *)
(* A command dials a connection of its own and a reply takes whatever link *)
(* is up, so messages overtake each other; one sent while no link is up is *)
(* lost.  The worker's map is memory: a relay that restarts has none, and  *)
(* the sessions it started run on.                                         *)
(***************************************************************************)
EXTENDS Integers, FiniteSets

CONSTANTS
    Attempts,       \* the attempts that may be delegated
    Supervised,     \* those a supervisor delegates; the others are the user's
    Verified,       \* those that come with verifiers
    Interrupted,    \* those the user may stop or nudge
    Earlier,        \* for an attempt, the earlier attempts of its task
    MaxTasks,       \* the peer's own ceiling on supervised tasks
    MaxLost,        \* bounds the messages lost
    MaxRestarts     \* bounds the restarts of the peer's relay

ASSUME DelegationAssumption ==
    /\ Supervised \subseteq Attempts /\ Verified \subseteq Supervised /\ Interrupted \subseteq Attempts
    /\ Earlier \in [Attempts -> SUBSET Supervised]
    /\ MaxTasks \in Nat /\ MaxLost \in Nat /\ MaxRestarts \in Nat

VARIABLES
    call,       \* where the command that delegates an attempt is
    ledger,     \* the delegating host's record: its state, with refused told apart
    net,        \* messages under way
    task,       \* the worker's map
    session,    \* the attempt's session on the peer: a process
    verifier,   \* the attempt's verifiers on the peer: a thread and its child
    lost, restarts

vars == <<call, ledger, net, task, session, verifier, lost, restarts>>

Settled == {"completed", "failed", "refused"}
Busy == {"running", "verifying"}

Message(kind, a) == [kind |-> kind, about |-> a]
Reports == {"running"} \cup Settled
Requests == {"delegate", "stop", "nudge"}

Messages == [kind : Requests \cup Reports, about : Attempts]

TypeOK ==
    /\ call \in [Attempts -> {"idle", "sending", "waiting", "done", "failed", "gave up"}]
    /\ ledger \in [Attempts -> {"none", "delegated", "running"} \cup Settled]
    /\ net \subseteq Messages
    /\ task \in [Attempts -> {"none", "running", "verifying", "completed", "failed"}]
    /\ session \in [Attempts -> {"none", "alive", "ok", "bad", "killed"}]
    /\ verifier \in [Attempts -> {"none", "alive", "ended"}]
    /\ lost \in 0 .. MaxLost /\ restarts \in 0 .. MaxRestarts

\* The attempts that run in the worktree a runs in: those of its task.
SameKey(a, b) == a \in Earlier[b] \/ b \in Earlier[a]

\* Send a message; it may be lost, as the code goes on either way.
Send(from, m) ==
    \/ net' = from \cup {m} /\ UNCHANGED lost
    \/ lost < MaxLost /\ lost' = lost + 1 /\ net' = from

-----------------------------------------------------------------------------
Init ==
    /\ call = [a \in Attempts |-> "idle"]
    /\ ledger = [a \in Attempts |-> "none"]
    /\ net = {}
    /\ task = [a \in Attempts |-> "none"]
    /\ session = [a \in Attempts |-> "none"]
    /\ verifier = [a \in Attempts |-> "none"]
    /\ lost = 0 /\ restarts = 0

PeerUnchanged == UNCHANGED <<task, session, verifier, restarts>>

(* The delegating host.                                                    *)

\* `relay delegate` sends and then records. A peer that hangs up before the
\* sender looks may have read the message all the same.
CommandSends(a) ==
    /\ a \notin Supervised /\ call[a] = "idle"
    /\ \/ call' = [call EXCEPT ![a] = "waiting"] /\ net' = net \cup {Message("delegate", a)}
       \/ call' = [call EXCEPT ![a] = "failed"] /\ UNCHANGED net
    /\ UNCHANGED <<ledger, lost>> /\ PeerUnchanged

CommandRecords(a) ==
    /\ a \notin Supervised /\ call[a] = "waiting"
    /\ \/ /\ call' = [call EXCEPT ![a] = "done"]
          /\ ledger' = [ledger EXCEPT ![a] = "delegated"]
       \/ call' = [call EXCEPT ![a] = "failed"] /\ UNCHANGED ledger
    /\ UNCHANGED <<net, lost>> /\ PeerUnchanged

\* What the supervisor sees of an attempt lets it start the next one.
Over(a) == call[a] \in {"failed", "gave up"} \/ ledger[a] \in Settled

\* The supervisor records and then sends.
SupervisorRecords(a) ==
    /\ a \in Supervised /\ call[a] = "idle"
    /\ \A b \in Earlier[a] : Over(b)
    /\ call' = [call EXCEPT ![a] = "sending"]
    /\ ledger' = [ledger EXCEPT ![a] = "delegated"]
    /\ UNCHANGED <<net, lost>> /\ PeerUnchanged

SupervisorSends(a) ==
    /\ call[a] = "sending"
    /\ call' = [call EXCEPT ![a] = "waiting"]
    /\ net' = net \cup {Message("delegate", a)}
    /\ UNCHANGED <<ledger, lost>> /\ PeerUnchanged

\* The send went through; or it failed, or the peer hung up: forget the record.
SupervisorReturns(a) ==
    /\ a \in Supervised
    /\ \/ /\ call[a] = "waiting"
          /\ call' = [call EXCEPT ![a] = "done"]
          /\ UNCHANGED ledger
       \/ /\ call[a] \in {"sending", "waiting"}
          /\ call' = [call EXCEPT ![a] = "failed"]
          /\ ledger' = [ledger EXCEPT ![a] = "none"]
    /\ UNCHANGED <<net, lost>> /\ PeerUnchanged

\* Not acknowledged for too long: the supervisor asks the peer to stop it.
GiveUp(a) ==
    /\ a \in Supervised /\ call[a] = "done" /\ ledger[a] = "delegated"
    /\ call' = [call EXCEPT ![a] = "gave up"]
    /\ Send(net, Message("stop", a))
    /\ UNCHANGED ledger /\ PeerUnchanged

\* `relay interrupt`.
UserInterrupts(a) ==
    /\ a \in Interrupted /\ call[a] = "done"
    /\ \E kind \in {"stop", "nudge"} : net' = net \cup {Message(kind, a)}
    /\ UNCHANGED <<call, ledger, lost>> /\ PeerUnchanged

\* Mutant of Apply: a report is written whatever the record says.
ApplyAnyway(m) ==
    /\ m \in net /\ m.kind \in Reports
    /\ net' = net \ {m}
    /\ ledger' = [ledger EXCEPT ![m.about] = IF @ = "none" THEN @ ELSE m.kind]
    /\ UNCHANGED <<call, lost>> /\ PeerUnchanged

\* A report arrives. Only an attempt on record that is not settled moves.
Apply(m) ==
    /\ m \in net /\ m.kind \in Reports
    /\ net' = net \ {m}
    /\ ledger' = [ledger EXCEPT ![m.about] =
                    IF @ \in {"delegated", "running"} THEN m.kind ELSE @]
    /\ UNCHANGED <<call, lost>> /\ PeerUnchanged

-----------------------------------------------------------------------------
(* The peer.                                                               *)

Running == {a \in Attempts : task[a] \in Busy}

\* Mutant of Refuses: the task's earlier attempts are not looked for.
RefusesSameAttempt(a) ==
    \/ task[a] # "none"
    \/ a \in Supervised /\ Cardinality(Running) >= MaxTasks

Refuses(a) ==
    \/ task[a] # "none"
    \/ \E b \in Running : SameKey(a, b)
    \/ a \in Supervised /\ Cardinality(Running) >= MaxTasks

\* Mutant of Accept: a task that is refused or cannot be started is only logged.
AcceptOrLog(a) ==
    LET rest == net \ {Message("delegate", a)}
    IN  /\ Message("delegate", a) \in net
        /\ \/ /\ ~ Refuses(a)
              /\ task' = [task EXCEPT ![a] = "running"]
              /\ session' = [session EXCEPT ![a] = "alive"]
              /\ Send(rest, Message("running", a))
           \/ net' = rest /\ UNCHANGED <<task, session, lost>>
        /\ UNCHANGED <<call, ledger, verifier, restarts>>

\* accept_task: refused, or a session starts, or it cannot be started.
Accept(a) ==
    LET rest == net \ {Message("delegate", a)}
    IN  /\ Message("delegate", a) \in net
        /\ \/ /\ ~ Refuses(a)
              /\ task' = [task EXCEPT ![a] = "running"]
              /\ session' = [session EXCEPT ![a] = "alive"]
              /\ Send(rest, Message("running", a))
           \/ Send(rest, Message("refused", a)) /\ UNCHANGED <<task, session>>
        /\ UNCHANGED <<call, ledger, verifier, restarts>>

SessionEnds(a) ==
    /\ session[a] = "alive"
    /\ \E how \in {"ok", "bad"} : session' = [session EXCEPT ![a] = how]
    /\ UNCHANGED <<call, ledger, net, task, verifier, lost, restarts>>

VerifierEnds(a) ==
    /\ verifier[a] = "alive"
    /\ verifier' = [verifier EXCEPT ![a] = "ended"]
    /\ UNCHANGED <<call, ledger, net, task, session, lost, restarts>>

\* tick, for one task: a status now and then while it runs.
TickStatus(a) ==
    /\ task[a] = "running" /\ session[a] = "alive"
    /\ net' = net \cup {Message("running", a)}
    /\ UNCHANGED <<call, ledger, task, session, verifier, lost, restarts>>

\* tick: the session is gone. Its verifiers start, or its outcome is sent.
TickEnded(a) ==
    /\ task[a] = "running" /\ session[a] # "alive"
    /\ \/ /\ session[a] = "ok" /\ a \in Verified
          /\ task' = [task EXCEPT ![a] = "verifying"]
          /\ verifier' = [verifier EXCEPT ![a] = "alive"]
          /\ UNCHANGED <<net, lost>>
       \/ /\ session[a] = "ok" /\ a \notin Verified
          /\ task' = [task EXCEPT ![a] = "completed"]
          /\ Send(net, Message("completed", a))
          /\ UNCHANGED verifier
       \/ /\ session[a] # "ok"
          /\ task' = [task EXCEPT ![a] = "failed"]
          /\ Send(net, Message("failed", a))
          /\ UNCHANGED verifier
    /\ UNCHANGED <<call, ledger, session, restarts>>

\* tick: the verdicts are in, and travel with the outcome.
TickVerified(a) ==
    /\ task[a] = "verifying" /\ verifier[a] = "ended"
    /\ task' = [task EXCEPT ![a] = "completed"]
    /\ Send(net, Message("completed", a))
    /\ UNCHANGED <<call, ledger, session, verifier, restarts>>

\* handle_interrupt. A stop kills the session there is and fails the task,
\* whatever it was; it does not reach the verifiers.
HandleStop(a) ==
    LET rest == net \ {Message("stop", a)}
    IN  /\ Message("stop", a) \in net
        /\ \/ /\ task[a] = "none"
              /\ net' = rest
              /\ UNCHANGED <<task, session, lost>>
           \/ /\ task[a] # "none"
              /\ task' = [task EXCEPT ![a] = "failed"]
              /\ session' = [session EXCEPT ![a] = IF @ = "alive" THEN "killed" ELSE @]
              /\ Send(rest, Message("failed", a))
        /\ UNCHANGED <<call, ledger, verifier, restarts>>

HandleNudge(a) ==
    LET rest == net \ {Message("nudge", a)}
    IN  /\ Message("nudge", a) \in net
        /\ net' = IF task[a] = "none" THEN rest ELSE rest \cup {Message("running", a)}
        /\ UNCHANGED <<call, ledger, task, session, verifier, lost, restarts>>

\* cleanup_finished: a settled task leaves the map after an hour.
Cleanup(a) ==
    /\ task[a] \in {"completed", "failed"}
    /\ task' = [task EXCEPT ![a] = "none"]
    /\ UNCHANGED <<call, ledger, net, session, verifier, lost, restarts>>

\* The peer's relay restarts: the map and what it had not read are gone, the
\* processes it started are not.
Restart ==
    /\ restarts < MaxRestarts
    /\ restarts' = restarts + 1
    /\ task' = [a \in Attempts |-> "none"]
    /\ \E unread \in SUBSET {m \in net : m.kind \in Requests} : net' = net \ unread
    /\ UNCHANGED <<call, ledger, session, verifier, lost>>

Next ==
    \/ \E a \in Attempts :
          \/ CommandSends(a) \/ CommandRecords(a) \/ SupervisorRecords(a) \/ SupervisorSends(a)
          \/ SupervisorReturns(a)
          \/ GiveUp(a) \/ UserInterrupts(a)
          \/ Accept(a) \/ SessionEnds(a) \/ VerifierEnds(a)
          \/ TickStatus(a) \/ TickEnded(a) \/ TickVerified(a)
          \/ HandleStop(a) \/ HandleNudge(a) \/ Cleanup(a)
    \/ \E m \in net : Apply(m)
    \/ Restart

Spec == Init /\ [][Next]_vars

\* The serve loops of both hosts run once a second; a session and a verifier
\* end (the verifier has a timeout, the session its own turn limit).
FairSpec ==
    /\ Spec
    /\ \A a \in Attempts :
          /\ WF_vars(CommandRecords(a)) /\ WF_vars(SupervisorSends(a))
          /\ WF_vars(SupervisorReturns(a)) /\ WF_vars(Accept(a))
          /\ WF_vars(SessionEnds(a)) /\ WF_vars(VerifierEnds(a))
          /\ WF_vars(TickEnded(a)) /\ WF_vars(TickVerified(a)) /\ WF_vars(HandleStop(a))
          /\ \A k \in Reports : WF_vars(Apply(Message(k, a)))

-----------------------------------------------------------------------------
\* As long as the peer's relay has not restarted, no two sessions of one
\* supervised task are alive on it, whatever the supervisor gave up on, was
\* told had failed or sent again (accept_task's busy check, #584).
OneSessionPerTask ==
    restarts = 0 =>
        \A a, b \in Attempts :
            SameKey(a, b) /\ a # b => ~ (session[a] = "alive" /\ session[b] = "alive")

AtWork(a) == "alive" \in {session[a], verifier[a]}

\* No two attempts of one supervised task are at work in its worktree at once,
\* as accept_task says of its busy check (#584).
OneAttemptAtATime ==
    \A a, b \in Attempts : SameKey(a, b) /\ a # b => ~ (AtWork(a) /\ AtWork(b))

\* The ledger keeps the promise: entered once, settled only when the session is
\* over, and settled for good, but for a sender that is told the peer hung up
\* and forgets the record (tasks.rs apply, AlreadySettled; remote.rs delegate).
Promise == INSTANCE DelegationLedger WITH
    book <- [a \in Attempts |-> IF ledger[a] \in {"delegated", "running"} THEN "open" ELSE ledger[a]],
    calling <- {a \in Attempts : call[a] \in {"sending", "waiting"}},
    atWork <- {a \in Attempts : session[a] = "alive"}
ImplementsLedger == Promise!Spec

\* Unless a message is lost or the peer's relay restarts, an attempt a supervisor
\* has on record is settled or taken back in the end, in whatever order its
\* reports, a stop and its own refusal arrive.
DelegationSettles ==
    \A a \in Supervised :
        ledger[a] \in {"delegated", "running"} ~>
            ledger[a] \in Settled \cup {"none"} \/ lost > 0 \/ restarts > 0

\* The same of an attempt the user delegates (cli.rs, #491: a task that cannot
\* start must not leave "the delegating host waiting forever").
UserDelegationSettles ==
    \A a \in Attempts \ Supervised :
        ledger[a] \in {"delegated", "running"} ~>
            ledger[a] \in Settled \/ lost > 0 \/ restarts > 0

=============================================================================
