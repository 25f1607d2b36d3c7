# A verification of claudectl

claudectl watches and drives coding agents: a supervisor that starts, verifies
and retries tasks over a fleet of machines, leases that keep two sessions off
the same files, a mailbox between agents, a relay that links machines and
delegates work between them, a shared memory of what worked, a runner of task
files, and scoped access grants for people outside the fleet. This directory holds TLA+
specifications of the parts whose correctness depends on interleavings, crashes
and lost messages, the instances TLC checks, and the theorems TLAPS proves.

Paths are relative to the repository. `PROJECT.json` maps every definition to
the lines it models.

## 1. Inventory

| Component | State it keeps | Operations | How it interacts | What is hard | What makes it correct |
|---|---|---|---|---|---|
| Fleet supervisor (`src/coord/{tasks,supervisor,actuator,spawn,remote,live_fx,verify,placement}.rs`) | `tasks`, `task_attempts`, `task_verifications` in `coord.db` | a pass: read, plan, apply | starts sessions, publishes to the bus, sends to peers, reads the relay ledger | crashes between a write and an effect, two processes, stale plans, late answers | one worker per task, `DONE` only when verified, lifecycle edges only, retry budget, every task ends |
| File leases (`src/coord/store.rs`, `cli.rs`, `src/relay/lease.rs`) | `leases`, `lease_waiters` | claim or queue, renew, release, sweep | the CLI polls; the lease authority answers peers | sweeps in several statements, lost answers, stalled waiters, ttl against a live owner | mutual exclusion of overlapping resources, no overtaking, a live owner keeps its lease, waiters are served |
| Interrupt bus (`src/coord/interrupt_bus.rs`) | `interrupts` | raise, deliver, retry, acknowledge, expire | dashboards type it at a session | typed, then recorded; two dashboards | typed once by a dashboard, bounded attempts, states move forward, nothing pends for ever |
| Coordination records (`src/coord/*`) | events, handoffs, blockers, memory, session policies | single-row writes | read by everything above | little: no record is read, then changed | projections agree with rows |
| Agent bus (`src/bus/*`) | `messages`, `roles`, `subscriptions` in `bus.db` | publish, drain, claim a role, withdraw, prune | stop hook and MCP server of each session | deferred transactions, role takeover, loops | each directed message is delivered once, to one session |
| Hive mind (`src/hive/*`, `src/relay/{hivesync,hivejoin}.rs`) | knowledge file, roster and requests, membership, trust, sync state | distil, merge, gossip, ask to join, admit, deny | relay messages between peers; other processes write the same files | files rewritten whole, answers that overtake each other, a store loaded once | knowledge stays within the hive and reaches all of it; the gossip rests |
| Relay transport (`src/relay/{mesh,peer,listener,transfer}.rs`) | peer registry, seen ids, part files | dial, accept, heartbeat, chunk | carries everything between machines | simultaneous dials, half-open links, who redials | both ends agree on one socket per pair; the pair is linked in the end |
| Relay delegation (`src/relay/{tasks,worker,delegation}.rs`) | the delegator's ledger, the worker's map | delegate, status, handoff, stop | supervisor above, transport below | late and repeated reports, stop against finish, worker restart | an outcome is written once, when the session is over; one session of a task |
| Access grants (`src/access/*`) | grant files, tombstones, audit log | issue, verify, charge, record, flag, revoke | query server and CLI write the same files | whole-record rewrites against a revocation, clock moving back | revocation is final, the allowance holds, the first flag stays |
| Query protocol (`src/query/*`) | spend ledger, rate buckets | answer, escalate, charge | uses grants and context | test then charge | ceiling holds up to the requests in flight |
| Brain (`src/brain/*`) | decisions, outcomes, preferences | infer, approve, learn | reads sessions, types at terminals | an answer to a prompt that has gone | acts only on the session state it was asked about |
| Task runner (`src/orchestrator.rs`) | state of each task, its logs | launch, poll, retry, skip, abort | starts sessions, reads their logs into prompts | log threads beside the loop, lines lost, a runner that stops half-way | a prompt quotes what the completed attempt printed, and says when it is cut; the run ends |
| Session core and TUI (`crates/*`) | session status | tick | everything | mostly sequential | statuses follow transcripts |
| Context pack, setup, configuration, plugin hooks, packaging | none, or files written once | – | – | I/O and text | – |

`PROJECT.json` lists every component with its status, and under `hazards` each
place where a test would hardly reach, with the properties that would fail.

## 2. The fleet supervisor

`TaskLifecycle` is what the supervisor promises of a task: the edges between its
states, terminal states that are never left, and no start before every
dependency is `DONE`. `TaskSupervisor` is how it is done.

| Model | Code |
|---|---|
| `state`, `reason` | `tasks.state` and the reason of the last transition to `NEEDS_HUMAN` |
| `attempts[t]` | the rows of `task_attempts`, each with what became of its session, message or remote task, what the relay ledger heard, and its verdicts |
| `pass[s]` | the actions `Supervisor::tick` returned to process `s` and `apply` has not finished, the one in progress with the write it does next |
| `age[t]` | the code's waits (claim timeout, spawn grace, acknowledgement limit, back-off, task timeout), as the rank of the time since the latest attempt |
| `open`, `home` | which machines refuse nothing; whether a session answers to the role |
| `Tick` | `tick`: one read of the table and the sensors, all the decisions of the pass |
| `AssignInsert … AssignCommit`, `Adopt`, `SpawnInsert … SpawnCommit`, `DelegateInsert … DelegateCommit`, `CloseCompleted … AllPassed`, `GiveUp … BackToPending`, `EscalateHuman` | the arms of `actuator::apply`, one action for each database write or outside effect |
| `Crash` | the process dies between two of those and starts again |
| `Environment` | sessions end, roles read mail, peers start or refuse, the ledger hears, an operator cancels, machines drain, time passes |

Abstractions. A pass's reads are one step, and the order of its actions is free.
Where a task goes among the machines that would take it is a free choice, not
`placement.rs`'s score. Reading a row and the first write after it are one step,
as are a spawn's withdrawal, working directory and attempt row (a failure among
them is the `workdir` fault), and counting attempts and inserting the next.
`READY` is left out: nothing writes it. Tasks are all submitted at the start;
a missing dependency, health alerts (the live sensor emits none) and session
policies are not modelled. `Cancel` does not stop the session, as in the code.

## 3. The leases

`LeaseLock` is the lock the store promises. `CoordLeases` is `claim_or_queue`,
the sweep in its separate statements, the polling claim of the CLI and the
authority's handlers behind a link that loses requests and answers.

| Model | Code |
|---|---|
| `lease[c]` | the row of the lease claim `c` asks for, with the ticks left to `expires_at` |
| `queue`, `place[c]` | `lease_waiters` in `seq` order, and the waiter id the claim presents |
| `pc[p]`, `sees`, `todo` | how far a claim or a sweeper is, which owners it saw running, which leases it has still to renew |
| `answer`, `offer`, `tries` | a fleet claim's last answer from the authority and the unanswered requests of this poll |
| `ScanSessions … DropStaleWaiters` | `sweep_leases`, statement by statement |
| `ClaimOrQueue`, `Enqueue` | one transaction: conflict test, waiters ahead, grant or queue row |
| `TimePasses` | a tick: every lease and waiter ages; `slow` and `stalls` say which processes have fallen behind |

A tick is longer than a sweep or poll; a process a second tick finds in the same
cycle has stalled, and `MaxStalls` bounds how often. Overlap of paths is the relation
`Overlaps`. Two claims of one session at once, leases without a ttl from before
#569, a second handler of the same fleet request, and a release by id without an owner are not modelled.

## 4. The grants

`GrantGate` is what revoking a grant promises. `AccessGrants` is one grant's
file and everyone who rewrites it: the requests of a `query serve` process, runs
of `access revoke`, and relays that admit readers on it.

| Model | Code |
|---|---|
| `live`, `temp`, `tomb` | `<id>.json`, `.<id>.json.tmp`, `<id>.revoked`; bytes that do not parse are `Empty` or `Garbled` |
| `lock` | `budget_lock` of the server's `QueryCore` |
| `proc[p].pc`, `job`, `rec`, `fd` | how far a process is, which read-modify-write it is in, the record it loaded, and what its open descriptor has become since |
| `proc[p].paid`, `line`, `honoured`, `told`, `late`; `foreign` | history: what the properties speak of |
| `Read`, `Loaded` | `GrantStore::load`: the file, then the tombstone |
| `Verify` | `verify_detailed` after the MAC, and the rest of `authorize` (scope, rate limit, polls are free) |
| `Acquire`, `Charge`, `Use`, `Flag`, `Log` | `charge_budget`, `record_use`, `flag_grant`, each under the lock |
| `Work` | the routes of `ask_at`, the poll of an escalation |
| `Revoke`, `Tombstone` | `GrantStore::revoke` |
| `OpenTemp`, `WriteTemp`, `Publish` | `write_atomic`: open and truncate, write, rename |
| `StoreError`, `Crash` | any of those fails; a process dies between two |

Everyone uses the same name for the temporary file, so the model keeps the
system calls apart: a file may be truncated, or renamed, while another process
writes to it. Only the server takes a lock, and only in its own process. Hence
revocation is a file that is only ever created, and its finality (`ImplementsGate`) is
stated of all processes, while the other properties are stated of the server as
long as no other process has begun to rewrite the record (`~foreign`); section 12
says what happens then. Each request reads the clock once; it may show any of `Days`, so
that it can be set back. Abstractions: the MAC and the grammar of scopes are the op
`probe` (a valid token without the scope), the rate limiter turns anyone
away; a `denied` or `escalated` line is always written. A crash is the end of
a process, not a loss of power, and a write that fails leaves the file as it
was opened. Issuing a grant is not modelled.

## 5. The relay's link

`RelayMesh` is one pair of machines that each have the other's address: what
happens between two peers does not depend on a third.

| Model | Code |
|---|---|
| `entry[n]` | the other machine's `PeerConnection` in `n`'s registry: its socket, who opened it, `Connected` or not |
| `sock[s]` | a socket: who opened it, whose reader thread runs, who holds a handle that is not in the registry yet, which ends are shut down, whether the path is cut |
| `dial[n]`, `up[n]` | the start-up dial thread; whether the process runs |
| `Start`, `Dial`, `DialFails`, `AddPlaceholder` | `spawn_startup_dials` |
| `AddHeld` | `PeerRegistry::add_peer` for a handshake that is done, at either end, with the collision rule `Replaces` |
| `ReaderEnds` | `spawn_reader` after an end of file or a shutdown |
| `MarkDisconnected`, `Reconnect` | `PeerRegistry::tick` and the redial it asks for |
| `Crash`, `PowerLoss`, `Cut` | a process ends (its sockets close), a machine vanishes (they do not), a path drops silently |

Timing. A heartbeat is missed for good only after three intervals, 90 s, so
`MarkDisconnected` is enabled only when no step that takes milliseconds is
pending (`Quick`). Encryption, the handshake's refusals and the seen-id window are not modelled.

## 6. Delegation

`DelegationLedger` is what the delegating host is promised; `RelayDelegation` is the
ledger, the two ways to write it (the user's command sends and then records,
the supervisor records and then sends), the worker and the messages.

| Model | Code |
|---|---|
| `ledger[a]` | the record in `relay/tasks.json` of attempt `a`, its state and whether it was refused |
| `call[a]` | how far `cmd_delegate`, or `remote::delegate`, is |
| `net` | messages sent and not handled; a set, as each travels on a link of its own |
| `task[a]`, `session[a]`, `verifier[a]` | the worker's map; the process it started; the thread that runs the verifiers |
| `Apply` | `tasks::apply` for one report: load, guard, write |
| `Accept`, `TickStatus`, `TickEnded`, `TickVerified`, `HandleStop`, `HandleNudge`, `Cleanup` | `RemoteWorker` |
| `Restart` | the peer's relay comes back with an empty map; the sessions it started run on |

A message is lost when no link is up, at most `MaxLost` times. An instance
delegates either the user's attempt or the supervisor's (`OneKind`): the two
meet only in the peer's ceiling on running tasks.

## 7. The hive

`HiveSync` is a host with a named hive, the machines paired with it, and the
gossip on each link. A unit is what merging and gossip can tell apart.

| Model | Code |
|---|---|
| `memory[m]`, `file[m]` | the relay's `HiveStore` and `knowledge.jsonl`; distillation, another process, writes the file only |
| `sent[l]` | `PeerSyncState.units_sent`, written when a batch is built |
| `roster`, `asked`, `denied`, `answers` | the host's roster and requests, and the join results on their way |
| `membership[m]`, `standing[m]` | `membership.json` and the copy of the `HiveSync` that runs |
| `Tick` | the timer: `refresh_membership`, then a batch of what is unsent to each target |
| `AcceptSync`, `RefuseSync`, `HearRejected` | a batch arrives: merged, saved and propagated, or refused; the refusal comes back |
| `DecideJoin`, `Approve`, `Deny`, `ApplyJoinResult` | `hive join`, the owner's answer, and its arrival |
| `Distill`, `Restart`, `Cut`, `Drop` | a new unit; the relay starts again; a link drops with what is on it |

Known behaviour that the model shows. The relay never reads the knowledge
file again after its start, and saves its own copy over it. A unit counts as sent
when its batch is built: a lost batch, or a later version of the unit, is not offered.
A denied peer that asks again is told that its request is pending. No code
creates a cluster outside tests and none increments `propagation_count`, so
the hop cap is left out.

## 8. The task runner

`TaskRunner` is the loop of `run_tasks`, one task a step, beside the sessions,
the threads that copy their output to the logs, and Ctrl-C.

| Model | Code |
|---|---|
| `printed[t]`, `copied[t]` | how much the session of the latest attempt printed, and how much of that its thread has read |
| `log` | the files `<slug>.attempt-<n>.stdout.log`, with the lines in them; a line is a task, an attempt and its place |
| `lost` | a history: whose log lacks a line. It could not be opened (`.ok()`), a write failed (`let _ =`), or a line could not be decoded and the thread stopped (`map_while(Result::ok)`) |
| `given[t]` | what `expand_prompt_templates` quoted when `t` was launched: the log up to `MAX_CAPTURED_OUTPUT`, and whether the notice says that it was cut |
| `pc = "dead"` | the process has stopped while its sessions go on: the report could not be written and `?` returned from the loop (464), or `truncate` panicked inside a character (1192; the release build aborts) |

Where the cut falls in a character is a free choice, since lines are not made of bytes, and a
report may fail at the end of any pass. `PumpsKeepUp` is an assumption: the
loop sleeps for `POLL_INTERVAL` between the exit of a session and the launch of
who quotes it, and its thread is taken to be done by then. The code does not wait
for the thread (section 12).

`QuotesWhole` says that a quote is every line the completed attempt printed, or as many as fit with the notice; where
the log lost lines, it is still lines of that attempt in their order, with no line of another attempt or task.

## 9. The interrupts

`InterruptBus` is the `interrupts` table between the processes that raise, the
dashboards that deliver and the commands that acknowledge.

| Model | Code |
|---|---|
| `row[i]` | state, `retry_count` and whether `next_retry_at` is ahead; `refused` is a raise that found a duplicate |
| `due[i]` | `expires_at`, which listing and expiring compare differently: `"now"` is neither deliverable nor stale |
| `raising[r]` | a raise between its duplicate test and its insert |
| `pass[d]` | a dashboard within `deliver_pending`: the sessions it scanned, what is left of its list, the retry count it read |
| `session`, `terminal` | what a session does, and by which terminal program it is reached |
| `FindDuplicate`, `Insert`, `Acknowledge` | `cmd_raise` and the headless loop's decay check; `cmd_ack` |
| `Scan`, `List`, `Skip`, `Send`, `RecordDelivered`, `ReadFailure`, `RecordFailure`, `Finish` | one pass, cut where another process can come between |
| `Refresh` | `coord_refresh`: between passes a dashboard expires what is stale |
| `RecordFails` | a record that fails is ignored (`let _ =`): the interrupt stays pending and is listed again |
| `Crash` | a dashboard dies within a pass; a later pass knows nothing of what was typed |
| `typed`, `failed` | history: how often it was typed into its session, and how often that failed |

A pass judges its sessions by a scan that gives every Claude Code session the status Idle
and no tool (`SeenStatus`, `SeenInTool`), whatever it is doing. Through tmux the scan's
empty tty matches the first pane there is, so the send may miss the session and succeed.
A back-off is 30 seconds at least and is taken to outlast the passes under way (`RetryDue`). The two
expiring statements and the list are one step: each tests in its own
statement what it changes. Pruning, events and Codex sessions are left out.

## 10. What the runs check

| Run | Instance | Shows |
|---|---|---|
| `sup_local` | two tasks, one slot, one machine; the second goes through a role's mailbox; two faults among spawn, publish, working directory, verifier, cancel, role, drain, and crashes | every write is a lifecycle edge; `DONE` means verified by the latest attempt; one worker per task; no message left to be read beside a session; `RUNNING` is real; nothing at work on a task that left; no task is given up before its executions are spent; slot ceiling |
| `sup_live` | a task here or on the peer, one that depends on it and may be routed to a role; one fault, or a crash after a placement is written down | dependencies first, however stale the plan; a machine never works twice on a task; failed starts are bounded; once the machines stay open, both tasks end |
| `lease_local` | three claims of a directory and two files in it, two stalls | exclusion, fairness of the queue, a finished claim leaves no place behind |
| `lease_sweep` | two claims and a process that sweeps | a sweep does not take the lease of a running owner |
| `lease_fleet` | a local and a fleet claim, one answer lost, two stalls | a claim that failed holds nothing; the store implements the lock; waiters are served |
| `grant_file` | two requests, a revocation and a join; three days, the last past expiry; a budget of 0, which reads as 1; one error or crash | a revoked grant is not honoured again; within the server the allowance holds, the file parses, the first flag stays, no use is logged that is not counted, a charge leaves a line |
| `relay_mesh` | three sockets; a crash, a power loss or a cut path | once nothing is in flight the ends agree on a socket and no reader is left on a dead one; without a fault the pair ends up linked |
| `relay_tasks` | the user's attempt, or a supervised one with verifiers and its retry; a message lost, a restart of the peer's relay | one session of a task at a time; the ledger implements its promise; a delegated attempt settles unless something was lost |
| `hive_gossip` | a host, a joiner that asks and holds a reader's grant, one paired before the hive was named; a unit each, a batch lost or a restart | knowledge stays with members; it reaches them, what was refused before the admission included; the gossip comes to rest |
| `task_runner` | four tasks: one that is quoted, may be retried and prints up to two lines where a quote has one; one that quotes it and one beside that; one for a peer behind the quote; both modes | a quote is what was printed, cut with a notice; the run ends with every task settled and no session left, unless the runner itself dies |
| `interrupts` | two interrupts of one key raised by two processes for one session, one `safe_boundary`, one `waiting_only` with a deadline; two dashboards, two retries, one crash or failed record | typed once by each dashboard and once more for each record lost; attempts are bounded; states only move forward; nothing that a pass can deliver or expire stays pending |
| `bug_verifier_error` | one task whose verifier cannot run | section 12 |

Bounds. Two tasks are enough for a dependency, a shared slot and a stale plan;
one process with crashes for a plan acted on late, where races of several are left to the theorems; a local machine and a peer for every kind of attempt.
`MaxAttempts` is above what the retry budget, the limit on failed starts and the
fault bound allow, so it cuts nothing but states those limits already exclude.
Two faults allow a crash during the recovery from a failure. Three
claims are needed for an overlap that is not transitive (the directory overlaps
both files, the files not each other). `MaxLost < RequestAttempts`: a request
that loses every answer leaves a lease until its ttl, by the code's own limit. `MaxBusy = 3` lets any three of the four processes on the
grant take part in a behaviour: two requests race with each other and with one process
outside. Two requests and an allowance of one are the least that can overspend.
Three sockets let each machine's dial meet the other's and a redial; a fourth is
never in use at once. Two attempts of a supervised task are the least with a retry. Two joiners are
needed for a hop over the host, and a third machine adds only a second of either kind; `RestartAnywhere`
is false, which keeps a restart from the tick that would notice an admission (section 12).

Two dashboards and one fault reach the bound of
`TypedOnceEach` exactly; a third dashboard adds one to both sides.
`MaxRetries` is 2 in place of the code's 3: one failure that is retried and one that is final.

`MaxCaptured` is one line and `Prints` two for the task that is quoted: a quote may be empty, fit or be cut,
and a log may lose its first line, its last or both. Nobody reads what the others print.

Crash points. `RecordedPoints` leaves out the points between an outside effect
and the write that records it: a crash there is not recoverable from the
database, and the runs would only find it again (section 12).

Fairness. A process keeps ticking and applying (the loop in
`supervisor_cli.rs` and the dashboard's tick have no condition that stops them); sessions end, a role reads its inbox at its turn's end, a peer answers and its
answer arrives, time passes. Nothing is assumed of faults, of cancels or of
which machine is chosen. `Settles` assumes the machines stay open from some
point on: a drained fleet starts nothing and is right not to. In the leases,
claims, sweeps and the link's answers are fair, sessions end. Over the relay, threads and the serve
loop go on, messages that are not lost arrive, and nothing is assumed of
faults, users or owners. The runner's loop, threads and clock go on; a session may run for ever, and the runner may die; `Ends` excepts both.
A dashboard goes on refreshing (the TUI's tick), deadlines and back-offs pass; `Settles` of
the interrupts assumes neither an acknowledgement nor a send that succeeds.
`ComesToRest` and `Relinks` need no more than that.

## 11. What is proved

For every number of tasks, processes, machines and faults
(`TaskSupervisorProofs`, from `SupervisorAssumption`):

* `Typed`: `TypeOK`, which is inductive.
* `Ordered`, from `Planned`: `DependencyOrder` is not inductive, since a start decided
  on an earlier state may be applied now. `PlansReady` says that every
  start in any pass is of a task whose dependencies are `DONE` and, once begun,
  from a state it may start in; `DONE` is never left, so it stays true. `IInv` is
  `TypeOK /\ DependencyOrder /\ PlansReady`.
* `Implements`: every step is an edge of `TaskLifecycle` or leaves the states alone.
* `TerminalStays`: no action moves a task that ended.

For one supervisor (`Solo`; with two each of them is false, section 12) and any tasks, machines, faults and crash
points, from one inductive invariant, `Inv`. It is stated per task (`Kept`): the state, the reason, the attempts and
what the pass has in hand for the task must agree.
The invariants alone say nothing of an action that waits, or is half done; `Inv` does. A pass lists one action of a
task at most, and until that is dropped the task's state is the one it counts on (or `CANCELLED`: only the operator
comes between). A start that has begun owns the latest attempt, which is as far as the start
has brought it (`Opened`); a verdict speaks of the latest attempt, whose session succeeded, and counts the verifiers
that passed (`Judged`); a resume is of a session that is not at work (`Fits`).

* `DoneMeansVerified`, `RunningMeansStarted` (`DoneIsVerified`, `RunningIsReal`): from what a state says of the latest attempt (`Stands`).
* `RetriesAreSpent` (`LocalBudgetIsSpent`): a task is given up with more than `MaxRetries` attempts that do not
  count as unstarted, each of which ran.
* `SlotsBounded` (`SlotCeiling`), for finitely many tasks: `Slots` counts the tasks a pass has in hand to start here with those
  in flight here. A pass makes it grow by what it places (`TickKeeps`), at most to the limit; nothing else does.
* `UnstartedIsBounded` (`UnstartedBounded`), where no role is asked (`RoleTasks` and `Routable` empty): a start is
  listed only below the limit and is the only one until it has opened its attempt (`Streak`). A task a role did not take is started
  without the limit being looked at (`supervisor.rs:387` tests startable tasks only); section 12.
* `OneWorkerOnEach` (`OneWorkerPerMachine`), with the crash points `Tidy` admits: an attempt here that is at work or may
  be read is the latest (`Quiet`), since a second one is opened only when the
  first ended, was taken back or is adopted. `Tidy` leaves out a crash between an outside effect here and the write that records
  it, and admits one before the write of `RUNNING` only where the spawn that follows finds the session again: a
  delegation or a mailbox assignment does not look (`Adoptable` is asked by the spawn alone).
* `OneWorkerAlone`, `NoLateReader`, `NoOrphanAlone` (`OneWorker`, `NobodyReadsLater`, `NoOrphan`), with `Tidy` and without peers,
  as in `sup_local`: a peer slower than the supervisor's patience makes each false, without any crash.

`SupervisorAssumption` asks for `MaxUnstarted > 0` (10 in the code): a limit of 0 would escalate tasks that were never tried.

For every set of claims, resources, sweepers, losses and stalls
(`CoordLeasesProofs`, from `LeasesAssumption`):

* `Excluded`: overlapping exclusive leases have one owner. `IInv` adds `Shape` (leases
  and control keep their types) and `Fresh` (a local claim that has a lease is
  past its claim), without which a grant might revive a lease that ended.
* `Implements`: the store refines `LeaseLock`. The proof goes through `LeaseMove`,
  the five ways any action changes the leases.
* `TypeCorrect`: `TypeOK`. The rows of the queue are the part that needs a proof: deleting some keeps the
  others (`InOrderRows`; that there is an n-th of them is found by the least position with so many rows up to
  it), and there is always an identity no row of the claim has (`FreshId`, by counting).
* `QueueIsFair`: `NoOvertaking`. A lease becomes active by a grant only (`OnlyGrants`), and the
  transaction that grants reads the queue it grants from.
* `FailureIsClean`: `FailedHoldsNothing`, where fewer messages are lost than a request is sent times
  (`MaxLost < RequestAttempts`; beyond it the property is false, section 10). `Answered`: no poll went
  unanswered more often than messages were lost, and an answer other than a grant goes to a claim that holds nothing.
* `QueueIsLeft`: `LeavesQueue`, where every claim is made on this machine (`Fleet = {}`; for fleet claims it
  is false, section 12). `OneRow`: a claim has at most the row whose identity it
  presents, so deleting that one leaves none, and a claim that is to join has no row.
* `LiveKept`: `LiveOwnerKeeps`, where a lease outlives the time a sweep may be held up
  (`MaxStalls + 1 < TTL`, in ticks) and whoever sweeps sees every owner: no claims of peers, or all processes on
  the authority (section 12 for the others). `Sight`: until it expires leases, a sweep knows every owner that still
  runs, and what it need not renew any more is at most as old as the sweep itself.

For every set of requests, joins and revocations, every budget, set of days and number of faults
(`AccessGrantsProofs`, from `GrantAssumption` and `FileAssumption`):

* `Typed`: `TypeOK`. That `budget_used` stays within the allowance holds of every
  record in flight as well as of the file. `Moves` classifies each action by
  what it does to the process that takes it (`Quiet`, `Comes`, `Admits`, `Closes`, ...).
* `RevocationIsFinal`: `AccessGrants` refines `GrantGate`. `GateInv` adds what
  `TypeOK` lacks: the tombstone is there for whoever has written it, and a request that
  came after it cannot have been honoured, since the tombstone is read after the file.
* `WholeRecords`: `FileParses`, from `FileInv`: while only the server writes, whoever
  has the temporary file open holds the lock, nobody has the published file open, and what
  is about to be renamed is a record.
* `BudgetHolds`, `LogHolds`, `PaymentsLogged`, `FlagStays`: `BudgetKept`, `LogAgrees`, `PaidIsLogged` and
  `FirstFlagWins`, from `RecordInv`: while only the server writes, what the lock holder is about to publish
  differs from the file by its own charge or flag (`Rewrites`), the charges of the file's day are those of as
  many requests as it counts (`Payers`), and the log has no more allowed lines than there were requests that
  got so far (`Loggers`). The day on record only moves forward, so a request charged to an
  earlier day is never counted again. The counting is by cardinality, hence `FiniteSetTheorems`.

For every set of attempts, losses and restarts (`RelayDelegationProofs`, from
`DelegationAssumption`):

* `Typed`: `TypeOK`.
* `SessionsApart`: `OneSessionPerTask`. A session that runs while the relay has not
  restarted is in the worker's map as running, and the map admits one busy attempt of a task.
* `LedgerKept`: `RelayDelegation` refines `DelegationLedger`. The invariant behind it
  relates each report under way to the session it speaks of: a final report exists only once that
  session is over, and a refusal only for an attempt that never had one.

For every set of interrupts, raisers, dashboards and faults (`InterruptBusProofs`, from
`InterruptAssumption`):

* `Typed`: `TypeOK`. `IInv` adds that what is not settled has retries left (`RetriesLeft`), that a raise
  in progress has no row yet (`NotInserted`), and that a pass holds only what was raised (`Raised`).
* `MovesForward`: `Lifecycle`.
* `TypedOnce`: `TypedOnceEach`, which is not inductive. `Budget` counts dashboards instead: until an
  interrupt is settled, it was typed at most once by each dashboard that has typed it and not
  recorded it (`Typers`), and once for each record that failed or died with its dashboard; once it is settled, what was
  typed and what may still be typed by those that listed it before (`Owing`) is within the bound. A
  record moves the first form to the second because a dashboard is not in both sets.
* `RetriesBounded`: `AttemptsBounded`, from `Rounds`. While an interrupt may be listed, each retry counted
  so far has cost one attempt of each dashboard at most, and those at work on it (`Tryers`) make the next. From a
  recorded failure until its back-off ends, and for good once it is settled, only the passes that listed it
  before (`Aheads`) can still attempt it: their attempts belong to the round of that failure.

For any machines, scores, policy, grants and bounds (`HiveSyncProofs`, from `HiveAssumption`):

* `TypeCorrect`: `TypeOK`, with what it needs: no identity and no version is ahead of what its
  source has distilled.
* `HiveIsClosed`: `MembersOnly`. It speaks of stores, which are filled from batches, so the
  invariant speaks of every unit held and every unit under way: a machine holds another's unit only if it is a member, and a
  joiner's unit is anywhere but at its source only if that joiner contributes
  (`MayHold`); a unit under way is one its sender may hold, and from the host it goes to members only (`Travels`).
  The receiver's gate adds that the sender contributes. Roles are never taken off the roster, so a gate
  answered once stays answered.

For any sockets and faults (`RelayMeshProofs`, from `MeshAssumption`):

* `TypeCorrect`: `TypeOK`.
* `BothEndsAgree` and `NothingLeaks`: `EndsAgree` and `NoLeak`, both from `LetGo`: an end with a reader that
  is neither shut, held by a thread nor in the registry is of a socket whose path is cut or whose other
  end is not open. `add_peer` shuts what loses, so only `tick` lets go of an open end. It does so
  when nothing was heard, and by `LetGo` itself the other end cannot have let go first.

For any task file (`TaskRunnerProofs`, from `RunnerAssumption`):

* `TypeCorrect`: `TypeOK`, among it that a task is attempted at most `MaxAttempts` times.
* `QuotesAreWhole`: `QuotesWhole`, for any number of lines and any size of a quote, with the two hypotheses the run has as well: the file names of
  tasks differ (`OwnSlugs`) and threads are done within a poll interval (`PumpsKeepUp`); section 12
  says what happens without. `QuotesWhole` is not inductive. `Written` adds what the log of a started task holds at each stage of its thread:
  the first `copied` lines, or some of them in order; with a thread that is done and lost nothing, all of them. `Behind` says that
  the log of the next attempt does not exist yet, `Settled` and `Finished` that a dependency that was quoted has ended and neither prints nor
  copies any more, so that a quote stays true.

Only model-checked: liveness (`Settles`, `WaitersServed`, `DelegationSettles`, `Relinks`, `Spreads`, `ComesToRest`, `Ends`),
which needs fairness and `ENABLED`; and `UnstartedBounded` where `auto_route` may ask a role (`sup_live`). The other invariants
of the passing runs are proved, under the hypotheses named above where there are any.

## 12. Where the code disagrees

One run is expected to be violated, and a finding quotes both sides:
`bug_verifier_error` shows `Reconverges` false. A verifier that cannot be run leaves its task in
`VERIFYING`, which no pass lists.

Other disagreements are stated as properties of the modules and fail in
instances a reader can set up from the ones above:

* `BudgetIsSpent` (`sup_local` with one role task and no faults): a message
  taken back unread counts as an execution (`coord/tasks.rs:687`), where the comment above it counts
  "attempts that ran the task".
* `DrainStartsNothing` (a role task, `Faults = {"machine"}`): the claim-timeout fallback
  starts a session on a drained machine (`coord/supervisor.rs:617`), where `docs/reference.md:229` says it "starts no new task".
* `LeavesQueue` in `lease_fleet`: a fleet claim that gives up (`coord/cli.rs:915`)
  leaves its waiter at the authority; `store.rs:934` drops it "on a grant, a timeout, or giving up".
* `OneAttemptAtATime` (`relay_tasks`, `MaxRestarts = 0`): a stop while the verifiers run
  frees the task (`relay/worker.rs:540`) and the next attempt starts in the worktree they are still in, where
  `worker.rs:225` says "Never two attempts of one supervised task at once".
* `UserDelegationSettles` (`relay_tasks`): a report that is back before
  `cmd_delegate` has written its record finds none (`relay/cli.rs:3101`).
* `OwnUnitKept` (`hive_gossip`): the relay saves the store it loaded at its start
  over what was distilled since, with a peer's unit in its place (`hive/gossip.rs:161`);
  `docs/relay-and-hive.md` says that "the local preference wins unconditionally".
* `RefusedIsReoffered` (`hive_gossip` with `RestartAnywhere = TRUE`): a relay that restarts between
  its admission and its next tick compares the membership with itself (`relay/hivesync.rs:144`) and never offers again what was refused.
* `NoStrandedPair` and `PlaceholderNeverWins` (`relay_mesh`): after a fault each
  end may hold the other for the one that dials; a placeholder added after a failed dial replaces
  a link whose reader has just ended.
* `WaitingIsServed` (`interrupts`, one dashboard): a pass takes every Claude Code session for idle
  (`runtime/orchestrator.rs:55`, `session.rs:350`), so a `waiting_only` interrupt is never delivered, and stays
  for ever without a deadline; the test `can_deliver_waiting_only_checks_status` expects it for a session that waits. The
  brain's mailbox asks the same scan and delivers nothing either (`brain/mailbox.rs:101`).
* `AtBoundary` (the same): a `safe_boundary` interrupt is typed in the middle of a tool, where
  `interrupt_bus.rs:116` says "the agent is not mid-tool-execution".
* `ReachesTarget` (`terminal = "tmux"`): an empty tty is contained in every pane's (`terminals/tmux.rs:73`), so
  the text may go to another session and the interrupt counts as delivered.
* `OneActivePerKey` (`interrupts`): two raises of one key both pass the test (`coord/cli.rs:1322`)
  and both insert. And a delivered interrupt that nobody acknowledges keeps its key when it has no deadline: the
  decay check raises none after its first.
* `NoSessionLeft` (`task_runner`): the runner returns from its loop when `status.json` cannot be written
  (`orchestrator.rs:464`), and its sessions go on. The same happens when the 32 KB of a quote end inside a
  character: `truncate` panics (1192), where the comment says "Truncates to 32KB" (1139).
* `QuotesWhole` with `PumpsKeepUp = FALSE`, or with `SharedSlug`: a prompt is expanded from a log its
  thread has not finished, or that another task of the same slug has overwritten (`orchestrator.rs:964`, `983`).
  And a quote does not say that its log lost lines: a thread stops at the first line it cannot decode (1000) and goes on past
  one it cannot write (1002), so `QuotesWhole` promises no more than order there.

Other instances fail too, and are where a reader may look next:

* `OneWorker` with `Supervisors = {"s1", "s2"}`: both processes pass the state
  test (`actuator.rs:92`) and both start the task. With two supervisors and no more than `sup_local` has otherwise, its seven invariants all fail, and
  `UnstartedBounded` and `OneWorkerPerMachine` with them: `Solo` is a hypothesis no theorem about them can do without.
* `OneWorker` with `CrashPoints = {<<"spawn", "record">>}`: a session whose pid
  was not written is not adopted; with `<<"delegate", "commit">>` and two peers
  the task is sent to both; with `<<"spawn", "commit">>` and a peer, a task whose
  session runs here is delegated.
* `OneWorker` in a fleet without crashes: a peer slower than
  `UNACKNOWLEDGED_SECS` starts what has been placed elsewhere.
* `NobodyReadsLater` with `<<"assign", "stamp">>`: a published message whose id
  was not written is never taken back.
* `UnstartedBounded` with a role task: the fallback spawn of an assignment has neither limit nor back-off.
* `AssignmentMoves` with a role at home and a failing spawn: the message was
  taken back, and nobody can claim it.
* `Reconverges` with `<<"verify", "verdict">>`: a crash there has the effect of the verifier's error.
* `LiveOwnerKeeps` with `Fleet` claims and a sweeper outside `Authority`: a local
  sweep on the authority does not see peers' sessions and expires their lapsed leases.

* `FileParses` without `~foreign`: another process truncates the temporary file
  between the server's write and its rename, and the server publishes an empty
  grant (15 steps). If the other then dies, the grant stays unreadable, though
  `docs/access.md:130` and `grant.rs:10` say "never a truncated record".
* `FirstFlagWins` without `~foreign`: a revocation or a join writes back a record
  loaded before the flag and erases it, where `query/core.rs:380` calls what is left
  "the benign direction only: a lost budget charge or use-count bump".
* `PaidIsLogged` with `faults = 0` dropped: an error of the store in `record_use`
  leaves a charged request without a line, the hole `query/core.rs:770` closes for the
  escalation queue.

## 13. Plan

1. `TaskLifecycle`, `TaskSupervisor` and their proofs – done.
2. `LeaseLock`, `CoordLeases` and their proofs – done.
3. `GrantGate`, `AccessGrants` and their proofs – done. Next to them `QuerySpend`: the spend ledger's ceiling and the rate bucket.
4. `InterruptBus` and its proofs – done. Left: `BusMailbox`, drains and role claims. Abstract specification: a message is delivered at most once. The bus then replaces the one-step mailbox of `TaskSupervisor`.
5. `DelegationLedger`, `RelayDelegation` and their proofs – done.
6. `RelayMesh` and its proofs – done. Left: the duplicate window, and `RelayTransfer` for chunk assembly.
7. `HiveSync` and its proofs – done. Left: versions after the first, trust and consent.
8. `TaskRunner` and its proofs – done.
9. `Placement`: the operators of `placement.rs` against a reference definition.
10. `BrainEngine`, `SessionStatus`.

Theorems planned: at-most-once of the mailbox; for peers that answer in
time, `OneWorker` in a fleet.

## 14. Not modelled

Terminal drivers, discovery, transcripts, rendering, prompts, embeddings,
statistics, cryptography, sockets, installers and packaging: their state is
outside the program or their correctness is about text and I/O. They are the
larger part of the code: the terminal UI, the session monitor, the brain's retrieval and prompts,
`query`'s classification, configuration and the commands' printing. The rest of the
inventory without a module is in the plan.

## Running

    tlc -workers 2 -config sup_local.cfg MCTaskSupervisor
    tlc -workers 2 -config lease_fleet.cfg MCCoordLeases
    tlc -workers 2 -config grant_file.cfg MCAccessGrants
    tlc -workers 2 -config relay_tasks.cfg MCRelayDelegation
    tlc -workers 2 -config hive_gossip.cfg MCHiveSync
    tlapm TaskSupervisorProofs.tla
    tlapm CoordLeasesProofs.tla
    tlapm AccessGrantsProofs.tla
    tlc -workers 2 -config interrupts.cfg MCInterruptBus
    tlapm RelayDelegationProofs.tla
    tlapm InterruptBusProofs.tla
    tlapm HiveSyncProofs.tla
    tlapm RelayMeshProofs.tla
    tlapm TaskRunnerProofs.tla
