# A verification project for OpenAIOps

TLA+ models of the core of this repository, the TLC runs that check them on
small instances, and theorems that the TLA+ proof system checks for every
value of the constants.

OpenAIOps is an operations platform in Go: agents report from hosts, the server
(`src/cmd/server`) evaluates alerts, opens incidents, pages people, repairs and runs
playbooks by itself, and keeps its state in memory with PostgreSQL behind it
and metrics in VictoriaMetrics. Nearly all of the core is one process in which
goroutines share maps under mutexes and a 15-second flush copies memory to
tables. What goes wrong in such a program goes wrong between two critical
sections, or between a write and a crash; that is what the models are about.

* [Inventory](#inventory): the parts of the system
* [Modules](#modules): what models what, and how closely
* [Runs](#runs): what TLC checks, with which bounds
* [Fairness](#fairness)
* [Theorems](#theorems): what is proved and along which argument
* [Observed divergences](#observed-divergences): where code and words disagree
* [Not modelled](#not-modelled)

`PROJECT.json` is the index: components, runs, the mutated definition that
shows that each property can fail, the source lines behind every definition, the
hazards and the theorems.

## Inventory

Paths are under `src/cmd/server/` unless they say otherwise.

### Modelled

**Alert engine** (`notify.go`). State, under `n.mu`: `active` (confirmed
alerts), `since`, `pending` and `missing` (rounds counted towards confirming
and clearing). Operations: `Run` ticks every 10 s; `tick` copies the
configuration, evaluates every source, reconciles under the lock and dispatches
the transitions after the lock; `ResetState` and `Trigger` after a saved
configuration; `enqueuePush` and a push goroutine that delivers. It writes alert
records to the store and calls the incident and remediation hooks. *Hard:* two
ticks can be under way at once, because a save starts a second one; a tick works
on a configuration it read earlier; transitions leave the lock before they are
applied; the delivery queue drops. *Correct when:* a key fires after
`alertConfirmTicks` consecutive rounds and recovers after `alertClearTicks`,
no count outlives the state it was counted in, records and channels end up
saying what the confirmed alerts say.

**Incident manager** (`incident.go`). State, under `m.mu`: the slice of
incidents, `nextID`, `openByKey`. Operations: `raise`, `resolveByKey`, `Ack`,
`Resolve`, `trimLocked`, `Export`, `Import`. Called by the alert engine, SLO,
operators, the flush. *Hard:* the history cap, import after a crash, operators
beside the engine. *Correct when:* the index by key is exact, only resolved
incidents are trimmed, ids are never used twice, an incident is unresolved as
long as its alert is and no longer.

**Remediation** (`remediation.go`). State, under `m.mu`: the ring of runs,
`nextID`, `lastRun` and `hourly` (cool-down and hourly cap); one goroutine per
run; the table `remediation_runs` and two blobs in PostgreSQL. Operations:
`OnAlert`/`evaluateRule`, `ProposeManual`, `Approve`, `Reject`, `launch`,
`finish` with rollback, `scheduleVerify`/`verifyRun`, `persistRun`, the flush
and `Import`. *Hard:* alerts, operators, playbooks and the clock in every
order; a run is written by several goroutines; the table and the blob disagree
after a crash. *Correct when:* cool-down and cap hold, a playbook is launched
at most once and never against a decision, every launched run ends, the history
survives a restart.

**Playbooks** (`playbook*.go`). State, under `pm.mu`: the ring of 100 executions,
`nextExecID`, `schedBusy`, and the cancel functions of `pbRunCancel`; the table
`playbook_executions` and a blob. Operations: scheduled and manual starts, the
goroutines of `runPlaybookExecution` with steps, retries and rollbacks per host,
approve, reject, cancel, the history and its import. *Hard:* a status is
checked and set in two critical sections (`playbook_api.go:540`); cancelling meets
finishing; the next number is guessed after a crash. *Correct when:* a terminal
status stays, an execution ends, the schedule is never stopped for good, a row is
never taken over by another execution.

**SQL change requests** (`sql_change_request.go`, `change.go`). State: tickets under
one lock, change records under another. Operations: create, approve, reject, execute,
expire, and the bridge that moves the record along. *Hard:* handlers are between the
two locks at the same time. *Correct when:* a statement is sent at most once, and the
record of an executed ticket ends completed.

**VictoriaMetrics breaker and writer** (`vm_breaker.go`, `vm.go`). State, under
`b.mu`: `failures`, `openUntil`, `halfOpenProbe`; the writer's channel and batch.
Operations: `allow`, `success`, `failure`, called from `doVMWithBreaker` and, for
rejected batches, `vmImportDone`; `enqueue`, `run` with its flush, retry, trim and
drain. *Hard:* requests overlap, so the answer to one is counted in a state that
another has changed; the loop stops with samples in its hands. *Correct when:* one
probe at a time, the probe slot is always given back, the breaker follows a database
that settles, a sample is stored or known to be given up.

**On-call** (`oncall.go`, `enterprise_ops_api.go`). State: pages and their table.
Operations: start, escalate, acknowledge, resolve, flush, import. *Hard:* the pages
that are due are listed in one critical section and advanced in another; the incident
is answered before its page. *Correct when:* an answered page is not escalated, an
unanswered one goes up to the end of its policy.

**Agent update** (`agent_update*.go`, the agent's `module_agent_update.go`). State:
`inFlight` marks with their age, jobs and rows, `failStreaks`. Operations: pushes by
hand, by reports and by scans, commands with retries, waits, the Windows rescue,
verdicts, eviction of jobs. *Hard:* goroutines of 30 minutes under a mark that ages in
minutes; a late report. *Correct when:* a mark always has somebody who takes it
away, automatic pushes take turns, every job ends.

**Persistence** (`pgstore.go`, `pgstore_writecache.go`): `pgFlush` every 15 s through
a cache of what is already in the table, `bindPG` at start. *Hard:* a transaction
fails after the cache has looked; a lost acknowledgement; a restart. *Correct when:*
a flush that reports success leaves the table as one without the cache would. The
rows of incidents, runs, executions and pages are in the modules of their components.

**Secrets** (`secret_rotate.go`, `crypto*.go`, `admin_reset.go`, and `logcollect.go`
of the agent). State: the key store file, the environment, the configuration in memory
and in its row. Operations: rotation step by step, saves, startup, the reset from the
command line, the log keys of agents. *Hard:* a crash between two steps of a
rotation; a save beside it. *Correct when:* every secret can be opened after a restart.

**Audit chain** (`audit_chain*.go`). State: the rows of the chain. Operations: append
under an advisory lock, verify a window. *Hard:* the signing key is read in two steps
beside a rotation. *Correct when:* entries form one chain, and a genuine one is never
called broken.

**Port forwarding** (`forward.go`, `forward_api.go`, `forward.go` of the agent). State:
rules, sessions and their counts, notices and long polls, two channels per session.
*Hard:* a notice is handed over while the poll times out; a stop while a session is
created; draining at the end. *Correct when:* sessions are counted exactly, the agent
is called once for a session, what the user sent arrives whole, and everything ends.

**Security scans** (`security_alert_bridge.go`) and **alert governance**
(`alertgov.go`) are modelled as far as they meet the alert engine and remediation.

### Not modelled

| component | state | operations and hard behaviour | correct when |
|---|---|---|---|
| Tickets, SLA (`ticket*.go`) | tickets, paused time | pause, resume, breach check | the clock never counts a pause |
| SLO (`slo.go`) | one flag per objective | periodic evaluation, raises incidents | one incident per breach |
| Checks, API monitoring (`check.go`, `apimon*.go`) | last results, streaks | periodic probes | input of the alert engine |
| Change windows (`change.go`) | records | a function of time | input of remediation |
| Incident loop, AI gating (`incident_loop.go`, `ai_*.go`, `aiops.go`) | stage of an incident | operators and AI runs move it | a stage needs its approvals |
| CI/CD (`cicd*.go`) | `seen`, `seeded` | baseline pass, then news | a failure is reported once, no backlog at start |
| Supervision (`supervise.go`, `self_fault.go`) | fault log | restart of loops | a panicking loop comes back |
| Authentication (`auth.go`, `users.go`, `sso.go`, ...) | sessions, users | login, revoke | data and cryptography |
| Collectors (`snmp.go`, `hyperv.go`, ...) | last polls | polling | input of the alert engine |
| Terminal, desktop (`terminal.go`, `desktop_stream.go`) | sessions | byte streams | streams close together |
| Agent (`src/cmd/agent`) | buffer | collect, report | next report repairs a loss |
| Prometheus rules (`promrule.go`) | pending, active | a second evaluator | as the alert engine |
| Assistant, logs, dashboards, reports, backup, web, wire types | data | presentation and I/O | |

### How they interact

```
 sources --cond--> Notifier.tick --+-- alert records (store)
 handleSetConfig --ResetState------+-- push queue --> push goroutine --> channels
                 --go Trigger      +-- hook --> Incidents   <-- operators
                                   +-- hook --> Remediation <-- operators, scans
 Remediation --launch--> playbooks --onDone--> finish --> verifyRun --AlertActive--> Notifier
 schedule --> playbooks <-- approve, reject, cancel
 Incidents --startOnCallForIncident--> pages <-- escalation ticker, ack, resolve
 SQL tickets --bridge--> change records
 pgFlush (15 s) <-- all of them;   bindPG (start) --> all of them
 vmWriter --allow/success/failure--> breaker --> VictoriaMetrics
 rotation --> environment, key file, configuration --> sealed secrets, audit entries, log keys
 user --> listener --> session --notice--> long poll --> agent --> target
```

Hooks are synchronous calls in the goroutine of the tick, after `n.mu` is
released. `verifyRun` reads the alert engine's confirmed alerts 90 s later.

## Modules

| module | models | builds on |
|---|---|---|
| `AlertDebounce` | what the alert engine promises: one two-state automaton per key, no goroutines | |
| `Notifier` | the alert engine | implements `AlertDebounce` |
| `Incidents` | the incident manager with its table | |
| `AlertLoop` | alert engine, incidents, operators, flush, restart | `Notifier`, `Incidents` |
| `Remediation` | remediation with its table, blobs and restart | |
| `SelfHealing` | alert engine, remediation, security scans | `Notifier`, `Remediation` (INSTANCE) |
| `Playbooks` | the schedule, executions, runners, decisions, cancellations | |
| `PlaybookHistory` | the ring of executions, its table and blob, restarts | |
| `SQLChanges` | tickets of SQL changes and their change records | |
| `WriteCache` | the flush of a table of each kind, with its cache | |
| `VMBreaker` | the circuit breaker and the requests under it | |
| `VMIngest` | the writer's loop | `VMBreaker` |
| `OnCall` | pages and their escalation | |
| `AgentUpdate` | the server's side of agent updates, for one host | |
| `SecretKeys` | keys, their rotation, the secrets they seal | |
| `AuditChain`, `LogUpload` | the signed audit log; encrypted log batches | `SecretKeys` |
| `Forwarding`, `ForwardStream` | sessions and notices of a rule; the data of one session | |
| `...Proofs` | theorems, see [below](#theorems) | |
| `MC...` | constants and, where named below, a bounded next-state relation | |

`MCRecords`, `MCOperations` and `MCBackground` check several components that share no
state in one run: the variable `part` says which one a behaviour is about, and the
others stay as they started.

### Notifier

One action per stretch of `tick` between two points at which another goroutine
can be observed: `Begin` (copy of the configuration), `Evaluate`, `Reconcile`
(one critical section of `n.mu`), `Dispatch` (record and push job of one
transition), `Hooked` (the incident and remediation hooks). `pc[w]` is where
worker `w` is: `Ticker` is the goroutine of `Run`, the `Triggers` are those that
`handleSetConfig` starts. A saved configuration is two actions, `SaveConfig` and
`ResetAndTrigger`, because a tick may copy the new configuration before the
reset. Keys stand for `alertKey(a)`, that is host, type and scope. The conditions
`cond` change at any time (`Toggle`); `Evaluate` reads all of them at once, since
the sources are evaluated one after the other within a round of 10 s and a key has
one source. Maps of counters are functions with 0 for no entry. `dispatch` walks
maps, so the order of the transitions of one kind is free, but all firings
precede all recoveries. `records` is the ring of alert records in the store, of
which only the `RecordCap` newest stay, resolved or not (500, `store.go:909`), and
`recordIDs` the engine's map to them: an entry is given as the number of newer
records (`Aged`), so that it is past the ring's length when its record has been
pushed out. Failed pipelines and playbooks that wait for approval file records in
the same ring (`FileOther`). `Deliver` is the push goroutine; a silence may match whenever it looks
(nondeterministic), an inhibit rule when its source is active then. Alert levels,
texts, channels, their retries and the values of alerts are left out: no
transition depends on them.

### Incidents and AlertLoop

Every method is one action, because each holds `m.mu` throughout. The slice is a
function from ids to incidents; ids grow with positions, so "oldest" is "lowest
id". `Flush` upserts and never deletes, as `saveIncidents` does. `Reload` is
`newIncidentManager` followed by `Import`, which is skipped if there are no rows.
In `AlertLoop`, `HookIncident` gives the transition in hand to
`OnAlertTransition`; `Restart` loses what memory held, and reads alert records back
as they were inserted, those of resolved alerts unresolved (`Reloaded`). Severity, timeline,
assignee and comments are left out; `closed` keeps the one thing of the timeline
that properties need, who closed the incident.

### Remediation and SelfHealing

`evaluateRule` is one critical section and one action (the clock, which the code reads
just before the lock, is read in it). What the configuration says
of the rule's playbook at that moment (deleted, forbidden by the command policy,
approval required by a change freeze) is the parameter `plan`; the clock it reads
once is `now`. A run's goroutine is `worker[id]`, a small program counter with the
copy of the run it is about to persist: every `persistRun` outside the lock is a
step of its own (`Persist`), and the first one, which `recordLocked` starts as
`go m.persistRun(cp)`, waits in `unwritten`. `FlushRuns` and `FlushGuards` are the
two blobs that `pgFlush` writes one after the other; `Restart` is `bindPG`: upsert
the blob over the rows, list the rows newest first, import. The limit of 1000 rows
that the list has is above the ring's cap and not reached. A playbook is an
external step that succeeds or fails; its rollback is a trigger.

In `SelfHealing` a host has one alert of the engine that the rules match, so that
hosts are its keys, and a scan alerts with a key of its own on the same host. The
verification delay is counted in rounds of the alert engine (90 s / 10 s);
`VerifyRounds` is shortened with the thresholds' sum as its lower limit.
`shouldAlertSecurity`, which spares repetitions, is over-approximated: scans may
alert at any time.

### Playbooks and PlaybookHistory

`Playbooks` follows the executions of one playbook, whose shape (hosts, steps,
attempts, hosts at a time, what follows a failure) is chosen at the start. A runner is
the goroutine of one execution with a small program for each host; `schedBusy` and
`pbRunCancel` are what the handlers and the runner have in common. Each operator's
request is in `hand`, with the status it has read, so that the check and the act of a
decision are two steps. `ApproveRuns` resets all hosts of the execution at once; the
code takes the lock for each of them, before the runner starts. Variables, command
building, output and preflight are left
out, and so is the assistant, which calls the same handlers.

`PlaybookHistory` keeps of an execution its number, a serial that the program does not
have, and its status: what happens between a start, its row, the flush of the ring and
a restart. `ReloadHistory` is `bindPG` in its order: import the blob, write it over
the rows, list the rows, import them.

### SQLChanges and WriteCache

`request[r]` is a handler: it moves the ticket in one critical section, and then brings
the change record along transition by transition, each with the status it reads then.
`overdue` is the half hour of an approval. `changeSoDAllows` (`change.go:355`) refuses an
author's "approve" alone, and the handlers have refused it before by the same
comparison, so that no transition of the model depends on it.

`WriteCache` follows one table, of any of the four kinds there are (hosts with their two
flushes, mirrored tables, kept ones, blobs). A flush is `BeginFlush` (export and
comparison with the cache), the transaction, which commits or fails, and `Remember`;
objects change meanwhile. One flush is under way at a time: that the last one of a
shutdown (`main.go:494`) may overlap the ticker's (`pgstore.go:2724-2732`) is left out.
Hashes are values: `hash(a) = hash(b)` only if `a = b`.

### VMBreaker and VMIngest

`allow`, `success` and `failure` hold `b.mu`; a request is in flight between them.
Time is ticks; `openUntil` is `tripped` and `coolLeft`; `vmQueryTimeout` bounds
`age`. A request that has its answer reports within the tick. `health` is what the
database answers with: 2xx, 5xx or nothing, 429 ("throttling") or another 4xx. The last
two are successes for `doVMWithBreaker`; the ingest loop keeps the batch of a 429 and
reports nothing more, and counts any other 4xx a failure after all (`Reject`).

In `VMIngest` the loop of `run` is one of the breaker's callers: the select, the push
with its answer, the trim, and after `stopCh` the drain and the last push. Switching
VictoriaMetrics off and the byte bound are left out.

### OnCall and AgentUpdate

`OnCall`: `DuePages` is the list that the ticker takes, `Escalate` one page of it;
`answering` holds the handlers that have moved an incident and not yet its page;
`starting` the goroutines of `startOnCallForIncident`. Whom a step notifies is left out.

`AgentUpdate` follows one host: `asker` is a handler of a push, a report or a scan
between its checks and its mark; `job` a push with its row and its goroutine. The mark
is its age in the three classes that the code distinguishes. Hosts meet in the places
of a big job only, for which a pending row waits. The agent is a new version that may
be reported at any time.

### SecretKeys, AuditChain and LogUpload

The store file, the environment and the configuration's row are the three places where
keys and secrets are; `rotation` is the rotation in its steps, `saving` the other saves.
A key is a passphrase with the id it was given, the day of its rotation with a suffix if
that is taken. Sealing is modelled by the key it was done with; opening looks the id up,
and tries the passphrase. An entry of `AuditChain` is sealed with a key and an id that are
read one after the other. `LogUpload` adds agents that hold the log key of their
registration.

### Forwarding and ForwardStream

`Forwarding` has one rule, with handlers of connections, long polls, stops and edits;
`counts` are the two counters of active sessions. `ForwardStream` is the data: the
goroutines that read from and write to the user, the two channels with their capacity,
the streams to and from the agent, and the done channel that all of them select on; a
chunk for the target is its number, and `toUser` counts the others. The writer takes a
chunk and writes it in two steps: `conn.Write` has no deadline, and a user that does not
read keeps it in the second one until the handler closes the connection. Of the
reasons to close a session, the user's own is told from the rest.

## Runs

All runs are exhaustive. "States" are distinct states.

| run | module and configuration | checks | states |
|---|---|---|---|
| `notifier` | `MCNotifier`, `Notifier.cfg` | types, records, channels, refinement, convergence | 781k |
| `alert_loop` | `MCAlertLoop`, `AlertLoop.cfg` | index, incidents agree with alerts, reasons of closing, liveness | 772k |
| `remediation` | `MCRemediation`, `Remediation.cfg` | cool-down, cap, launches, liveness | 449k |
| `healing` | `MCSelfHealing`, `Healing.cfg` | verdicts on repairs and that there is one, liveness | 98k |
| `background` | `MCBackground`, `Background.cfg` | breaker, writer, agent updates: probes, losses, liveness | 501k |
| `records` | `MCRecords`, `Records.cfg` | what nine components record, through crashes | 2.85M |
| `operations` | `MCOperations`, `Operations.cfg` | playbooks, pages, streams: terminal states, whole requests, liveness | 477k |
| `loop_overtaken` | `MCAlertLoop`, `LoopOvertaken.cfg` | finding | |
| `breaker_rejected` | `VMBreaker`, `BreakerRejected.cfg` | finding | |
| `remediation_decisions` | `MCRemediation`, `RemediationDecisions.cfg` | finding | |
| `admin_reset` | `SecretKeys`, `AdminReset.cfg` | finding | |
| `logs_after_rotation` | `LogUpload`, `LogUpload.cfg` | finding | |

What the bounds are and why they are enough:

* **notifier.** Thresholds 2 and 2, as in the code. Two keys with an inhibit rule
  between them make silenced and dropped jobs meet; a queue of 2 overflows. Two
  saves and a second tick beside the loop make ticks overtake each other. The two
  do not need each other, and together they are too many: `SavesOnOneKey` leaves
  the second key untouched in behaviours with saves. A ring of 2 records stands for
500: with one key's record in it, one newer record leaves it in its place and a
second pushes it out, and that may be the other key's, a later one of the same key or
another source's. `OthersWithoutSaves` and `SavesDeliver` keep the records of others
and a waiting queue apart from what does not read them. `RecordsMirrorAlerts` and
  `ChannelAgreesAtRest` are about behaviours without a save; with one they
  fail, see the divergences. `Debounced` holds with saves.
* **alert_loop.** One key: incidents of different keys meet only in the trim, which
  `records` checks with two. A history of 2 trims here too. One save with a
  second tick, or flushes and a restart: `SavesOrRestarts` keeps them apart, and leaves
  out flushes that nobody would read. One record is kept, which incidents do not
read. The model keeps conditions from
  arising when the ids run out, so that no raise is ever blocked and liveness
  means something.
* **remediation.** One rule with a rollback, two hosts, so that the hourly cap is
  not implied by the cool-down; the cool-down is longer than the hour for the same
  reason; the clock moves 3. `LocalSpec` is the specification without the steps of
  PostgreSQL, so that writes do not multiply the states: no step reads what is written
  before a restart. `MaxID` leaves room for two runs, ids 2 and 3, that guard each
  other. Behaviours end when ids and clock run out, hence no deadlock check.
* **healing.** Thresholds 2 and 2, and a delay of 3 rounds, the shortest for which
  verdicts are right. `OneAfterAnother` has scans alert before the first run and saves
  happen while nothing is recorded: a save makes the engine forget, and verdicts after
  one are wrong (see the divergences). That saves and scans respect the cool-down
  is proved (`RefiringSpared`).
* **background.** Two callers of queries and the writer under one breaker: every
  behaviour of the query breaker, which has readers only, and of the write breaker,
  which has one loop, is one of the mixture. Cool-down 3 and timeout 2 keep their order
  in the code (30 s and 15 s by default). Four samples over a channel of 2 and a batch
  that is pushed and cut at 2 overflow everything that can overflow. Four kinds of
  hosts (with and without Windows, module, download base) go through two update jobs.
* **records.** Incidents: a cap of 2 with four incidents on two keys, one restart.
  Cache: two objects in each kind of table, failing commits, a restart. Playbooks: a
  ring of 2, three executions, two restarts. SQL: one ticket and three handlers, which
  is what a creator, an approver and an executor need. Updates: two askers that push by
  hand or automatically, two jobs. Keys: four keys with two previous ones kept, one
  saver, a death; the chain: three entries, two appenders beside a rotation. Runs: a
  ring of one, one rule, one restart. Forwards: three connections over a limit of two,
  two polls, a stop, a cut. The constraints `NoneLaunched`, `ClocksFlushedEarly`,
  `OneReading`, `RotationsOnly`, `OperatorOrReports`, `CutsOfTwo`, each with its reason
  in `MCRecords`, leave out what meets nothing.
* **operations.** Four shapes of playbook: two hosts that take turns, two steps with
  retries and a rollback, going on after a failure, and two executions that meet; two
  operators, two runners. A policy of up to three steps, one incident, a crash. Streams
  with three chunks in all through channels of 2 and 1: a user that does not read has one
  in its write, one in the channel, and the agent's stream waits with the third.

The type invariants of most modules are in no run: they are proved (`NotifierProofs`,
`RecordsProofs`, `BackgroundProofs`, `SecretsProofs`), or what the proofs need of them is
part of an inductive invariant (`PlaybookHistory`, `VMIngest`). No property holds by the
shape of its module: each has in
`PROJECT.json` a mutated definition, a mistake one could make in that code, for
which TLC finds it violated under the same configuration.

## Fairness

* A tick that is under way goes on, and `Run` ticks for ever: the loop is
  supervised (`superviseLoop`), and the evaluations have timeouts. Weak fairness
  per worker; the same in `AlertLoop` and `SelfHealing`.
* The handler of a configuration request that has saved goes on to reset and
  trigger; the push goroutine delivers: its channels have timeouts.
* The goroutine of a run goes on (`WF` of `Work(id)`), and a playbook ends: its steps
  have timeouts and `onDone` is its last call. `Concludes` rests on that; a panic in a
  playbook is caught by `safeGo` before `onDone` and is not modelled.
* Playbooks: a run that is due starts, runners and handlers at work go on, and somebody
  decides on what waits for approval (the assistant does at its time-out).
* On-call: a page comes due, the ticker ticks, and a listed page is worked on.
* Breaker and writer: time passes, a request is answered or times out and is reported,
  and somebody calls: the loop flushes every 5 s, charts refresh.
* Agent update: the goroutine of each job goes on, all its waits having limits.
* Log upload: collectors send as long as lines come, and a rotation that has begun ends.
  Nothing makes an agent register again.
* Streams: the goroutines of server and agent go on, but a write to the user does not
  end by itself: it is only assumed to fail once the handler has closed the connection
  (`WritesAlone`). The agent's timer of 15 minutes ends what the target leaves open,
  and the idle checker comes round (`forward.go:288-315`): data are bounded by `MaxChunks`,
  and half an hour after the last touch it closes a session that nothing else has
  ended. Nothing is assumed of the user, the target, or of a notice reaching the agent.
* Nothing is assumed of operators, of conditions, of saves, of `pgFlush`, or of the
  order in which `go` statements run.

## Theorems

All are proved for every value of the constants that the modules' assumptions
allow. Every invariant and action property that a passing run checks is stated by a
theorem; what TLC alone checks are the liveness properties. Below, for each module, the
argument: the inductive invariant, and why it is needed.

**NotifierProofs.** `Typing` (`Spec => []TypeOK`). `Counters`:
`CountersWellFormed` is inductive together with the types: `Reconcile` moves a key
between its two states only with its counter at zero, `ResetState` clears all
three maps. `Refinement` (`Spec => Debounced`): `firing` is `active`, `toward[k]` is
the counter of the state `k` is in, and the inbox of an observer is the evaluation a
tick has made and not reconciled; `Reconcile` is a `Round` because, by
`CountersWellFormed`, the other counter is zero; all other steps stutter or
`Observe`. `Records`: `RecordsMirrorAlerts` needs `OneLoop`, that before any save
only the ticker runs, and what it has still to dispatch agrees with `active`. It is
proved for every `RecordCap`, the code's 500 among them: `RingAges` says that another
record moves that of a key one place down or out of the ring, and changes nothing else
of it, whosever it is.
`Channels`: `ChannelAgreesAtRest` is the case of an empty queue of `ChannelInv`: the
last job of a key in the queue says what was dispatched last about it, and without
one the channel was told so.

**AlertLoopProofs.** `IncidentsIndexed` and `HistoryStaysSafe` are about the incident
manager alone. `IndexInv`: ids grow and the last one is in memory; while the history has
never been full, memory has every incident of the table, and no two open rows share a
key; and the index is exact. The trim is the delicate step: that the `n` oldest resolved
ones are removed, and no more, is about ranks of ids, for which the module proves that a set of numbers has a least
element (well-founded induction) and counts what lies before one. `LoopDrivesIncidents`
shows that each step of the composed loop is a step of the incident manager's own
specification or leaves it alone, so that both hold there (`LoopIndexed`). The same for
the alert engine: a step of the loop is one of `Notifier` or a `Restart`, which empties
alerts, counts and inboxes together (`StartOver`), so that `CountersWellFormed` stays
inductive (`LoopCounters`) and the loop implements the automata through restarts
(`LoopDebounced`, against `Debounce!LivesSpec`).
`ResolvedForAReason` adds `LoopAlone`, that before a save only the ticker runs and what
it has in hand is what `active` says, and that rows lag behind incidents;
`IncidentsMirror` follows from `MirrorInv`: open incidents are what the manager was last
told, which differs from `active` by the transition in hand and those still to be
dispatched.

**RemediationProofs.** All through any number of restarts. A crash loses the latest
clocks and restores stale runs, so that the guards hold for each life of the process:
`CooldownPerLife` and `HourlyCapPerLife` say, from any moment (`restarts = r /\ nextID = m`)
until the next restart, that the runs recorded since (ids above `m`) are a cool-down
apart and within the cap; `LaunchesPerLife` that a life launches a run once at most, and
not while it waits, is skipped or rejected: `launches[id] <= restarts + 1`. `Cooldown`,
`HourlyCap` and `Launches`, the properties the run checks, are the case of the first life
(`restarts = 0 => ...`).
What holds in every life is `Calm`: `Ring` (ids in the ring differ, none above `nextID`),
`Guarded` (no clock is of the future), `Busy` (a goroutine with work to do belongs to a
run under way, so a run waiting for approval has none) and `Started` (a run that is about
to be launched has not been in this life). A restart keeps it because rows are listed
under different ids, none above the new `nextID`, there are no goroutines, and the flushed
clocks (`GuardsFit`) are those of some earlier time.
For the runs after `m`, `IInv(m)` adds `Slots` (`lastRun` is no older than any of them
that took a slot: this is what makes the guard at the next firing imply the distance to
all earlier ones, also those a later approval has moved the clock for), and `RateInv(m)`
adds `Counted`: each of them in the last hour has a place of its own in `hourly`, so that
the length of the list bounds their number; pruning removes places of old runs only. Both
hold of no runs at all (`Fresh`), which is how a life begins.
`HistoryIsKept` holds through restarts too. `HistoryInv` says of all copies of
runs that there are (in the ring, in the hands of goroutines, unwritten, in the table,
in the blob): those with one id agree on rule, host and time, and no id is above
`nextID`. It is kept because each copy after a step descends from one before it, or is
the one new run; at a restart, the new `nextID` is the id of the first row listed, which
is the largest there is: rows are listed by rank, and the module counts ranks.

**SelfHealingProofs.** `HealingRemediates`: the loop implements remediation's own
specification, so that `RefiringSpared` is `Cooldown` of the instance: a corollary, which
no run checks again.
`ClearedIsRecovered` needs that before a save only the ticker runs and records say what is
confirmed (`RecordsInv` of the alert engine), which scans keep too.

**BackgroundProofs.** Breaker: `ProbeIsOut` says that whoever holds the slot is a caller
marked as probing, whose request is out or answered. `ProbeIsAlone`, under
`Timeout < CoolDown`, rests on `AloneInv`: while the breaker is open, each request that
is not the probe was let through before the trip, so its age and the rest of the
cool-down add up to at least the cool-down. When the cool-down has passed, such a
request would be older than the timeout, so there is none. Without the hypothesis the
theorem is false (see the divergences).
Writer: `IngestKeepsBreaker` (the loop is one more caller, so the breaker's theorems hold
for it), and `StopLosesNothing` from `PumpInv`, which places every offered sample:
stored, given up, in the batch or in the channel.
On-call: `PagesTyped` (no page passes the end of the longest policy), and `AnswersStay`
from `AnswersInv`: a page is opened once, a due page is pending, and a page on a tick's
list is on it once and has been pending.
Agent update: `MarksAreOwned` (`InHand`: who of askers and goroutines has the mark to
give back) and `AutomaticPushesTakeTurns` (`Turns`: with automatic pushes alone, as long as the
version is behind, one asker or goroutine at most has the host, and its mark is fresh).
Playbooks: `TerminalsStick` and `GuardsAreHeld`, from `PlaybookInv`: executions are
numbered; what there is to undo are steps before the one at hand; verdicts are terminal;
only scheduled executions that nobody has begun await approval; and a set guard has a
holder: the scheduler, an execution that awaits approval, a handler that has approved one,
or a runner that will clear it. `GuardsAreHeld` is the safety half
of `ScheduleResumes`.

**RecordsProofs.** `CacheIsSound` and `FlushesMirror`, from `CacheInv`: for each kind of
table, what the cache remembers is in the row, what a flush has compared is still so
after it has committed, and known ids are those of the rows, blobs whose last write
failed aside. `StatementSentOnce`, from one executor per ticket. `RecordsFollowTickets`,
from `FollowInv`: one handler at most has executed a ticket, and while its record is not
completed that handler is at a transition that the record still needs, unless the
creator's bridge comes late. `NumbersStayApart`, for any
number of restarts: `NumbersApart` says that in ring, table and blob together a number
stands for one execution, an execution has one number, and the next of each is free. A
restart keeps it because there are no more rows than executions (an injection from rows
to serials), hence, while the ring could hold them, all are listed and kept, and the
next number is above the first row.

**SecretsProofs.** `Secrets`, from `KeysInv`: each key is in the place of its passphrase,
stores are ordered by age, the environment comes from them, and, `Covered`, whatever is in
use anywhere (the environment, memory, the row, what savers are about to write) is a key
that is in the store, on its way there, or older than the store keeps. One action lemma
(`Carries`) is shared by all steps. `ChainIsLinked`, `GenuineEntries`, from `ChainInv`: the
holder of the advisory lock appends to the tip it has read, and entries are covered in the
same way.

**ForwardingProofs.** `SessionsAreCounted` (`CountsInv`: the counter is the cardinality of
the registered sessions, whose finiteness is part of the invariant, so that connections
may be infinitely many), `TakenPollsHaveRoom` (`RoomInv`), `AgentIsCalledOnce`
(`NoticeInv`: a notice is in one place), and `RequestArrivesWhole` (`FlowInv`: what has
been read, what is in the channel and what the target got are consecutive, and a close
frame is last).

**Checked by TLC only.** Liveness under fairness: `AlertsConverge`, `IncidentsFollow`,
`Concludes`, `VerdictsAreRight`, `CallersFollow`, `Delivered`, `UpdatesEnd`,
`ExecutionsEnd`, `ScheduleResumes`, `EscalationEnds`, `SessionsEnd`. The proof system has
no rules for fairness and `ENABLED`. The findings are counterexamples. Two things the
provers cannot see shaped the definitions: induction over data, so that recursive
operators (and `SelectSeq`) are avoided in modules with proofs, and a list is given by
the ranks of its elements instead of a fold; and bounds (`MaxID`, `MaxEntries`, ...),
which appear in guards and which no proof needs to be small.

## Observed divergences

Five are checked by runs whose property states the words and which TLC violates
(`findings` in `PROJECT.json`):

* `loop_overtaken`: two ticks dispatch outside the lock; a recovery computed first
  and dispatched last closes the incident of an alert that is confirmed
  (`notify.go:242`; `notify.go:278`).
* `breaker_rejected`: a rejected batch resets the count before it adds one, so that
  rejections never trip the write breaker (`vm_breaker.go:187`; `vm.go:97-99`).
* `remediation_decisions`: after a crash the blob of the last flush is written over
  newer rows, and a decided run waits for approval again (`pgstore.go:2673`,
  `pgstore.go:2667`).
* `admin_reset`: resetting the administrator from the command line after a rotation
  saves the configuration without its secrets (`admin_reset.go:42`;
  `secret_rotate.go:17-18`).
* `logs_after_rotation`: after a rotation the server refuses the logs of every agent
  until it registers again (`sre_api.go:1293`; `crypto.go:112-113`).

The rest are in the models as the code has them, unless the last column or the text says
otherwise, and are the reason for the conditions in the properties.

Alerts, incidents, breaker, remediation:

| where | what the code does | what is said |
|---|---|---|
| `notify.go:127` | `ResetState` forgets a confirmed alert: if its condition goes before it is confirmed again, nothing resolves its incident | `incident.go:13-14` |
| `notify.go:127` | it leaves the record of that alert unresolved if it is not confirmed again; if it is, a second record is opened | `store.go:119`: `ResolvedAt` 0 is "still firing" |
| `store.go:909` | a firing record that newer records have pushed out of the ring of 500 is not found by `ResolveAlert`: its row stays unresolved | the same |
| `pgstore.go:1222`, `1228` | the recovery of a record changes a column that the load at startup does not read: after a restart resolved records are back as firing | the same |
| `notify.go:231` | transitions that a tick reconciles while its copy of the configuration has alerts off are never dispatched; if alerts are on by then, the alert is confirmed without an incident | `notify.go:232`, which means it for what is confirmed and gone while they are off |
| `notify.go:275` | two ticks under way count one condition twice: an alert is confirmed after one round of 10 s instead of two | `notify.go:270-272`, consecutive rounds |
| `notify.go:81` | confirmed alerts are memory only: a condition that goes during a restart never resolves its incident | `incident.go:13-14` |
| `incident.go:404`, `pgstore.go:1284` | an incident resolved and trimmed between two flushes stays open in its row and is back after a restart; resolving it then deletes the index entry of the newer one | `incident.go:71-72`: an index of open incidents |
| `vm_breaker.go:96` | the late success of a request sent before the trip closes the breaker without a probe | `vm_breaker.go:60-62`, exactly one caller probes |
| `vm_breaker.go:105` | with a cool-down shorter than the timeout, the failure of an old request gives the probe's slot away and a second probe gets out | the same |
| `remediation.go:535` | `Approve` looks at neither cool-down nor cap, which may have moved since the run was queued | `remediation.go:36`, minimum seconds between runs; `17-18` |
| `remediation.go:631` | the first write of a run is a goroutine of its own and may overwrite a later one | `remediation.go:628-629`, "idempotent upsert by id" |
| `remediation.go:319` | the end of a run that has left the ring is not recorded, in the table either | `remediation.go:112`, "no ring-buffer loss" |
| `pgstore.go:2816` | the clocks of cool-down and cap are flushed every 15 s: a crash loses the last ones | `pgstore.go:2708`, clocks survive a restart |
| `notify.go:127`, `remediation.go:438` | between a reset and the next confirmation a verification finds no alert and says "cleared" | `remediation.go:60-62` |
| `security_alert_bridge.go:117` | alerts of scans never enter the confirmed alerts: the verdict on their runs is always "cleared" | the same |

Playbooks and SQL changes:

| where | what the code does |
|---|---|
| `playbook_api.go:544` | an approval that was checked before a rejection, a cancellation or another approval revives a terminal execution |
| `playbook.go:174` | cancelling a manual execution clears the guard of a scheduled one, so that runs pile up |
| `playbook.go:517`, `594` | once executions were pushed out of the ring, a restart may give their numbers again and write over their rows; below the cap it does not (`HistoryKeptBelowCap`). "PG table keeps full history" |
| `playbook.go:672` | an execution pushed out of the ring keeps a row that says "running"; so does one started after the last flush when the process dies |
| `pgstore.go:2696` | a restart writes an older blob over newer rows |
| `playbook_cancel.go` | a cancellation before the runner is registered is not signalled to it |
| `sre_api.go:509` | a panic in a playbook skips `clearSchedBusy` and `onDone` (not modelled) |
| `sql_change_request.go` | the creator's bridge, when it comes after the approval, sets the record back to pending (`bridgedLate`); a ticket that is rejected, fails or expires after its approval leaves its record approved; a restart loses tickets; proposers may reject their own |

Writing, on-call, updates:

| where | what the code does |
|---|---|
| `pgstore_writecache.go`, `saveKV` | after a failed write the old hash stays: a value that goes to B with a lost acknowledgement and back to A leaves B in the row |
| `pgstore.go:2622` | a failed load at startup makes the first flush delete the rows of mirrored tables (not modelled: a load succeeds) |
| `vm.go` | producers go on enqueueing after the drain; a shutdown waits for a limited time; after a panic the restarted loop closes `stopped` twice (not modelled) |
| `oncall.go` | a page whose incident recovers by itself goes on escalating; an acknowledgement before the page's goroutine starts is not seen by it; somebody may still be notified of a page answered after the list was taken; a page lost in a crash leaves its incident; `AfterSec` is the wait after its step |
| `agent_update.go:81` | "inFlight prevents overlapping updates for the same host (manual + auto)" does not hold for two pushes by hand, one of which has aged, nor after a report has cleared the mark of a forced reinstall (`1499-1504`); `clearInFlight` clears whoever's mark |
| `agent_update_failstreak.go:190` | a failed rescue does not count for the streak, though all failure paths are said to share it |
| `agent_update.go` | a row may say failed though the version arrived; a command that timed out may still run when it is retried; a restart forgets jobs and marks |

Secrets and audit:

| where | what the code does |
|---|---|
| `audit_chain.go` | key and id of an entry are read in two steps: one signed with the new key under the old id, or the reverse, is called broken for ever; so is one whose id, the third of its day, was given before (`docs/superpowers/specs/2026-08-09-audit-chain-integrity-design.md:179-180`, `274-277`) |
| `secret_rotate.go` | the environment is set before the store is saved; a failed store and a later rotation lose the operator's key; `handleSecurityRewrap` rewraps nothing |
| `config.go:1404` | saves of the configuration are not serialised; tokens of CI/CD connections are never sealed anew and are lost with their key at the sixth rotation |

Forwarding:

| where | what the code does |
|---|---|
| `forward.go:1173` | the writer's select between data and done has no drain: the last of a response may be lost, though comments near 1812 and 1867 say it is not |
| `forward.go:1177` | a write to a user that does not read has no deadline: agent and server hold the session until the user goes, the rule is stopped or half an hour has passed |
| `forward.go:507` | a poll that times out after `notifyAgent` took it loses the notice |
| `forward.go:744`, `791` | a stop removes sessions without decrementing the rule's counter, which never returns to 0 (comment near 233) |
| `forward.go:791`, `forward_api.go:446` | a connection accepted just before a stop lives on after it; a stop between a toggle's check and its listener leaves a disabled rule listening |
| `forward.go:1074` | the loop reads `rule.listener` again without the lock, nil after a stop (not modelled) |
| `forward.go` | a poll looks at waiting notices and registers in two critical sections, so that one may wait 25 s while its session is given up after 10; the notices of an absent agent are unbounded; a user that closes before the agent attaches loses its request; a full channel leaves a gap when the tx stream drains; the agent keeps the connection of a user that left until the target closes, or 15 minutes |

## Not modelled

What an evaluator computes, alert levels and texts, channels, templates: inputs and
data. Grouping, digests and quiet hours: decided in the push goroutine after the
steps of `Deliver`. Matching of remediation rules, editing of rules, the command
policy: nondeterministic inputs. Failures of PostgreSQL are in `WriteCache` and
`SecretKeys`; elsewhere they appear as flushes that do not happen; a failed
`persistRun`, which is logged and forgotten in the code, is not modelled.
Panics. UDP rules, the HTTP proxy, whitelists and rule creation of forwarding.
Entries of the first audit format and their migration, the gate in front of a verification
(which may hand a waiter the result of another limit). The agent's side of an update.
Numeric widths: counters and ids are 64 bits and are not reached.
The remaining components are in the table above and in `PROJECT.json` with their
reasons. Of these, the ones with transitions of their own that could be next are
`cicd_watch.go` (its `seen` set is lost with a panic at line 65), tickets and their SLA
(ticket ids are used again after a deletion and a restart), and the incident loop.
