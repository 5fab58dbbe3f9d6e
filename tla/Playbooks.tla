------------------------------- MODULE Playbooks -------------------------------
(***************************************************************************)
(* The executions of one playbook (src/cmd/server/playbook.go,             *)
(* playbook_api.go, playbook_cancel.go): the scheduler, the goroutines that *)
(* run executions on the hosts, and the handlers that approve, reject and  *)
(* cancel them.  The manager's methods each hold pm.mu; between two of them *)
(* anything else may happen.  Fewer executions start than the ring of 100  *)
(* holds, so that none is trimmed here (PlaybookHistory has the ring).     *)
(***************************************************************************)
EXTENDS Naturals, FiniteSets

CONSTANTS
  Operators,     \* callers of the handlers, and the assistant with its time-outs
  Runners,       \* goroutines of runPlaybookExecution
  NoRunner,
  Shapes         \* the playbooks considered, each with the bounds of its behaviours

ASSUME PlaybooksAssumption ==
  /\ NoRunner \notin Runners
  /\ \A p \in Shapes :
       /\ {p.steps, p.attempts, p.parallel, p.maxExecutions} \subseteq Nat \ {0}
       /\ p.maxCancels \in Nat
       /\ {p.continueErr, p.autoRollback} \subseteq BOOLEAN

VARIABLES
  playbook,      \* its online targets, number of steps, attempts at each step,
                 \* bound on the hosts at work, and what follows a failed step;
                 \* and the bounds on executions and cancellations
  executions,    \* id -> execution
  schedBusy,     \* a scheduled run is in flight
  scheduler,     \* "idle", or "due": schedBusy is set and nothing started yet
  runCancel,     \* pbRunCancel: the runner whose cancel func is registered
  runner,        \* what each goroutine is doing
  hand,          \* what each operator's request is doing
  cancels        \* cancellations so far

pbVars ==
  <<playbook, executions, schedBusy, scheduler, runCancel, runner, hand, cancels>>

AllTargets == UNION {p.targets : p \in Shapes}
Targets == playbook.targets
Terminal == {"completed", "failed", "partial", "cancelled", "rejected"}
HostStatuses == {"pending", "running", "success", "failed", "cancelled"}
Execution ==
  [status : Terminal \cup {"running", "pending_approval"},
   trigger : {"manual", "schedule"},
   awaited : BOOLEAN,            \* it was pending_approval once
   hosts : [Targets -> HostStatuses]]

\* A host's goroutine: the step and attempt it is at, and the steps to undo; forgotten
\* when it is done.
HostWork ==
  [at : {"queued", "step", "rollback", "done"}, step : 1..playbook.steps,
   attempt : 1..playbook.attempts, failed : BOOLEAN, undo : 0..playbook.steps]
Fresh == [at |-> "queued", step |-> 1, attempt |-> 1, failed |-> FALSE, undo |-> 0]

Done == [Fresh EXCEPT !.at = "done"]

\* clears: clearSchedBusy is called when the run has returned.
Idle == [stage |-> "free", id |-> 0, ctx |-> FALSE, clears |-> FALSE,
         verdict |-> "none", work |-> [h \in Targets |-> Fresh]]
Spawned(id, clears) == [Idle EXCEPT !.stage = "spawned", !.id = id, !.clears = clears]
AtRest == [does |-> "nothing", id |-> 0, clears |-> FALSE]

ExecIDs == 1..playbook.maxExecutions

PlaybooksTypeOK ==
  /\ playbook \in Shapes
  /\ DOMAIN executions \subseteq ExecIDs
  /\ \A id \in DOMAIN executions : executions[id] \in Execution
  /\ schedBusy \in BOOLEAN
  /\ scheduler \in {"idle", "due"}
  /\ runCancel \in [ExecIDs -> Runners \cup {NoRunner}]
  /\ runner \in [Runners ->
       [stage : {"free", "spawned", "running", "verdict", "leaving"},
        id : 0..playbook.maxExecutions, ctx : BOOLEAN, clears : BOOLEAN,
        verdict : Terminal \cup {"none"}, work : [Targets -> HostWork]]]
  /\ hand \in [Operators ->
       [does : {"nothing", "approve", "approved", "reject", "signal", "hosts", "finish"},
        id : 0..playbook.maxExecutions, clears : BOOLEAN]]
  /\ cancels \in 0..playbook.maxCancels

PlaybooksInit ==
  /\ playbook \in Shapes
  /\ executions = << >>
  /\ schedBusy = FALSE
  /\ scheduler = "idle"
  /\ runCancel = [id \in ExecIDs |-> NoRunner]
  /\ runner = [r \in Runners |-> Idle]
  /\ hand = [o \in Operators |-> AtRest]
  /\ cancels = 0

-----------------------------------------------------------------------------
(* The manager's methods, as functions of the executions.                   *)

\* startExecution
Started(id, trigger, status) ==
  [i \in DOMAIN executions \cup {id} |->
     IF i \in DOMAIN executions THEN executions[i]
     ELSE [status |-> status, trigger |-> trigger, awaited |-> status = "pending_approval",
           hosts |-> [h \in Targets |-> "pending"]]]

\* Mutant: the last status wins.
FinishedAnyway(ex, id, status) ==
  [i \in DOMAIN ex |-> IF i = id THEN [ex[i] EXCEPT !.status = status] ELSE ex[i]]
\* FinishExecution: a terminal status is kept.
Finished(ex, id, status) ==
  [i \in DOMAIN ex |-> IF i = id /\ ex[i].status \notin Terminal
                       THEN [ex[i] EXCEPT !.status = status] ELSE ex[i]]

\* UpdateHostResult: nothing changes in a terminal execution or on a cancelled host.
HostUpdated(ex, id, h, status) ==
  [i \in DOMAIN ex |->
     IF i = id /\ ex[i].status \notin Terminal /\ ex[i].hosts[h] # "cancelled"
     THEN [ex[i] EXCEPT !.hosts[h] = status] ELSE ex[i]]

\* CancelUnfinishedHosts
HostsCancelled(ex, id) ==
  [i \in DOMAIN ex |->
     IF i # id THEN ex[i]
     ELSE [ex[i] EXCEPT !.hosts = [h \in Targets |->
             IF @[h] \in {"pending", "running"} THEN "cancelled" ELSE @[h]]]]

-----------------------------------------------------------------------------
(* Starting an execution.                                                   *)

NextExecID == Cardinality(DOMAIN executions) + 1
FreeRunners == {r \in Runners : runner[r].stage = "free"}

\* Which goroutine it is does not matter.
Spawn(id, clears) ==
  /\ FreeRunners # {}
  /\ LET r == CHOOSE r \in FreeRunners : TRUE
     IN  runner' = [runner EXCEPT ![r] = Spawned(id, clears)]

\* handleExecutePlaybook, and triggerPlaybookOnHost of a remediation rule or the
\* assistant.
StartManual ==
  /\ NextExecID <= playbook.maxExecutions
  /\ executions' = Started(NextExecID, "manual", "running")
  /\ Spawn(NextExecID, FALSE)
  /\ UNCHANGED <<playbook, schedBusy, scheduler, runCancel, hand, cancels>>

\* dueSchedules: an occurrence is due, and no scheduled run is in flight.
Due ==
  /\ scheduler = "idle"
  /\ ~schedBusy
  /\ NextExecID <= playbook.maxExecutions
  /\ scheduler' = "due"
  /\ schedBusy' = TRUE
  /\ UNCHANGED <<playbook, executions, runCancel, runner, hand, cancels>>

\* fireScheduledPlaybook: no online target, a change freeze or a failed preflight;
\* approval required; or a read-only run, which starts at once.
FireSkipped ==
  /\ scheduler = "due"
  /\ scheduler' = "idle"
  /\ schedBusy' = FALSE
  /\ UNCHANGED <<playbook, executions, runCancel, runner, hand, cancels>>

FirePending ==
  /\ scheduler = "due"
  /\ NextExecID <= playbook.maxExecutions
  /\ scheduler' = "idle"
  /\ executions' = Started(NextExecID, "schedule", "pending_approval")
  /\ UNCHANGED <<playbook, schedBusy, runCancel, runner, hand, cancels>>

FireReadOnly ==
  /\ scheduler = "due"
  /\ NextExecID <= playbook.maxExecutions
  /\ scheduler' = "idle"
  /\ executions' = Started(NextExecID, "schedule", "running")
  /\ Spawn(NextExecID, TRUE)
  /\ UNCHANGED <<playbook, schedBusy, runCancel, hand, cancels>>

-----------------------------------------------------------------------------
(* runPlaybookExecution.                                                    *)

\* The command policy has changed since the playbook was saved.
Blocked(r) ==
  /\ runner[r].stage = "spawned"
  /\ executions' = Finished(executions, runner[r].id, "failed")
  /\ runner' = [runner EXCEPT ![r] = Idle]
  /\ schedBusy' = (schedBusy /\ ~runner[r].clears)
  /\ UNCHANGED <<playbook, scheduler, runCancel, hand, cancels>>

\* registerPlaybookRun: an older run of the same execution is cancelled.
Register(r) ==
  /\ runner[r].stage = "spawned"
  /\ LET old == runCancel[runner[r].id]
     IN  runner' = [q \in Runners |->
           IF q = r THEN [runner[q] EXCEPT !.stage = "running"]
           ELSE IF q = old THEN [runner[q] EXCEPT !.ctx = TRUE]
           ELSE runner[q]]
  /\ runCancel' = [runCancel EXCEPT ![runner[r].id] = r]
  /\ UNCHANGED <<playbook, executions, schedBusy, scheduler, hand, cancels>>

\* Mutant: a host that is done keeps its place in the semaphore.
WorkingLeaked(r) == {h \in Targets : runner[r].work[h].at # "queued"}
Working(r) == {h \in Targets : runner[r].work[h].at \in {"step", "rollback"}}

\* The host's goroutine goes on to w, having written status to the host's result.
HostGoes(r, h, w, status) ==
  /\ runner' = [runner EXCEPT ![r].work[h] = w]
  /\ executions' = HostUpdated(executions, runner[r].id, h, status)
  /\ UNCHANGED <<playbook, schedBusy, scheduler, runCancel, hand, cancels>>

Admitted(r, h) == runner[r].ctx \/ Cardinality(Working(r)) < playbook.parallel

\* The host gets a place in the semaphore, or the run is cancelled first.
HostStart(r, h) ==
  LET w == runner[r].work[h]
  IN  /\ runner[r].stage = "running"
      /\ w.at = "queued"
      /\ Admitted(r, h)
      /\ IF runner[r].ctx
           THEN HostGoes(r, h, Done, "cancelled")
           ELSE HostGoes(r, h, [w EXCEPT !.at = "step"], "running")

\* The steps are over: roll back what succeeded before a failure, or be done.
AfterSteps(r, h, w) ==
  IF w.failed /\ playbook.autoRollback /\ w.undo > 0 /\ ~runner[r].ctx
    THEN HostGoes(r, h, [w EXCEPT !.at = "rollback"], "failed")
    ELSE HostGoes(r, h, Done, IF w.failed THEN "failed" ELSE "success")

AfterStep(r, h, w) ==
  IF w.step < playbook.steps /\ (~w.failed \/ playbook.continueErr)
    THEN HostGoes(r, h, [w EXCEPT !.step = @ + 1, !.attempt = 1],
                  IF w.failed THEN "failed" ELSE "running")
    ELSE AfterSteps(r, h, w)

\* The command returns, or the step is skipped by its condition.  A cancelled run
\* drops whatever it returned; a failure of the infrastructure is retried, an exit
\* code is not, unless the step says so, which makes it one of the other kind.
StepEnds(r, h, outcome) ==
  LET w == runner[r].work[h]
  IN  /\ runner[r].stage = "running"
      /\ w.at = "step"
      /\ \/ /\ runner[r].ctx
            /\ outcome = "cancelled"
            /\ HostGoes(r, h, Done, "cancelled")
         \/ /\ ~runner[r].ctx
            /\ outcome \in {"ok", "skipped"}
            /\ AfterStep(r, h, IF outcome = "ok" THEN [w EXCEPT !.undo = @ + 1] ELSE w)
         \/ /\ ~runner[r].ctx
            /\ outcome = "infra"
            /\ w.attempt < playbook.attempts
            /\ HostGoes(r, h, [w EXCEPT !.attempt = @ + 1],
                        executions[runner[r].id].hosts[h])
         \/ /\ ~runner[r].ctx
            /\ \/ outcome = "exit"
               \/ outcome = "infra" /\ w.attempt = playbook.attempts
            /\ AfterStep(r, h, [w EXCEPT !.failed = TRUE])

\* One step is undone, however its command ends; none after a cancellation.
RollbackEnds(r, h) ==
  LET w == runner[r].work[h]
  IN  /\ runner[r].stage = "running"
      /\ w.at = "rollback"
      /\ IF w.undo > 1 /\ ~runner[r].ctx
           THEN HostGoes(r, h, [w EXCEPT !.undo = @ - 1], "failed")
           ELSE HostGoes(r, h, Done, "failed")

Outcome(hosts) ==
  IF \A h \in Targets : hosts[h] = "success" THEN "completed"
  ELSE IF \E h \in Targets : hosts[h] = "success" THEN "partial" ELSE "failed"

\* wg.Wait is over: the execution is read again.
Collect(r) ==
  /\ runner[r].stage = "running"
  /\ \A h \in Targets : runner[r].work[h].at = "done"
  /\ LET e == executions[runner[r].id]
         verdict == IF e.status = "cancelled" \/ runner[r].ctx THEN "cancelled"
                    ELSE Outcome(e.hosts)
     IN  runner' = [runner EXCEPT ![r] =
           [@ EXCEPT !.stage = "verdict", !.verdict = verdict, !.work = Idle.work]]
  /\ UNCHANGED <<playbook, executions, schedBusy, scheduler, runCancel, hand, cancels>>

Conclude(r) ==
  /\ runner[r].stage = "verdict"
  /\ LET id == runner[r].id
         ex == IF runner[r].verdict = "cancelled" THEN HostsCancelled(executions, id)
               ELSE executions
     IN  executions' = Finished(ex, id, runner[r].verdict)
  /\ runner' = [runner EXCEPT ![r].stage = "leaving"]
  /\ UNCHANGED <<playbook, schedBusy, scheduler, runCancel, hand, cancels>>

\* unregisterPlaybookRun deletes the entry, whoever registered it last.
Leave(r) ==
  /\ runner[r].stage = "leaving"
  /\ runCancel' = [runCancel EXCEPT ![runner[r].id] = NoRunner]
  /\ schedBusy' = (schedBusy /\ ~runner[r].clears)
  /\ runner' = [runner EXCEPT ![r] = Idle]
  /\ UNCHANGED <<playbook, executions, scheduler, hand, cancels>>

-----------------------------------------------------------------------------
(* The handlers.                                                            *)

Request(o, does, id, clears) ==
  /\ hand[o] = AtRest
  /\ id \in DOMAIN executions
  /\ hand' = [hand EXCEPT ![o] = [does |-> does, id |-> id, clears |-> clears]]
  /\ UNCHANGED <<playbook, executions, schedBusy, scheduler, runCancel, runner>>

\* Each handler first looks at the status and answers 409 unless it allows it.
CheckApprove(o, id) ==
  /\ Request(o, "approve", id, TRUE)
  /\ executions[id].status = "pending_approval"
  /\ UNCHANGED cancels
CheckReject(o, id) ==
  /\ Request(o, "reject", id, TRUE)
  /\ executions[id].status = "pending_approval"
  /\ UNCHANGED cancels
CheckCancel(o, id) ==
  /\ cancels < playbook.maxCancels
  /\ cancels' = cancels + 1
  /\ Request(o, "signal", id, TRUE)
  /\ executions[id].status \in {"running", "pending_approval"}
\* abortPlaybookExec: the assistant gives a command it runs up, with no check.
Abort(o, id) ==
  /\ cancels < playbook.maxCancels
  /\ cancels' = cancels + 1
  /\ Request(o, "signal", id, FALSE)
  /\ executions[id].trigger = "manual"
  /\ \E r \in Runners : runner[r].stage # "free" /\ runner[r].id = id

\* handleApprovePlaybookExecution finds no online target.
\* Mutant: and leaves the guard of the schedule.
ApproveNoHostsKeepsBusy(o) ==
  /\ hand[o].does = "approve"
  /\ executions' = Finished(executions, hand[o].id, "failed")
  /\ hand' = [hand EXCEPT ![o] = AtRest]
  /\ UNCHANGED <<playbook, schedBusy, scheduler, runCancel, runner, cancels>>
ApproveNoHosts(o) ==
  /\ hand[o].does = "approve"
  /\ executions' = Finished(executions, hand[o].id, "failed")
  /\ schedBusy' = FALSE
  /\ hand' = [hand EXCEPT ![o] = AtRest]
  /\ UNCHANGED <<playbook, scheduler, runCancel, runner, cancels>>

\* SetExecutionStatus, whatever the status is by now.
Approve(o) ==
  /\ hand[o].does = "approve"
  /\ executions' = [executions EXCEPT ![hand[o].id].status = "running"]
  /\ hand' = [hand EXCEPT ![o].does = "approved"]
  /\ UNCHANGED <<playbook, schedBusy, scheduler, runCancel, runner, cancels>>

\* The results of the hosts are reset, and a run starts: one step here, although the
\* code takes the lock for one host after the other.
Resets(ex, id) ==
  [i \in DOMAIN ex |->
     IF i # id \/ ex[i].status \in Terminal THEN ex[i]
     ELSE [ex[i] EXCEPT !.hosts = [h \in Targets |->
             IF @[h] = "cancelled" THEN @[h] ELSE "pending"]]]
ApproveRuns(o) ==
  /\ hand[o].does = "approved"
  /\ executions' = Resets(executions, hand[o].id)
  /\ Spawn(hand[o].id, TRUE)
  /\ hand' = [hand EXCEPT ![o] = AtRest]
  /\ UNCHANGED <<playbook, schedBusy, scheduler, runCancel, cancels>>

\* handleRejectPlaybookExecution
RejectDecides(o) ==
  /\ hand[o].does = "reject"
  /\ executions' = Finished(executions, hand[o].id, "rejected")
  /\ schedBusy' = FALSE
  /\ hand' = [hand EXCEPT ![o] = AtRest]
  /\ UNCHANGED <<playbook, scheduler, runCancel, runner, cancels>>

\* signalPlaybookCancel: the registered run is told; its sessions are closed, which
\* a run that is not told takes for a failure of the infrastructure.
Signal(o) ==
  /\ hand[o].does = "signal"
  /\ LET r == runCancel[hand[o].id]
     IN  runner' = IF r = NoRunner THEN runner ELSE [runner EXCEPT ![r].ctx = TRUE]
  /\ hand' = [hand EXCEPT ![o].does = "hosts"]
  /\ UNCHANGED <<playbook, executions, schedBusy, scheduler, runCancel, cancels>>

CancelHosts(o) ==
  /\ hand[o].does = "hosts"
  /\ executions' = HostsCancelled(executions, hand[o].id)
  /\ hand' = [hand EXCEPT ![o].does = "finish"]
  /\ UNCHANGED <<playbook, schedBusy, scheduler, runCancel, runner, cancels>>

CancelFinish(o) ==
  /\ hand[o].does = "finish"
  /\ executions' = Finished(executions, hand[o].id, "cancelled")
  /\ schedBusy' = (schedBusy /\ ~hand[o].clears)
  /\ hand' = [hand EXCEPT ![o] = AtRest]
  /\ UNCHANGED <<playbook, scheduler, runCancel, runner, cancels>>

-----------------------------------------------------------------------------

Fire == FireSkipped \/ FirePending \/ FireReadOnly

HostStep(r, h) ==
  /\ h \in Targets
  /\ \/ HostStart(r, h)
     \/ \E outcome \in {"ok", "skipped", "infra", "exit", "cancelled"} :
          StepEnds(r, h, outcome)
     \/ RollbackEnds(r, h)

RunnerStep(r) == Blocked(r) \/ Register(r) \/ Collect(r) \/ Conclude(r) \/ Leave(r)

\* A request that has been checked goes on.
Handle(o) ==
  \/ ApproveNoHosts(o) \/ Approve(o) \/ ApproveRuns(o)
  \/ RejectDecides(o) \/ Signal(o) \/ CancelHosts(o) \/ CancelFinish(o)

DecidePending ==
  \E o \in Operators, id \in ExecIDs :
    CheckApprove(o, id) \/ CheckReject(o, id) \/ CheckCancel(o, id)

Run == \E r \in Runners : RunnerStep(r) \/ \E h \in AllTargets : HostStep(r, h)
HandlerSteps == \E o \in Operators : Handle(o)

PlaybooksNext ==
  \/ StartManual
  \/ Due \/ Fire
  \/ Run
  \/ DecidePending
  \/ \E o \in Operators, id \in ExecIDs : Abort(o, id)
  \/ HandlerSteps

\* Goroutines run and their commands time out, requests are answered, the scheduler
\* fires what is due, and somebody decides on what waits for approval.  A goroutine
\* and a request have finitely many steps, so that none starves another.
PlaybooksFairness ==
  WF_pbVars(Fire) /\ WF_pbVars(Run) /\ WF_pbVars(HandlerSteps) /\ WF_pbVars(DecidePending)

PlaybooksSpec == PlaybooksInit /\ [][PlaybooksNext]_pbVars
FairPlaybooksSpec == PlaybooksSpec /\ PlaybooksFairness

-----------------------------------------------------------------------------
(* Properties.                                                              *)

\* "Terminal statuses are sticky": nothing that comes late, a runner's verdict, a
\* second cancellation, changes one; only an approval that was checked while the
\* execution was pending can.
TerminalSticks ==
  [][\A id \in DOMAIN executions :
       executions[id].status \in Terminal /\ executions'[id].status # executions[id].status
         => \E o \in Operators : hand[o].does = "approve" /\ hand[o].id = id]_pbVars

\* Every execution ends and stays ended, whoever approves, rejects or cancels it
\* while it waits, starts, retries or is rolled back.
ExecutionsEnd ==
  <>[](\A id \in DOMAIN executions : executions[id].status \in Terminal)

\* The schedule is never blocked for good: what holds its guard lets it go.
ScheduleResumes == schedBusy ~> ~schedBusy
=============================================================================
