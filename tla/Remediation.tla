------------------------------ MODULE Remediation ------------------------------
(***************************************************************************)
(* Closed-loop auto-remediation (src/cmd/server/remediation.go): rules     *)
(* match a firing alert to a playbook; cool-down, hourly cap and an        *)
(* operator's approval guard its launch; the run is followed to its end,   *)
(* rolled back if it failed, and verified against the alert.  Every        *)
(* critical section of m.mu is one action, and so is every write to        *)
(* PostgreSQL between two of them.  A restart (bindPG) finds the           *)
(* remediation_runs rows and the blobs of the last 15 s flush.             *)
(***************************************************************************)
EXTENDS Naturals, Sequences, FiniteSets

CONSTANTS
  Rules, Hosts,
  Manual,        \* RuleID of ProposeManual's runs: ""
  ApprovalRules, \* rules with RequireApproval
  DryRules,      \* rules with DryRun
  RollbackRules, \* rules with a RollbackPlaybookID
  CoolDown,      \* CooldownSec
  MaxPerHour,    \* 0: no cap
  Hour,
  RingCap,       \* remediationRunCap
  HasPG,         \* s.pg is set
  MaxID, MaxTime, MaxRestarts    \* bounds on ids, the clock and restarts

ASSUME RemediationAssumption ==
  /\ Manual \notin Rules
  /\ ApprovalRules \cup DryRules \cup RollbackRules \subseteq Rules
  /\ {CoolDown, MaxPerHour, Hour, MaxID, MaxTime, MaxRestarts} \subseteq Nat
  /\ RingCap \in Nat \ {0}
  /\ HasPG \in BOOLEAN

VARIABLES
  now,
  runs,          \* m.runs, the in-memory ring
  nextID,        \* m.nextID: the last id given
  lastRun,       \* m.lastRun, 0 where the map has no entry
  hourly,        \* m.hourly
  worker,        \* what the goroutine of each run is about to do
  launches,      \* how often the playbook of each run was launched
  unwritten,     \* initial records whose persistRun has not run yet
  stored,        \* table remediation_runs
  kvRuns,        \* blob remediation_runs: {} before the first flush, {list} after
  kvGuards,      \* blob remediation_guards
  restarts

guards == <<lastRun, hourly>>
memory == <<runs, nextID, guards, worker>>
database == <<stored, kvRuns, kvGuards>>
vars == <<now, memory, launches, unwritten, database, restarts>>

Ids == 1..MaxID
Skips == {"skipped_policy", "skipped_cooldown", "skipped_ratelimit", "no_playbook", "dry_run"}
Reserving == {"pending_approval", "running"}
Statuses == Skips \cup Reserving \cup {"success", "failed", "rejected", "rolling_back"}
Run ==
  [id : Ids, rule : Rules \cup {Manual}, host : Hosts, status : Statuses,
   verify : {"", "pending", "cleared", "still_firing"}, at : Nat, decided : Nat]

\* A stage with a copy of the run to persist, and the one after the write.
Persisting == {"approved", "rejected", "gone", "succeeded", "failed", "scheduled",
               "verified", "rolledback"}
Stages == Persisting \cup {"idle", "launch", "executing", "ended", "sleeping",
                           "saw_firing", "saw_clear", "rollback", "rolling"}
Idle == [stage |-> "idle", row |-> <<>>]

Init ==
  /\ now = CoolDown
  /\ runs = <<>>
  /\ nextID = 1
  /\ lastRun = [c \in Rules \X Hosts |-> 0]
  /\ hourly = [r \in Rules |-> <<>>]
  /\ worker = [id \in Ids |-> Idle]
  /\ launches = [id \in Ids |-> 0]
  /\ unwritten = {}
  /\ stored = <<>>
  /\ kvRuns = {}
  /\ kvGuards = [lastRun |-> lastRun, hourly |-> hourly]
  /\ restarts = 0

-----------------------------------------------------------------------------
(* Recording a run.                                                         *)

LastRuns(s) == SubSeq(s, IF Len(s) > RingCap THEN Len(s) - RingCap + 1 ELSE 1, Len(s))
Put(f, x, v) == [y \in DOMAIN f \cup {x} |-> IF y = x THEN v ELSE f[y]]

Found(id) == \E i \in DOMAIN runs : runs[i].id = id
\* Position of a run in the ring, for an id that is Found.
At(id) == CHOOSE i \in DOMAIN runs : runs[i].id = id
IsPending(id) == Found(id) /\ runs[At(id)].status = "pending_approval"

New(r, h, status) ==
  [id |-> nextID + 1, rule |-> r, host |-> h, status |-> status, verify |-> "",
   at |-> now, decided |-> 0]

Record(run) ==
  /\ nextID < MaxID
  /\ nextID' = nextID + 1
  /\ runs' = LastRuns(Append(runs, run))
  /\ launches' = [launches EXCEPT ![run.id] = 0]

-----------------------------------------------------------------------------
(* evaluateRule.                                                            *)

Cooling(r, h) == CoolDown > 0 /\ now < lastRun[r, h] + CoolDown

\* The hour is pruned if the rule has a cap: what passes, in its order.
Recent(r) ==
  LET times == hourly[r]
      kept == {i \in DOMAIN times : times[i] + Hour >= now}
      Nth(k) == CHOOSE i \in kept : Cardinality({j \in kept : j <= i}) = k
  IN  IF MaxPerHour > 0 THEN [k \in 1..Cardinality(kept) |-> times[Nth(k)]] ELSE times

\* Mutant: off by one at the cap.
CappedLate(r) == MaxPerHour > 0 /\ Len(Recent(r)) > MaxPerHour
Capped(r) == MaxPerHour > 0 /\ Len(Recent(r)) >= MaxPerHour

\* What the configuration says of the rule's playbook when the alert fires:
\* gone, refused by the command policy, to be approved (also while a change
\* freeze is on), or free to run.
Plans(r) == {"gone", "forbidden", "approve"} \cup IF r \in ApprovalRules THEN {} ELSE {"auto"}

\* evaluateRule's early returns, in their order.
Outcome(r, h, plan) ==
  IF plan = "forbidden" THEN "skipped_policy"
  ELSE IF Cooling(r, h) THEN "skipped_cooldown"
  ELSE IF Capped(r) THEN "skipped_ratelimit"
  ELSE IF plan = "gone" THEN "no_playbook"
  ELSE IF r \in DryRules THEN "dry_run"
  ELSE IF plan = "approve" THEN "pending_approval"
  ELSE "running"

\* Mutant: only a launch takes a slot, a run that waits for approval does not.
ReserveRunning(r, h, out) ==
  /\ lastRun' = IF out = "running" THEN [lastRun EXCEPT ![<<r, h>>] = now] ELSE lastRun
  /\ hourly' =
       [hourly EXCEPT ![r] = IF out \in {"skipped_policy", "skipped_cooldown"} THEN @
                             ELSE IF out = "running" THEN Append(Recent(r), now)
                             ELSE Recent(r)]
\* The slots are taken, and the hour pruned, while the run is recorded.
Reserve(r, h, out) ==
  /\ lastRun' = IF out \in Reserving THEN [lastRun EXCEPT ![<<r, h>>] = now] ELSE lastRun
  /\ hourly' =
       [hourly EXCEPT ![r] = IF out \in {"skipped_policy", "skipped_cooldown"} THEN @
                             ELSE IF out \in Reserving THEN Append(Recent(r), now)
                             ELSE Recent(r)]

EvaluateRule(r, h, plan) ==
  LET out == Outcome(r, h, plan)
      run == New(r, h, out)
  IN  /\ Record(run)
      /\ Reserve(r, h, out)
      /\ unwritten' = IF HasPG THEN unwritten \cup {run} ELSE unwritten
      /\ worker' = IF out = "running"
                     THEN [worker EXCEPT ![run.id] = [stage |-> "launch", row |-> run]]
                     ELSE worker
      /\ UNCHANGED <<now, database, restarts>>

\* ProposeManual: no rule, no guards.  It persists its copy before it returns, but
\* after the unlock: its row may be late as well.
ProposeManual(h) ==
  LET run == New(Manual, h, "pending_approval")
  IN  /\ Record(run)
      /\ unwritten' = IF HasPG THEN unwritten \cup {run} ELSE unwritten
      /\ UNCHANGED <<now, guards, worker, database, restarts>>

-----------------------------------------------------------------------------
(* The operator's decision.                                                 *)

\* A critical section that rewrites the run and leaves a copy to persist.
Step(id, stage, run) ==
  /\ runs' = [runs EXCEPT ![At(id)] = run]
  /\ worker' = [worker EXCEPT ![id] = [stage |-> stage, row |-> run]]

\* Mutant: a run that is already under way or rejected can be approved again.
ApproveAny(id) ==
  /\ Found(id)
  /\ worker[id] = Idle
  /\ LET run == runs[At(id)]
     IN  Step(id, "approved", [run EXCEPT !.status = "running", !.decided = now])
  /\ UNCHANGED <<now, nextID, guards, launches, unwritten, database, restarts>>

\* Approve: the run starts now and takes the slots of its rule a second time.
Approve(id) ==
  /\ IsPending(id)
  /\ LET run == runs[At(id)]
     IN  /\ Step(id, "approved", [run EXCEPT !.status = "running", !.decided = now])
         /\ IF run.rule = Manual THEN UNCHANGED guards
            ELSE /\ lastRun' = [lastRun EXCEPT ![<<run.rule, run.host>>] = now]
                 /\ hourly' = [hourly EXCEPT ![run.rule] = Append(@, now)]
  /\ UNCHANGED <<now, nextID, launches, unwritten, database, restarts>>

\* Approve when the playbook has been deleted.
ApproveGone(id) ==
  /\ IsPending(id)
  /\ Step(id, "gone", [runs[At(id)] EXCEPT !.status = "no_playbook"])
  /\ UNCHANGED <<now, nextID, guards, launches, unwritten, database, restarts>>

Reject(id) ==
  /\ IsPending(id)
  /\ Step(id, "rejected", [runs[At(id)] EXCEPT !.status = "rejected", !.decided = now])
  /\ UNCHANGED <<now, nextID, guards, launches, unwritten, database, restarts>>

-----------------------------------------------------------------------------
(* Launch, end, rollback and verification.                                  *)

\* A worker that only moves on.
Goto(id, stage) ==
  worker' = [worker EXCEPT ![id] = IF stage = "idle" THEN Idle
                                   ELSE [stage |-> stage, row |-> @.row]]

\* launch with the host at hand: the playbook starts.
Launch(id) ==
  /\ worker[id].stage = "launch"
  /\ launches' = [launches EXCEPT ![id] = @ + 1]
  /\ Goto(id, "executing")
  /\ UNCHANGED <<now, runs, nextID, guards, unwritten, database, restarts>>

\* Mutant: the end of a playbook is noted but not passed on.
FinishOnly(id, ok) ==
  /\ IF Found(id)
       THEN /\ runs' = [runs EXCEPT ![At(id)].status = IF ok THEN "success" ELSE "failed"]
            /\ Goto(id, "idle")
       ELSE UNCHANGED runs /\ Goto(id, "idle")
  /\ UNCHANGED <<now, nextID, guards, launches, unwritten, database, restarts>>

\* finish: nothing is done about a run that has left the ring.
Finish(id, ok) ==
  /\ IF Found(id)
       THEN Step(id, IF ok THEN "succeeded" ELSE "failed",
                 [runs[At(id)] EXCEPT !.status = IF ok THEN "success" ELSE "failed"])
       ELSE UNCHANGED runs /\ Goto(id, "idle")
  /\ UNCHANGED <<now, nextID, guards, launches, unwritten, database, restarts>>

HostGone(id) == worker[id].stage = "launch" /\ Finish(id, FALSE)
Done(id, ok) == worker[id].stage = "executing" /\ Finish(id, ok)

\* The rule's rollback playbook reaches launch for automatic runs only.
RollsBack(run) == run.rule \in RollbackRules /\ run.decided = 0

AfterWrite(stage, run) ==
  CASE stage = "approved" -> "launch"
    [] stage = "succeeded" -> "ended"
    [] stage = "scheduled" -> "sleeping"
    [] stage = "failed" /\ RollsBack(run) -> "rollback"
    [] OTHER -> "idle"

\* persistRun, outside the lock: the copy is upserted whatever the row says.
Persist(id) ==
  /\ worker[id].stage \in Persisting
  /\ stored' = IF HasPG THEN Put(stored, id, worker[id].row) ELSE stored
  /\ Goto(id, AfterWrite(worker[id].stage, worker[id].row))
  /\ UNCHANGED <<now, runs, nextID, guards, launches, unwritten, kvRuns, kvGuards, restarts>>

\* finish with a rollback: nothing more if the playbook or the host is gone.
Rollback(id, gone) ==
  /\ worker[id].stage = "rollback"
  /\ runs' = IF Found(id) /\ ~gone THEN [runs EXCEPT ![At(id)].status = "rolling_back"]
             ELSE runs
  /\ Goto(id, IF gone THEN "idle" ELSE "rolling")
  /\ UNCHANGED <<now, nextID, guards, launches, unwritten, database, restarts>>

\* The rollback has been triggered.
RolledBack(id) ==
  /\ worker[id].stage = "rolling"
  /\ IF Found(id) THEN Step(id, "rolledback", [runs[At(id)] EXCEPT !.status = "failed"])
     ELSE UNCHANGED runs /\ Goto(id, "idle")
  /\ UNCHANGED <<now, nextID, guards, launches, unwritten, database, restarts>>

\* scheduleVerify: a manual proposal has no alert to look at.
ScheduleVerify(id) ==
  /\ worker[id].stage = "ended"
  /\ IF Found(id) /\ runs[At(id)].rule # Manual
       THEN Step(id, "scheduled", [runs[At(id)] EXCEPT !.verify = "pending"])
       ELSE UNCHANGED runs /\ Goto(id, "idle")
  /\ UNCHANGED <<now, nextID, guards, launches, unwritten, database, restarts>>

AwaitsVerdict(id) == Found(id) /\ runs[At(id)].verify = "pending"

\* verifyRun, after its sleep: the alert is looked up outside the lock ...
Look(id, firing) ==
  /\ worker[id].stage = "sleeping"
  /\ Goto(id, IF ~AwaitsVerdict(id) THEN "idle" ELSE IF firing THEN "saw_firing" ELSE "saw_clear")
  /\ UNCHANGED <<now, runs, nextID, guards, launches, unwritten, database, restarts>>

\* ... and the verdict written under it.
Conclude(id) ==
  /\ worker[id].stage \in {"saw_firing", "saw_clear"}
  /\ IF AwaitsVerdict(id)
       THEN Step(id, "verified",
                 [runs[At(id)] EXCEPT !.verify = IF worker[id].stage = "saw_firing"
                                                   THEN "still_firing" ELSE "cleared"])
       ELSE UNCHANGED runs /\ Goto(id, "idle")
  /\ UNCHANGED <<now, nextID, guards, launches, unwritten, database, restarts>>

-----------------------------------------------------------------------------
(* PostgreSQL.                                                              *)

\* The goroutine of recordLocked, or ProposeManual, at last.
WriteInitial(run) ==
  /\ run \in unwritten
  /\ unwritten' = unwritten \ {run}
  /\ stored' = Put(stored, run.id, run)
  /\ UNCHANGED <<now, memory, launches, kvRuns, kvGuards, restarts>>

\* pgFlush saves the two blobs one after the other; either save may fail.
FlushRuns ==
  /\ HasPG
  /\ kvRuns' = {runs}
  /\ UNCHANGED <<now, memory, launches, unwritten, stored, kvGuards, restarts>>
FlushGuards ==
  /\ HasPG
  /\ kvGuards' = [lastRun |-> lastRun, hourly |-> hourly]
  /\ UNCHANGED <<now, memory, launches, unwritten, stored, kvRuns, restarts>>

\* The blob's runs are upserted over the rows, then the rows are listed.
Rows ==
  LET blob == UNION {{list[i] : i \in DOMAIN list} : list \in kvRuns}
      ids == {run.id : run \in blob}
  IN  [id \in DOMAIN stored \cup ids |->
         IF id \in ids THEN CHOOSE run \in blob : run.id = id ELSE stored[id]]

\* The rows in the order listRemediationRuns returns them: newest first.
NewestFirst(rows) ==
  LET Nth(k) == CHOOSE id \in DOMAIN rows :
                  Cardinality({other \in DOMAIN rows : other >= id}) = k
  IN  [k \in 1..Cardinality(DOMAIN rows) |-> rows[Nth(k)]]

\* Mutant: a fresh manager's counter.
LastIDForgotten(list) == 1
\* Import's nextID; an empty blob sets it to zero.
LastID(list) ==
  IF list # <<>> THEN list[1].id ELSE IF kvRuns = {} THEN 1 ELSE 0

\* The process dies and bindPG loads what it finds.
Restart ==
  /\ HasPG
  /\ restarts < MaxRestarts
  /\ restarts' = restarts + 1
  /\ stored' = Rows
  /\ runs' = NewestFirst(Rows)
  /\ nextID' = LastID(NewestFirst(Rows))
  /\ lastRun' = kvGuards.lastRun
  /\ hourly' = kvGuards.hourly
  /\ worker' = [id \in Ids |-> Idle]
  /\ unwritten' = {}
  /\ UNCHANGED <<now, launches, kvRuns, kvGuards>>

Tick ==
  /\ now < CoolDown + MaxTime
  /\ now' = now + 1
  /\ UNCHANGED <<memory, launches, unwritten, database, restarts>>

-----------------------------------------------------------------------------

Fire == \E r \in Rules, h \in Hosts : \E plan \in Plans(r) : EvaluateRule(r, h, plan)
Propose == \E h \in Hosts : ProposeManual(h)
Decide == \E id \in Ids : Approve(id) \/ ApproveGone(id) \/ Reject(id)

\* The goroutine of a run; the playbook ends and the alert is found in any state.
Work(id) ==
  \/ Launch(id) \/ HostGone(id) \/ Persist(id) \/ RolledBack(id)
  \/ ScheduleVerify(id) \/ Conclude(id)
  \/ \E ok \in BOOLEAN : Done(id, ok) \/ Rollback(id, ok) \/ Look(id, ok)

Next ==
  \/ Fire \/ Propose \/ Decide
  \/ \E id \in Ids : Work(id)
  \/ \E run \in unwritten : WriteInitial(run)
  \/ FlushRuns \/ FlushGuards \/ Restart
  \/ Tick

\* Goroutines run on, and a playbook ends: its steps have timeouts.
Fairness == \A id \in Ids : WF_vars(Work(id))

Spec == Init /\ [][Next]_vars
FairSpec == Spec /\ Fairness

-----------------------------------------------------------------------------
(* Properties.                                                              *)

TypeOK ==
  /\ now \in Nat
  /\ runs \in Seq(Run)
  /\ nextID \in 0..MaxID
  /\ lastRun \in [Rules \X Hosts -> 0..now]
  /\ hourly \in [Rules -> Seq(0..now)]
  /\ \A id \in Ids : worker[id] = Idle \/ worker[id] \in [stage : Stages, row : Run]
  /\ launches \in [Ids -> Nat]
  /\ unwritten \subseteq Run
  /\ DOMAIN stored \subseteq Ids
  /\ \A id \in DOMAIN stored : stored[id] \in Run

\* Runs of one rule, in the order they were recorded, that took its slots.
Slotted(run) == run.rule # Manual /\ run.status \notin Skips
SameRule(i, j) == runs[i].id < runs[j].id /\ runs[i].rule = runs[j].rule

\* Between two runs of a rule on one host, queued or launched, the cool-down has
\* passed: guards and reservation are one critical section, whoever alerts and
\* whatever operators decide meanwhile.
CooldownKept ==
  \A i, j \in DOMAIN runs :
    SameRule(i, j) /\ runs[i].host = runs[j].host /\ Slotted(runs[i]) /\ Slotted(runs[j])
      => runs[i].at + CoolDown <= runs[j].at

\* No hour sees more than MaxPerHour runs of a rule recorded, queued ones
\* included: "a flapping alert can never unleash a storm of remediation runs".
RateKept ==
  MaxPerHour > 0 =>
    \A j \in DOMAIN runs : Slotted(runs[j]) =>
      Cardinality({i \in DOMAIN runs :
        /\ SameRule(i, j) /\ Slotted(runs[i])
        /\ runs[i].at + Hour >= runs[j].at}) < MaxPerHour

\* A playbook is launched once per run, and never before the run is decided nor
\* after it is rejected, even when operators decide at the same time.
LaunchedOnce ==
  \A id \in Ids :
    /\ launches[id] <= 1
    /\ Found(id) /\ runs[At(id)].status \in {"pending_approval", "rejected"} \cup Skips
         => launches[id] = 0

\* A launched run is followed to its end: it fails, with the rollback triggered,
\* or succeeds and is verified against its alert.
Ended(id) ==
  /\ worker[id] = Idle
  /\ Found(id)
  /\ \/ runs[At(id)].status = "failed"
     \/ /\ runs[At(id)].status = "success"
        /\ runs[At(id)].rule # Manual => runs[At(id)].verify \in {"cleared", "still_firing"}
Concludes == \A id \in Ids : launches[id] > 0 ~> Ended(id)

\* The table is a history: a row, once written, stays and is about the same run,
\* through lost initial writes, stale blobs and the counter a restart derives.
HistoryKept ==
  [][\A id \in DOMAIN stored :
       /\ id \in DOMAIN stored'
       /\ \A f \in {"rule", "host", "at"} : stored'[id][f] = stored[id][f]]_vars

\* The run history survives a restart: a decision on record is not undone.
RestartKeepsDecisions ==
  [][restarts' # restarts =>
       \A id \in DOMAIN stored :
         stored[id].status # "pending_approval" => stored'[id].status # "pending_approval"]_vars
=============================================================================
