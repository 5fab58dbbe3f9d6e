--------------------------- MODULE SelfHealingProofs ---------------------------
(***************************************************************************)
(* Proofs about the self-healing loop, for any hosts, rules, thresholds,   *)
(* scans and number of configuration saves.  The loop drives remediation   *)
(* as remediation's own specification says, so what is proved of that      *)
(* holds here.                                                             *)
(***************************************************************************)
EXTENDS SelfHealing, NotifierProofs

P == INSTANCE RemediationProofs

-----------------------------------------------------------------------------
(* The two instances of Remediation say the same.                           *)

LEMMA SameAssumption == P!RemediationAssumption
BY HealAssumption DEF P!RemediationAssumption, R!RemediationAssumption

LEMMA SameInit == R!Init => P!Init
BY DEF R!Init, P!Init, R!Ids, P!Ids, R!Idle, P!Idle

LEMMA SameEvaluate ==
  ASSUME NEW r, NEW h, NEW plan
  PROVE  /\ R!Plans(r) = P!Plans(r)
         /\ R!EvaluateRule(r, h, plan) => P!EvaluateRule(r, h, plan)
<1>1. R!Plans(r) = P!Plans(r)
  BY DEF R!Plans, P!Plans
<1>2. R!Recent(r) = P!Recent(r)
  BY DEF R!Recent, P!Recent, R!Cardinality, P!Cardinality, R!IsFiniteSet, P!IsFiniteSet
<1>3. R!Outcome(r, h, plan) = P!Outcome(r, h, plan)
  BY <1>2 DEF R!Outcome, P!Outcome, R!Cooling, P!Cooling, R!Capped, P!Capped
<1>4. \A out : R!New(r, h, out) = P!New(r, h, out)
  BY DEF R!New, P!New
<1>5. \A run : R!Record(run) => P!Record(run)
  BY DEF R!Record, P!Record, R!LastRuns, P!LastRuns
<1>6. \A out : R!Reserve(r, h, out) => P!Reserve(r, h, out)
  BY <1>2 DEF R!Reserve, P!Reserve, R!Reserving, P!Reserving
<1>7. R!EvaluateRule(r, h, plan) => P!EvaluateRule(r, h, plan)
  BY <1>3, <1>4, <1>5, <1>6 DEF R!EvaluateRule, P!EvaluateRule, R!database, P!database
<1> QED
  BY <1>1, <1>7

LEMMA SameFinding ==
  ASSUME NEW id
  PROVE  /\ R!Found(id) = P!Found(id)
         /\ R!At(id) = P!At(id)
         /\ R!IsPending(id) = P!IsPending(id)
         /\ R!AwaitsVerdict(id) = P!AwaitsVerdict(id)
BY DEF R!Found, P!Found, R!At, P!At, R!IsPending, P!IsPending, R!AwaitsVerdict, P!AwaitsVerdict

LEMMA SameStep ==
  ASSUME NEW id, NEW stage, NEW run
  PROVE  /\ R!Step(id, stage, run) => P!Step(id, stage, run)
         /\ R!Goto(id, stage) => P!Goto(id, stage)
         /\ R!AfterWrite(stage, run) = P!AfterWrite(stage, run)
<1>1. R!Step(id, stage, run) => P!Step(id, stage, run)
  BY SameFinding DEF R!Step, P!Step
<1>2. R!Goto(id, stage) => P!Goto(id, stage)
  BY DEF R!Goto, P!Goto, R!Idle, P!Idle
<1>3. R!AfterWrite(stage, run) = P!AfterWrite(stage, run)
  BY DEF R!AfterWrite, P!AfterWrite, R!RollsBack, P!RollsBack
<1> QED
  BY <1>1, <1>2, <1>3

LEMMA SameDecide == R!Decide => P!Decide
<1>1. R!Ids = P!Ids
  BY DEF R!Ids, P!Ids
<1>2. ASSUME NEW id, R!Approve(id) PROVE P!Approve(id)
  BY <1>2, SameFinding, SameStep
     DEF R!Approve, P!Approve, R!guards, P!guards, R!database, P!database
<1>3. ASSUME NEW id, R!ApproveGone(id) PROVE P!ApproveGone(id)
  BY <1>3, SameFinding, SameStep
     DEF R!ApproveGone, P!ApproveGone, R!guards, P!guards, R!database, P!database
<1>4. ASSUME NEW id, R!Reject(id) PROVE P!Reject(id)
  BY <1>4, SameFinding, SameStep
     DEF R!Reject, P!Reject, R!guards, P!guards, R!database, P!database
<1> QED
  BY <1>1, <1>2, <1>3, <1>4 DEF R!Decide, P!Decide

LEMMA SameWork ==
  ASSUME NEW id
  PROVE  /\ R!Launch(id) => P!Launch(id)
         /\ R!HostGone(id) => P!HostGone(id)
         /\ R!Persist(id) => P!Persist(id)
         /\ R!RolledBack(id) => P!RolledBack(id)
         /\ R!ScheduleVerify(id) => P!ScheduleVerify(id)
         /\ R!Conclude(id) => P!Conclude(id)
         /\ \A ok : /\ R!Done(id, ok) => P!Done(id, ok)
                    /\ R!Rollback(id, ok) => P!Rollback(id, ok)
                    /\ R!Look(id, ok) => P!Look(id, ok)
<1> USE DEF R!guards, P!guards, R!database, P!database
<1>1. R!Launch(id) => P!Launch(id)
  BY SameStep DEF R!Launch, P!Launch
<1>2. \A ok : R!Finish(id, ok) => P!Finish(id, ok)
  BY SameFinding, SameStep DEF R!Finish, P!Finish
<1>3. R!HostGone(id) => P!HostGone(id)
  BY <1>2 DEF R!HostGone, P!HostGone
<1>4. R!Persist(id) => P!Persist(id)
  <2>1. R!Persisting = P!Persisting
    BY DEF R!Persisting, P!Persisting
  <2>2. \A f, x, v : R!Put(f, x, v) = P!Put(f, x, v)
    BY DEF R!Put, P!Put
  <2> QED
    BY <2>1, <2>2, SameStep DEF R!Persist, P!Persist
<1>5. R!RolledBack(id) => P!RolledBack(id)
  BY SameFinding, SameStep DEF R!RolledBack, P!RolledBack
<1>6. R!ScheduleVerify(id) => P!ScheduleVerify(id)
  BY SameFinding, SameStep DEF R!ScheduleVerify, P!ScheduleVerify
<1>7. R!Conclude(id) => P!Conclude(id)
  BY SameFinding, SameStep DEF R!Conclude, P!Conclude
<1>8. \A ok : R!Done(id, ok) => P!Done(id, ok)
  BY <1>2 DEF R!Done, P!Done
<1>9. \A ok : R!Rollback(id, ok) => P!Rollback(id, ok)
  BY SameFinding, SameStep DEF R!Rollback, P!Rollback
<1>10. \A ok : R!Look(id, ok) => P!Look(id, ok)
  BY SameFinding, SameStep DEF R!Look, P!Look
<1> QED
  BY <1>1, <1>3, <1>4, <1>5, <1>6, <1>7, <1>8, <1>9, <1>10

-----------------------------------------------------------------------------
(* Remediation's part of a step.                                            *)

\* What a tick gives to the hooks is of a host.
HandFits == hand \in [Workers -> Transitions \cup {NoTransition}]

LEMMA HandKept == HandFits /\ [HealNext]_healVars => HandFits'
<1> SUFFICES ASSUME HandFits, [HealNext]_healVars PROVE HandFits'
  OBVIOUS
<1>1. CASE UNCHANGED hand
  BY <1>1 DEF HandFits
<1>2. ASSUME NEW w \in Workers, NEW k \in Keys, Dispatch(w, k) PROVE HandFits'
  <2> DEFINE t == [key |-> k, firing |-> fires[w] # {}]
  <2>1. hand' = [hand EXCEPT ![w] = t]
    BY <1>2 DEF Dispatch
  <2>2. t \in Transitions
    BY DEF Transitions
  <2> HIDE DEF t
  <2> QED
    BY <2>1, <2>2 DEF HandFits
<1>3. ASSUME NEW w \in Workers, Hooked(w) PROVE HandFits'
  <2>1. hand' = [hand EXCEPT ![w] = NoTransition]
    BY <1>3 DEF Hooked
  <2> QED
    BY <2>1 DEF HandFits
<1>4. CASE \E k \in Hosts : CrossThreshold(k)
  BY <1>1, <1>4 DEF CrossThreshold, Toggle, tickVars
<1>5. CASE Configure
  BY <1>1, <1>5 DEF Configure, SaveConfig, ResetAndTrigger, tickVars
<1>6. ASSUME NEW w \in Workers, HealTickStep(w) PROVE HandFits'
  <2>1. CASE Round \/ Begin(w) \/ Evaluate(w) \/ Reconcile(w)
    BY <1>1, <2>1 DEF Round, Begin, Evaluate, Reconcile
  <2>2. CASE \E k \in Keys : Dispatch(w, k)
    BY <1>2, <2>2
  <2>3. CASE HookRemediation(w)
    BY <1>3, <2>3 DEF HookRemediation
  <2> QED
    BY <1>6, <2>1, <2>2, <2>3 DEF HealTickStep
<1>7. CASE Push \/ FileElsewhere
  BY <1>1, <1>7 DEF Push, Deliver, FileElsewhere, FileOther, tickVars
<1>8. CASE \E h \in Scanned : ScanAlert(h)
  BY <1>1, <1>8 DEF ScanAlert, tickVars
<1>9. CASE Operate \/ \E id \in R!Ids : HealWork(id)
  BY <1>1, <1>9 DEF Operate, HealWork, vars, tickVars
<1>10. CASE UNCHANGED healVars
  BY <1>1, <1>10 DEF healVars, vars, tickVars
<1> QED
  BY <1>4, <1>5, <1>6, <1>7, <1>8, <1>9, <1>10 DEF HealNext

LEMMA EvaluateIsNext ==
  ASSUME NEW h \in Hosts, \E r \in Rules : \E plan \in R!Plans(r) : R!EvaluateRule(r, h, plan)
  PROVE  P!Next
<1>1. \E r \in Rules : \E plan \in P!Plans(r) : P!EvaluateRule(r, h, plan)
  BY SameEvaluate
<1> QED
  BY <1>1 DEF P!Next, P!Fire

LEMMA StepRemediates ==
  ASSUME HandFits, [HealNext]_healVars
  PROVE  [P!Next]_P!vars
<1>1. CASE UNCHANGED runVars
  BY <1>1 DEF runVars, P!vars, P!memory, P!guards, P!database
<1>2. CASE \E k \in Hosts : CrossThreshold(k)
  BY <1>1, <1>2 DEF CrossThreshold
<1>3. CASE Configure \/ Push \/ FileElsewhere
  BY <1>1, <1>3 DEF Configure, Push, FileElsewhere
<1>4. ASSUME NEW w \in Workers, HealTickStep(w) PROVE [P!Next]_P!vars
  <2>1. CASE UNCHANGED runVars
    BY <1>1, <2>1
  <2>2. CASE HookRemediation(w)
    <3>1. CASE hand[w].firing
      <4>1. hand[w] \in Transitions \cup {NoTransition}
        BY DEF HandFits
      <4>2. hand[w] # NoTransition
        BY <3>1 DEF NoTransition
      <4>3. hand[w].key \in Hosts
        BY <4>1, <4>2 DEF Transitions, Hosts
      <4> QED
        BY <2>2, <3>1, <4>3, EvaluateIsNext DEF HookRemediation
    <3>2. CASE ~hand[w].firing
      BY <1>1, <2>2, <3>2 DEF HookRemediation
    <3> QED
      BY <3>1, <3>2
  <2> QED
    BY <1>4, <2>1, <2>2 DEF HealTickStep, Round
<1>5. ASSUME NEW h \in Scanned, ScanAlert(h) PROVE [P!Next]_P!vars
  <2>1. h \in Hosts
    BY HealAssumption DEF Hosts
  <2> QED
    BY <1>5, <2>1, EvaluateIsNext DEF ScanAlert
<1>6. CASE Operate
  BY <1>6, SameDecide DEF Operate, P!Next
<1>7. ASSUME NEW id \in R!Ids, HealWork(id) PROVE [P!Next]_P!vars
  <2>1. id \in P!Ids
    BY DEF R!Ids, P!Ids
  <2>2. CASE Verify(id)
    <3> DEFINE ok == id \notin scanRuns /\ AlertActive(worker[id].row.host)
    <3>1. P!Look(id, ok)
      BY <2>2, SameWork DEF Verify
    <3>2. ok \in BOOLEAN
      OBVIOUS
    <3> HIDE DEF ok
    <3> QED
      BY <2>1, <3>1, <3>2 DEF P!Next, P!Work
  <2>3. CASE ~Verify(id)
    <3>1. P!Work(id)
      BY <1>7, <2>3, SameWork DEF HealWork, P!Work
    <3> QED
      BY <2>1, <3>1 DEF P!Next
  <2> QED
    BY <2>2, <2>3
<1>8. CASE UNCHANGED healVars
  BY <1>1, <1>8 DEF healVars
<1> QED
  BY <1>2, <1>3, <1>4, <1>5, <1>6, <1>7, <1>8 DEF HealNext

-----------------------------------------------------------------------------

\* Ticks of the alert engine, scans, operators and the goroutines of runs drive
\* remediation as its own specification allows: the hooks call OnAlert with a host
\* that exists, and the verdict is a look at any state of the alert.
THEOREM HealingRemediates == HealSpec => P!Spec
<1>1. HealInit => HandFits /\ P!Init
  BY SameInit DEF HealInit, Init, HandFits
<1>2. HandFits /\ [HealNext]_healVars => HandFits'
  BY HandKept
<1>3. HandFits /\ [HealNext]_healVars => [P!Next]_P!vars
  BY StepRemediates
<1> QED
  BY <1>1, <1>2, <1>3, PTL DEF HealSpec, P!Spec

\* Nothing in the loop restarts the process.
LEMMA NeverRestarts == HealSpec => [](restarts = 0)
<1>1. HealInit => restarts = 0
  BY DEF HealInit, R!Init
<1>2. restarts = 0 /\ [HealNext]_healVars => (restarts = 0)'
  <2> SUFFICES ASSUME restarts = 0, [HealNext]_healVars PROVE restarts' = restarts
    OBVIOUS
  <2>1. CASE UNCHANGED runVars
    BY <2>1 DEF runVars
  <2>2. ASSUME NEW r, NEW h, NEW plan, R!EvaluateRule(r, h, plan) PROVE restarts' = restarts
    BY <2>2 DEF R!EvaluateRule
  <2>3. CASE \E w \in Workers : HealTickStep(w)
    BY <2>1, <2>2, <2>3 DEF HealTickStep, Round, HookRemediation
  <2>4. CASE \E h \in Scanned : ScanAlert(h)
    BY <2>2, <2>4 DEF ScanAlert
  <2>5. CASE Operate
    BY <2>5 DEF Operate, R!Decide, R!Approve, R!ApproveGone, R!Reject
  <2>6. CASE \E id \in R!Ids : HealWork(id)
    BY <2>6 DEF HealWork, Verify, R!Launch, R!HostGone, R!Done, R!Finish, R!Persist, R!Rollback,
                R!RolledBack, R!ScheduleVerify, R!Look, R!Conclude
  <2>7. CASE (\E k \in Hosts : CrossThreshold(k)) \/ Configure \/ Push \/ FileElsewhere
             \/ UNCHANGED healVars
    BY <2>1, <2>7 DEF CrossThreshold, Configure, Push, FileElsewhere, healVars
  <2> QED
    BY <2>3, <2>4, <2>5, <2>6, <2>7 DEF HealNext
<1> QED
  BY <1>1, <1>2, PTL DEF HealSpec

\* Whatever configuration saves make fire again, from any number of ticks, and whatever
\* scans alert on in between: a host gets no second run of a rule within its cool-down.
THEOREM RefiringSpared == HealSpec => []R!CooldownKept
<1>1. P!Spec => [](restarts = 0 => P!CooldownKept)
  BY SameAssumption, P!Cooldown
<1>2. P!CooldownKept => R!CooldownKept
  BY DEF P!CooldownKept, R!CooldownKept, P!SameRule, R!SameRule,
         P!Slotted, R!Slotted, P!Skips, R!Skips
<1> QED
  BY <1>1, <1>2, HealingRemediates, NeverRestarts, PTL

-----------------------------------------------------------------------------
(* The alert engine's part of a step, and what a verdict rests on.          *)

\* A scan only adds to the queue of deliveries; all else is a step of the engine.
LEMMA HealDrivesEngine ==
  ASSUME [HealNext]_healVars
  PROVE  \/ [Next]_vars
         \/ \E h \in Keys : /\ EnqueuePush([key |-> h, firing |-> TRUE])
                            /\ UNCHANGED <<cond, configVars, alertVars, tickVars, recordVars, told>>
<1>1. CASE \E k \in Hosts : CrossThreshold(k)
  BY <1>1 DEF CrossThreshold, Hosts, Next
<1>2. CASE Configure \/ Push \/ FileElsewhere
  BY <1>2 DEF Configure, Push, FileElsewhere, Next
<1>3. CASE \E w \in Workers : HealTickStep(w)
  BY <1>3 DEF HealTickStep, Round, HookRemediation, TickStep, Next, Workers
<1>4. CASE \E h \in Scanned : ScanAlert(h)
  BY <1>4, HealAssumption DEF ScanAlert
<1>5. CASE Operate \/ (\E id \in R!Ids : HealWork(id)) \/ UNCHANGED healVars
  BY <1>5 DEF Operate, HealWork, healVars
<1> QED
  BY <1>1, <1>2, <1>3, <1>4, <1>5 DEF HealNext

LEMMA EngineKept ==
  ASSUME TypeOK, RecordsInv, [HealNext]_healVars
  PROVE  TypeOK' /\ RecordsInv'
<1>1. CASE [Next]_vars
  BY <1>1, StepTypeOK, StepRecords
<1>2. ASSUME NEW h \in Keys, EnqueuePush([key |-> h, firing |-> TRUE]),
             UNCHANGED <<cond, configVars, alertVars, tickVars, recordVars, told>>
      PROVE  TypeOK' /\ RecordsInv'
  <2> DEFINE t == [key |-> h, firing |-> TRUE]
  <2>0. t \in Transitions /\ t.key \in Keys /\ EnqueuePush(t)
    BY <1>2 DEF Transitions
  <2> HIDE DEF t
  <2>1. pushQ \in Seq(Transitions) /\ dropped \in SUBSET Keys
    BY DEF TypeOK
  <2>2. pushQ' \in Seq(Transitions) /\ dropped' \in SUBSET Keys
    BY <2>0, <2>1 DEF EnqueuePush
  <2>3. TypeOK'
    BY <1>2, <2>2 DEF TypeOK, configVars, alertVars, tickVars, recordVars
  <2>4. RecordsInv'
    <3>1. OneLoop'
      BY <1>2 DEF configVars, alertVars, tickVars, RecordsInv, OneLoop
    <3>2. saves' = saves /\ \A k \in Keys : Said(k)' = Said(k)
      BY <1>2 DEF configVars, alertVars, tickVars, Said
    <3> QED
      BY <1>2, <3>1, <3>2, RecordsUntouched DEF RecordsInv
  <2> QED
    BY <2>3, <2>4
<1> QED
  BY <1>1, <1>2, HealDrivesEngine

\* Only the run itself goes from its sleep to a verdict, by looking at its alert.
LEMMA OnlyVerifySees ==
  ASSUME DOMAIN worker = R!Ids, [HealNext]_healVars, NEW id \in R!Ids, SeesClear(id)
  PROVE  Verify(id)
<1>0. worker'[id] # worker[id] /\ worker[id].stage = "sleeping" /\ worker'[id].stage = "saw_clear"
  BY DEF SeesClear
<1>1. ~UNCHANGED worker
  BY <1>0
<1>2. ASSUME NEW r, NEW h, NEW plan, R!EvaluateRule(r, h, plan) PROVE FALSE
  <2>1. UNCHANGED worker \/ \E other, row : worker' = [worker EXCEPT ![other] = [stage |-> "launch", row |-> row]]
    BY <1>2 DEF R!EvaluateRule
  <2>2. PICK other, row : worker' = [worker EXCEPT ![other] = [stage |-> "launch", row |-> row]]
    BY <1>1, <2>1
  <2>3. worker'[id] = IF id = other THEN [stage |-> "launch", row |-> row] ELSE worker[id]
    BY <2>2
  <2> QED
    BY <1>0, <2>3
<1>3. ASSUME NEW other, NEW stage, NEW run, R!Step(other, stage, run),
             other = id => stage # "saw_clear"
      PROVE  FALSE
  <2>1. worker'[id] = IF id = other THEN [stage |-> stage, row |-> run] ELSE worker[id]
    BY <1>3 DEF R!Step
  <2> QED
    BY <1>0, <1>3, <2>1
<1>4. ASSUME NEW other, NEW stage, R!Goto(other, stage), other = id => stage # "saw_clear"
      PROVE  FALSE
  <2>1. id # other => worker'[id] = worker[id]
    BY <1>4 DEF R!Goto
  <2>2. id = other => worker'[id].stage = stage
    BY <1>4 DEF R!Goto, R!Idle
  <2> QED
    BY <1>0, <1>4, <2>1, <2>2
<1>5. ~Operate
  <2>1. ASSUME NEW other, R!Approve(other) \/ R!ApproveGone(other) \/ R!Reject(other) PROVE FALSE
    BY <1>3, <2>1 DEF R!Approve, R!ApproveGone, R!Reject
  <2> QED
    BY <2>1 DEF Operate, R!Decide
<1>6. ASSUME NEW other \in R!Ids, HealWork(other), ~Verify(other) PROVE FALSE
  <2>1. ~R!Launch(other)
    BY <1>4 DEF R!Launch
  <2>2. \A ok : ~R!Finish(other, ok)
    BY <1>3, <1>4 DEF R!Finish
  <2>3. ~R!HostGone(other) /\ \A ok : ~R!Done(other, ok)
    BY <2>2 DEF R!HostGone, R!Done
  <2>4. ~R!Persist(other)
    <3>1. \A stage, run : R!AfterWrite(stage, run) # "saw_clear"
      BY DEF R!AfterWrite
    <3> QED
      BY <1>4, <3>1 DEF R!Persist
  <2>5. ~R!RolledBack(other) /\ ~R!ScheduleVerify(other) /\ ~R!Conclude(other)
    BY <1>3, <1>4 DEF R!RolledBack, R!ScheduleVerify, R!Conclude
  <2>6. \A ok : ~R!Rollback(other, ok)
    BY <1>4 DEF R!Rollback
  <2> QED
    BY <1>6, <2>1, <2>3, <2>4, <2>5, <2>6 DEF HealWork
<1>7. ASSUME NEW other \in R!Ids, HealWork(other), Verify(other) PROVE other = id
  <2>1. \E stage : R!Goto(other, stage)
    BY <1>7 DEF Verify, R!Look
  <2> QED
    BY <1>4, <2>1
<1>8. CASE \E w \in Workers : HealTickStep(w)
  BY <1>1, <1>2, <1>8 DEF HealTickStep, Round, HookRemediation, runVars
<1>9. CASE \E h \in Scanned : ScanAlert(h)
  BY <1>2, <1>9 DEF ScanAlert
<1>10. CASE (\E k \in Hosts : CrossThreshold(k)) \/ Configure \/ Push \/ FileElsewhere
            \/ UNCHANGED healVars
  BY <1>1, <1>10 DEF CrossThreshold, Configure, Push, FileElsewhere, healVars, runVars
<1> QED
  BY <1>5, <1>6, <1>7, <1>8, <1>9, <1>10 DEF HealNext

\* Until a configuration is saved, a run is reported as having cleared its alert only
\* when the alert has recovered: whatever ticks, scans, operators and other runs do
\* between the firing and the look (remediation.go, verifyRun).
THEOREM ClearedIsRecovered == HealSpec => ClearedAfterRecovery
<1> DEFINE Sees == saves = 0 => \A id \in R!Ids \ scanRuns : SeesClear(id) =>
                     LET k == worker[id].row.host
                     IN  recordIDs[k] = NoEntry \/ \E w \in Workers : k \in resolves[w]
<1>1. HealInit => TypeOK /\ RecordsInv
  <2>1. Init => RecordsInv
    BY InitRecords DEF Init, OneLoop, Workers, RecordsInv
  <2> QED
    BY <2>1, InitTypeOK DEF HealInit
<1>2. TypeOK /\ RecordsInv /\ [HealNext]_healVars => TypeOK' /\ RecordsInv'
  BY EngineKept
<1>3. ASSUME RecordsInv, P!RowsFit, [HealNext]_healVars PROVE Sees
  <2> SUFFICES ASSUME saves = 0, NEW id \in R!Ids \ scanRuns, SeesClear(id)
               PROVE  LET k == worker[id].row.host
                      IN  recordIDs[k] = NoEntry \/ \E w \in Workers : k \in resolves[w]
    OBVIOUS
  <2> DEFINE k == worker[id].row.host
  <2>1. DOMAIN worker = R!Ids /\ k \in Keys
    <3>1. id \in P!Ids /\ worker[id].stage # "idle"
      BY DEF SeesClear, R!Ids, P!Ids
    <3> QED
      BY <1>3, <3>1 DEF P!RowsFit, R!Ids, P!Ids, Hosts
  <2>2. Verify(id)
    BY <1>3, <2>1, OnlyVerifySees
  <2>3. k \notin active
    <3>1. SUFFICES ASSUME k \in active PROVE FALSE
      OBVIOUS
    <3>2. R!Look(id, TRUE)
      BY <2>2, <3>1 DEF Verify, AlertActive
    <3>3. R!Goto(id, "idle") \/ R!Goto(id, "saw_firing")
      BY <3>2 DEF R!Look
    <3>4. worker'[id].stage \in {"idle", "saw_firing"}
      BY <2>1, <3>3 DEF R!Goto, R!Idle
    <3> QED
      BY <3>4 DEF SeesClear
  <2>4. recordIDs[k] # NoEntry <=> Said(k)
    BY <1>3, <2>1 DEF RecordsInv, RecordsMirrorAlerts
  <2> HIDE DEF k
  <2>5. recordIDs[k] = NoEntry \/ k \in resolves[Ticker]
    BY <2>3, <2>4 DEF Said
  <2>6. recordIDs[k] = NoEntry \/ \E w \in Workers : k \in resolves[w]
    BY <2>5 DEF Workers
  <2> QED
    BY <2>6 DEF k
<1>4. P!Spec => []P!RowsFit
  BY SameAssumption, P!RowsKnown
<1>5. [HealNext]_healVars /\ RecordsInv /\ P!RowsFit => [Sees]_healVars
  BY <1>3
<1> QED
  BY <1>1, <1>2, <1>4, <1>5, HealingRemediates, PTL DEF HealSpec, ClearedAfterRecovery
=============================================================================
