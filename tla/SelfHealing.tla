------------------------------ MODULE SelfHealing ------------------------------
(***************************************************************************)
(* The alert engine and auto-remediation together: a tick gives a firing   *)
(* alert to remediation.OnAlert, and a run that succeeded looks its alert  *)
(* up in the confirmed alerts (Notifier.AlertActive) to say whether the    *)
(* alert has cleared.  Security scans give their alerts to OnAlert too,    *)
(* without the alert engine ever knowing of them.  Each host has one alert *)
(* of the engine that the rules match, so hosts stand for its keys; a scan *)
(* raises another alert of the host, which they match as well.             *)
(***************************************************************************)
EXTENDS Notifier, FiniteSets

CONSTANTS
  Scanned,       \* hosts with security scans
  VerifyRounds,  \* remediationVerifyDelay, in rounds of the alert engine: 90 s / 10 s
  Rules, Manual, ApprovalRules, DryRules, RollbackRules,
  CoolDown, MaxPerHour, Hour, RingCap, HasPG, MaxID, MaxTime, MaxRestarts

Hosts == Keys

VARIABLES
  scanRuns,      \* runs whose AlertKey is that of a scan
  slept,         \* rounds each run has waited for its verification
  now, runs, nextID, lastRun, hourly, worker, launches,
  unwritten, stored, kvRuns, kvGuards, restarts

R == INSTANCE Remediation

runVars ==
  <<now, runs, nextID, lastRun, hourly, worker, launches, unwritten, stored, kvRuns,
    kvGuards, restarts>>
healVars == <<vars, scanRuns, slept, runVars>>

ASSUME HealAssumption ==
  VerifyRounds \in Nat /\ Scanned \subseteq Keys /\ R!RemediationAssumption

HealInit == Init /\ scanRuns = {} /\ slept = [id \in R!Ids |-> 0] /\ R!Init

-----------------------------------------------------------------------------

\* OnAlert, called by tick for the firing alerts it has dispatched: one rule at
\* least, in the order they are configured; the instance has one.
HookRemediation(w) ==
  /\ Hooked(w)
  /\ IF hand[w].firing
       THEN \E r \in Rules : \E plan \in R!Plans(r) : R!EvaluateRule(r, hand[w].key, plan)
       ELSE UNCHANGED runVars
  /\ UNCHANGED <<scanRuns, slept>>

\* Room for the runs that the transitions still to come can record: a bound of
\* the instance, so that OnAlert itself is never out of ids.
RoomForRuns == nextID + Cardinality(Hosts) < MaxID

CrossThreshold(k) ==
  /\ k \in cond \/ RoomForRuns
  /\ Toggle(k)
  /\ UNCHANGED <<scanRuns, slept, runVars>>

\* The loop of Run comes round every 10 s: that is the time a run sleeps.
Round ==
  /\ Reconcile(Ticker)
  /\ slept' = [id \in R!Ids |-> IF worker[id].stage # "sleeping" THEN 0
                               ELSE IF slept[id] < VerifyRounds THEN slept[id] + 1
                               ELSE slept[id]]
  /\ UNCHANGED <<scanRuns, runVars>>

HealTickStep(w) ==
  \/ w = Ticker /\ Round
  \/ /\ \/ Begin(w) \/ Evaluate(w) \/ \E k \in Keys : Dispatch(w, k)
        \/ w # Ticker /\ Reconcile(w)
     /\ UNCHANGED <<scanRuns, slept, runVars>>
  \/ HookRemediation(w)

Push == Deliver /\ UNCHANGED <<scanRuns, slept, runVars>>

FileElsewhere == FileOther /\ UNCHANGED <<scanRuns, slept, runVars>>

Configure ==
  /\ SaveConfig \/ \E w \in Triggers : ResetAndTrigger(w)
  /\ UNCHANGED <<scanRuns, slept, runVars>>

\* A scan finds an open risk on a host, pushes its alert and hands it to the
\* rules; shouldAlertSecurity spares repetitions, here they may come at any time.
ScanAlert(h) ==
  /\ RoomForRuns
  /\ EnqueuePush([key |-> h, firing |-> TRUE])
  /\ \E r \in Rules : \E plan \in R!Plans(r) : R!EvaluateRule(r, h, plan)
  /\ scanRuns' = scanRuns \cup {nextID + 1}
  /\ UNCHANGED <<cond, configVars, alertVars, tickVars, recordVars, told, slept>>

Operate ==
  /\ R!Decide
  /\ UNCHANGED <<vars, scanRuns, slept>>

\* Mutant: the candidates are looked up instead of the confirmed alerts.
AlertActiveCandidate(key) == pending[key] > 0
AlertActive(key) == key \in active

\* verifyRun asks for the alert of the run; a scan's is never among the confirmed.
\* Mutant: the condition is looked up, not the confirmed alerts.
VerifyNow(id) == R!Look(id, worker[id].row.host \in cond)
Verify(id) == R!Look(id, id \notin scanRuns /\ AlertActive(worker[id].row.host))

HealWork(id) ==
  /\ \/ R!Launch(id) \/ R!HostGone(id) \/ R!Persist(id) \/ R!RolledBack(id)
     \/ R!ScheduleVerify(id) \/ R!Conclude(id)
     \/ \E ok \in BOOLEAN : R!Done(id, ok) \/ R!Rollback(id, ok)
     \/ slept[id] >= VerifyRounds /\ Verify(id)
  /\ UNCHANGED <<vars, scanRuns, slept>>

HealNext ==
  \/ \E k \in Hosts : CrossThreshold(k)
  \/ Configure
  \/ \E w \in Workers : HealTickStep(w)
  \/ Push
  \/ FileElsewhere
  \/ \E h \in Scanned : ScanAlert(h)
  \/ Operate
  \/ \E id \in R!Ids : HealWork(id)

HealFairness ==
  /\ \A w \in Workers : WF_healVars(HealTickStep(w))
  /\ WF_healVars(Configure /\ admin = "saved")
  /\ WF_healVars(Push)
  /\ \A id \in R!Ids : WF_healVars(HealWork(id))

HealSpec == HealInit /\ [][HealNext]_healVars
FairHealSpec == HealSpec /\ HealFairness

-----------------------------------------------------------------------------
(* Properties.                                                              *)

\* The run of id sees its alert cleared in this step.
SeesClear(id) == worker[id].stage = "sleeping" /\ worker'[id].stage = "saw_clear"

\* Until a configuration is saved, which makes the engine forget: a verdict of "cleared"
\* comes after the recovery of the alert the run was for.  When it is formed, the recovery
\* has taken the entry of the firing from recordIDs, or a tick is about to do so.
ClearedAfterRecovery ==
  [][saves = 0 => \A id \in R!Ids \ scanRuns : SeesClear(id) =>
       LET k == worker[id].row.host
       IN  recordIDs[k] = NoEntry \/ \E w \in Workers : k \in resolves[w]]_healVars

\* The delay is long enough for the alert engine to confirm and to clear: a run
\* that succeeds while its condition stays is found out, and one after which the
\* condition stays away is not reported as useless.  The first id is 2.
Succeeded(id, k) ==
  id \notin scanRuns /\ worker[id].stage = "ended" /\ worker[id].row.host = k
Verdict(id, v) == R!Found(id) /\ runs[R!At(id)].verify = v
VerdictsAreRight ==
  \A id \in 2..MaxID, k \in Hosts :
    /\ (Succeeded(id, k) /\ [](k \in cond)) ~> Verdict(id, "still_firing")
    /\ (Succeeded(id, k) /\ [](k \notin cond)) ~> Verdict(id, "cleared")
=============================================================================
