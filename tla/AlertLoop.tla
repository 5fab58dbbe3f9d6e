------------------------------- MODULE AlertLoop -------------------------------
(***************************************************************************)
(* The alert engine and the incident manager together: after dispatch, a   *)
(* tick calls incidents.OnAlertTransition for the transition it has in     *)
(* hand.  Operators acknowledge and resolve incidents at any time, pgFlush *)
(* copies them to PostgreSQL, and a restart keeps what the tables hold and *)
(* loses what only memory held: the confirmed alerts, the ticks under way  *)
(* and the push queue.                                                     *)
(***************************************************************************)
EXTENDS Notifier, Incidents

ASSUME LoopAssumption == IncidentKeys = Keys

loopVars == <<vars, incidentVars>>

LoopTypeOK == TypeOK /\ IncidentsTypeOK
LoopInit == Init /\ IncidentsInit

\* OnAlertTransition, called by tick with what it has just dispatched.
HookIncident(w) ==
  /\ Hooked(w)
  /\ OnAlertTransition(hand[w].key, hand[w].firing)

\* Room for the incidents that the transitions still to come can raise: a bound
\* of the instance, so that raise itself is never out of ids.
RoomForIncidents ==
  lastIncident + (MaxSaves - saves) + (MaxImports - imports) + Cardinality(Keys)
    < MaxIncidents

CrossThreshold(k) ==
  /\ k \in cond \/ RoomForIncidents
  /\ Toggle(k)
  /\ UNCHANGED incidentVars

Configure ==
  /\ SaveConfig \/ \E w \in Triggers : ResetAndTrigger(w)
  /\ UNCHANGED incidentVars

LoopTickStep(w) ==
  \/ /\ Begin(w) \/ Evaluate(w) \/ Reconcile(w) \/ \E k \in Keys : Dispatch(w, k)
     /\ UNCHANGED incidentVars
  \/ HookIncident(w)

Push == Deliver /\ UNCHANGED incidentVars

FileElsewhere == FileOther /\ UNCHANGED incidentVars

Operate ==
  /\ \E i \in DOMAIN incidents : Ack(i) \/ Resolve(i)
  /\ UNCHANGED vars

Persist == Flush /\ UNCHANGED vars

\* loadRecentAlerts reads the rows as AddAlertRecord has inserted them, while
\* ResolveAlert has changed a column that it does not read: the record of a resolved
\* alert comes back unresolved.  Of which key it was the ring does not say any more.
Reloaded ==
  {ring \in [DOMAIN records -> RingRecords] :
     \A i \in DOMAIN records : records[i] # {} => ring[i] = records[i]}

\* The process dies and starts again, at any point of any tick: what the alert
\* engine has confirmed is in memory only.
Restart ==
  /\ Reload
  /\ records' \in Reloaded
  /\ active' = {}
  /\ since' = {}
  /\ pending' = [k \in Keys |-> 0]
  /\ missing' = [k \in Keys |-> 0]
  /\ pc' = [w \in Workers |-> "idle"]
  /\ cfgOn' = [w \in Workers |-> FALSE]
  /\ cur' = [w \in Workers |-> {}]
  /\ fires' = [w \in Workers |-> {}]
  /\ resolves' = [w \in Workers |-> {}]
  /\ hand' = [w \in Workers |-> NoTransition]
  /\ pushQ' = << >>
  /\ admin' = "idle"
  /\ recordIDs' = [k \in Keys |-> NoEntry]
  /\ UNCHANGED <<cond, enabled, saves, dropped, told>>

LoopNext ==
  \/ \E k \in Keys : CrossThreshold(k)
  \/ Configure
  \/ \E w \in Workers : LoopTickStep(w)
  \/ Push
  \/ FileElsewhere
  \/ Operate
  \/ Persist
  \/ Restart

\* As in Notifier; operators and pgFlush owe nothing.
LoopFairness ==
  /\ \A w \in Workers : WF_loopVars(LoopTickStep(w))
  /\ WF_loopVars(Configure /\ admin = "saved")
  /\ WF_loopVars(Push)

LoopSpec == LoopInit /\ [][LoopNext]_loopVars
FairLoopSpec == LoopSpec /\ LoopFairness

-----------------------------------------------------------------------------
(* Properties.                                                              *)

OfKey(k) == {i \in DOMAIN incidents : incidents[i].key = k}

\* At rest, with one ticking loop and no restart, incidents say what the alerts
\* say: the engine has not closed the latest incident of a confirmed alert, which
\* is gone only if the history was full and an operator had closed it, and no
\* other key has an unresolved incident.
IncidentsMirrorAlerts ==
  (saves = 0 /\ imports = 0 /\ Idle) =>
    \A k \in Keys :
      IF k \in active
        THEN /\ OfKey(k) = {} => lastIncident > HistoryCap + 1
             /\ \A i \in OfKey(k) :
                  incidents[i].closed = "recovered" => \E j \in OfKey(k) : j > i
        ELSE OfKey(k) \cap Unresolved(incidents) = {}

\* A confirmed alert is on the desk: at rest its latest incident is unresolved
\* or an operator closed it, never the engine.
ConfirmedHasIncident ==
  (Idle /\ enabled) =>
    \A k \in active :
      OfKey(k) # {} /\ incidents[Max(OfKey(k))].closed # "recovered"

\* The engine resolves an incident because its alert has recovered: as long as
\* only the loop of Run ticks, an alert whose incident it closes is not confirmed,
\* after a restart in the middle of a tick as well.
ResolvedOnlyOnRecovery ==
  [][\A i \in DOMAIN incidents' \cap DOMAIN incidents :
       (saves = 0 /\ incidents'[i].closed = "recovered" /\ incidents[i].closed = "no")
         => incidents[i].key \notin active]_loopVars

\* An alert incident "auto-resolves when the underlying alert recovers": a
\* condition that stays away leaves no unresolved incident of its key behind, as
\* long as no save and no restart makes the engine forget what it has confirmed.
AutoResolves ==
  [](saves = 0 /\ imports = 0) =>
    \A k \in Keys :
      <>[](k \notin cond) => <>[](OfKey(k) \cap Unresolved(incidents) = {})

\* An alert that stays is on somebody's desk: a condition that stays has an
\* incident, which only an operator has closed, and which a restart keeps, as long
\* as no trimmed incident comes back.
AutoRaises ==
  [](saves = 0 /\ NothingComesBack) =>
    \A k \in Keys :
      <>[](k \in cond) =>
        <>[](OfKey(k) # {} /\ incidents[Max(OfKey(k))].closed # "recovered")

\* Incidents come to agree with conditions, those that go and those that stay.
IncidentsFollow == AutoResolves /\ AutoRaises
=============================================================================
