------------------------------ MODULE Incidents ------------------------------
(***************************************************************************)
(* The incident manager of src/cmd/server/incident.go and its copy in      *)
(* PostgreSQL.  Each method is one step: it runs under m.mu.  Ids grow with *)
(* the slice, so "oldest" is the lowest id.  pgFlush exports the incidents *)
(* and upserts them in one transaction every 15 s; bindPG imports every    *)
(* row at start.                                                           *)
(***************************************************************************)
EXTENDS Naturals, FiniteSets, FiniteSetsExt, Functions

CONSTANTS
  IncidentKeys,  \* dedup keys: alertKey(a), "slo/<id>", ...
  NoKey,         \* the key of an incident declared by hand
  HistoryCap,    \* incidentHistoryCap
  MaxIncidents,  \* bound on the incidents of a behaviour
  MaxImports     \* bound on the restarts of a behaviour

ASSUME IncidentsAssumption ==
  /\ NoKey \notin IncidentKeys
  /\ HistoryCap \in Nat \ {0}
  /\ MaxIncidents \in Nat \ {0}
  /\ MaxImports \in Nat

VARIABLES
  incidents,     \* id -> incident, for the ids in the slice
  lastIncident,  \* the id used last
  openByKey,     \* dedup key -> id of its open incident, 0 when it has none
  incidentRows,  \* id -> incident, the rows of the incidents table
  imports        \* restarts so far

incidentVars == <<incidents, lastIncident, openByKey, incidentRows, imports>>

IncidentStatuses == {"open", "acknowledged", "resolved"}
\* closed: which event closed it on the timeline, "recovered" by the engine or
\* "resolved" by an operator.
IncidentRecord ==
  [key : IncidentKeys \cup {NoKey}, status : IncidentStatuses,
   closed : {"no", "recovered", "resolved"}]

\* rows with what is in more, which comes first.
Over(rows, more) ==
  [i \in DOMAIN rows \cup DOMAIN more |-> IF i \in DOMAIN more THEN more[i] ELSE rows[i]]

Unresolved(rows) == {i \in DOMAIN rows : rows[i].status # "resolved"}

IncidentsTypeOK ==
  /\ DOMAIN incidents \subseteq 1..MaxIncidents
  /\ \A i \in DOMAIN incidents : incidents[i] \in IncidentRecord
  /\ DOMAIN incidentRows \subseteq 1..MaxIncidents
  /\ \A i \in DOMAIN incidentRows : incidentRows[i] \in IncidentRecord
  /\ lastIncident \in 0..MaxIncidents
  /\ openByKey \in [IncidentKeys -> 0..MaxIncidents]
  /\ imports \in 0..MaxImports

\* newIncidentManager starts at 1 and raise increments before it uses the id.
IncidentsInit ==
  /\ incidents = << >>
  /\ lastIncident = 1
  /\ openByKey = [k \in IncidentKeys |-> 0]
  /\ incidentRows = << >>
  /\ imports = 0

-----------------------------------------------------------------------------

\* Mutant: any incident of the key is reused.
HasOpenAny(key) == \E i \in DOMAIN incidents : key # NoKey /\ incidents[i].key = key
\* find(openByKey[key]) # nil
HasOpen(key) == key # NoKey /\ openByKey[key] \in DOMAIN incidents

\* Mutant: the oldest incidents are dropped whatever their status.
TrimmedOldest(rows) ==
  LET excess == Cardinality(DOMAIN rows) - HistoryCap
  IN Restrict(rows, {i \in DOMAIN rows :
                       Cardinality({j \in DOMAIN rows : j < i}) >= excess})

\* trimLocked: beyond the cap, drop as many of the oldest resolved incidents.
Trimmed(rows) ==
  LET excess == Cardinality(DOMAIN rows) - HistoryCap
      resolved == DOMAIN rows \ Unresolved(rows)
      dropped == {i \in resolved : Cardinality({j \in resolved : j < i}) < excess}
  IN Restrict(rows, DOMAIN rows \ dropped)

\* raise: reuse the open incident of the key, or append a new one and trim.
Raise(key) ==
  IF HasOpen(key)
    THEN UNCHANGED incidentVars
    ELSE /\ lastIncident < MaxIncidents
         /\ lastIncident' = lastIncident + 1
         /\ incidents' = Trimmed(Over(incidents,
              [i \in {lastIncident + 1} |->
                 [key |-> key, status |-> "open", closed |-> "no"]]))
         /\ openByKey' = IF key = NoKey THEN openByKey
                         ELSE [openByKey EXCEPT ![key] = lastIncident + 1]
         /\ UNCHANGED <<incidentRows, imports>>

\* Mutant: only an incident nobody has acknowledged is resolved.
ResolveByKeyOpenOnly(key) ==
  /\ openByKey' = [openByKey EXCEPT ![key] = 0]
  /\ incidents' = [i \in DOMAIN incidents |->
       IF i = openByKey[key] /\ incidents[i].status = "open"
         THEN [incidents[i] EXCEPT !.status = "resolved", !.closed = "recovered"]
         ELSE incidents[i]]
  /\ UNCHANGED <<lastIncident, incidentRows, imports>>

\* resolveByKey: the alert recovered.
ResolveByKey(key) ==
  /\ openByKey' = [openByKey EXCEPT ![key] = 0]
  /\ incidents' = [i \in DOMAIN incidents |->
       IF i = openByKey[key] /\ incidents[i].status # "resolved"
         THEN [incidents[i] EXCEPT !.status = "resolved", !.closed = "recovered"]
         ELSE incidents[i]]
  /\ UNCHANGED <<lastIncident, incidentRows, imports>>

OnAlertTransition(key, firing) == IF firing THEN Raise(key) ELSE ResolveByKey(key)

Ack(i) ==
  /\ i \in DOMAIN incidents
  /\ incidents[i].status = "open"
  /\ incidents' = [incidents EXCEPT ![i].status = "acknowledged"]
  /\ UNCHANGED <<lastIncident, openByKey, incidentRows, imports>>

\* Resolve: an operator closes it, whatever the alert does.
Resolve(i) ==
  /\ i \in DOMAIN incidents
  /\ incidents[i].status # "resolved"
  /\ incidents' = [incidents EXCEPT ![i].status = "resolved", ![i].closed = "resolved"]
  /\ openByKey' = IF incidents[i].key = NoKey THEN openByKey
                  ELSE [openByKey EXCEPT ![incidents[i].key] = 0]
  /\ UNCHANGED <<lastIncident, incidentRows, imports>>

\* saveIncidents(Export()): rows are inserted or updated, never deleted.
Flush ==
  /\ incidentRows' = Over(incidentRows, incidents)
  /\ UNCHANGED <<incidents, lastIncident, openByKey, imports>>

\* Import sets lastIncident to the highest id of the rows.
\* Mutant: the initial value again.
LastIncidentIDForgotten(rows) == 1
LastIncidentID(rows) == IF DOMAIN rows = {} THEN 1 ELSE Max(DOMAIN rows)

\* Rows come in id order, so the last unresolved one of a key is its entry.
\* Mutant: any row of the key.
OwnerAny(rows, k) ==
  LET owners == {i \in DOMAIN rows : rows[i].key = k}
  IN IF owners = {} THEN 0 ELSE Max(owners)
Owner(rows, k) ==
  LET owners == {i \in Unresolved(rows) : rows[i].key = k}
  IN IF owners = {} THEN 0 ELSE Max(owners)

\* The process starts again: newIncidentManager, and Import if there are rows.
Reload ==
  /\ imports < MaxImports
  /\ imports' = imports + 1
  /\ incidents' = incidentRows
  /\ lastIncident' = LastIncidentID(incidentRows)
  /\ openByKey' = [k \in IncidentKeys |-> Owner(incidentRows, k)]
  /\ UNCHANGED incidentRows

-----------------------------------------------------------------------------

IncidentOps ==
  \/ Raise(NoKey)
  \/ \E i \in 1..MaxIncidents : Ack(i) \/ Resolve(i)
  \/ Flush

IncidentsNext ==
  \/ \E k \in IncidentKeys, firing \in BOOLEAN : OnAlertTransition(k, firing)
  \/ IncidentOps
  \/ Reload

IncidentsSpec == IncidentsInit /\ [][IncidentsNext]_incidentVars

-----------------------------------------------------------------------------
(* Properties.                                                              *)

\* The unresolved incidents of a key.
OpenOf(k) == {i \in Unresolved(incidents) : incidents[i].key = k}

\* Nothing that was trimmed has come back: the row of an incident that was resolved
\* and trimmed between two flushes stays open, and a restart reads it.
NothingComesBack == imports = 0 \/ lastIncident <= HistoryCap + 1

\* openByKey is an exact index: a key has an entry exactly when it has an
\* unresolved incident, which is then the only one of that key, unless a trimmed
\* incident may have come back.  Even then an entry is the newest unresolved
\* incident of its key.
OpenIndexExact ==
  \A k \in IncidentKeys :
    /\ NothingComesBack =>
         OpenOf(k) = IF openByKey[k] = 0 THEN {} ELSE {openByKey[k]}
    /\ openByKey[k] # 0 =>
         openByKey[k] \in OpenOf(k) /\ \A i \in OpenOf(k) : i <= openByKey[k]

\* While the process runs, an unresolved incident stays in memory whatever the history
\* cap does: only resolved ones are trimmed, and never more of them than the excess.  And
\* raise hands out an id that no incident in memory or in the table has, after a restart
\* as well, so that a flush never writes one incident over another.
HistoryIsSafe ==
  [][imports' = imports =>
       /\ Unresolved(incidents) \subseteq DOMAIN incidents'
       /\ Cardinality(DOMAIN incidents \ DOMAIN incidents') > 0
            => Cardinality(DOMAIN incidents') >= HistoryCap
       /\ lastIncident' # lastIncident =>
            lastIncident' \notin DOMAIN incidents \cup DOMAIN incidentRows]_incidentVars
=============================================================================
