------------------------------- MODULE MCRecords -------------------------------
(* Instances for TLC of the modules about what is recorded: Incidents, WriteCache,   *)
(* PlaybookHistory, SQLChanges, AgentUpdate, SecretKeys with AuditChain, Forwarding, *)
(* and the run history of Remediation.  They share no state: a behaviour is about    *)
(* the one that part names, the others stay as they started.                         *)
EXTENDS Incidents, WriteCache, PlaybookHistory, SQLChanges, AgentUpdate, AuditChain,
  Forwarding, Remediation

CONSTANTS cpu, disk, o1, o2, i1, i2, m1, m2, ddl, r1, r2, r3, web, report, scan, fault,
  s1, a1, a2, c1, c2, c3, p1, p2

TwoKeys == {cpu, disk}
TwoObjects == {o1, o2}
TwoIdentities == {i1, i2}
TwoReadings == {m1, m2}
OneTicket == {ddl}
ThreeRequests == {r1, r2, r3}
\* One rule without guards on one host.
OneRule == {disk}
OneHost == {web}
None == {}
ThreeConns == {c1, c2, c3}
TwoPolls == {p1, p2}

\* A report and a scan push at once, or an operator and one of them.
TwoAskers == {report, scan}
OneFault == {fault}
\* The host with the whole ladder of retries, waits and rescues.
TwoAppenders == {a1, a2}
OneSaver == {s1}
\* Seconds modulo 1000.
OneSecond == {7}
OneMachine == {[windows |-> TRUE, module |-> TRUE, base |-> TRUE]}

VARIABLE part

recordsVars == <<part, incidentVars, wcVars, phVars, sqlVars, auVars, keyVars,
                chainVars, fwVars, vars>>

\* Runs are recorded, decided and written, but not launched: a launched run rewrites
\* its own row only.
NoneLaunched ==
  restarts' = restarts =>
    \A id \in Ids : worker[id].stage = "launch" => worker'[id] = worker[id]
\* The clocks, on which no row depends without cool-down and cap, are flushed in
\* one of their states only.
ClocksFlushedEarly == kvGuards' # kvGuards => Len(hourly[disk]) = 1

\* Only of hosts a part that every flush compares differs from the rest.
OneReading ==
  kind # "hosts" => \A o \in Objects : live'[o] # Absent => live'[o].reading = m1

\* The audit chain is beside rotations alone, whose saves of the configuration, which
\* no entry depends on, succeed.
RotationsOnly ==
  /\ saving' = saving
  /\ configRow' = IF rotation.at = "write" THEN rotation.row ELSE configRow

\* The scan goes on beside an operator's push, reports do not.
OperatorOrReports ==
  /\ asker'[scan].stage = "marked" => asker'[scan].push.auto
  /\ ByHand' > 0 => asker'[report].stage = "idle" \/ ~asker'[report].push.auto

\* A poll breaks when there are two connections at most.
CutsOfTwo == cuts' > 0 => conn'[c3].at = "none"

RecordsInit ==
  /\ part \in {"incidents", "cache", "playbooks", "sql", "updates", "keys", "chain", "runs",
              "forwards"}
  /\ IncidentsInit
  /\ WriteCacheInit
  /\ PlaybookHistoryInit
  /\ SQLChangesInit
  /\ AgentUpdateInit
  /\ KeysInit
  /\ ChainInit
  /\ ForwardingInit
  /\ Init
  /\ part # "cache" => kind = "kept"
  /\ part # "updates" => version = "behind"
  /\ part \notin {"keys", "chain"} => keyFile = NoStore

RecordsNext ==
  /\ UNCHANGED part
  /\ \/ /\ part = "incidents" /\ IncidentsNext
        /\ UNCHANGED <<wcVars, phVars, sqlVars, auVars, keyVars, chainVars, fwVars, vars>>
     \/ /\ part = "cache" /\ WriteCacheNext /\ OneReading
        /\ UNCHANGED <<incidentVars, phVars, sqlVars, auVars, keyVars, chainVars, fwVars, vars>>
     \/ /\ part = "playbooks" /\ PlaybookHistoryNext
        /\ UNCHANGED <<incidentVars, wcVars, sqlVars, auVars, keyVars, chainVars, fwVars, vars>>
     \/ /\ part = "sql" /\ SQLChangesNext
        /\ UNCHANGED <<incidentVars, wcVars, phVars, auVars, keyVars, chainVars, fwVars, vars>>
     \/ /\ part = "updates" /\ AgentUpdateNext /\ OperatorOrReports
        /\ UNCHANGED <<incidentVars, wcVars, phVars, sqlVars, keyVars, chainVars, fwVars, vars>>
     \/ /\ part = "keys" /\ KeysNext
        /\ UNCHANGED <<incidentVars, wcVars, phVars, sqlVars, auVars, chainVars, fwVars, vars>>
     \/ /\ part = "chain" /\ ChainNext /\ RotationsOnly
        /\ UNCHANGED <<incidentVars, wcVars, phVars, sqlVars, auVars, fwVars, vars>>
     \/ /\ part = "runs" /\ Next /\ NoneLaunched /\ ClocksFlushedEarly
        /\ UNCHANGED <<incidentVars, wcVars, phVars, sqlVars, auVars, keyVars, chainVars,
                        fwVars>>
     \/ /\ part = "forwards" /\ ForwardingNext /\ CutsOfTwo
        /\ UNCHANGED <<incidentVars, wcVars, phVars, sqlVars, auVars, keyVars, chainVars, vars>>

RecordsSpec == RecordsInit /\ [][RecordsNext]_recordsVars
=============================================================================
