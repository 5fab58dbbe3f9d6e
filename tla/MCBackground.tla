------------------------------ MODULE MCBackground ------------------------------
(* Instances of VMIngest and AgentUpdate, what the server's goroutines do behind its *)
(* handlers.  They share no state: a behaviour is about the one that part names, and *)
(* the other stays as it started.                                                    *)
EXTENDS VMIngest, AgentUpdate

CONSTANTS q1, q2, w, scan, fault, none

\* Every behaviour of the query breaker, with its concurrent readers, and of the
\* ingest breaker, with its single loop, is one of a breaker with both.
QueriesAndWriter == {q1, q2, w}
OneWriter == {w}
OneAsker == {scan}
OneFault == {fault}
\* The whole ladder, a rescue that lacks its base, and hosts without the module.
SomeMachines ==
  {[windows |-> TRUE, module |-> TRUE, base |-> TRUE],
   [windows |-> TRUE, module |-> TRUE, base |-> FALSE],
   [windows |-> FALSE, module |-> FALSE, base |-> TRUE],
   [windows |-> FALSE, module |-> FALSE, base |-> FALSE]}

VARIABLE part
bgVars == <<part, ingestVars, auVars>>

BgInit ==
  /\ part \in {"ingest", "updates"}
  /\ IngestInit
  /\ AgentUpdateInit
  /\ part # "ingest" => ~pumping /\ health = "up"
  /\ part # "updates" =>
       machine = (CHOOSE m \in Machines : TRUE) /\ version = "behind"

InIngest(A) == part = "ingest" /\ A /\ UNCHANGED <<part, auVars>>
InUpdates(A) == part = "updates" /\ A /\ UNCHANGED <<part, ingestVars>>

BgNext ==
  \/ InIngest(IngestNext)
  \/ InUpdates(AgentUpdateNext)

\* The fairness of the two.
BgFairness ==
  /\ WF_bgVars(InIngest(Passing(Tick)))
  /\ \A c \in Callers : /\ WF_bgVars(InIngest(Queried(Answer(c))))
                        /\ WF_bgVars(InIngest(Queried(Report(c))))
                        /\ WF_bgVars(InIngest(Queried(Reject(c))))
  /\ WF_bgVars(InIngest(\E c \in Callers : Queried(Send(c))))
  /\ WF_bgVars(InIngest(Pumped(Ready)))
  /\ WF_bgVars(InIngest(Pumped(Take)))
  /\ WF_bgVars(InIngest(Pumped(Flush)))
  /\ WF_bgVars(InIngest(Pumped(Drain)))
  /\ WF_bgVars(InIngest(Pumped(PushStep)))
  /\ \A j \in Jobs : /\ WF_bgVars(InUpdates(UpdateWork(j)))
                     /\ WF_bgVars(InUpdates(FinalizeJob(j)))

BgSpec == BgInit /\ [][BgNext]_bgVars /\ BgFairness
=============================================================================
