------------------------------ MODULE MCOperations ------------------------------
(* Instances of Playbooks, OnCall and ForwardStream for TLC.  They share no state: a *)
(* behaviour is about the one that part names, the others stay as they started.      *)
EXTENDS Playbooks, OnCall, ForwardStream

CONSTANTS web, db, op1, op2, g1, g2, none, inc

TwoOperators == {op1, op2}
TwoRunners == {g1, g2}
OneIncident == {inc}

\* Two hosts that take turns; a host with two steps, with retries and a rollback, or
\* gone on with after a failure; and two executions that meet.
SomeShapes ==
  {[targets |-> {web, db}, steps |-> 1, attempts |-> 1, parallel |-> 1,
    continueErr |-> FALSE, autoRollback |-> FALSE, maxExecutions |-> 1, maxCancels |-> 1],
   [targets |-> {web}, steps |-> 2, attempts |-> 2, parallel |-> 1,
    continueErr |-> FALSE, autoRollback |-> TRUE, maxExecutions |-> 1, maxCancels |-> 2],
   [targets |-> {web}, steps |-> 2, attempts |-> 1, parallel |-> 1,
    continueErr |-> TRUE, autoRollback |-> TRUE, maxExecutions |-> 1, maxCancels |-> 1],
   [targets |-> {web}, steps |-> 1, attempts |-> 1, parallel |-> 1,
    continueErr |-> FALSE, autoRollback |-> FALSE, maxExecutions |-> 2, maxCancels |-> 0]}

VARIABLE part
opsVars == <<part, pbVars, ocVars, streamVars>>

OpsInit ==
  /\ part \in {"playbooks", "pages", "streams"}
  /\ PlaybooksInit
  /\ OnCallInit
  /\ StreamInit
  /\ part # "playbooks" => playbook = CHOOSE p \in Shapes : TRUE
  /\ part # "pages" => policySteps = 0

InPlaybooks(A) == part = "playbooks" /\ A /\ UNCHANGED <<part, ocVars, streamVars>>
InPages(A) == part = "pages" /\ A /\ UNCHANGED <<part, pbVars, streamVars>>
InStreams(A) == part = "streams" /\ A /\ UNCHANGED <<part, pbVars, ocVars>>

OpsNext ==
  \/ InPlaybooks(StartManual) \/ InPlaybooks(Due) \/ InPlaybooks(Fire)
  \/ InPlaybooks(Run) \/ InPlaybooks(HandlerSteps) \/ InPlaybooks(DecidePending)
  \/ \E o \in Operators, id \in ExecIDs : InPlaybooks(Abort(o, id))
  \/ InPages(OnCallNext)
  \/ InStreams(StreamNext)

\* The fairness of each.
OpsFairness ==
  /\ WF_opsVars(InPlaybooks(Fire))
  /\ WF_opsVars(InPlaybooks(Run))
  /\ WF_opsVars(InPlaybooks(HandlerSteps))
  /\ WF_opsVars(InPlaybooks(DecidePending))
  /\ WF_opsVars(InPages(\E i \in Incs : PageComesDue(i)))
  /\ WF_opsVars(InPages(\E i \in Incs : Escalate(i)))
  /\ WF_opsVars(InPages(DuePages))
  /\ WF_opsVars(InStreams(Serves)) /\ WF_opsVars(InStreams(Carries))
  /\ WF_opsVars(InStreams(WritesAlone)) /\ WF_opsVars(InStreams(Dials))
  /\ WF_opsVars(InStreams(Brings)) /\ WF_opsVars(InStreams(AgentCloses))
  /\ WF_opsVars(InStreams(IdleCloses))

OpsSpec == OpsInit /\ [][OpsNext]_opsVars /\ OpsFairness
=============================================================================
