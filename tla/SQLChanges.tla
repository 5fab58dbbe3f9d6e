------------------------------ MODULE SQLChanges ------------------------------
(***************************************************************************)
(* SQL change requests (src/cmd/server/sql_change_request.go) and the      *)
(* change records that follow them (change.go).  A ticket is approved once, *)
(* executed once and kept in memory; its record goes through the workflow  *)
(* of every change.  The two are under locks of their own: a handler first *)
(* moves the ticket and then brings the record along, one transition at a  *)
(* time, while other handlers do the same.  The handlers that approve and  *)
(* execute refuse the proposer, so that their callers here are other       *)
(* people, and changeSoDAllows, which keeps an author from approving, has  *)
(* nothing to refuse; a rejection it lets anybody make.  Records are not   *)
(* moved by hand.                                                          *)
(***************************************************************************)
EXTENDS Naturals, FiniteSets

CONSTANTS
  Tickets,
  Requests       \* handlers at work

ASSUME SQLChangesAssumption == Tickets # {}

VARIABLES
  ticket,        \* status of each ticket, "none" before it is created
  overdue,       \* tickets whose approval is older than 30 minutes
  record,        \* status of the change record of each ticket, "none" without one
  request,       \* what each handler is doing
  sent,          \* how often the statement of a ticket has been sent
  bridgedLate    \* tickets that had moved on before their creation was recorded

sqlVars == <<ticket, overdue, record, request, sent, bridgedLate>>

TicketStatuses ==
  {"none", "pending", "approved", "rejected", "expired", "executing", "executed", "failed"}
\* "draft" and "scheduled" are set by hand only.
RecordStatuses ==
  {"none", "draft", "pending_approval", "approved", "scheduled", "rejected",
   "in_progress", "completed"}
RequestStages == {"rest", "bridge", "approve", "begin", "running",
           "sync", "approving", "starting", "completing", "reject", "reread"}

\* late: the approval's time was over when the request came; copy: the status the
\* handler gave the ticket; then: the transition after which it reads the record again.
AtRestRequest ==
  [at |-> "rest", of |-> CHOOSE t \in Tickets : TRUE, late |-> FALSE,
   copy |-> "none", then |-> "rest"]

SQLChangesTypeOK ==
  /\ ticket \in [Tickets -> TicketStatuses]
  /\ overdue \subseteq Tickets
  /\ record \in [Tickets -> RecordStatuses]
  /\ request \in [Requests ->
       [at : RequestStages, of : Tickets, late : BOOLEAN, copy : TicketStatuses,
        then : RequestStages]]
  /\ sent \in [Tickets -> Nat]
  /\ bridgedLate \subseteq Tickets

SQLChangesInit ==
  /\ ticket = [t \in Tickets |-> "none"]
  /\ overdue = {}
  /\ record = [t \in Tickets |-> "none"]
  /\ request = [r \in Requests |-> AtRestRequest]
  /\ sent = [t \in Tickets |-> 0]
  /\ bridgedLate = {}

-----------------------------------------------------------------------------
(* The tickets: each action is a method of the manager under m.mu.          *)

\* expireLocked
Expired(t) ==
  IF ticket[t] = "approved" /\ t \in overdue THEN "expired" ELSE ticket[t]
AllExpired == [t \in Tickets |-> Expired(t)]

\* Thirty minutes have passed since the approval.
ApprovalAges(t) ==
  /\ ticket[t] = "approved"
  /\ t \notin overdue
  /\ overdue' = overdue \cup {t}
  /\ UNCHANGED <<ticket, record, request, sent, bridgedLate>>

\* List
ListTickets ==
  /\ ticket' = AllExpired
  /\ UNCHANGED <<overdue, record, request, sent, bridgedLate>>

\* Create
Create(r, t) ==
  /\ request[r].at = "rest"
  /\ ticket[t] = "none"
  /\ ticket' = [ticket EXCEPT ![t] = "pending"]
  /\ request' = [request EXCEPT ![r] = [AtRestRequest EXCEPT !.at = "bridge", !.of = t]]
  /\ UNCHANGED <<overdue, record, sent, bridgedLate>>

\* The handlers that approve and execute look the ticket up in a list, for the
\* separation of duties; the list expires what is overdue.  A handler that stops here
\* (the proposer, a closed connection, a freeze) has only listed.  BeginExecute is
\* given the instant of this look.
LookUp(r, t, stage) ==
  /\ request[r].at = "rest"
  /\ ticket[t] # "none"
  /\ ticket' = AllExpired
  /\ request' = [request EXCEPT ![r] =
       [AtRestRequest EXCEPT !.at = stage, !.of = t, !.late = t \in overdue]]
  /\ UNCHANGED <<overdue, record, sent, bridgedLate>>

ApproveTicket(r) ==
  LET t == request[r].of
  IN  /\ request[r].at = "approve"
      /\ IF ticket[t] = "pending"
           THEN /\ ticket' = [ticket EXCEPT ![t] = "approved"]
                /\ overdue' = overdue \ {t}
                /\ request' = [request EXCEPT ![r].at = "sync", ![r].copy = "approved"]
           ELSE /\ request' = [request EXCEPT ![r] = AtRestRequest]
                /\ UNCHANGED <<ticket, overdue>>
      /\ UNCHANGED <<record, sent, bridgedLate>>

RejectTicket(r, t) ==
  /\ request[r].at = "rest"
  /\ ticket[t] # "none"
  /\ IF Expired(t) \in {"pending", "approved"}
       THEN /\ ticket' = [ticket EXCEPT ![t] = "rejected"]
            /\ request' = [request EXCEPT ![r] =
                 [AtRestRequest EXCEPT !.at = "sync", !.of = t, !.copy = "rejected"]]
       ELSE /\ ticket' = [ticket EXCEPT ![t] = Expired(t)]
            /\ UNCHANGED request
  /\ UNCHANGED <<overdue, record, sent, bridgedLate>>

\* Mutant: the status is the one that was seen in the list.
BeginExecuteUnlocked(r) ==
  LET t == request[r].of
  IN  /\ request[r].at = "begin"
      /\ ticket' = [ticket EXCEPT ![t] = "executing"]
      /\ sent' = [sent EXCEPT ![t] = @ + 1]
      /\ request' = [request EXCEPT ![r].at = "running"]
      /\ UNCHANGED <<overdue, record, bridgedLate>>
\* BeginExecute consumes the approval; the statement is sent.
BeginExecute(r) ==
  LET t == request[r].of
  IN  /\ request[r].at = "begin"
      /\ \/ /\ ticket[t] = "approved"
            /\ ~request[r].late
            /\ ticket' = [ticket EXCEPT ![t] = "executing"]
            /\ sent' = [sent EXCEPT ![t] = @ + 1]
            /\ request' = [request EXCEPT ![r].at = "running"]
         \/ /\ ticket[t] = "approved" => request[r].late
            /\ ticket' = [ticket EXCEPT ![t] = IF @ = "approved" THEN "expired" ELSE @]
            /\ request' = [request EXCEPT ![r] = AtRestRequest]
            /\ UNCHANGED sent
      /\ UNCHANGED <<overdue, record, bridgedLate>>

\* FinishExecute, with the database's answer; only a success is brought to the record.
FinishExecute(r, outcome) ==
  /\ request[r].at = "running"
  /\ ticket' = [ticket EXCEPT ![request[r].of] = outcome]
  /\ request' = [request EXCEPT ![r] =
       IF outcome = "executed" THEN [@ EXCEPT !.at = "sync", !.copy = "executed"]
       ELSE AtRestRequest]
  /\ UNCHANGED <<overdue, record, sent, bridgedLate>>

-----------------------------------------------------------------------------
(* The records: each action is a method of changeManager under its mu.      *)

\* bridgeSQLChangeToRecord of the handler that creates the ticket: the record, even
\* if another handler has brought it further by now, is pending.
Bridge(r) ==
  /\ request[r].at = "bridge"
  /\ record' = [record EXCEPT ![request[r].of] = "pending_approval"]
  /\ bridgedLate' = IF ticket[request[r].of] = "pending" THEN bridgedLate
                    ELSE bridgedLate \cup {request[r].of}
  /\ request' = [request EXCEPT ![r] = AtRestRequest]
  /\ UNCHANGED <<ticket, overdue, sent>>

\* syncSQLChangeRecordStatus: what comes after a look at the record, by the status
\* the ticket was given.
Undecided == {"pending_approval", "draft"}
NextStage(copy, st) ==
  IF copy = "executed"
    THEN IF st \in Undecided THEN "approving"
         ELSE IF st \in {"approved", "scheduled"} THEN "starting"
         ELSE IF st = "in_progress" THEN "completing" ELSE "rest"
  ELSE IF st \notin Undecided THEN "rest"
  ELSE IF copy = "approved" THEN "approving" ELSE "reject"

Seen(r, st) ==
  LET stage == NextStage(request[r].copy, st)
  IN  request' = [request EXCEPT ![r] =
        IF stage = "rest" THEN AtRestRequest ELSE [@ EXCEPT !.at = stage]]

\* UpsertFromSQLChange without a status: a record that is missing is created.
SyncRecord(r) ==
  LET t == request[r].of
      st == IF record[t] = "none" THEN "pending_approval" ELSE record[t]
  IN  /\ request[r].at = "sync"
      /\ record' = [record EXCEPT ![t] = st]
      /\ Seen(r, st)
      /\ UNCHANGED <<ticket, overdue, sent, bridgedLate>>

\* TransitionSoD: from which statuses an action leads where.
From ==
  [approving  |-> [of |-> Undecided, to |-> "approved"],
   reject     |-> [of |-> Undecided, to |-> "rejected"],
   starting   |-> [of |-> {"approved", "scheduled", "draft"}, to |-> "in_progress"],
   completing |-> [of |-> {"in_progress"}, to |-> "completed"]]

\* Mutant: a transition that is refused is taken for the end of the matter.
RefusedForGood(r) == request' = [request EXCEPT ![r] = AtRestRequest]
\* A refused transition: the executor looks at the record again and goes on from
\* there, unless it was about to complete it.
Refused(r) ==
  request' = [request EXCEPT ![r] =
    IF @.copy = "executed" /\ @.at # "completing"
    THEN [@ EXCEPT !.at = "reread", !.then = request[r].at] ELSE AtRestRequest]

Transition(r) ==
  LET t == request[r].of
      stage == request[r].at
  IN  /\ stage \in DOMAIN From
      /\ IF record[t] \in From[stage].of
           THEN /\ record' = [record EXCEPT ![t] = From[stage].to]
                /\ IF request[r].copy = "executed" THEN Seen(r, From[stage].to)
                   ELSE request' = [request EXCEPT ![r] = AtRestRequest]
           ELSE /\ Refused(r)
                /\ UNCHANGED record
      /\ UNCHANGED <<ticket, overdue, sent, bridgedLate>>

\* Get; the code does not go back to an earlier transition.
Reread(r) ==
  LET st == record[request[r].of]
  IN  /\ request[r].at = "reread"
      /\ IF st \in Undecided \/ (request[r].then = "starting" /\ st # "in_progress")
           THEN request' = [request EXCEPT ![r] = AtRestRequest]
           ELSE Seen(r, st)
      /\ UNCHANGED <<ticket, overdue, record, sent, bridgedLate>>

-----------------------------------------------------------------------------

SQLChangesNext ==
  \/ \E t \in Tickets : ApprovalAges(t)
  \/ ListTickets
  \/ \E r \in Requests :
       \/ \E t \in Tickets :
            \/ Create(r, t)
            \/ RejectTicket(r, t)
            \/ \E stage \in {"approve", "begin"} : LookUp(r, t, stage)
       \/ ApproveTicket(r)
       \/ BeginExecute(r)
       \/ \E outcome \in {"executed", "failed"} : FinishExecute(r, outcome)
       \/ Bridge(r) \/ SyncRecord(r) \/ Transition(r) \/ Reread(r)

SQLChangesSpec == SQLChangesInit /\ [][SQLChangesNext]_sqlVars

-----------------------------------------------------------------------------
(* Properties.                                                              *)

\* "BeginExecute atomically consumes an approval": however many requests to execute,
\* reject and approve a ticket overlap, its statement is sent once, and never for
\* one that was rejected, expired or not yet approved.
SentOnce ==
  \A t \in Tickets :
    sent[t] = IF ticket[t] \in {"executing", "executed", "failed"} THEN 1 ELSE 0

\* When every handler of a ticket has returned, the record of an executed one is
\* completed, in whatever order the transitions of the approver and of the executor
\* came; unless the handler that created it recorded it after the approval.
ExecutedIsCompleted ==
  \A t \in Tickets \ bridgedLate :
    /\ ticket[t] = "executed"
    /\ \A r \in Requests : request[r].at # "rest" => request[r].of # t
    => record[t] = "completed"
=============================================================================
