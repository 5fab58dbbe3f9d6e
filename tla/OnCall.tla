--------------------------------- MODULE OnCall ---------------------------------
(***************************************************************************)
(* On-call pages and their escalation (src/cmd/server/oncall.go,           *)
(* enterprise_ops_api.go, the incident handlers of sre_api.go): a new      *)
(* incident starts a goroutine that opens its page, a ticker moves the     *)
(* pages that are due up the steps of the policy, and the handlers that    *)
(* acknowledge or resolve an incident answer its page in a second critical *)
(* section.  Whom a step notifies is left out.                             *)
(***************************************************************************)
EXTENDS Naturals

CONSTANTS
  Incs,          \* the incidents considered
  MaxSteps,      \* steps of the longest escalation policy
  MaxCrashes     \* bound on the restarts of a behaviour

ASSUME OnCallAssumption ==
  /\ MaxSteps \in Nat
  /\ MaxCrashes \in Nat

VARIABLES
  incident,      \* status of each incident
  starting,      \* incidents whose startOnCallForIncident has yet to run
  page,          \* the page of each incident
  policySteps,   \* steps of the policy, 0 when it is disabled or deleted
  escalating,    \* what is left of the pages a tick found due, as they were then
  answering,     \* handlers that have moved an incident and not yet its page
  pageRows,      \* the oncall_pages table
  crashes        \* restarts so far

ocVars ==
  <<incident, starting, page, policySteps, escalating, answering, pageRows, crashes>>

PageAnswers == {"acked", "cancelled"}
\* due: NextEscalateAt has come.
Page == [status : {"none", "pending", "exhausted"} \cup PageAnswers,
         step : 0..MaxSteps, due : BOOLEAN]
NoPage == [status |-> "none", step |-> 0, due |-> FALSE]

OnCallTypeOK ==
  /\ incident \in [Incs -> {"none", "open", "acknowledged", "resolved", "lost"}]
  /\ starting \subseteq Incs
  /\ page \in [Incs -> Page]
  /\ policySteps \in 0..MaxSteps
  /\ escalating \subseteq [of : Incs, step : 0..MaxSteps]
  /\ answering \subseteq [of : Incs, with : PageAnswers]
  /\ pageRows \in [Incs -> Page]
  /\ crashes \in 0..MaxCrashes

OnCallInit ==
  /\ incident = [i \in Incs |-> "none"]
  /\ starting = {}
  /\ page = [i \in Incs |-> NoPage]
  /\ policySteps \in 0..MaxSteps
  /\ escalating = {}
  /\ answering = {}
  /\ pageRows = [i \in Incs |-> NoPage]
  /\ crashes = 0

-----------------------------------------------------------------------------

\* onChange of a new incident.
IncidentOpens(i) ==
  /\ incident[i] = "none"
  /\ incident' = [incident EXCEPT ![i] = "open"]
  /\ starting' = starting \cup {i}
  /\ UNCHANGED <<page, policySteps, escalating, answering, pageRows, crashes>>

\* resolveByKey: the alert recovered.  Nobody tells the page.
IncidentRecovers(i) ==
  /\ incident[i] \in {"open", "acknowledged"}
  /\ incident' = [incident EXCEPT ![i] = "resolved"]
  /\ UNCHANGED <<starting, page, policySteps, escalating, answering, pageRows, crashes>>

\* startOnCallForIncident: a page, if a policy is enabled, whatever has become of the
\* incident by now.
StartPage(i) ==
  /\ i \in starting
  /\ starting' = starting \ {i}
  /\ page' = IF policySteps = 0 THEN page
             ELSE [page EXCEPT ![i] = [status |-> "pending", step |-> 0, due |-> FALSE]]
  /\ UNCHANGED <<incident, policySteps, escalating, answering, pageRows, crashes>>

\* An operator edits the policy.
EditPolicy(n) ==
  /\ policySteps # n
  /\ policySteps' = n
  /\ UNCHANGED <<incident, starting, page, escalating, answering, pageRows, crashes>>

PageComesDue(i) ==
  /\ page[i].status = "pending"
  /\ ~page[i].due
  /\ page' = [page EXCEPT ![i].due = TRUE]
  /\ UNCHANGED <<incident, starting, policySteps, escalating, answering, pageRows, crashes>>

\* DuePages, for a tick of the escalation loop.
DuePages ==
  /\ escalating = {}
  /\ \E i \in Incs : page[i].due
  /\ escalating' = {[of |-> i, step |-> page[i].step] : i \in {j \in Incs : page[j].due}}
  /\ UNCHANGED <<incident, starting, page, policySteps, answering, pageRows, crashes>>

\* Mutant: the page stays at its step.
NextPageStays(p, step) ==
  IF step + 1 >= policySteps THEN [p EXCEPT !.status = "exhausted", !.due = FALSE]
  ELSE [p EXCEPT !.due = FALSE]
\* The next step of the policy as it is now; past the last one the page is exhausted.
NextPage(p, step) ==
  IF step + 1 >= policySteps THEN [p EXCEPT !.status = "exhausted", !.due = FALSE]
  ELSE [p EXCEPT !.step = step + 1, !.due = FALSE]

\* Mutant: the page is taken to be as it was when it was found due.
AdvanceUnchecked(i, step) ==
  /\ [of |-> i, step |-> step] \in escalating
  /\ escalating' = escalating \ {[of |-> i, step |-> step]}
  /\ page' = [page EXCEPT ![i] = NextPage(@, step)]
  /\ UNCHANGED <<incident, starting, policySteps, answering, pageRows, crashes>>
\* Advance: "acked/cancelled pages must not escalate further".
Advance(i, step) ==
  /\ [of |-> i, step |-> step] \in escalating
  /\ escalating' = escalating \ {[of |-> i, step |-> step]}
  /\ page' = IF page[i].status \in PageAnswers THEN page
             ELSE [page EXCEPT ![i] = NextPage(@, step)]
  /\ UNCHANGED <<incident, starting, policySteps, answering, pageRows, crashes>>

\* handleAckIncident and handleResolveIncident, each up to the call on the page.
AckIncident(i) ==
  /\ incident[i] \in {"open", "acknowledged", "resolved"}
  /\ incident' = [incident EXCEPT ![i] = IF @ = "open" THEN "acknowledged" ELSE @]
  /\ answering' = answering \cup {[of |-> i, with |-> "acked"]}
  /\ UNCHANGED <<starting, page, policySteps, escalating, pageRows, crashes>>
ResolveIncident(i) ==
  /\ incident[i] \in {"open", "acknowledged", "resolved"}
  /\ incident' = [incident EXCEPT ![i] = "resolved"]
  /\ answering' = answering \cup {[of |-> i, with |-> "cancelled"]}
  /\ UNCHANGED <<starting, page, policySteps, escalating, pageRows, crashes>>

\* AckByIncident and CancelByIncident; the first answer stays.
AnswerPage(i, with) ==
  /\ [of |-> i, with |-> with] \in answering
  /\ answering' = answering \ {[of |-> i, with |-> with]}
  /\ page' = IF page[i].status # "pending" THEN page
             ELSE [page EXCEPT ![i].status = with, ![i].due = FALSE]
  /\ UNCHANGED <<incident, starting, policySteps, escalating, pageRows, crashes>>

\* saveOnCallPages(Export())
FlushPages ==
  /\ pageRows # page
  /\ pageRows' = page
  /\ UNCHANGED <<incident, starting, page, policySteps, escalating, answering, crashes>>

\* The process stops and another one imports the rows.  Of an incident it has
\* whatever the last flush had, which is Incidents' matter.
Earlier ==
  [none |-> {"none"}, open |-> {"open", "lost"},
   acknowledged |-> {"acknowledged", "open", "lost"},
   resolved |-> {"resolved", "acknowledged", "open", "lost"}, lost |-> {"lost"}]

Crash ==
  /\ crashes < MaxCrashes
  /\ crashes' = crashes + 1
  /\ incident' \in {inc \in [Incs -> DOMAIN Earlier] :
                     \A i \in Incs : inc[i] \in Earlier[incident[i]]}
  /\ starting' = {}
  /\ page' = pageRows
  /\ escalating' = {}
  /\ answering' = {}
  /\ UNCHANGED <<policySteps, pageRows>>

-----------------------------------------------------------------------------

Escalate(i) == \E step \in 0..MaxSteps : Advance(i, step)

OnCallNext ==
  \/ \E i \in Incs :
       \/ IncidentOpens(i) \/ IncidentRecovers(i) \/ StartPage(i)
       \/ PageComesDue(i) \/ Escalate(i)
       \/ AckIncident(i) \/ ResolveIncident(i)
       \/ \E with \in PageAnswers : AnswerPage(i, with)
  \/ \E n \in 0..MaxSteps : EditPolicy(n)
  \/ DuePages
  \/ FlushPages
  \/ Crash

\* Time passes, and the ticker's goroutine runs.
OnCallFairness ==
  /\ WF_ocVars(\E i \in Incs : PageComesDue(i))
  /\ WF_ocVars(\E i \in Incs : Escalate(i))
  /\ WF_ocVars(DuePages)

OnCallSpec == OnCallInit /\ [][OnCallNext]_ocVars
FairOnCallSpec == OnCallSpec /\ OnCallFairness

-----------------------------------------------------------------------------
(* Properties.                                                              *)

\* A page does not wait for ever: it is answered, or goes up the steps to the end of
\* the policy, though operators edit, shorten or disable the policy on the way and
\* the process restarts with a page as it was saved.
EscalationEnds ==
  \A i \in Incs : page[i].status = "pending" ~> page[i].status # "pending"

\* "Acked/cancelled pages must not escalate further (race with DuePages)": an answer
\* is final while the process runs, though it may come after the tick took its list;
\* so is the end of the escalation.
AnsweredStays ==
  [][crashes' = crashes =>
       \A i \in Incs : page[i].status \in PageAnswers \cup {"exhausted"}
                         => page'[i] = page[i]]_ocVars
=============================================================================
