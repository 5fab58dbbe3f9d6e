------------------------------- MODULE AgentUpdate -------------------------------
(***************************************************************************)
(* The server's side of agent updates (src/cmd/server/agent_update.go and   *)
(* its neighbours) for one host: operators push updates and rollbacks,      *)
(* every report of the agent and a scanner may push one automatically, and  *)
(* each push is a job whose goroutine sends the command, waits for the new  *)
(* version to be reported, and rescues a Windows host with a script of the  *)
(* server's.  The mark in inFlight is to keep two pushes apart; goroutines  *)
(* refresh it while they work.  A streak of failures stops the automatic    *)
(* pushes.  Hosts share nothing but the places of a job with many of them,  *)
(* for which a pending row waits.                                           *)
(***************************************************************************)
EXTENDS Naturals, FiniteSets

CONSTANTS
  Machines,      \* the hosts considered, one of which a behaviour is about
  MaxJobs,       \* bound on the jobs of a behaviour
  MaxByHand,     \* bound on the pushes by hand among them
  Askers,        \* handlers, report goroutines and scans that may push
  Reasons,       \* fingerprints of failures
  NoReason,
  MaxRetries,    \* agentUpdateMaxRetries
  StreakLimit    \* agentUpdateFailStreakLimit

ASSUME AgentUpdateAssumption ==
  /\ Machines \subseteq [windows : BOOLEAN, module : BOOLEAN, base : BOOLEAN]
  /\ {MaxJobs, MaxByHand} \subseteq Nat
  /\ MaxRetries \in Nat
  /\ StreakLimit \in Nat \ {0}
  /\ NoReason \notin Reasons

VARIABLES
  machine,       \* what the host is: Windows, an agent that knows the module, and a
                 \* known base to download from
  version,       \* the agent version reported last, against the server's
  mark,          \* age of the host's stamp in inFlight: under 360 s, under 1800 s, over
  asker,         \* where each asker is
  job,           \* the jobs, each with its row for the host and its goroutine
  streak         \* failStreaks of the host

auVars == <<machine, version, mark, asker, job, streak>>

Jobs == 1..MaxJobs
Push == [auto : BOOLEAN, force : BOOLEAN, rollback : BOOLEAN]
AutoPush == [auto |-> TRUE, force |-> FALSE, rollback |-> FALSE]

\* A job is forgotten once put has evicted it; its goroutine goes on.
UpdateJob == [push : Push, status : {"none", "open", "done", "forgotten"},
        row : {"none", "pending", "running", "pending_verify",
               "success", "failed", "skipped"},
        method : {"none", "module", "script", "rollback", "script-rescue"},
        at : {"none", "queued", "sent", "finish", "wait", "rescuing", "rescueWait",
              "evidence", "verdict", "note", "clear", "over"},
        next : {"none", "finish", "clear", "over"},
        try : 0..MaxRetries, why : Reasons \cup {NoReason}]
NoJob == [push |-> AutoPush, status |-> "none", row |-> "none",
          method |-> "none", at |-> "none", next |-> "none", try |-> 0, why |-> NoReason]

NotAsking == [stage |-> "idle", push |-> AutoPush]
NoStreak == [why |-> NoReason, count |-> 0]

AgentUpdateTypeOK ==
  /\ machine \in Machines
  /\ version \in {"behind", "target"}
  /\ mark \in {"none", "fresh", "soft", "hard"}
  /\ asker \in [Askers -> [stage : {"idle", "caughtUp", "behind", "counted", "free",
                                    "marked"},
                           push : Push]]
  /\ job \in [Jobs -> UpdateJob]
  /\ streak \in [why : Reasons \cup {NoReason}, count : Nat]

AgentUpdateInit ==
  /\ machine \in Machines
  /\ version \in {"behind", "target"}
  /\ mark = "none"
  /\ asker = [a \in Askers |-> NotAsking]
  /\ job = [j \in Jobs |-> NoJob]
  /\ streak = NoStreak

-----------------------------------------------------------------------------
(* Pushes: handleAgentUpdateStart, and maybeAutoUpdateHost with            *)
(* decideAutoUpdate, called by every report and by the scanner.             *)

AskerMoves(a, from, to) ==
  /\ asker[a].stage = from
  /\ asker' = [asker EXCEPT ![a].stage = to]
AskerLeaves(a, from) ==
  /\ asker[a].stage = from
  /\ asker' = [asker EXCEPT ![a] = NotAsking]

ByHand ==
  Cardinality({a \in Askers : asker[a].stage = "marked" /\ ~asker[a].push.auto})
  + Cardinality({j \in Jobs : ~job[j].push.auto})
\* An operator's push, to which force adds nothing when it rolls back: tryMarkInFlight.
PushByHand(a, force, rollback) ==
  /\ ~(force /\ rollback)
  /\ ByHand < MaxByHand
  /\ asker[a].stage = "idle"
  /\ mark \in {"none", "hard"}
  /\ mark' = "fresh"
  /\ asker' = [asker EXCEPT ![a] =
       [stage |-> "marked", push |-> [auto |-> FALSE, force |-> force,
                                      rollback |-> rollback]]]
  /\ UNCHANGED <<machine, version, job, streak>>

\* No base to download from, and an agent that would need one.
NoDownloadBase(a) ==
  /\ ~asker[a].push.auto
  /\ ~machine.module /\ ~machine.base
  /\ AskerLeaves(a, "marked")
  /\ mark' = "none"
  /\ UNCHANGED <<machine, version, job, streak>>

\* The snapshot of the host that the gates work with, while automatic updates are
\* switched on.
LookAtHost(a) ==
  /\ asker[a].stage = "idle"
  /\ asker' = [asker EXCEPT ![a] =
       [stage |-> IF version = "target" THEN "caughtUp" ELSE "behind", push |-> AutoPush]]
  /\ UNCHANGED <<machine, version, mark, job, streak>>

\* The host has the version: leftovers are released.
ReleaseCaughtUp(a) ==
  /\ AskerLeaves(a, "caughtUp")
  /\ mark' = "none"
  /\ streak' = NoStreak
  /\ UNCHANGED <<machine, version, job>>

\* Something to download from, where it is needed; agentUpdateFailStreakGate.
PassStreakGate(a) ==
  /\ machine.module \/ machine.base
  /\ streak.count < StreakLimit
  /\ AskerMoves(a, "behind", "counted")
  /\ UNCHANGED <<machine, version, mark, job, streak>>

\* hostPendingAgentUpdate
HostPending(j) ==
  job[j].status = "open" /\ job[j].row \in {"pending", "running", "pending_verify"}
PassPendingGate(a) ==
  /\ \A j \in Jobs : ~HostPending(j)
  /\ AskerMoves(a, "counted", "free")
  /\ UNCHANGED <<machine, version, mark, job, streak>>

\* Mutant: a pending gate passed is taken for the mark.
MarkUnchecked(a) ==
  /\ AskerMoves(a, "free", "marked")
  /\ mark' = "fresh"
  /\ UNCHANGED <<machine, version, job, streak>>
\* tryMarkInFlightOrSoftRetry
MarkOrSoftRetry(a) ==
  /\ mark # "fresh"
  /\ AskerMoves(a, "free", "marked")
  /\ mark' = "fresh"
  /\ UNCHANGED <<machine, version, job, streak>>

\* A gate says no: one of those above, the window, an exemption, a missing or stale
\* artifact, a freeze.
GateRefuses(a) ==
  /\ asker[a].stage \in {"behind", "counted", "free"}
  /\ asker' = [asker EXCEPT ![a] = NotAsking]
  /\ UNCHANGED <<machine, version, mark, job, streak>>

\* createAgentUpdateJob; an agent without the module needs a base.
NextJob(j) ==
  job[j].status = "none" /\ \A i \in Jobs : i < j => job[i].status # "none"
CreateJob(a) ==
  /\ machine.module \/ machine.base
  /\ AskerLeaves(a, "marked")
  /\ \E j \in Jobs :
       /\ NextJob(j)
       /\ job' = [job EXCEPT ![j] =
            [NoJob EXCEPT !.push = asker[a].push, !.status = "open",
                          !.row = "pending", !.at = "queued"]]
  /\ UNCHANGED <<machine, version, mark, streak>>

-----------------------------------------------------------------------------
(* executeAgentUpdateHost and finishHostInFlight.                           *)

WorkAt(j, here) == job[j].at = here
FirstMethod(j) == IF ~machine.module THEN "script"
                  ELSE IF job[j].push.rollback THEN "rollback" ELSE "module"
UpToDate(j) == ~job[j].push.force /\ ~job[j].push.rollback /\ version = "target"

\* Nothing to send, no artifact, or a rollback that the agent does not know.
SkipUpdate(j) ==
  /\ WorkAt(j, "queued")
  /\ ~job[j].push.rollback \/ ~machine.module
  /\ job' = [job EXCEPT ![j].row = "skipped", ![j].at = "finish"]
  /\ UNCHANGED <<machine, version, mark, asker, streak>>

BeginUpdate(j) ==
  /\ WorkAt(j, "queued")
  /\ ~UpToDate(j)
  /\ job[j].push.rollback => machine.module
  /\ job' = [job EXCEPT ![j].row = "running", ![j].method = FirstMethod(j),
                        ![j].at = "sent"]
  /\ UNCHANGED <<machine, version, mark, asker, streak>>

\* The command reports success; what it says, and Windows, call for a verification.
CommandOk(j, verify) ==
  /\ WorkAt(j, "sent")
  /\ machine.windows /\ ~job[j].push.rollback => verify
  /\ job' = [job EXCEPT ![j].row = IF verify THEN "pending_verify" ELSE "success",
                        ![j].at = "finish", ![j].try = 0]
  /\ streak' = IF verify THEN streak ELSE NoStreak
  /\ UNCHANGED <<machine, version, mark, asker>>

\* shouldLegacyAgentUpdateFallback
FallBack(j) ==
  /\ WorkAt(j, "sent")
  /\ job[j].method = "module"
  /\ machine.base
  /\ job' = [job EXCEPT ![j].method = "script"]
  /\ UNCHANGED <<machine, version, mark, asker, streak>>

\* A timeout, no pickup or an abnormal end.
RetryCommand(j) ==
  /\ WorkAt(j, "sent")
  /\ job[j].try < MaxRetries
  /\ job' = [job EXCEPT ![j].try = @ + 1, ![j].method = FirstMethod(j)]
  /\ UNCHANGED <<machine, version, mark, asker, streak>>

CommandFailed(j, r) ==
  /\ WorkAt(j, "sent")
  /\ job' = [job EXCEPT ![j].row = "failed", ![j].why = r, ![j].try = 0,
                        ![j].at = "note", ![j].next = "finish"]
  /\ UNCHANGED <<machine, version, mark, asker, streak>>

\* noteAgentUpdateFailure
NoteFailure(j) ==
  /\ WorkAt(j, "note")
  /\ streak' = [why |-> job[j].why,
                count |-> IF streak.why = job[j].why THEN streak.count + 1 ELSE 1]
  /\ job' = [job EXCEPT ![j].at = job[j].next, ![j].next = "none",
                        ![j].why = NoReason]
  /\ UNCHANGED <<machine, version, mark, asker>>

FinishHostInFlight(j) ==
  /\ WorkAt(j, "finish")
  /\ IF job[j].row = "pending_verify"
       THEN mark' = "fresh" /\ job' = [job EXCEPT ![j].at = "wait"]
       ELSE mark' = "none" /\ job' = [job EXCEPT ![j].at = "over"]
  /\ UNCHANGED <<machine, version, asker, streak>>

-----------------------------------------------------------------------------
(* waitVersionAckOrExpire and rescueWindowsAgentUpdate.                     *)

\* Mutant: a rollback waits for the old version to be reported, without an end.
RollbackReported(j) ==
  /\ WorkAt(j, "wait")
  /\ job[j].push.rollback
  /\ version = "behind"
  /\ job' = [job EXCEPT ![j].row = IF job[j].status = "forgotten" THEN @ ELSE "success",
                        ![j].at = "clear"]
  /\ UNCHANGED <<machine, version, mark, asker, streak>>
\* A rollback has no version to wait for: two minutes, and it is taken to be done.
RollbackAccepted(j) ==
  /\ WorkAt(j, "wait")
  /\ job[j].push.rollback
  /\ job' = [job EXCEPT ![j].row = IF job[j].status = "forgotten" THEN @ ELSE "success",
                        ![j].at = "clear"]
  /\ UNCHANGED <<machine, version, mark, asker, streak>>

\* The host reports the version: its mark goes first, the row follows.
VersionAck(j) ==
  /\ \/ WorkAt(j, "wait") /\ ~job[j].push.rollback
     \/ WorkAt(j, "rescueWait")
  /\ version = "target"
  /\ mark' = "none"
  /\ job' = [job EXCEPT ![j].at = "verdict"]
  /\ UNCHANGED <<machine, version, asker, streak>>

\* The last poll within the window still finds the old version.
Rescuable(j) ==
  machine.windows /\ job[j].method = "module" /\ job[j].status # "forgotten"
VerifyExpires(j) ==
  /\ WorkAt(j, "wait")
  /\ ~job[j].push.rollback
  /\ version = "behind"
  /\ ~Rescuable(j)
  /\ job' = [job EXCEPT ![j].at = "evidence"]
  /\ UNCHANGED <<machine, version, mark, asker, streak>>

\* The server's own script, once, for a base it needs.
Rescue(j) ==
  /\ WorkAt(j, "wait")
  /\ ~job[j].push.rollback
  /\ version = "behind"
  /\ Rescuable(j)
  /\ job' = [job EXCEPT ![j].method = "script-rescue",
                        ![j].row = IF machine.base THEN @ ELSE "failed",
                        ![j].at = IF machine.base THEN "rescuing" ELSE "clear"]
  /\ UNCHANGED <<machine, version, mark, asker, streak>>

RescueAnswered(j) ==
  /\ WorkAt(j, "rescuing")
  /\ \E then \in {"rescueWait", "evidence"} : job' = [job EXCEPT ![j].at = then]
  /\ UNCHANGED <<machine, version, mark, asker, streak>>

RescueExpires(j) ==
  /\ WorkAt(j, "rescueWait")
  /\ version = "behind"
  /\ job' = [job EXCEPT ![j].at = "evidence"]
  /\ UNCHANGED <<machine, version, mark, asker, streak>>

\* The helper's log has been fetched, which takes a while: markHostUpdateVerifyFailed,
\* or the end of a failed rescue, which no streak counts.
MarkVerifyFailed(j, r) ==
  /\ WorkAt(j, "evidence")
  /\ IF job[j].method = "script-rescue"
       THEN job' = [job EXCEPT ![j].row = "failed", ![j].at = "clear"]
     ELSE IF job[j].status = "forgotten"
       THEN job' = [job EXCEPT ![j].at = "clear"]
     ELSE job' = [job EXCEPT ![j].row = "failed", ![j].why = r,
                             ![j].at = "note", ![j].next = "clear"]
  /\ UNCHANGED <<machine, version, mark, asker, streak>>

\* markHostUpdateVerified
MarkVerified(j) ==
  /\ WorkAt(j, "verdict")
  /\ IF job[j].status = "forgotten"
       THEN job' = [job EXCEPT ![j].at = "over"] /\ UNCHANGED streak
       ELSE /\ job' = [job EXCEPT ![j].row = "success", ![j].at = "over"]
            /\ streak' = NoStreak
  /\ UNCHANGED <<machine, version, mark, asker>>

\* markHostUpdateDegraded: the binary is new, the Windows service does not run.
MarkDegraded(j, r) ==
  /\ WorkAt(j, "verdict")
  /\ machine.windows
  /\ job' = [job EXCEPT ![j].row = IF job[j].status = "forgotten" THEN @ ELSE "failed",
                        ![j].why = r, ![j].at = "note", ![j].next = "over"]
  /\ UNCHANGED <<machine, version, mark, asker, streak>>

ClearInFlight(j) ==
  /\ WorkAt(j, "clear")
  /\ mark' = "none"
  /\ job' = [job EXCEPT ![j].at = "over"]
  /\ UNCHANGED <<machine, version, asker, streak>>

-----------------------------------------------------------------------------
(* The end of the job, the passing of time, and the host.                   *)

\* finalizeAgentUpdateJobWhenVerified, once no command is out; its window of 22
\* minutes covers the first wait, though not every rescue.
Executing(j) ==
  \/ job[j].at \in {"queued", "sent", "finish"}
  \/ WorkAt(j, "note") /\ job[j].next = "finish"
FinalizeJob(j) ==
  /\ job[j].status = "open"
  /\ ~Executing(j)
  /\ job[j].row = "pending_verify" => ~WorkAt(j, "wait")
  /\ job' = [job EXCEPT ![j].status = "done"]
  /\ UNCHANGED <<machine, version, mark, asker, streak>>

\* put, by the jobs of other hosts; one whose goroutine is over is not looked up again.
Evict(j) ==
  /\ job[j].status = "done"
  /\ ~WorkAt(j, "over")
  /\ job' = [job EXCEPT ![j].status = "forgotten"]
  /\ UNCHANGED <<machine, version, mark, asker, streak>>

\* holdHostInFlight: while a goroutine works on the host its heartbeat keeps the
\* mark fresh.
HostHeld == \E j \in Jobs : job[j].at \notin {"none", "queued", "finish", "over"}
\* Mutant: the heartbeat writes the mark whether it is there or not.
TouchInFlightAnew ==
  /\ HostHeld
  /\ mark # "fresh"
  /\ mark' = "fresh"
  /\ UNCHANGED <<machine, version, asker, job, streak>>
\* touchInFlightIfPresent
TouchInFlight ==
  /\ HostHeld
  /\ mark \in {"soft", "hard"}
  /\ mark' = "fresh"
  /\ UNCHANGED <<machine, version, asker, job, streak>>

\* A mark grows old while nothing refreshes it: that takes minutes, which nobody
\* spends between marking the host and creating the job, an automatic job does not
\* wait for its place, and none does between its command and its wait.
AtOnce ==
  \/ \E a \in Askers : asker[a].stage = "marked"
  \/ \E j \in Jobs : \/ WorkAt(j, "finish")
                     \/ WorkAt(j, "queued") /\ job[j].push.auto
MarkAges ==
  /\ ~HostHeld
  /\ ~AtOnce
  /\ \/ mark = "fresh" /\ mark' = "soft"
     \/ mark = "soft" /\ mark' = "hard"
  /\ UNCHANGED <<machine, version, asker, job, streak>>

\* handleReport: an update has swapped the agent, or a rollback has, however late.
Reports(v) ==
  /\ version # v
  /\ \E j \in Jobs :
       job[j].method \in IF v = "target" THEN {"module", "script", "script-rescue"}
                         ELSE {"rollback"}
  /\ version' = v
  /\ UNCHANGED <<machine, mark, asker, job, streak>>

-----------------------------------------------------------------------------

\* What the goroutine of a job does.
UpdateWork(j) ==
  \/ SkipUpdate(j) \/ BeginUpdate(j)
  \/ (\E verify \in BOOLEAN : CommandOk(j, verify))
  \/ FallBack(j) \/ RetryCommand(j)
  \/ (\E r \in Reasons : CommandFailed(j, r) \/ MarkVerifyFailed(j, r) \/ MarkDegraded(j, r))
  \/ NoteFailure(j) \/ FinishHostInFlight(j)
  \/ RollbackAccepted(j) \/ VersionAck(j) \/ VerifyExpires(j)
  \/ Rescue(j) \/ RescueAnswered(j) \/ RescueExpires(j)
  \/ MarkVerified(j) \/ ClearInFlight(j)

AskUpdate(a) ==
  \/ \E force, rollback \in BOOLEAN : PushByHand(a, force, rollback)
  \/ NoDownloadBase(a)
  \/ LookAtHost(a) \/ ReleaseCaughtUp(a) \/ PassStreakGate(a) \/ PassPendingGate(a)
  \/ MarkOrSoftRetry(a) \/ GateRefuses(a)
  \/ CreateJob(a)

AgentUpdateNext ==
  \/ \E a \in Askers : AskUpdate(a)
  \/ \E j \in Jobs : UpdateWork(j) \/ FinalizeJob(j) \/ Evict(j)
  \/ TouchInFlight \/ MarkAges
  \/ \E v \in {"behind", "target"} : Reports(v)

\* Goroutines run, commands and waits have timeouts, places come free.
AgentUpdateFairness ==
  \A j \in Jobs : WF_auVars(UpdateWork(j)) /\ WF_auVars(FinalizeJob(j))

AgentUpdateSpec == AgentUpdateInit /\ [][AgentUpdateNext]_auVars
FairAgentUpdateSpec == AgentUpdateSpec /\ AgentUpdateFairness

-----------------------------------------------------------------------------
(* Properties.                                                              *)

\* "A hold's heartbeat must not resurrect a host the caller already released — that
\* would freeze it for the full hard cooldown": whenever the host is marked, somebody
\* is left who will take the mark away, though goroutines and gates release marks that
\* are not theirs.
MarkHasOwner ==
  mark # "none" =>
    \/ \E a \in Askers : asker[a].stage = "marked"
    \/ \E j \in Jobs : \/ job[j].at \notin {"none", "verdict", "note", "over"}
                       \/ job[j].at = "note" /\ job[j].next # "over"

CommandsOut == {j \in Jobs : job[j].at \in {"sent", "rescuing"}}

\* Two helpers must not race for one swap: with automatic pushes alone, however many
\* reports and scans push at once on what they saw before, and however long the rescue
\* takes, no second command is sent while one is out.
AutosTakeTurns ==
  (\A j \in Jobs : job[j].status # "none" => job[j].push.auto)
    => Cardinality(CommandsOut) <= 1

\* No row stays on "pending_verify" for ever, and no job stays open: the ladder of
\* waits and rescues ends, whatever the agent answers or never reports.
UpdatesEnd ==
  \A j \in Jobs :
    job[j].status = "open" ~>
      /\ job[j].status # "open"
      /\ \/ job[j].row \in {"success", "failed", "skipped"}
         \/ job[j].status = "forgotten"
=============================================================================
