----------------------------- MODULE ForwardStream -----------------------------
(***************************************************************************)
(* The data of one session of a TCP forwarding rule (forward.go, and       *)
(* forward.go of the agent).  One goroutine reads from the user into the   *)
(* channel toAgent, which the rx stream takes to the agent and the target; *)
(* the tx stream brings what the target answers into toUser, from which    *)
(* another goroutine writes to the user.  All of them also wait for the    *)
(* done channel of the session, which the first reason to end it closes.   *)
(***************************************************************************)
EXTENDS Naturals, Sequences

CONSTANTS
  DownCap,    \* frames in toAgent: 64
  UpCap,      \* chunks in toUser: 256
  MaxChunks   \* bound on the chunks of both directions, each of which numbers its own from 1

ASSUME ForwardStreamAssumption ==
  DownCap \in Nat \ {0} /\ UpCap \in Nat \ {0} /\ MaxChunks \in Nat

VARIABLES
  user,       \* what the user has sent, and has it closed
  handler,    \* of the connection: "accepted", "serving", "removed" (the session), "over"
  reader,     \* the goroutine that reads, and how many chunks it has read
  writer,     \* the goroutine that writes: "waiting" for a chunk or "writing" one
  link,       \* the session: is it registered, has the agent come, who closed it
  toAgent,    \* the frames in it
  toUser,     \* how many chunks are in it
  agent,      \* "none", "called", "streaming", "refusing"
  rx,         \* the agent's end of the stream to the target
  tx,         \* the stream from the target, and how many chunks it has read
  target      \* what the target has sent and got, and how its connection ended

channels == <<toAgent, toUser>>
serverSide == <<handler, reader, writer>>
agentSide == <<agent, rx, tx>>
streamVars == <<user, serverSide, link, channels, agentSide, target>>

\* The frame that ends what the user sends.
CloseFrame == 0
SessionDone == link.closer # "open"

\* The first reason to close a session is the one that counts: the "user" has sent all
\* it had, or an "other".
Closed(by) == [link EXCEPT !.closer = IF SessionDone THEN link.closer ELSE by]

StreamInit ==
  /\ user = [sent |-> 0, ended |-> FALSE]
  /\ handler = "accepted"
  /\ reader = [at |-> "none", read |-> 0]
  /\ writer = "none"
  /\ link = [listed |-> FALSE, up |-> FALSE, closer |-> "open"]
  /\ toAgent = << >> /\ toUser = 0
  /\ agent = "none"
  /\ rx = "none"
  /\ tx = [at |-> "none", read |-> 0]
  /\ target = [sent |-> 0, got |-> << >>, ended |-> "no"]

-----------------------------------------------------------------------------
(* The handler of the connection.                                           *)

\* createSession, and the two goroutines are started.
Begins ==
  /\ handler = "accepted"
  /\ handler' = "serving"
  /\ reader' = [reader EXCEPT !.at = "reading"]
  /\ writer' = "waiting"
  /\ link' = [link EXCEPT !.listed = TRUE]
  /\ UNCHANGED <<user, channels, agentSide, target>>

\* The watchdog: 10 s without the agent.
Watchdog ==
  /\ handler = "serving"
  /\ ~link.up /\ ~SessionDone
  /\ link' = Closed("other")
  /\ UNCHANGED <<user, serverSide, channels, agentSide, target>>

\* removeSession and, after it, the deferred close of the connection.
Removes ==
  /\ handler = "serving" /\ SessionDone
  /\ handler' = "removed"
  /\ link' = [link EXCEPT !.listed = FALSE]
  /\ UNCHANGED <<user, reader, writer, channels, agentSide, target>>

Hangs ==
  /\ handler = "removed"
  /\ handler' = "over"
  /\ UNCHANGED <<user, reader, writer, link, channels, agentSide, target>>

Reads ==
  /\ reader.at = "reading"
  /\ \/ /\ reader.read < user.sent
        /\ reader' = [at |-> "holding", read |-> reader.read + 1]
     \/ /\ \/ reader.read = user.sent /\ user.ended
           \/ handler = "over"
        /\ reader' = [reader EXCEPT !.at = "eof"]
  /\ UNCHANGED <<user, handler, writer, link, channels, agentSide, target>>

\* A frame into toAgent, or the session is done; either may win if both can.
Pushes ==
  /\ reader.at \in {"holding", "eof"}
  /\ \/ /\ Len(toAgent) < DownCap
        /\ toAgent' = Append(toAgent, IF reader.at = "eof" THEN CloseFrame ELSE reader.read)
        /\ reader' = [reader EXCEPT !.at = IF @ = "eof" THEN "closing" ELSE "reading"]
     \/ /\ SessionDone
        /\ reader' = [reader EXCEPT !.at = "over"]
        /\ UNCHANGED toAgent
  /\ UNCHANGED <<user, handler, writer, link, toUser, agentSide, target>>

ReaderCloses ==
  /\ reader.at = "closing"
  /\ link' = Closed("user")
  /\ reader' = [reader EXCEPT !.at = "over"]
  /\ UNCHANGED <<user, handler, writer, channels, agentSide, target>>

\* A chunk from toUser, or the session is done; either may win if both can.
WriterTakes ==
  /\ writer = "waiting" /\ toUser > 0
  /\ writer' = "writing"
  /\ toUser' = toUser - 1
  /\ UNCHANGED <<user, handler, reader, link, toAgent, agentSide, target>>

WriterStops ==
  /\ writer = "waiting" /\ SessionDone
  /\ writer' = "over"
  /\ UNCHANGED <<user, handler, reader, link, channels, agentSide, target>>

\* conn.Write has no deadline: it returns when the user has taken what is before it ...
WriterWrites ==
  /\ writer = "writing" /\ handler # "over"
  /\ writer' = "waiting"
  /\ UNCHANGED <<user, handler, reader, link, channels, agentSide, target>>

\* ... and may fail once the user has closed, or when the handler has.
WriterFails ==
  /\ writer = "writing" /\ (user.ended \/ handler = "over")
  /\ link' = Closed("other")
  /\ writer' = "over"
  /\ UNCHANGED <<user, handler, reader, channels, agentSide, target>>

Writes == WriterTakes \/ WriterStops \/ WriterWrites \/ WriterFails

-----------------------------------------------------------------------------
(* runForwardSession of the agent, and the server's end of its streams.     *)

\* The notice of the session reaches the agent, now or never.
Called ==
  /\ agent = "none" /\ handler # "accepted"
  /\ agent' = "called"
  /\ UNCHANGED <<user, serverSide, link, channels, rx, tx, target>>

\* A target that cannot be reached is answered for with an error page, on tx alone.
Dials ==
  /\ agent = "called"
  /\ \/ agent' = "streaming" /\ UNCHANGED target
     \/ /\ agent' = "refusing"
        /\ target' = [target EXCEPT !.sent = 1, !.ended = "closed"]
  /\ UNCHANGED <<user, serverSide, link, channels, rx, tx>>

\* A session that is not registered any more is not found.
TxAsks ==
  /\ agent \in {"streaming", "refusing"} /\ tx.at = "none"
  /\ tx' = [tx EXCEPT !.at = IF link.listed THEN "reading" ELSE "over"]
  /\ link' = [link EXCEPT !.up = @ \/ link.listed]
  /\ UNCHANGED <<user, serverSide, channels, agent, rx, target>>

RxAsks ==
  /\ agent = "streaming" /\ rx = "none"
  /\ rx' = IF link.listed THEN "streaming" ELSE "failed"
  /\ UNCHANGED <<user, serverSide, link, channels, agent, tx, target>>

\* The body of tx is the connection to the target; its end closes the session.
TxReads ==
  /\ tx.at = "reading"
  /\ \/ /\ tx.read < target.sent
        /\ tx' = [at |-> "holding", read |-> tx.read + 1]
        /\ UNCHANGED link
     \/ /\ \/ tx.read = target.sent /\ target.ended = "closed"
           \/ target.ended = "cut"
        /\ tx' = [tx EXCEPT !.at = "over"]
        /\ link' = Closed("other")
  /\ UNCHANGED <<user, serverSide, channels, agent, rx, target>>

\* A chunk that is offered gets into toUser if there is room.
Offer == toUser' = IF toUser < UpCap THEN toUser + 1 ELSE toUser

\* Mutant: a chunk waits for room whatever becomes of the session.
TxPushesWaiting ==
  /\ tx.at = "holding" /\ toUser < UpCap
  /\ tx' = [tx EXCEPT !.at = "reading"]
  /\ Offer
  /\ UNCHANGED <<user, serverSide, link, toAgent, agent, rx, target>>

\* The next chunk waits for room, or goes to the drain when the session is done.
TxPushes ==
  /\ tx.at = "holding"
  /\ \/ toUser < UpCap /\ tx' = [tx EXCEPT !.at = "reading"]
     \/ SessionDone /\ tx' = [tx EXCEPT !.at = "draining"]
  /\ Offer
  /\ UNCHANGED <<user, serverSide, link, toAgent, agent, rx, target>>

TxDrains ==
  /\ tx.at = "draining"
  /\ \/ /\ tx.read < target.sent
        /\ tx' = [tx EXCEPT !.read = @ + 1]
        /\ Offer
     \/ /\ target.ended # "no"
        /\ tx' = [tx EXCEPT !.at = "over"]
        /\ UNCHANGED toUser
  /\ UNCHANGED <<user, serverSide, link, toAgent, agent, rx, target>>

\* Writing to the target fails once its connection is closed, which the end of tx does.
Reachable == target.ended = "no" /\ tx.at # "over"

\* Frame by frame; the agent stops at the frame that ends them.
RxStreams ==
  /\ rx = "streaming"
  /\ toAgent # << >>
  /\ toAgent' = Tail(toAgent)
  /\ \/ /\ Head(toAgent) = CloseFrame
        /\ rx' = "over" /\ UNCHANGED target
     \/ /\ Head(toAgent) # CloseFrame /\ Reachable
        /\ target' = [target EXCEPT !.got = Append(@, Head(toAgent))]
        /\ UNCHANGED rx
     \/ /\ Head(toAgent) # CloseFrame /\ ~Reachable
        /\ rx' = "failed" /\ UNCHANGED target
  /\ UNCHANGED <<user, serverSide, link, toUser, agent, tx>>

\* Mutant: what is in the channel when the session is done stays there.
RxStopsAtDone ==
  /\ rx = "streaming" /\ SessionDone
  /\ rx' = "over"
  /\ UNCHANGED <<user, serverSide, link, channels, agent, tx, target>>

\* The data of frames, up to the one that ends them.
BeforeClose(frames) ==
  LET ends == {i \in 1..Len(frames) : frames[i] = CloseFrame}
      first == CHOOSE i \in ends : \A j \in ends : i <= j
  IN  SubSeq(frames, 1, IF ends = {} THEN Len(frames) ELSE first - 1)

\* Once the session is done, all that is in the channel, and no more.
RxDrains ==
  /\ rx = "streaming" /\ SessionDone
  /\ toAgent' = << >>
  /\ LET data == BeforeClose(toAgent)
     IN  \/ /\ Reachable \/ data = << >>
            /\ target' = [target EXCEPT !.got = @ \o data]
            /\ rx' = "over"
         \/ /\ ~Reachable /\ data # << >>
            /\ rx' = "failed" /\ UNCHANGED target
  /\ UNCHANGED <<user, serverSide, link, toUser, agent, tx>>

\* After 15 minutes, or when it dies, the agent closes the connection to the target.
AgentCloses ==
  /\ agent = "streaming" /\ target.ended = "no"
  /\ target' = [target EXCEPT !.ended = "cut"]
  /\ rx' = IF rx = "streaming" THEN "failed" ELSE rx
  /\ UNCHANGED <<user, serverSide, link, channels, agent, tx>>

-----------------------------------------------------------------------------
(* The world outside.                                                       *)

\* The rule is stopped or deleted.
Stopped ==
  /\ link.listed
  /\ link' = [Closed("other") EXCEPT !.listed = FALSE]
  /\ UNCHANGED <<user, serverSide, channels, agentSide, target>>

\* The idle checker.  Half an hour without a touch may have passed at any point, and a
\* session it has collected it closes even if data has moved since.
IdleCloses ==
  /\ link.listed /\ ~SessionDone
  /\ link' = Closed("other")
  /\ UNCHANGED <<user, serverSide, channels, agentSide, target>>

UserActs ==
  /\ handler # "over" /\ ~user.ended
  /\ \/ user.sent + target.sent < MaxChunks /\ user' = [user EXCEPT !.sent = @ + 1]
     \/ user' = [user EXCEPT !.ended = TRUE]
  /\ UNCHANGED <<serverSide, link, channels, agentSide, target>>

TargetActs ==
  /\ agent = "streaming" /\ Reachable
  /\ \/ user.sent + target.sent < MaxChunks /\ target' = [target EXCEPT !.sent = @ + 1]
     \/ target' = [target EXCEPT !.ended = "closed"]
  /\ UNCHANGED <<user, serverSide, link, channels, agentSide>>

\* What the goroutines of the server, and those of the agent, go on to do.
Serves == Watchdog \/ Removes \/ Hangs
Carries == Reads \/ Pushes \/ ReaderCloses
Brings == TxAsks \/ TxReads \/ TxPushes \/ TxDrains
Takes == RxAsks \/ RxStreams \/ RxDrains

StreamNext ==
  \/ Begins \/ Serves \/ Carries \/ Writes
  \/ Called \/ Dials \/ Brings \/ Takes \/ AgentCloses
  \/ Stopped \/ IdleCloses \/ UserActs \/ TargetActs

\* What the writer does without the user: its write fails when the handler has closed the
\* connection, and not before.
WritesAlone == WriterTakes \/ WriterStops \/ (WriterFails /\ handler = "over")

\* Goroutines go on, the agent's timer of 15 minutes runs out, and the idle checker comes
\* round: MaxChunks are all the data of a session, and half an hour after the last touch
\* it closes one that nothing else has ended.  Nothing is assumed of the user, who may
\* never read, of the target or of the notice.
StreamFairness ==
  /\ WF_streamVars(Serves) /\ WF_streamVars(Carries) /\ WF_streamVars(WritesAlone)
  /\ WF_streamVars(Dials) /\ WF_streamVars(Brings) /\ WF_streamVars(AgentCloses)
  /\ WF_streamVars(IdleCloses)

StreamSpec == StreamInit /\ [][StreamNext]_streamVars /\ StreamFairness

-----------------------------------------------------------------------------
(* Properties.                                                              *)

\* What the user has sent before it closed reaches the target whole and in order, if rx
\* was opened and did not fail: the close of the session does not overtake the data.
RequestWhole ==
  link.closer = "user" /\ rx = "over" => target.got = [i \in 1..user.sent |-> i]

\* Every session ends, for the server, its goroutines and the agent's stream, whoever
\* closed it and however late the agent was called, even if neither side ever says
\* anything, and even if the user takes nothing, so that the channels fill and the
\* agent's stream waits for room.
SessionsEnd ==
  handler = "serving" ~>
    /\ handler = "over" /\ ~link.listed
    /\ reader.at = "over" /\ writer = "over"
    /\ tx.at \in {"none", "over"}
=============================================================================
