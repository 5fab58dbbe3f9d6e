------------------------------ MODULE Forwarding ------------------------------
(***************************************************************************)
(* Port forwarding over TCP (forward.go, forward_api.go): one rule of one  *)
(* host, up to the data, which ForwardStream is about.  A connection that  *)
(* the rule's listener accepts gets a session, whose notice goes to the    *)
(* long poll of the agent or waits for the next one.  Operators stop,      *)
(* start and edit the rule meanwhile.                                      *)
(***************************************************************************)
EXTENDS Naturals, Sequences, FiniteSets

CONSTANTS
  Conns,        \* connections of users, and their sessions
  Polls,        \* handlers of long polls that the server may have at a time
  NoPoll, NoConn,
  MaxSessions,  \* maxForwardSessions
  MaxStops,     \* bound on how often the listener is closed
  MaxCuts       \* bound on long polls whose connection breaks

ASSUME ForwardingAssumption ==
  /\ MaxSessions \in Nat \ {0} /\ MaxStops \in Nat /\ MaxCuts \in Nat
  /\ NoPoll \notin Polls /\ NoConn \notin Conns

VARIABLES
  rule,         \* is it enabled, does it listen, how often was the listener closed, and
                \* is a handler about to listen again
  counts,       \* stats.ActiveSessions and the active of connCounts
  pending,      \* pendingSessions: notices that wait for a poll
  waiter,       \* waiters: the poll that is registered
  poll,         \* where a poll's handler is, its channel, is the agent still there
  cuts,
  conn,         \* where the handler of a connection is, and the poll it took
  session,      \* is it registered, is it done
  called        \* sessions that the agent was told of

fwVars == <<rule, counts, pending, waiter, poll, cuts, conn, session, called>>

Listed == {c \in Conns : session[c].listed}

ForwardingInit ==
  /\ rule = [enabled |-> TRUE, listening |-> TRUE, stops |-> 0, binding |-> FALSE]
  /\ counts = [active |-> 0, rule |-> 0]
  /\ pending = << >>
  /\ waiter = NoPoll
  /\ poll = [p \in Polls |-> [at |-> "none", inbox |-> NoConn, cut |-> FALSE]]
  /\ cuts = 0
  /\ conn = [c \in Conns |-> [at |-> "none", calls |-> NoPoll]]
  /\ session = [c \in Conns |-> [listed |-> FALSE, done |-> FALSE]]
  /\ called = {}

-----------------------------------------------------------------------------
(* The handler of a connection.                                             *)

\* serveForwardListener
Accept(c) ==
  /\ rule.listening
  /\ conn[c].at = "none"
  /\ conn' = [conn EXCEPT ![c].at = "accepted"]
  /\ UNCHANGED <<rule, counts, pending, waiter, poll, cuts, session, called>>

\* createSession; at the limit the connection is closed.
CreateSession(c) ==
  /\ conn[c].at = "accepted"
  /\ \/ /\ Cardinality(Listed) >= MaxSessions
        /\ conn' = [conn EXCEPT ![c].at = "over"]
        /\ UNCHANGED <<session, counts>>
     \/ /\ Cardinality(Listed) < MaxSessions
        /\ conn' = [conn EXCEPT ![c].at = "created"]
        /\ session' = [session EXCEPT ![c].listed = TRUE]
        /\ counts' = [active |-> counts.active + 1, rule |-> counts.rule + 1]
  /\ UNCHANGED <<rule, pending, waiter, poll, cuts, called>>

\* notifyAgent takes the poll that is registered, if there is one, and only then hands
\* it the notice.
TakeWaiter(c) ==
  /\ conn[c].at = "created"
  /\ waiter' = NoPoll
  /\ \/ /\ waiter = NoPoll
        /\ pending' = Append(pending, c)
        /\ conn' = [conn EXCEPT ![c].at = "serving"]
     \/ /\ waiter # NoPoll
        /\ conn' = [conn EXCEPT ![c] = [at |-> "calling", calls |-> waiter]]
        /\ UNCHANGED pending
  /\ UNCHANGED <<rule, counts, poll, cuts, session, called>>

\* The channel of a poll has room for one notice, also when its handler has left.
HandNotice(c) ==
  /\ conn[c].at = "calling"
  /\ conn' = [conn EXCEPT ![c] = [at |-> "serving", calls |-> NoPoll]]
  /\ \/ /\ conn[c].calls = NoPoll
        /\ UNCHANGED <<poll, pending>>
     \/ /\ conn[c].calls # NoPoll
        /\ IF poll[conn[c].calls].inbox = NoConn
             THEN poll' = [poll EXCEPT ![conn[c].calls].inbox = c] /\ UNCHANGED pending
             ELSE pending' = Append(pending, c) /\ UNCHANGED poll
  /\ UNCHANGED <<rule, counts, waiter, cuts, session, called>>

\* The session is done: the user, the target, the watchdog or the idle checker.
Ends(c) ==
  /\ session[c].listed /\ ~session[c].done
  /\ session' = [session EXCEPT ![c].done = TRUE]
  /\ UNCHANGED <<rule, counts, pending, waiter, poll, cuts, conn, called>>

\* Mutant: the session is counted off even if the rule has been stopped meanwhile.
RemoveAlways(c) ==
  /\ conn[c].at = "serving" /\ session[c].done
  /\ session' = [session EXCEPT ![c].listed = FALSE]
  /\ counts' = [active |-> counts.active - 1,
                rule |-> IF counts.rule > 0 THEN counts.rule - 1 ELSE 0]
  /\ conn' = [conn EXCEPT ![c].at = "over"]
  /\ UNCHANGED <<rule, pending, waiter, poll, cuts, called>>

\* removeSession
RemoveSession(c) ==
  /\ conn[c].at = "serving" /\ session[c].done
  /\ \/ /\ session[c].listed
        /\ session' = [session EXCEPT ![c].listed = FALSE]
        /\ counts' = [active |-> counts.active - 1,
                      rule |-> IF counts.rule > 0 THEN counts.rule - 1 ELSE 0]
     \/ ~session[c].listed /\ UNCHANGED <<session, counts>>
  /\ conn' = [conn EXCEPT ![c].at = "over"]
  /\ UNCHANGED <<rule, pending, waiter, poll, cuts, called>>

-----------------------------------------------------------------------------
(* The long polls of the agent, handleAgentForwardWait.                     *)

\* The agent polls again when its last poll was answered or cut.
PollBegins(p) ==
  /\ \A q \in Polls : poll[q].at = "none" \/ poll[q].cut
  /\ poll[p].at = "none"
  /\ poll' = [poll EXCEPT ![p] = [at |-> "asking", inbox |-> NoConn, cut |-> FALSE]]
  /\ UNCHANGED <<rule, counts, pending, waiter, cuts, conn, session, called>>

\* What a poll is told reaches the agent unless its connection is cut.
Tell(p, c) == called' = IF poll[p].cut THEN called ELSE called \cup {c}

PollChecks(p) ==
  /\ poll[p].at = "asking"
  /\ \/ /\ pending # << >>
        /\ Tell(p, Head(pending))
        /\ pending' = Tail(pending)
        /\ poll' = [poll EXCEPT ![p].at = "none"]
     \/ /\ pending = << >>
        /\ poll' = [poll EXCEPT ![p].at = "registering"]
        /\ UNCHANGED <<called, pending>>
  /\ UNCHANGED <<rule, counts, waiter, cuts, conn, session>>

\* registerWaiter, in a critical section of its own.
PollRegisters(p) ==
  /\ poll[p].at = "registering"
  /\ waiter' = p
  /\ poll' = [poll EXCEPT ![p].at = "waiting"]
  /\ UNCHANGED <<rule, counts, pending, cuts, conn, session, called>>

\* The notice comes, or 25 s pass, or the connection is seen to be gone; if several
\* can, any of them wins.
PollWaits(p) ==
  /\ poll[p].at = "waiting"
  /\ \/ poll[p].inbox # NoConn /\ Tell(p, poll[p].inbox)
     \/ UNCHANGED called
  /\ poll' = [poll EXCEPT ![p].at = "leaving"]
  /\ UNCHANGED <<rule, counts, pending, waiter, cuts, conn, session>>

\* unregisterWaiter: what is in the channel, or on its way, nobody reads any more.
PollLeaves(p) ==
  /\ poll[p].at = "leaving"
  /\ waiter' = IF waiter = p THEN NoPoll ELSE waiter
  /\ poll' = [poll EXCEPT ![p].at = "none", ![p].inbox = NoConn]
  /\ conn' = [c \in Conns |->
       IF conn[c].calls = p THEN [conn[c] EXCEPT !.calls = NoPoll] ELSE conn[c]]
  /\ UNCHANGED <<rule, counts, pending, cuts, session, called>>

CutPoll(p) ==
  /\ cuts < MaxCuts
  /\ poll[p].at # "none" /\ ~poll[p].cut
  /\ cuts' = cuts + 1
  /\ poll' = [poll EXCEPT ![p].cut = TRUE]
  /\ UNCHANGED <<rule, counts, pending, waiter, conn, session, called>>

PollStep(p) == PollChecks(p) \/ PollRegisters(p) \/ PollWaits(p) \/ PollLeaves(p)

-----------------------------------------------------------------------------
(* The rule.                                                                *)

\* toggleRule and removeRule: the listener is closed and every session of the rule; the
\* rule's own count stays.
StopRule ==
  /\ rule.enabled /\ rule.stops < MaxStops
  /\ rule' = [rule EXCEPT !.enabled = FALSE, !.listening = FALSE, !.stops = @ + 1]
  /\ session' = [c \in Conns |->
       IF session[c].listed THEN [listed |-> FALSE, done |-> TRUE] ELSE session[c]]
  /\ counts' = [counts EXCEPT !.active = @ - Cardinality(Listed)]
  /\ UNCHANGED <<pending, waiter, poll, cuts, conn, called>>

EnableRule ==
  /\ ~rule.enabled /\ ~rule.binding
  /\ rule' = [rule EXCEPT !.enabled = TRUE, !.binding = TRUE]
  /\ UNCHANGED <<counts, pending, waiter, poll, cuts, conn, session, called>>

\* updateRule, with another port
EditRule ==
  /\ rule.stops < MaxStops /\ ~rule.binding
  /\ rule' = [rule EXCEPT !.listening = FALSE, !.stops = @ + 1, !.binding = rule.enabled]
  /\ UNCHANGED <<counts, pending, waiter, poll, cuts, conn, session, called>>

\* handleForwardToggle and handleForwardEdit listen again if nobody does.
Relisten ==
  /\ rule.binding
  /\ rule' = [rule EXCEPT !.binding = FALSE, !.listening = TRUE]
  /\ UNCHANGED <<counts, pending, waiter, poll, cuts, conn, session, called>>

Serve(c) ==
  \/ CreateSession(c) \/ TakeWaiter(c) \/ HandNotice(c) \/ RemoveSession(c)

ForwardingNext ==
  \/ \E c \in Conns : Accept(c) \/ Serve(c) \/ Ends(c)
  \/ \E p \in Polls : PollBegins(p) \/ PollStep(p) \/ CutPoll(p)
  \/ StopRule \/ EnableRule \/ EditRule \/ Relisten

ForwardingSpec == ForwardingInit /\ [][ForwardingNext]_fwVars

-----------------------------------------------------------------------------
(* Properties.                                                              *)

\* ActiveSessions is the number of sessions that are registered, which never passes the
\* limit, and so is the count of the rule until the rule is stopped: whoever of handler,
\* stop and delete removes a session counts it off once, however they meet.
SessionsCounted ==
  /\ counts.active = Cardinality(Listed)
  /\ Cardinality(Listed) <= MaxSessions
  /\ counts.rule >= Cardinality(Listed)
  /\ rule.enabled /\ rule.stops = 0 => counts.rule = Cardinality(Listed)
=============================================================================
