--------------------------- MODULE ForwardingProofs ---------------------------
(***************************************************************************)
(* Proofs about Forwarding and ForwardStream.                              *)
(***************************************************************************)
EXTENDS Forwarding, ForwardStream, FiniteSetTheorems, SequenceTheorems,
        WellFoundedInduction, TLAPS

USE ForwardingAssumption

-----------------------------------------------------------------------------
(* Types of Forwarding.                                                     *)

RuleRecord == [enabled : BOOLEAN, listening : BOOLEAN, stops : Nat, binding : BOOLEAN]
ConnRecord ==
  [at : {"none", "accepted", "created", "calling", "serving", "over"},
   calls : Polls \cup {NoPoll}]
PollRecord ==
  [at : {"none", "asking", "registering", "waiting", "leaving"},
   inbox : Conns \cup {NoConn}, cut : BOOLEAN]
SessionRecord == [listed : BOOLEAN, done : BOOLEAN]

ForwardingTypeOK ==
  /\ rule \in RuleRecord
  /\ pending \in Seq(Conns)
  /\ waiter \in Polls \cup {NoPoll}
  /\ poll \in [Polls -> PollRecord]
  /\ conn \in [Conns -> ConnRecord]
  /\ session \in [Conns -> SessionRecord]
  /\ called \in SUBSET Conns

LEMMA InitForwardingTypes == ForwardingInit => ForwardingTypeOK
<1>1. << >> \in Seq(Conns)
  OBVIOUS
<1> QED
  BY <1>1 DEF ForwardingInit, ForwardingTypeOK, RuleRecord, ConnRecord, PollRecord, SessionRecord

\* The handler of a connection writes to that connection alone, and so do the sessions
\* and the polls: what has to be typed is the record that is written.
LEMMA StepConnTypes ==
  ASSUME ForwardingTypeOK, NEW c \in Conns, Accept(c) \/ Serve(c) \/ Ends(c)
  PROVE  ForwardingTypeOK'
<1>1. conn[c] \in ConnRecord /\ session[c] \in SessionRecord
  BY DEF ForwardingTypeOK
<1>2. ASSUME NEW r \in ConnRecord, conn' = [conn EXCEPT ![c] = r] PROVE conn' \in [Conns -> ConnRecord]
  BY <1>2 DEF ForwardingTypeOK
<1>3. ASSUME NEW r \in SessionRecord, session' = [session EXCEPT ![c] = r]
      PROVE  session' \in [Conns -> SessionRecord]
  BY <1>3 DEF ForwardingTypeOK
<1>4. ASSUME NEW at \in {"none", "accepted", "created", "calling", "serving", "over"}
      PROVE  /\ [conn[c] EXCEPT !.at = at] \in ConnRecord
             /\ \A p \in Polls \cup {NoPoll} : [at |-> at, calls |-> p] \in ConnRecord
  BY <1>1 DEF ConnRecord
<1>5. /\ [session[c] EXCEPT !.listed = TRUE] \in SessionRecord
      /\ [session[c] EXCEPT !.listed = FALSE] \in SessionRecord
      /\ [session[c] EXCEPT !.done = TRUE] \in SessionRecord
  BY <1>1 DEF SessionRecord
<1>6. Append(pending, c) \in Seq(Conns)
  BY DEF ForwardingTypeOK
<1>7. ASSUME NEW p \in Polls, poll' = [poll EXCEPT ![p].inbox = c]
      PROVE  poll' \in [Polls -> PollRecord]
  <2>1. [poll[p] EXCEPT !.inbox = c] \in PollRecord
    BY DEF ForwardingTypeOK, PollRecord
  <2> QED
    BY <1>7, <2>1 DEF ForwardingTypeOK
<1>8. CASE Accept(c)
  BY <1>2, <1>4, <1>8 DEF Accept, ForwardingTypeOK
<1>9. CASE CreateSession(c)
  BY <1>2, <1>3, <1>4, <1>5, <1>9 DEF CreateSession, ForwardingTypeOK
<1>10. CASE TakeWaiter(c)
  BY <1>2, <1>4, <1>6, <1>10 DEF TakeWaiter, ForwardingTypeOK
<1>11. CASE HandNotice(c)
  <2>1. conn[c].calls # NoPoll => conn[c].calls \in Polls
    BY <1>1 DEF ConnRecord
  <2> QED
    BY <1>2, <1>4, <1>6, <1>7, <1>11, <2>1 DEF HandNotice, ForwardingTypeOK
<1>12. CASE RemoveSession(c)
  BY <1>2, <1>3, <1>4, <1>5, <1>12 DEF RemoveSession, ForwardingTypeOK
<1>13. CASE Ends(c)
  BY <1>3, <1>5, <1>13 DEF Ends, ForwardingTypeOK
<1> QED
  BY <1>8, <1>9, <1>10, <1>11, <1>12, <1>13 DEF Serve

LEMMA StepPollTypes ==
  ASSUME ForwardingTypeOK, NEW p \in Polls, PollBegins(p) \/ PollStep(p) \/ CutPoll(p)
  PROVE  ForwardingTypeOK'
<1>1. poll[p] \in PollRecord
  BY DEF ForwardingTypeOK
<1>2. ASSUME NEW r \in PollRecord, poll' = [poll EXCEPT ![p] = r]
      PROVE  poll' \in [Polls -> PollRecord]
  BY <1>2 DEF ForwardingTypeOK
<1>3. ASSUME NEW at \in {"none", "asking", "registering", "waiting", "leaving"}
      PROVE  [poll[p] EXCEPT !.at = at] \in PollRecord
  BY <1>1 DEF PollRecord
<1>4. /\ [at |-> "asking", inbox |-> NoConn, cut |-> FALSE] \in PollRecord
      /\ [poll[p] EXCEPT !.at = "none", !.inbox = NoConn] \in PollRecord
      /\ [poll[p] EXCEPT !.cut = TRUE] \in PollRecord
  BY <1>1 DEF PollRecord
<1>5. poll[p].inbox # NoConn => poll[p].inbox \in Conns
  BY <1>1 DEF PollRecord
<1>6. CASE PollBegins(p)
  BY <1>2, <1>4, <1>6 DEF PollBegins, ForwardingTypeOK
<1>7. CASE PollChecks(p)
  <2>1. pending # << >> => Head(pending) \in Conns /\ Tail(pending) \in Seq(Conns)
    BY DEF ForwardingTypeOK
  <2> QED
    BY <1>2, <1>3, <1>7, <2>1 DEF PollChecks, Tell, ForwardingTypeOK
<1>8. CASE PollRegisters(p)
  BY <1>2, <1>3, <1>8 DEF PollRegisters, ForwardingTypeOK
<1>9. CASE PollWaits(p)
  BY <1>2, <1>3, <1>5, <1>9 DEF PollWaits, Tell, ForwardingTypeOK
<1>10. CASE PollLeaves(p)
  <2>1. \A c \in Conns : [conn[c] EXCEPT !.calls = NoPoll] \in ConnRecord
    BY DEF ForwardingTypeOK, ConnRecord
  <2>2. conn' \in [Conns -> ConnRecord]
    BY <1>10, <2>1 DEF PollLeaves, ForwardingTypeOK
  <2> QED
    BY <1>2, <1>4, <1>10, <2>2 DEF PollLeaves, ForwardingTypeOK
<1>11. CASE CutPoll(p)
  BY <1>2, <1>4, <1>11 DEF CutPoll, ForwardingTypeOK
<1> QED
  BY <1>6, <1>7, <1>8, <1>9, <1>10, <1>11 DEF PollStep

LEMMA StepForwardingTypes ==
  ForwardingTypeOK /\ [ForwardingNext]_fwVars => ForwardingTypeOK'
<1> SUFFICES ASSUME ForwardingTypeOK, [ForwardingNext]_fwVars PROVE ForwardingTypeOK'
  OBVIOUS
<1>1. CASE StopRule
  <2>1. [listed |-> FALSE, done |-> TRUE] \in SessionRecord
    BY DEF SessionRecord
  <2>2. session' \in [Conns -> SessionRecord]
    <3>1. \A c \in Conns :
            (IF session[c].listed THEN [listed |-> FALSE, done |-> TRUE] ELSE session[c])
              \in SessionRecord
      BY <2>1, Zenon DEF ForwardingTypeOK
    <3> QED
      BY <1>1, <3>1, Zenon DEF StopRule
  <2>3. rule' \in RuleRecord
    <3>1. rule' = [rule EXCEPT !.enabled = FALSE, !.listening = FALSE, !.stops = @ + 1]
      BY <1>1 DEF StopRule
    <3>2. rule \in RuleRecord /\ rule.binding \in BOOLEAN /\ rule.stops + 1 \in Nat
      BY DEF ForwardingTypeOK, RuleRecord
    <3> QED
      BY <3>1, <3>2 DEF RuleRecord
  <2> QED
    BY <1>1, <2>2, <2>3 DEF StopRule, ForwardingTypeOK
<1>2. CASE EnableRule \/ EditRule \/ Relisten
  <2>1. rule' \in RuleRecord
    <3>1. CASE EnableRule \/ Relisten
      BY <3>1 DEF EnableRule, Relisten, ForwardingTypeOK, RuleRecord
    <3>2. CASE EditRule
      <4>1. rule.enabled \in BOOLEAN /\ rule.stops + 1 \in Nat
        BY DEF ForwardingTypeOK, RuleRecord
      <4> QED
        BY <3>2, <4>1 DEF EditRule, ForwardingTypeOK, RuleRecord
    <3> QED
      BY <1>2, <3>1, <3>2
  <2> QED
    BY <1>2, <2>1 DEF EnableRule, EditRule, Relisten, ForwardingTypeOK
<1>3. CASE UNCHANGED fwVars
  BY <1>3 DEF fwVars, ForwardingTypeOK
<1> QED
  BY <1>1, <1>2, <1>3, StepConnTypes, StepPollTypes DEF ForwardingNext

-----------------------------------------------------------------------------
(* The sessions that are counted.                                           *)

\* The counts; that a connection has no session before it is created and those that are
\* registered are finitely many; and that the rule is enabled until it is stopped.
CountsInv ==
  /\ IsFiniteSet(Listed)
  /\ counts \in [active : Nat, rule : Nat]
  /\ SessionsCounted
  /\ rule.stops = 0 => rule.enabled
  /\ \A c \in Conns : conn[c].at \in {"none", "accepted"} => ~session[c].listed

\* A step that registers and removes none and leaves the counts.
LEMMA NoneCounted ==
  ASSUME CountsInv, Listed' = Listed, UNCHANGED counts,
         rule'.stops = 0 => rule.stops = 0 /\ rule'.enabled,
         \A c \in Conns :
           conn'[c].at \in {"none", "accepted"} => conn[c].at \in {"none", "accepted"}
  PROVE  CountsInv'
<1>1. \A c \in Conns : session'[c].listed <=> session[c].listed
  BY DEF Listed
<1> QED
  BY <1>1 DEF CountsInv, SessionsCounted

LEMMA CreateCounts ==
  ASSUME ForwardingTypeOK, CountsInv, NEW c \in Conns, CreateSession(c)
  PROVE  CountsInv'
<1>1. conn[c].at = "accepted" /\ c \notin Listed /\ UNCHANGED rule
  BY DEF CreateSession, CountsInv, Listed
<1>2. \A d \in Conns : conn'[d].at \in {"none", "accepted"} => d # c /\ conn'[d] = conn[d]
  BY DEF CreateSession, ForwardingTypeOK, ConnRecord
<1>3. CASE UNCHANGED <<session, counts>>
  <2>1. Listed' = Listed
    BY <1>3 DEF Listed
  <2> QED
    BY <1>1, <1>2, <1>3, <2>1, NoneCounted DEF CountsInv
<1>4. CASE /\ Cardinality(Listed) < MaxSessions
           /\ session' = [session EXCEPT ![c].listed = TRUE]
           /\ counts' = [active |-> counts.active + 1, rule |-> counts.rule + 1]
  <2>1. \A d \in Conns : session'[d].listed <=> d = c \/ session[d].listed
    BY <1>4 DEF ForwardingTypeOK, SessionRecord
  <2>2. Listed' = Listed \cup {c}
    BY <2>1 DEF Listed
  <2>3. IsFiniteSet(Listed') /\ Cardinality(Listed') = Cardinality(Listed) + 1
    BY <1>1, <2>2, FS_AddElement DEF CountsInv
  <2>4. Cardinality(Listed) \in Nat
    BY FS_CardinalityType DEF CountsInv
  <2>5. counts'.active = counts.active + 1 /\ counts'.rule = counts.rule + 1
    BY <1>4
  <2>6. SessionsCounted'
    BY <1>1, <1>4, <2>3, <2>4, <2>5 DEF CountsInv, SessionsCounted
  <2>7. counts' \in [active : Nat, rule : Nat]
    BY <1>4 DEF CountsInv
  <2> QED
    BY <1>1, <1>2, <2>1, <2>3, <2>6, <2>7 DEF CountsInv
<1> QED
  BY <1>3, <1>4 DEF CreateSession

LEMMA RemoveCounts ==
  ASSUME ForwardingTypeOK, CountsInv, NEW c \in Conns, RemoveSession(c)
  PROVE  CountsInv'
<1>1. UNCHANGED rule
  BY DEF RemoveSession
<1>2. \A d \in Conns : conn'[d].at \in {"none", "accepted"} => d # c /\ conn'[d] = conn[d]
  BY DEF RemoveSession, ForwardingTypeOK, ConnRecord
<1>3. CASE UNCHANGED <<session, counts>>
  <2>1. Listed' = Listed
    BY <1>3 DEF Listed
  <2> QED
    BY <1>1, <1>2, <1>3, <2>1, NoneCounted DEF CountsInv
<1>4. CASE /\ session[c].listed
           /\ session' = [session EXCEPT ![c].listed = FALSE]
           /\ counts' = [active |-> counts.active - 1,
                         rule |-> IF counts.rule > 0 THEN counts.rule - 1 ELSE 0]
  <2>1. \A d \in Conns : session'[d].listed <=> d # c /\ session[d].listed
    BY <1>4 DEF ForwardingTypeOK, SessionRecord
  <2>2. c \in Listed /\ Listed' = Listed \ {c}
    BY <1>4, <2>1 DEF Listed
  <2>3. IsFiniteSet(Listed') /\ Cardinality(Listed') = Cardinality(Listed) - 1
    BY <2>2, FS_RemoveElement DEF CountsInv
  <2>4. Cardinality(Listed) \in Nat /\ Cardinality(Listed') \in Nat
    BY <2>3, FS_CardinalityType DEF CountsInv
  <2>5. /\ counts'.active = counts.active - 1
        /\ counts'.rule = IF counts.rule > 0 THEN counts.rule - 1 ELSE 0
    BY <1>4
  <2>6. counts'.rule = counts.rule - 1 /\ counts'.rule \in Nat
    BY <2>3, <2>4, <2>5 DEF CountsInv, SessionsCounted
  <2>7. SessionsCounted'
    BY <1>1, <2>3, <2>4, <2>5, <2>6 DEF CountsInv, SessionsCounted
  <2>8. counts' \in [active : Nat, rule : Nat]
    BY <1>4, <2>4, <2>5, <2>6, <2>7 DEF SessionsCounted
  <2> QED
    BY <1>1, <1>2, <2>1, <2>3, <2>7, <2>8 DEF CountsInv
<1> QED
  BY <1>3, <1>4 DEF RemoveSession

LEMMA StopCounts ==
  ASSUME ForwardingTypeOK, CountsInv, StopRule
  PROVE  CountsInv'
<1>1. /\ rule'.stops = rule.stops + 1 /\ rule.stops \in Nat
      /\ UNCHANGED conn
  <2>1. rule' = [rule EXCEPT !.enabled = FALSE, !.listening = FALSE, !.stops = @ + 1]
    BY DEF StopRule
  <2> QED
    BY <2>1 DEF StopRule, ForwardingTypeOK, RuleRecord
<1>2. counts' = [counts EXCEPT !.active = @ - Cardinality(Listed)]
  BY DEF StopRule
<1>3. counts'.active = 0 /\ counts'.rule = counts.rule /\ counts' \in [active : Nat, rule : Nat]
  BY <1>2 DEF CountsInv, SessionsCounted
<1>4. \A c \in Conns : ~session'[c].listed
  <2>1. TAKE c \in Conns
  <2>2. session'[c] = IF session[c].listed THEN [listed |-> FALSE, done |-> TRUE]
                                           ELSE session[c]
    BY DEF StopRule
  <2>3. CASE session[c].listed
    BY <2>2, <2>3
  <2>4. CASE ~session[c].listed
    BY <2>2, <2>4
  <2> QED
    BY <2>3, <2>4
<1>5. Listed' = {}
  BY <1>4 DEF Listed
<1>6. IsFiniteSet(Listed') /\ Cardinality(Listed') = 0
  BY <1>5, FS_EmptySet
<1> QED
  BY <1>1, <1>3, <1>4, <1>6 DEF CountsInv, SessionsCounted

LEMMA StepCounts ==
  ForwardingTypeOK /\ CountsInv /\ [ForwardingNext]_fwVars => CountsInv'
<1> SUFFICES ASSUME ForwardingTypeOK, CountsInv, [ForwardingNext]_fwVars PROVE CountsInv'
  OBVIOUS
<1>1. ASSUME NEW c \in Conns, Accept(c) \/ TakeWaiter(c) \/ HandNotice(c) PROVE CountsInv'
  <2>1. UNCHANGED <<rule, counts, session>>
    BY <1>1 DEF Accept, TakeWaiter, HandNotice
  <2>2. \A d \in Conns :
          conn'[d].at \in {"none", "accepted"} => conn[d].at \in {"none", "accepted"}
    <3>1. \A d \in Conns \ {c} : conn'[d] = conn[d]
      BY <1>1 DEF Accept, TakeWaiter, HandNotice, ForwardingTypeOK
    <3>2. CASE Accept(c)
      BY <3>1, <3>2 DEF Accept
    <3>3. CASE TakeWaiter(c)
      BY <3>1, <3>3 DEF TakeWaiter, ForwardingTypeOK, ConnRecord
    <3>4. CASE HandNotice(c)
      BY <3>1, <3>4 DEF HandNotice, ForwardingTypeOK
    <3> QED
      BY <1>1, <3>2, <3>3, <3>4
  <2> QED
    BY <2>1, <2>2, NoneCounted DEF Listed, CountsInv
<1>2. ASSUME NEW c \in Conns, Ends(c) PROVE CountsInv'
  <2>1. UNCHANGED <<rule, counts, conn>> /\ session' = [session EXCEPT ![c].done = TRUE]
    BY <1>2 DEF Ends
  <2>2. \A d \in Conns : session'[d].listed <=> session[d].listed
    BY <2>1 DEF ForwardingTypeOK, SessionRecord
  <2>3. Listed' = Listed
    BY <2>2 DEF Listed
  <2> QED
    BY <2>1, <2>3, NoneCounted DEF CountsInv
<1>3. ASSUME NEW p \in Polls, PollBegins(p) \/ PollStep(p) \/ CutPoll(p) PROVE CountsInv'
  <2>1. UNCHANGED <<rule, counts, session>>
    BY <1>3 DEF PollBegins, PollStep, PollChecks, PollRegisters, PollWaits, PollLeaves, CutPoll
  <2>2. UNCHANGED conn \/ PollLeaves(p)
    BY <1>3 DEF PollBegins, PollStep, PollChecks, PollRegisters, PollWaits, CutPoll
  <2>3. \A d \in Conns :
          conn'[d].at \in {"none", "accepted"} => conn[d].at \in {"none", "accepted"}
    BY <2>2 DEF PollLeaves, ForwardingTypeOK, ConnRecord
  <2> QED
    BY <2>1, <2>3, NoneCounted DEF Listed, CountsInv
<1>4. CASE EnableRule \/ EditRule \/ Relisten
  <2>1. UNCHANGED <<counts, conn, session>> /\ rule \in RuleRecord
    BY <1>4 DEF EnableRule, EditRule, Relisten, ForwardingTypeOK
  <2>2. rule'.stops = 0 => rule.stops = 0 /\ rule'.enabled
    <3>1. CASE EnableRule
      BY <2>1, <3>1 DEF EnableRule, RuleRecord
    <3>2. CASE EditRule
      <4>1. rule'.stops = rule.stops + 1 /\ rule.stops \in Nat
        BY <2>1, <3>2 DEF EditRule, RuleRecord
      <4> QED
        BY <4>1
    <3>3. CASE Relisten
      BY <2>1, <3>3 DEF Relisten, RuleRecord, CountsInv
    <3> QED
      BY <1>4, <3>1, <3>2, <3>3
  <2> QED
    BY <2>1, <2>2, NoneCounted DEF Listed
<1>5. CASE UNCHANGED fwVars
  BY <1>5, NoneCounted DEF fwVars, Listed, CountsInv
<1> QED
  BY <1>1, <1>2, <1>3, <1>4, <1>5, CreateCounts, RemoveCounts, StopCounts
  DEF ForwardingNext, Serve

LEMMA InitCounts == ForwardingInit => CountsInv
<1> SUFFICES ASSUME ForwardingInit PROVE CountsInv
  OBVIOUS
<1>1. \A c \in Conns : ~session[c].listed
  BY DEF ForwardingInit
<1>2. Listed = {}
  BY <1>1 DEF Listed
<1>3. IsFiniteSet(Listed) /\ Cardinality(Listed) = 0
  BY <1>2, FS_EmptySet
<1>4. counts = [active |-> 0, rule |-> 0] /\ rule.enabled
  BY DEF ForwardingInit
<1> QED
  BY <1>1, <1>3, <1>4 DEF CountsInv, SessionsCounted

\* However accepting, ending and stopping meet, ActiveSessions is the number of sessions
\* registered and never passes the limit, and the count of a rule is never below it: for
\* any number of connections and polls and any limit.
THEOREM SessionsAreCounted == ForwardingSpec => []SessionsCounted
<1>1. CountsInv => SessionsCounted
  BY DEF CountsInv
<1> QED
  BY <1>1, InitForwardingTypes, StepForwardingTypes, InitCounts, StepCounts, PTL
  DEF ForwardingSpec

-----------------------------------------------------------------------------
(* The notice of a session.                                                 *)

\* A poll that notifyAgent has taken has nothing in its channel, and is in nobody else's
\* hands; nor has the one that is registered.
RoomInv ==
  /\ \A c \in Conns :
       conn[c].calls # NoPoll =>
         /\ conn[c].at = "calling"
         /\ waiter # conn[c].calls
         /\ poll[conn[c].calls].inbox = NoConn
         /\ poll[conn[c].calls].at \in {"waiting", "leaving"}
         /\ \A d \in Conns : conn[d].calls = conn[c].calls => d = c
  /\ waiter # NoPoll =>
       poll[waiter].inbox = NoConn /\ poll[waiter].at \in {"waiting", "leaving"}
  /\ \A p \in Polls : poll[p].inbox # NoConn => poll[p].at \in {"waiting", "leaving"}

InPending(c) == \E i \in 1..Len(pending) : pending[i] = c
InAnInbox(c) == \E p \in Polls : poll[p].inbox = c

\* The notice of a session is in one place: it has not been given, it waits for a poll, it
\* is in the channel of one, or it has been told.
NoticeInv ==
  /\ \A i, j \in 1..Len(pending) : pending[i] = pending[j] => i = j
  /\ \A c \in Conns :
       /\ conn[c].at \in {"none", "accepted", "created", "calling"} =>
            ~InPending(c) /\ ~InAnInbox(c) /\ c \notin called
       /\ InPending(c) => ~InAnInbox(c) /\ c \notin called
       /\ \A p, q \in Polls : poll[p].inbox = c /\ poll[q].inbox = c => p = q
       /\ \A p \in Polls : poll[p].inbox = c /\ poll[p].at = "waiting" => c \notin called

\* A handler writes to its own connection and, when it calls, to the poll that it took.
LEMMA ConnStepIs ==
  ASSUME ForwardingTypeOK, RoomInv, NEW c \in Conns, Accept(c) \/ Serve(c) \/ Ends(c)
  PROVE  /\ \A d \in Conns \ {c} : conn'[d] = conn[d]
         /\ called' = called
         /\ \/ /\ conn'[c].calls = NoPoll /\ conn[c].calls = NoPoll
               /\ \/ conn[c].at \in {"none", "accepted"} /\ conn'[c].at \in {"accepted", "created"}
                  \/ conn'[c].at = "over"
               /\ UNCHANGED <<pending, waiter, poll>>
            \/ conn' = conn /\ UNCHANGED <<pending, waiter, poll>>
            \/ /\ conn[c].at = "created" /\ conn[c].calls = NoPoll
               /\ conn'[c].at = "serving" /\ conn'[c].calls = NoPoll
               /\ waiter = NoPoll /\ waiter' = NoPoll
               /\ pending' = Append(pending, c) /\ UNCHANGED poll
            \/ /\ conn[c].at = "created" /\ conn[c].calls = NoPoll
               /\ waiter \in Polls /\ waiter' = NoPoll
               /\ conn'[c].at = "calling" /\ conn'[c].calls = waiter
               /\ UNCHANGED <<pending, poll>>
            \/ /\ conn[c].at = "calling"
               /\ conn'[c].at = "serving" /\ conn'[c].calls = NoPoll
               /\ UNCHANGED <<pending, waiter>>
               /\ \/ conn[c].calls = NoPoll /\ UNCHANGED poll
                  \/ /\ conn[c].calls \in Polls
                     /\ poll' = [poll EXCEPT ![conn[c].calls].inbox = c]
<1>1. conn[c] \in ConnRecord /\ waiter \in Polls \cup {NoPoll}
  BY DEF ForwardingTypeOK
<1>2. \A d \in Conns \ {c} : conn'[d] = conn[d]
  BY DEF Accept, Serve, CreateSession, TakeWaiter, HandNotice, RemoveSession, Ends, ForwardingTypeOK
<1>3. called' = called
  BY DEF Accept, Serve, CreateSession, TakeWaiter, HandNotice, RemoveSession, Ends
<1>4. CASE Accept(c) \/ CreateSession(c) \/ RemoveSession(c)
  <2>1. UNCHANGED <<pending, waiter, poll>>
    BY <1>4 DEF Accept, CreateSession, RemoveSession
  <2>2. PICK v \in {"accepted", "created", "over"} :
          /\ conn' = [conn EXCEPT ![c].at = v]
          /\ v = "accepted" => conn[c].at = "none"
          /\ v = "created" => conn[c].at = "accepted"
          /\ v = "over" => conn[c].at \in {"accepted", "serving"}
    BY <1>4 DEF Accept, CreateSession, RemoveSession
  <2>3. conn'[c].at = v /\ conn'[c].calls = conn[c].calls
    BY <1>1, <2>2 DEF ForwardingTypeOK, ConnRecord
  <2>4. conn[c].at # "calling"
    BY <2>2
  <2>5. conn[c].calls = NoPoll
    BY <2>4 DEF RoomInv
  <2> QED
    BY <1>2, <1>3, <2>1, <2>2, <2>3, <2>5
<1>5. CASE Ends(c)
  BY <1>2, <1>3, <1>5 DEF Ends
<1>6. CASE TakeWaiter(c)
  <2>1. conn[c].at = "created" /\ waiter' = NoPoll /\ UNCHANGED poll
    BY <1>6 DEF TakeWaiter
  <2>2. conn[c].calls = NoPoll
    BY <2>1 DEF RoomInv
  <2>3. CASE waiter = NoPoll
    <3>1. pending' = Append(pending, c) /\ conn' = [conn EXCEPT ![c].at = "serving"]
      BY <1>6, <2>3 DEF TakeWaiter
    <3>2. conn'[c].at = "serving" /\ conn'[c].calls = NoPoll
      BY <1>1, <2>2, <3>1 DEF ForwardingTypeOK, ConnRecord
    <3> QED
      BY <1>2, <1>3, <2>1, <2>2, <2>3, <3>1, <3>2
  <2>4. CASE waiter # NoPoll
    <3>1. /\ conn' = [conn EXCEPT ![c] = [at |-> "calling", calls |-> waiter]]
          /\ UNCHANGED pending
      BY <1>6, <2>4 DEF TakeWaiter
    <3>2. conn'[c].at = "calling" /\ conn'[c].calls = waiter
      BY <3>1 DEF ForwardingTypeOK
    <3> QED
      BY <1>1, <1>2, <1>3, <2>1, <2>2, <2>4, <3>1, <3>2
  <2> QED
    BY <2>3, <2>4
<1>7. CASE HandNotice(c)
  <2>1. /\ conn[c].at = "calling" /\ UNCHANGED waiter
        /\ conn' = [conn EXCEPT ![c] = [at |-> "serving", calls |-> NoPoll]]
    BY <1>7 DEF HandNotice
  <2>2. conn'[c].at = "serving" /\ conn'[c].calls = NoPoll
    BY <2>1 DEF ForwardingTypeOK
  <2>3. conn[c].calls \in Polls \cup {NoPoll}
    BY <1>1 DEF ConnRecord
  <2>4. CASE conn[c].calls = NoPoll
    BY <1>2, <1>3, <1>7, <2>1, <2>2, <2>4 DEF HandNotice
  <2>5. CASE conn[c].calls # NoPoll
    <3>1. poll[conn[c].calls].inbox = NoConn
      BY <2>5 DEF RoomInv
    <3>2. poll' = [poll EXCEPT ![conn[c].calls].inbox = c] /\ UNCHANGED pending
      BY <1>7, <2>5, <3>1 DEF HandNotice
    <3> QED
      BY <1>2, <1>3, <2>1, <2>2, <2>3, <2>5, <3>2
  <2> QED
    BY <2>4, <2>5
<1> QED
  BY <1>4, <1>5, <1>6, <1>7 DEF Serve

\* A poll writes to itself and, when it leaves, to whoever has it in hand.
LEMMA PollStepIs ==
  ASSUME ForwardingTypeOK, NEW p \in Polls, PollBegins(p) \/ PollStep(p) \/ CutPoll(p)
  PROVE  /\ \A q \in Polls \ {p} : poll'[q] = poll[q]
         /\ \/ /\ poll[p].at \in {"none", "asking"} /\ poll'[p].at \in {"asking", "registering"}
               /\ poll'[p].inbox \in {NoConn, poll[p].inbox}
               /\ UNCHANGED <<conn, waiter, pending, called>>
            \/ /\ poll[p].at = "asking" /\ poll'[p].at = "none"
               /\ poll'[p].inbox = poll[p].inbox
               /\ pending # << >> /\ pending' = Tail(pending)
               /\ called' \in {called, called \cup {Head(pending)}}
               /\ UNCHANGED <<conn, waiter>>
            \/ /\ poll[p].at = "registering" /\ poll'[p].at = "waiting"
               /\ poll'[p].inbox = poll[p].inbox
               /\ waiter' = p
               /\ UNCHANGED <<conn, pending, called>>
            \/ /\ poll[p].at = "waiting" /\ poll'[p].at = "leaving"
               /\ poll'[p].inbox = poll[p].inbox
               /\ \/ called' = called
                  \/ poll[p].inbox # NoConn /\ called' = called \cup {poll[p].inbox}
               /\ UNCHANGED <<conn, waiter, pending>>
            \/ /\ poll[p].at = "leaving" /\ poll'[p].at = "none"
               /\ poll'[p].inbox = NoConn
               /\ waiter' = IF waiter = p THEN NoPoll ELSE waiter
               /\ \A c \in Conns :
                    /\ conn'[c].at = conn[c].at
                    /\ conn'[c].calls = IF conn[c].calls = p THEN NoPoll ELSE conn[c].calls
               /\ UNCHANGED <<pending, called>>
            \/ /\ poll'[p].at = poll[p].at /\ poll'[p].inbox = poll[p].inbox
               /\ UNCHANGED <<conn, waiter, pending, called>>
<1>1. poll[p] \in PollRecord
  BY DEF ForwardingTypeOK
<1>2. \A q \in Polls \ {p} : poll'[q] = poll[q]
  BY DEF PollBegins, PollStep, PollChecks, PollRegisters, PollWaits, PollLeaves, CutPoll,
         ForwardingTypeOK
<1>3. ASSUME NEW at, poll' = [poll EXCEPT ![p].at = at]
      PROVE  poll'[p].at = at /\ poll'[p].inbox = poll[p].inbox
  BY <1>1, <1>3 DEF ForwardingTypeOK, PollRecord
<1>4. CASE PollBegins(p)
  <2>1. /\ poll[p].at = "none" /\ UNCHANGED <<conn, waiter, pending, called>>
        /\ poll' = [poll EXCEPT ![p] = [at |-> "asking", inbox |-> NoConn, cut |-> FALSE]]
    BY <1>4 DEF PollBegins
  <2>2. poll'[p].at = "asking" /\ poll'[p].inbox = NoConn
    BY <2>1 DEF ForwardingTypeOK
  <2> QED
    BY <1>2, <2>1, <2>2
<1>5. CASE PollChecks(p)
  <2>1. CASE pending # << >>
    <3>1. /\ poll[p].at = "asking" /\ UNCHANGED <<conn, waiter>>
          /\ pending' = Tail(pending)
          /\ called' \in {called, called \cup {Head(pending)}}
          /\ poll' = [poll EXCEPT ![p].at = "none"]
      BY <1>5, <2>1 DEF PollChecks, Tell
    <3> QED
      BY <1>2, <1>3, <2>1, <3>1
  <2>2. CASE pending = << >>
    <3>1. /\ poll[p].at = "asking" /\ UNCHANGED <<conn, waiter, pending, called>>
          /\ poll' = [poll EXCEPT ![p].at = "registering"]
      BY <1>5, <2>2 DEF PollChecks
    <3> QED
      BY <1>2, <1>3, <3>1
  <2> QED
    BY <2>1, <2>2
<1>6. CASE PollRegisters(p)
  BY <1>2, <1>3, <1>6 DEF PollRegisters
<1>7. CASE PollWaits(p)
  <2>1. /\ poll[p].at = "waiting" /\ UNCHANGED <<conn, waiter, pending>>
        /\ \/ called' = called
           \/ poll[p].inbox # NoConn /\ called' = called \cup {poll[p].inbox}
        /\ poll' = [poll EXCEPT ![p].at = "leaving"]
    BY <1>7 DEF PollWaits, Tell
  <2> QED
    BY <1>2, <1>3, <2>1
<1>8. CASE PollLeaves(p)
  <2>1. /\ poll[p].at = "leaving" /\ UNCHANGED <<pending, called>>
        /\ waiter' = IF waiter = p THEN NoPoll ELSE waiter
        /\ poll' = [poll EXCEPT ![p].at = "none", ![p].inbox = NoConn]
        /\ conn' = [c \in Conns |->
             IF conn[c].calls = p THEN [conn[c] EXCEPT !.calls = NoPoll] ELSE conn[c]]
    BY <1>8 DEF PollLeaves
  <2>2. poll'[p].at = "none" /\ poll'[p].inbox = NoConn
    BY <1>1, <2>1 DEF ForwardingTypeOK, PollRecord
  <2>3. \A c \in Conns :
          /\ conn'[c].at = conn[c].at
          /\ conn'[c].calls = IF conn[c].calls = p THEN NoPoll ELSE conn[c].calls
    BY <2>1 DEF ForwardingTypeOK, ConnRecord
  <2> QED
    BY <1>2, <2>1, <2>2, <2>3
<1>9. CASE CutPoll(p)
  <2>1. UNCHANGED <<conn, waiter, pending, called>> /\ poll' = [poll EXCEPT ![p].cut = TRUE]
    BY <1>9 DEF CutPoll
  <2>2. poll'[p].at = poll[p].at /\ poll'[p].inbox = poll[p].inbox
    BY <1>1, <2>1 DEF ForwardingTypeOK, PollRecord
  <2> QED
    BY <1>2, <2>1, <2>2
<1> QED
  BY <1>4, <1>5, <1>6, <1>7, <1>8, <1>9 DEF PollStep

\* The rule's actions touch no notice.
LEMMA OtherStepIs ==
  ASSUME StopRule \/ EnableRule \/ EditRule \/ Relisten \/ UNCHANGED fwVars
  PROVE  UNCHANGED <<conn, poll, waiter, pending, called>>
BY DEF StopRule, EnableRule, EditRule, Relisten, fwVars

LEMMA StepRoom ==
  ForwardingTypeOK /\ RoomInv /\ [ForwardingNext]_fwVars => RoomInv'
<1> SUFFICES ASSUME ForwardingTypeOK, RoomInv, [ForwardingNext]_fwVars PROVE RoomInv'
  OBVIOUS
<1>1. /\ waiter \in Polls \cup {NoPoll}
      /\ \A c \in Conns : conn[c].calls \in Polls \cup {NoPoll}
  BY DEF ForwardingTypeOK, ConnRecord
<1>2. ASSUME NEW c \in Conns, Accept(c) \/ Serve(c) \/ Ends(c) PROVE RoomInv'
  <2>1. ASSUME UNCHANGED poll, \A d \in Conns \ {c} : conn'[d] = conn[d],
               conn'[c].calls = NoPoll, waiter' \in {waiter, NoPoll}
        PROVE  RoomInv'
    BY <1>1, <2>1 DEF RoomInv
  <2>2. ASSUME UNCHANGED <<conn, poll, waiter>> PROVE RoomInv'
    BY <2>2 DEF RoomInv
  <2>3. ASSUME UNCHANGED poll, \A d \in Conns \ {c} : conn'[d] = conn[d], waiter \in Polls,
               conn'[c].at = "calling", conn'[c].calls = waiter, waiter' = NoPoll
        PROVE  RoomInv'
    BY <1>1, <2>3 DEF RoomInv
  <2>4. ASSUME NEW p \in Polls, poll' = [poll EXCEPT ![p].inbox = c], UNCHANGED waiter,
               \A d \in Conns \ {c} : conn'[d] = conn[d],
               conn[c].calls = p, conn'[c].calls = NoPoll
        PROVE  RoomInv'
    <3>1. /\ \A q \in Polls \ {p} : poll'[q] = poll[q]
          /\ poll'[p].at = poll[p].at
      BY <2>4 DEF ForwardingTypeOK, PollRecord
    <3>2. waiter # p /\ poll[p].at \in {"waiting", "leaving"}
      BY <2>4 DEF RoomInv
    <3>3. \A d \in Conns \ {c} : conn[d].calls # p
      BY <2>4 DEF RoomInv
    <3> QED
      BY <1>1, <2>4, <3>1, <3>2, <3>3 DEF RoomInv
  <2> QED
    BY <1>1, <1>2, <2>1, <2>2, <2>3, <2>4, ConnStepIs
<1>3. ASSUME NEW p \in Polls, PollBegins(p) \/ PollStep(p) \/ CutPoll(p) PROVE RoomInv'
  <2>1. \A q \in Polls \ {p} : poll'[q] = poll[q]
    BY <1>3, PollStepIs
  <2>2. ASSUME UNCHANGED <<conn, waiter>>, poll'[p].inbox \in {NoConn, poll[p].inbox},
               \/ poll'[p].at \in {poll[p].at, "leaving"}
               \/ poll[p].at \notin {"waiting", "leaving"}
        PROVE  RoomInv'
    BY <1>1, <2>1, <2>2 DEF RoomInv
  <2>3. ASSUME poll[p].at = "registering", poll'[p].at = "waiting",
               poll'[p].inbox = poll[p].inbox, waiter' = p, UNCHANGED conn
        PROVE  RoomInv'
    BY <1>1, <2>1, <2>3 DEF RoomInv
  <2>4. ASSUME poll'[p].at = "none", poll'[p].inbox = NoConn,
               waiter' = IF waiter = p THEN NoPoll ELSE waiter,
               \A c \in Conns :
                 /\ conn'[c].at = conn[c].at
                 /\ conn'[c].calls = IF conn[c].calls = p THEN NoPoll ELSE conn[c].calls
        PROVE  RoomInv'
    BY <1>1, <2>1, <2>4 DEF RoomInv
  <2> QED
    BY <1>3, <2>2, <2>3, <2>4, PollStepIs
<1>4. CASE UNCHANGED <<conn, poll, waiter, pending, called>>
  BY <1>4 DEF RoomInv
<1> QED
  BY <1>2, <1>3, <1>4, OtherStepIs DEF ForwardingNext

LEMMA InitRoom == ForwardingInit => RoomInv
BY DEF ForwardingInit, RoomInv

\* The channel of a poll holds one notice, and that is enough: a poll that notifyAgent
\* has taken has room, so that no handler ever finds it full.
NoticeHasRoom ==
  \A c \in Conns :
    conn[c].at = "calling" /\ conn[c].calls # NoPoll => poll[conn[c].calls].inbox = NoConn

\* For any connections and polls, however polls end, break and begin meanwhile.
THEOREM TakenPollsHaveRoom == ForwardingSpec => []NoticeHasRoom
<1>1. RoomInv => NoticeHasRoom
  BY DEF RoomInv, NoticeHasRoom
<1> QED
  BY <1>1, InitForwardingTypes, StepForwardingTypes, InitRoom, StepRoom, PTL DEF ForwardingSpec

LEMMA ConnStepNotice ==
  ASSUME ForwardingTypeOK, RoomInv, NoticeInv, NEW c \in Conns, Accept(c) \/ Serve(c) \/ Ends(c)
  PROVE  NoticeInv'
<1> DEFINE Early == {"none", "accepted", "created", "calling"}
<1>1. \A d \in Conns \ {c} : conn'[d] = conn[d]
  BY ConnStepIs
<1>2. called' = called
  BY ConnStepIs
<1>3. ASSUME UNCHANGED <<pending, poll>>, conn'[c].at \in Early => conn[c].at \in Early
      PROVE  NoticeInv'
  <2>1. \A d \in Conns : conn'[d].at \in Early => conn[d].at \in Early
    BY <1>1, <1>3
  <2> QED
    BY <1>2, <1>3, <2>1 DEF NoticeInv, InPending, InAnInbox
<1>4. ASSUME UNCHANGED poll, pending' = Append(pending, c),
             conn[c].at = "created", conn'[c].at = "serving"
      PROVE  NoticeInv'
  <2>1. /\ Len(pending) \in Nat
        /\ Len(pending') = Len(pending) + 1
        /\ pending'[Len(pending) + 1] = c
        /\ \A i \in 1..Len(pending) : pending'[i] = pending[i]
    BY <1>4 DEF ForwardingTypeOK
  <2>2. ~InPending(c) /\ ~InAnInbox(c) /\ c \notin called
    BY <1>4 DEF NoticeInv
  <2>3. \A i, j \in 1..Len(pending') : pending'[i] = pending'[j] => i = j
    BY <2>1, <2>2 DEF NoticeInv, InPending
  <2>4. \A d \in Conns \ {c} : InPending(d)' => InPending(d)
    BY <2>1 DEF InPending
  <2>5. \A d \in Conns : InAnInbox(d)' = InAnInbox(d)
    BY <1>4 DEF InAnInbox
  <2>6. conn'[c].at \notin Early
    BY <1>4
  <2>7. ASSUME NEW d \in Conns
        PROVE  /\ conn'[d].at \in Early =>
                    ~InPending(d)' /\ ~InAnInbox(d)' /\ d \notin called'
               /\ InPending(d)' => ~InAnInbox(d)' /\ d \notin called'
    BY <1>1, <1>2, <2>2, <2>4, <2>5, <2>6 DEF NoticeInv
  <2> QED
    BY <1>2, <1>4, <2>3, <2>7 DEF NoticeInv
<1>5. ASSUME NEW p \in Polls, poll' = [poll EXCEPT ![p].inbox = c], UNCHANGED pending,
             conn[c].at = "calling", conn'[c].at = "serving", poll[p].inbox = NoConn
      PROVE  NoticeInv'
  <2>1. /\ \A q \in Polls \ {p} : poll'[q] = poll[q]
        /\ poll'[p].at = poll[p].at /\ poll'[p].inbox = c
    BY <1>5 DEF ForwardingTypeOK, PollRecord
  <2>2. ~InPending(c) /\ ~InAnInbox(c) /\ c \notin called
    BY <1>5 DEF NoticeInv
  <2>3. /\ \A d \in Conns : InPending(d)' = InPending(d)
        /\ \A d \in Conns \ {c} : InAnInbox(d)' => InAnInbox(d)
    BY <1>5, <2>1 DEF InPending, InAnInbox
  <2>4. conn'[c].at \notin Early
    BY <1>5
  <2>5. ASSUME NEW d \in Conns
        PROVE  /\ conn'[d].at \in Early =>
                    ~InPending(d)' /\ ~InAnInbox(d)' /\ d \notin called'
               /\ InPending(d)' => ~InAnInbox(d)' /\ d \notin called'
    BY <1>1, <1>2, <2>2, <2>3, <2>4 DEF NoticeInv
  <2>6. ASSUME NEW d \in Conns
        PROVE  /\ \A q, r \in Polls : poll'[q].inbox = d /\ poll'[r].inbox = d => q = r
               /\ \A q \in Polls : poll'[q].inbox = d /\ poll'[q].at = "waiting" => d \notin called'
    BY <1>2, <2>1, <2>2 DEF NoticeInv, InAnInbox
  <2>7. \A i, j \in 1..Len(pending') : pending'[i] = pending'[j] => i = j
    BY <1>5 DEF NoticeInv
  <2> QED
    BY <2>5, <2>6, <2>7 DEF NoticeInv
<1>6. conn[c].at = "calling" /\ conn[c].calls \in Polls => poll[conn[c].calls].inbox = NoConn
  BY DEF RoomInv
<1> QED
  BY <1>3, <1>4, <1>5, <1>6, ConnStepIs

LEMMA PollStepNotice ==
  ASSUME ForwardingTypeOK, RoomInv, NoticeInv,
         NEW p \in Polls, PollBegins(p) \/ PollStep(p) \/ CutPoll(p)
  PROVE  NoticeInv'
<1>1. /\ \A q \in Polls \ {p} : poll'[q] = poll[q]
      /\ \A c \in Conns : conn'[c].at = conn[c].at
  BY PollStepIs
<1>2. \A c \in Conns : c # NoConn
  BY ForwardingAssumption
<1>3. ASSUME UNCHANGED <<pending, called>>, poll'[p].inbox \in {NoConn, poll[p].inbox},
             poll'[p].at = "waiting" => poll[p].at = "waiting" \/ poll[p].inbox = NoConn
      PROVE  NoticeInv'
  <2>1. \A c \in Conns : \A q \in Polls : poll'[q].inbox = c => poll[q].inbox = c
    BY <1>1, <1>2, <1>3
  <2>2. \A c \in Conns : InPending(c)' = InPending(c) /\ (InAnInbox(c)' => InAnInbox(c))
    BY <1>3, <2>1 DEF InPending, InAnInbox
  <2>3. ASSUME NEW c \in Conns, NEW q \in Polls, poll'[q].inbox = c, poll'[q].at = "waiting"
        PROVE  poll[q].inbox = c /\ poll[q].at = "waiting"
    BY <1>1, <1>2, <1>3, <2>1, <2>3
  <2> QED
    BY <1>1, <1>3, <2>1, <2>2, <2>3 DEF NoticeInv
<1>4. ASSUME poll[p].at = "asking", poll'[p].at = "none", poll'[p].inbox = poll[p].inbox,
             pending # << >>, pending' = Tail(pending),
             called' \in {called, called \cup {Head(pending)}}
      PROVE  NoticeInv'
  <2>1. /\ Len(pending) \in Nat \ {0} /\ Len(pending') = Len(pending) - 1
        /\ Head(pending) = pending[1] /\ Head(pending) \in Conns
        /\ \A i \in 1..Len(pending') : pending'[i] = pending[i + 1]
    BY <1>4 DEF ForwardingTypeOK
  <2>2. \A i, j \in 1..Len(pending') : pending'[i] = pending'[j] => i = j
    BY <2>1 DEF NoticeInv
  <2>3. InPending(Head(pending))
    BY <2>1 DEF InPending
  <2>4. ASSUME NEW c \in Conns, InPending(c)'
        PROVE  InPending(c) /\ c # Head(pending)
    <3>1. PICK i \in 1..Len(pending') : pending'[i] = c
      BY <2>4 DEF InPending
    <3>2. i + 1 \in 1..Len(pending) /\ pending[i + 1] = c /\ 1 \in 1..Len(pending) /\ i + 1 # 1
      BY <2>1, <3>1
    <3> QED
      BY <2>1, <3>2 DEF InPending, NoticeInv
  <2>5. \A q \in Polls : poll'[q].inbox = poll[q].inbox
                         /\ (poll'[q].at = "waiting" => poll[q].at = "waiting")
    BY <1>1, <1>4
  <2>6. \A c \in Conns : InAnInbox(c)' = InAnInbox(c)
    BY <2>5 DEF InAnInbox
  <2>7. /\ ~InAnInbox(Head(pending))
        /\ conn[Head(pending)].at \notin {"none", "accepted", "created", "calling"}
    BY <2>1, <2>3 DEF NoticeInv
  <2>8. \A c \in Conns : c \in called' => c \in called \/ c = Head(pending)
    BY <1>4
  <2>9. ASSUME NEW c \in Conns
        PROVE  /\ conn'[c].at \in {"none", "accepted", "created", "calling"} =>
                    ~InPending(c)' /\ ~InAnInbox(c)' /\ c \notin called'
               /\ InPending(c)' => ~InAnInbox(c)' /\ c \notin called'
    BY <1>1, <2>4, <2>6, <2>7, <2>8 DEF NoticeInv
  <2>10. ASSUME NEW c \in Conns
         PROVE  /\ \A q, r \in Polls : poll'[q].inbox = c /\ poll'[r].inbox = c => q = r
                /\ \A q \in Polls :
                     poll'[q].inbox = c /\ poll'[q].at = "waiting" => c \notin called'
    BY <2>5, <2>7, <2>8 DEF NoticeInv, InAnInbox
  <2> QED
    BY <2>2, <2>9, <2>10 DEF NoticeInv
<1>5. ASSUME poll[p].at = "waiting", poll'[p].at = "leaving", poll'[p].inbox = poll[p].inbox,
             UNCHANGED pending,
             \/ called' = called
             \/ poll[p].inbox # NoConn /\ called' = called \cup {poll[p].inbox}
      PROVE  NoticeInv'
  <2>1. \A q \in Polls : poll'[q].inbox = poll[q].inbox
                         /\ (poll'[q].at = "waiting" => poll[q].at = "waiting" /\ q # p)
    BY <1>1, <1>5
  <2>2. \A c \in Conns : InAnInbox(c)' = InAnInbox(c) /\ InPending(c)' = InPending(c)
    BY <1>5, <2>1 DEF InAnInbox, InPending
  <2>3. \A c \in Conns : c \in called' => c \in called \/ poll[p].inbox = c
    BY <1>5
  <2>4. ASSUME NEW c \in Conns
        PROVE  /\ conn'[c].at \in {"none", "accepted", "created", "calling"} =>
                    ~InPending(c)' /\ ~InAnInbox(c)' /\ c \notin called'
               /\ InPending(c)' => ~InAnInbox(c)' /\ c \notin called'
    BY <1>1, <2>2, <2>3 DEF NoticeInv, InAnInbox
  <2>5. ASSUME NEW c \in Conns
        PROVE  /\ \A q, r \in Polls : poll'[q].inbox = c /\ poll'[r].inbox = c => q = r
               /\ \A q \in Polls :
                    poll'[q].inbox = c /\ poll'[q].at = "waiting" => c \notin called'
    BY <2>1, <2>3 DEF NoticeInv
  <2>6. \A i, j \in 1..Len(pending') : pending'[i] = pending'[j] => i = j
    BY <1>5 DEF NoticeInv
  <2> QED
    BY <2>4, <2>5, <2>6 DEF NoticeInv
<1>6. poll[p].at = "registering" => poll[p].inbox = NoConn
  BY DEF RoomInv
<1> QED
  BY <1>3, <1>4, <1>5, <1>6, PollStepIs

\* The agent is called once: what it has been told of is neither waiting for a poll nor on
\* its way to one that still listens, and nothing waits twice.
CalledOnce ==
  /\ \A i, j \in 1..Len(pending) : pending[i] = pending[j] => i = j
  /\ \A c \in Conns :
       /\ InPending(c) => c \notin called /\ ~InAnInbox(c)
       /\ \A p \in Polls : poll[p].inbox = c /\ poll[p].at = "waiting" => c \notin called

\* Two streams of the agent for one session would share its data out between two
\* connections to the target; however handlers, polls and stops meet, it is not so.
THEOREM AgentIsCalledOnce == ForwardingSpec => []CalledOnce
<1>1. NoticeInv => CalledOnce
  BY DEF NoticeInv, CalledOnce
<1>2. ForwardingInit => NoticeInv
  <2> SUFFICES ASSUME ForwardingInit PROVE NoticeInv
    OBVIOUS
  <2>1. pending = << >> /\ called = {} /\ \A p \in Polls : poll[p].inbox = NoConn
    BY DEF ForwardingInit
  <2>2. 1..Len(pending) = {}
    BY <2>1
  <2> QED
    BY <2>1, <2>2, ForwardingAssumption DEF NoticeInv, InPending, InAnInbox
<1>3. ForwardingTypeOK /\ RoomInv /\ NoticeInv /\ [ForwardingNext]_fwVars => NoticeInv'
  <2> SUFFICES ASSUME ForwardingTypeOK, RoomInv, NoticeInv, [ForwardingNext]_fwVars
               PROVE  NoticeInv'
    OBVIOUS
  <2>1. CASE UNCHANGED <<conn, poll, waiter, pending, called>>
    BY <2>1 DEF NoticeInv, InPending, InAnInbox
  <2> QED
    BY <2>1, ConnStepNotice, PollStepNotice, OtherStepIs DEF ForwardingNext
<1> QED
  BY <1>1, <1>2, <1>3, InitForwardingTypes, StepForwardingTypes, InitRoom, StepRoom, PTL
  DEF ForwardingSpec

-----------------------------------------------------------------------------
(* Types of ForwardStream.                                                  *)

Closers == {"open", "user", "other"}

UserRecord == [sent : Nat, ended : BOOLEAN]
ReaderRecord == [at : {"none", "reading", "holding", "eof", "closing", "over"}, read : Nat]
LinkRecord == [listed : BOOLEAN, up : BOOLEAN, closer : Closers]
TxRecord == [at : {"none", "reading", "holding", "draining", "over"}, read : Nat]
TargetRecord == [sent : Nat, got : Seq(Nat), ended : {"no", "closed", "cut"}]

StreamTypeOK ==
  /\ user \in UserRecord
  /\ handler \in {"accepted", "serving", "removed", "over"}
  /\ reader \in ReaderRecord
  /\ writer \in {"none", "waiting", "writing", "over"}
  /\ link \in LinkRecord
  /\ toAgent \in Seq(Nat)
  /\ toUser \in Nat
  /\ agent \in {"none", "called", "streaming", "refusing"}
  /\ rx \in {"none", "streaming", "over", "failed"}
  /\ tx \in TxRecord
  /\ target \in TargetRecord

\* What is written into a record that holds a sequence; S stands for Seq(Nat).
LEMMA Rewritten ==
  ASSUME NEW S, NEW E, NEW r \in [sent : Nat, got : S, ended : E]
  PROVE  /\ r.sent \in Nat /\ r.got \in S /\ r.ended \in E
         /\ \A n \in Nat, e \in E :
              /\ [r EXCEPT !.sent = n] \in [sent : Nat, got : S, ended : E]
              /\ [r EXCEPT !.sent = n, !.ended = e] \in [sent : Nat, got : S, ended : E]
         /\ \A e \in E : [r EXCEPT !.ended = e] \in [sent : Nat, got : S, ended : E]
         /\ \A g \in S : [r EXCEPT !.got = g] \in [sent : Nat, got : S, ended : E]
OBVIOUS

LEMMA UserWritten ==
  ASSUME user \in UserRecord
  PROVE  /\ user.sent \in Nat
         /\ [user EXCEPT !.sent = @ + 1] \in UserRecord
         /\ [user EXCEPT !.ended = TRUE] \in UserRecord
<1>1. user.sent \in Nat /\ [user EXCEPT !.ended = TRUE] \in UserRecord
  BY DEF UserRecord
<1>2. \A n \in Nat : [user EXCEPT !.sent = n] \in UserRecord
  BY DEF UserRecord
<1> QED
  BY <1>1, <1>2

LEMMA TargetWritten ==
  ASSUME target \in TargetRecord
  PROVE  /\ target.sent \in Nat /\ target.got \in Seq(Nat)
         /\ [target EXCEPT !.sent = @ + 1] \in TargetRecord
         /\ \A e \in {"closed", "cut"} : [target EXCEPT !.ended = e] \in TargetRecord
         /\ [target EXCEPT !.sent = 1, !.ended = "closed"] \in TargetRecord
         /\ \A g \in Seq(Nat) : [target EXCEPT !.got = g] \in TargetRecord
<1>1. target \in [sent : Nat, got : Seq(Nat), ended : {"no", "closed", "cut"}]
  BY DEF TargetRecord
<1>2. target.sent \in Nat
  BY <1>1, Rewritten, Zenon
<1>3. /\ target.sent + 1 \in Nat /\ 1 \in Nat /\ "closed" \in {"no", "closed", "cut"}
      /\ \A e \in {"closed", "cut"} : e \in {"no", "closed", "cut"}
  BY <1>2
<1> QED
  BY <1>1, <1>3, Rewritten, Zenon DEF TargetRecord

LEMMA ClosedIs ==
  ASSUME NEW by \in Closers \ {"open"}, link \in LinkRecord
  PROVE  /\ Closed(by) \in LinkRecord
         /\ [Closed(by) EXCEPT !.listed = FALSE] \in LinkRecord
         /\ Closed(by).closer # "open"
         /\ SessionDone => Closed(by).closer = link.closer
         /\ ~SessionDone => Closed(by).closer = by
         /\ [Closed(by) EXCEPT !.listed = FALSE].closer = Closed(by).closer
BY DEF Closed, SessionDone, LinkRecord, Closers

LEMMA OfferIs ==
  ASSUME toUser \in Nat, Offer
  PROVE  toUser' \in Nat
BY DEF Offer

LEMMA LeastPlace ==
  ASSUME NEW S \in SUBSET Nat, S # {}
  PROVE  \E x \in S : \A y \in S : x <= y
<1>1. IsWellFoundedOn(OpToRel(<, Nat), Nat)
  BY NatLessThanWellFounded
<1>2. \A x, y \in Nat : x < y => <<x, y>> \in OpToRel(<, Nat)
  BY DEF OpToRel
<1>3. PICK x \in S : \A y \in S : ~(<<y, x>> \in OpToRel(<, Nat))
  BY <1>1, WFMin
<1>4. \A y \in S : ~(y < x)
  BY <1>2, <1>3
<1> QED
  BY <1>4

\* The data of frames of which the first n are data and the next one is not.
LEMMA BeforeCloseIs ==
  ASSUME NEW frames \in Seq(Nat)
  PROVE  /\ BeforeClose(frames) \in Seq(Nat)
         /\ \A n \in 0..Len(frames) :
              (\A i \in 1..n : frames[i] # CloseFrame)
              /\ (n < Len(frames) => frames[n + 1] = CloseFrame)
              => /\ Len(BeforeClose(frames)) = n
                 /\ \A i \in 1..n : BeforeClose(frames)[i] = frames[i]
<1> DEFINE ends == {i \in 1..Len(frames) : frames[i] = CloseFrame}
<1>1. Len(frames) \in Nat
  OBVIOUS
<1>2. PICK m \in 0..Len(frames) :
        /\ BeforeClose(frames) = SubSeq(frames, 1, m)
        /\ \A i \in 1..m : frames[i] # CloseFrame
        /\ m < Len(frames) => frames[m + 1] = CloseFrame
  <2>1. CASE ends = {}
    <3>1. BeforeClose(frames) = SubSeq(frames, 1, Len(frames))
      BY <2>1 DEF BeforeClose
    <3> QED
      BY <1>1, <2>1, <3>1
  <2>2. CASE ends # {}
    <3> DEFINE first == CHOOSE i \in ends : \A j \in ends : i <= j
    <3>1. BeforeClose(frames) = SubSeq(frames, 1, first - 1)
      BY <2>2 DEF BeforeClose
    <3>2. first \in ends /\ \A j \in ends : first <= j
      <4>1. ends \in SUBSET Nat
        OBVIOUS
      <4> HIDE DEF ends
      <4> QED
        BY <2>2, <4>1, LeastPlace
    <3> HIDE DEF first
    <3>3. first \in 1..Len(frames) /\ frames[first] = CloseFrame
      BY <3>2
    <3>4. \A i \in 1..(first - 1) : frames[i] # CloseFrame
      BY <1>1, <3>2, <3>3
    <3>5. first - 1 \in 0..Len(frames) /\ (first - 1) + 1 = first
      BY <1>1, <3>3
    <3> QED
      BY <3>1, <3>3, <3>4, <3>5
  <2> QED
    BY <2>1, <2>2
<1>3. ASSUME NEW n \in 0..Len(frames), \A i \in 1..n : frames[i] # CloseFrame,
             n < Len(frames) => frames[n + 1] = CloseFrame
      PROVE  n = m
  <2>1. ~(n < m)
    <3>1. SUFFICES ASSUME n < m PROVE FALSE
      OBVIOUS
    <3>2. n + 1 \in 1..m /\ n < Len(frames)
      BY <1>1, <3>1
    <3> QED
      BY <1>2, <1>3, <3>2
  <2>2. ~(m < n)
    <3>1. SUFFICES ASSUME m < n PROVE FALSE
      OBVIOUS
    <3>2. m + 1 \in 1..n /\ m < Len(frames)
      BY <1>1, <3>1
    <3> QED
      BY <1>2, <1>3, <3>2
  <2> QED
    BY <2>1, <2>2
<1>4. /\ SubSeq(frames, 1, m) \in Seq(Nat)
      /\ Len(SubSeq(frames, 1, m)) = m
      /\ \A i \in 1..m : SubSeq(frames, 1, m)[i] = frames[i]
  <2>1. \A i \in 1..m : i \in 1..Len(frames)
    BY <1>1
  <2>2. /\ SubSeq(frames, 1, m) \in Seq(Nat)
        /\ Len(SubSeq(frames, 1, m)) = IF 1 <= m THEN m - 1 + 1 ELSE 0
        /\ \A i \in 1..(m - 1 + 1) : SubSeq(frames, 1, m)[i] = frames[1 + i - 1]
    <3>1. 1 \in Int /\ m \in Int /\ \A i \in 1..m : frames[i] \in Nat
      BY <1>1, <2>1
    <3> QED
      BY <3>1, SubSeqProperties
  <2> QED
    BY <2>2
<1> QED
  BY <1>2, <1>3, <1>4

LEMMA InitStreamTypes == StreamInit => StreamTypeOK
<1>1. << >> \in Seq(Nat)
  OBVIOUS
<1> QED
  BY <1>1 DEF StreamInit, StreamTypeOK, UserRecord, ReaderRecord, LinkRecord, TxRecord,
              TargetRecord, Closers

LEMMA ServerTypes ==
  ASSUME StreamTypeOK, Begins \/ Serves \/ Carries \/ Writes
  PROVE  StreamTypeOK'
<1>1. reader \in ReaderRecord /\ link \in LinkRecord /\ user \in UserRecord
      /\ toAgent \in Seq(Nat) /\ toUser \in Nat
  BY DEF StreamTypeOK
<1>2. reader.read \in Nat
  BY <1>1 DEF ReaderRecord
<1>3. \A at \in {"none", "reading", "holding", "eof", "closing", "over"} :
        [reader EXCEPT !.at = at] \in ReaderRecord
  BY <1>1 DEF ReaderRecord
<1>4. Closed("user") \in LinkRecord /\ Closed("other") \in LinkRecord
  BY <1>1, ClosedIs DEF Closers
<1>5. [link EXCEPT !.listed = TRUE] \in LinkRecord /\ [link EXCEPT !.listed = FALSE] \in LinkRecord
  BY <1>1 DEF LinkRecord
<1>6. CASE Begins
  BY <1>3, <1>5, <1>6 DEF Begins, StreamTypeOK, channels, agentSide
<1>7. CASE Watchdog \/ Removes \/ Hangs
  BY <1>4, <1>5, <1>7 DEF Watchdog, Removes, Hangs, StreamTypeOK, channels, agentSide, serverSide
<1>8. CASE Reads
  <2>1. [at |-> "holding", read |-> reader.read + 1] \in ReaderRecord
    BY <1>2 DEF ReaderRecord
  <2> QED
    BY <1>3, <1>8, <2>1 DEF Reads, StreamTypeOK, channels, agentSide
<1>9. CASE Pushes
  <2>1. \A at : at = (IF reader.at = "eof" THEN "closing" ELSE "reading") =>
          [reader EXCEPT !.at = at] \in ReaderRecord
    BY <1>3
  <2>2. Append(toAgent, IF reader.at = "eof" THEN CloseFrame ELSE reader.read) \in Seq(Nat)
    BY <1>1, <1>2 DEF CloseFrame
  <2> QED
    BY <1>3, <1>9, <2>1, <2>2 DEF Pushes, StreamTypeOK, agentSide
<1>10. CASE ReaderCloses
  BY <1>3, <1>4, <1>10 DEF ReaderCloses, StreamTypeOK, channels, agentSide
<1>11. CASE Writes
  <2>1. CASE WriterTakes
    BY <1>1, <2>1 DEF WriterTakes, StreamTypeOK, agentSide
  <2>2. CASE WriterStops \/ WriterWrites
    BY <2>2 DEF WriterStops, WriterWrites, StreamTypeOK, channels, agentSide
  <2>3. CASE WriterFails
    BY <1>4, <2>3 DEF WriterFails, StreamTypeOK, channels, agentSide
  <2> QED
    BY <1>11, <2>1, <2>2, <2>3 DEF Writes
<1> QED
  BY <1>6, <1>7, <1>8, <1>9, <1>10, <1>11 DEF Serves, Carries

LEMMA AgentTypes ==
  ASSUME StreamTypeOK, Called \/ Dials \/ Brings \/ Takes \/ AgentCloses
  PROVE  StreamTypeOK'
<1>1. tx \in TxRecord /\ link \in LinkRecord /\ target \in TargetRecord
      /\ toAgent \in Seq(Nat) /\ toUser \in Nat
  BY DEF StreamTypeOK
<1>2. tx.read \in Nat /\ target.got \in Seq(Nat)
  BY <1>1, TargetWritten DEF TxRecord
<1>3. /\ \A at \in {"none", "reading", "holding", "draining", "over"} :
           [tx EXCEPT !.at = at] \in TxRecord
      /\ [tx EXCEPT !.read = tx.read + 1] \in TxRecord
      /\ [at |-> "holding", read |-> tx.read + 1] \in TxRecord
  BY <1>1, <1>2 DEF TxRecord
<1>4. CASE Called
  BY <1>4 DEF Called, StreamTypeOK, channels, serverSide
<1>5. CASE Dials
  <2>1. [target EXCEPT !.sent = 1, !.ended = "closed"] \in TargetRecord
    BY <1>1, TargetWritten
  <2> QED
    BY <1>5, <2>1 DEF Dials, StreamTypeOK, channels, serverSide
<1>6. CASE TxAsks
  <2>1. [link EXCEPT !.up = @ \/ link.listed] \in LinkRecord
    BY <1>1 DEF LinkRecord
  <2>2. tx' \in TxRecord
    <3>1. CASE link.listed
      BY <1>3, <1>6, <3>1 DEF TxAsks
    <3>2. CASE ~link.listed
      BY <1>3, <1>6, <3>2 DEF TxAsks
    <3> QED
      BY <3>1, <3>2
  <2> QED
    BY <1>6, <2>1, <2>2 DEF TxAsks, StreamTypeOK, channels, serverSide
<1>7. CASE TxReads
  <2>1. Closed("other") \in LinkRecord
    BY <1>1, ClosedIs DEF Closers
  <2> QED
    BY <1>3, <1>7, <2>1 DEF TxReads, StreamTypeOK, channels, serverSide
<1>8. CASE TxPushes
  <2>1. toUser' \in Nat
    BY <1>1, <1>8, OfferIs DEF TxPushes
  <2> QED
    BY <1>3, <1>8, <2>1 DEF TxPushes, StreamTypeOK, serverSide
<1>9. CASE TxDrains
  <2>1. tx' \in TxRecord
    BY <1>3, <1>9 DEF TxDrains
  <2>2. toUser' \in Nat
    BY <1>1, <1>9, OfferIs DEF TxDrains
  <2> QED
    BY <1>9, <2>1, <2>2 DEF TxDrains, StreamTypeOK, serverSide
<1>10. CASE RxAsks
  BY <1>10 DEF RxAsks, StreamTypeOK, channels, serverSide
<1>11. CASE RxStreams
  <2>1. Head(toAgent) \in Nat /\ Tail(toAgent) \in Seq(Nat)
    BY <1>1, <1>11 DEF RxStreams
  <2>2. [target EXCEPT !.got = Append(@, Head(toAgent))] \in TargetRecord
    <3>1. Append(target.got, Head(toAgent)) \in Seq(Nat)
      BY <1>2, <2>1
    <3> QED
      BY <1>1, <3>1, TargetWritten
  <2> QED
    BY <1>11, <2>1, <2>2 DEF RxStreams, StreamTypeOK, serverSide
<1>12. CASE RxDrains
  <2>1. BeforeClose(toAgent) \in Seq(Nat) /\ << >> \in Seq(Nat)
    BY <1>1, BeforeCloseIs
  <2>2. [target EXCEPT !.got = @ \o BeforeClose(toAgent)] \in TargetRecord
    <3>1. target.got \o BeforeClose(toAgent) \in Seq(Nat)
      BY <1>2, <2>1
    <3> QED
      BY <1>1, <3>1, TargetWritten
  <2> QED
    BY <1>12, <2>1, <2>2 DEF RxDrains, StreamTypeOK, serverSide
<1>13. CASE AgentCloses
  <2>1. [target EXCEPT !.ended = "cut"] \in TargetRecord
    BY <1>1, TargetWritten
  <2> QED
    BY <1>13, <2>1 DEF AgentCloses, StreamTypeOK, channels, serverSide
<1> QED
  BY <1>4, <1>5, <1>6, <1>7, <1>8, <1>9, <1>10, <1>11, <1>12, <1>13 DEF Brings, Takes

LEMMA StepStreamTypes == StreamTypeOK /\ [StreamNext]_streamVars => StreamTypeOK'
<1> SUFFICES ASSUME StreamTypeOK, [StreamNext]_streamVars PROVE StreamTypeOK'
  OBVIOUS
<1>1. link \in LinkRecord /\ user \in UserRecord /\ target \in TargetRecord
  BY DEF StreamTypeOK
<1>2. CASE Stopped
  <2>1. [Closed("other") EXCEPT !.listed = FALSE] \in LinkRecord
    BY <1>1, ClosedIs DEF Closers
  <2> QED
    BY <1>2, <2>1 DEF Stopped, StreamTypeOK, channels, serverSide, agentSide
<1>3. CASE IdleCloses
  <2>1. Closed("other") \in LinkRecord
    BY <1>1, ClosedIs DEF Closers
  <2> QED
    BY <1>3, <2>1 DEF IdleCloses, StreamTypeOK, channels, serverSide, agentSide
<1>4. CASE UserActs
  <2>1. [user EXCEPT !.sent = @ + 1] \in UserRecord /\ [user EXCEPT !.ended = TRUE] \in UserRecord
    BY <1>1, UserWritten
  <2> QED
    BY <1>4, <2>1 DEF UserActs, StreamTypeOK, channels, serverSide, agentSide
<1>5. CASE TargetActs
  <2>1. /\ [target EXCEPT !.sent = @ + 1] \in TargetRecord
        /\ [target EXCEPT !.ended = "closed"] \in TargetRecord
    BY <1>1, TargetWritten
  <2> QED
    BY <1>5, <2>1 DEF TargetActs, StreamTypeOK, channels, serverSide, agentSide
<1>6. CASE UNCHANGED streamVars
  BY <1>6 DEF streamVars, StreamTypeOK, channels, serverSide, agentSide
<1> QED
  BY <1>2, <1>3, <1>4, <1>5, <1>6, ServerTypes, AgentTypes DEF StreamNext

-----------------------------------------------------------------------------
(* What the user sends.                                                     *)

\* Until something other than the user's own close ends the session.
Fed == link.closer \in {"open", "user"}

\* The chunks that have left the reader, and whether it has sent the close frame.
Sent == IF reader.at = "holding" THEN reader.read - 1 ELSE reader.read
Finished == reader.at \in {"closing", "over"}

\* Who may have closed the session, by where the goroutines are.
EndsInOrder ==
  /\ handler \in {"removed", "over"} => SessionDone
  /\ handler = "accepted" => reader.at = "none"
  /\ reader.read <= user.sent
  /\ reader.at = "holding" => reader.read > 0
  /\ link.closer = "user" => reader.at = "over"
  /\ Fed /\ reader.at = "over" => link.closer = "user"
  /\ Fed /\ reader.at \in {"eof", "closing", "over"} => user.ended /\ reader.read = user.sent

\* What the target has got and the frames in toAgent, one after the other, are the sent
\* chunks that have left the reader, in order, and then the close frame.
InFlow(got, frames, sent, finished) ==
  /\ Len(got) <= sent
  /\ Len(got) + Len(frames) = IF finished THEN sent + 1 ELSE sent
  /\ \A i \in 1..Len(got) : got[i] = i
  /\ \A i \in 1..Len(frames) :
       frames[i] = IF Len(got) + i <= sent THEN Len(got) + i ELSE CloseFrame

InOrder == InFlow(target.got, toAgent, Sent, Finished)

Whole ==
  /\ Finished
  /\ Len(target.got) = user.sent
  /\ \A i \in 1..Len(target.got) : target.got[i] = i

FlowInv ==
  /\ EndsInOrder
  /\ Fed /\ rx \in {"none", "streaming"} => InOrder
  /\ Fed /\ rx = "over" => Whole

\* The values that InOrder and Whole are about.
LEMMA StreamValues ==
  ASSUME StreamTypeOK
  PROVE  /\ reader.read \in Nat /\ user.sent \in Nat
         /\ toAgent \in Seq(Nat) /\ Len(toAgent) \in Nat
         /\ target.got \in Seq(Nat) /\ Len(target.got) \in Nat
<1>1. reader.read \in Nat
  BY DEF StreamTypeOK, ReaderRecord
<1>2. user.sent \in Nat /\ target.got \in Seq(Nat)
  BY UserWritten, TargetWritten DEF StreamTypeOK
<1> QED
  BY <1>1, <1>2 DEF StreamTypeOK

\* The next chunk joins the frames.
LEMMA ChunkJoins ==
  ASSUME NEW got \in Seq(Nat), NEW frames \in Seq(Nat), NEW sent \in Nat,
         InFlow(got, frames, sent, FALSE)
  PROVE  InFlow(got, Append(frames, sent + 1), sent + 1, FALSE)
<1> DEFINE more == Append(frames, sent + 1)
<1>1. /\ Len(more) = Len(frames) + 1 /\ more[Len(frames) + 1] = sent + 1
      /\ \A i \in 1..Len(frames) : more[i] = frames[i]
  OBVIOUS
<1>2. Len(got) \in Nat /\ Len(frames) \in Nat
  OBVIOUS
<1>3. /\ Len(got) <= sent + 1 /\ Len(got) + Len(more) = sent + 1
      /\ \A i \in 1..Len(got) : got[i] = i
  BY <1>1, <1>2 DEF InFlow
<1>4. ASSUME NEW i \in 1..Len(more)
      PROVE  more[i] = IF Len(got) + i <= sent + 1 THEN Len(got) + i ELSE CloseFrame
  <2>1. CASE i \in 1..Len(frames)
    <3>1. Len(got) + i <= sent
      BY <1>2, <2>1 DEF InFlow
    <3> QED
      BY <1>1, <1>2, <2>1, <3>1 DEF InFlow
  <2>2. CASE i = Len(frames) + 1
    BY <1>1, <1>2, <2>2 DEF InFlow
  <2> QED
    BY <1>1, <1>2, <1>4, <2>1, <2>2
<1> QED
  BY <1>3, <1>4 DEF InFlow

\* The close frame joins the frames.
LEMMA CloseJoins ==
  ASSUME NEW got \in Seq(Nat), NEW frames \in Seq(Nat), NEW sent \in Nat,
         InFlow(got, frames, sent, FALSE)
  PROVE  InFlow(got, Append(frames, CloseFrame), sent, TRUE)
<1> DEFINE more == Append(frames, CloseFrame)
<1>1. /\ Len(more) = Len(frames) + 1 /\ more[Len(frames) + 1] = CloseFrame
      /\ \A i \in 1..Len(frames) : more[i] = frames[i]
  BY DEF CloseFrame
<1>2. Len(got) \in Nat /\ Len(frames) \in Nat
  OBVIOUS
<1>3. /\ Len(got) <= sent /\ Len(got) + Len(more) = sent + 1
      /\ \A i \in 1..Len(got) : got[i] = i
  BY <1>1, <1>2 DEF InFlow
<1>4. ASSUME NEW i \in 1..Len(more)
      PROVE  more[i] = IF Len(got) + i <= sent THEN Len(got) + i ELSE CloseFrame
  <2>1. CASE i \in 1..Len(frames)
    BY <1>1, <1>2, <2>1 DEF InFlow
  <2>2. CASE i = Len(frames) + 1
    BY <1>1, <1>2, <2>2 DEF InFlow
  <2> QED
    BY <1>1, <1>2, <1>4, <2>1, <2>2
<1> QED
  BY <1>3, <1>4 DEF InFlow

\* The first frame, if it is data, reaches the target.
LEMMA ChunkArrives ==
  ASSUME NEW got \in Seq(Nat), NEW frames \in Seq(Nat), NEW sent \in Nat,
         NEW finished \in BOOLEAN,
         InFlow(got, frames, sent, finished), frames # << >>, Head(frames) # CloseFrame
  PROVE  InFlow(Append(got, Head(frames)), Tail(frames), sent, finished)
<1> DEFINE more == Append(got, Head(frames))
           rest == Tail(frames)
<1>1. Len(got) \in Nat /\ Len(frames) \in Nat \ {0} /\ Head(frames) = frames[1]
  OBVIOUS
<1>2. Len(got) + 1 <= sent /\ frames[1] = Len(got) + 1
  <2>1. frames[1] = IF Len(got) + 1 <= sent THEN Len(got) + 1 ELSE CloseFrame
    BY <1>1 DEF InFlow
  <2> QED
    BY <1>1, <2>1
<1>3. /\ Len(more) = Len(got) + 1 /\ more[Len(got) + 1] = frames[1]
      /\ \A i \in 1..Len(got) : more[i] = got[i]
  BY <1>1
<1>4. /\ Len(rest) = Len(frames) - 1
      /\ \A i \in 1..Len(rest) : rest[i] = frames[i + 1]
  BY <1>1
<1>5. \A i \in 1..Len(more) : more[i] = i
  BY <1>1, <1>2, <1>3 DEF InFlow
<1>6. Len(more) <= sent /\ Len(more) + Len(rest) = Len(got) + Len(frames)
  BY <1>1, <1>2, <1>3, <1>4
<1>7. ASSUME NEW i \in 1..Len(rest)
      PROVE  rest[i] = IF Len(more) + i <= sent THEN Len(more) + i ELSE CloseFrame
  <2>1. i + 1 \in 1..Len(frames) /\ Len(more) + i = Len(got) + (i + 1)
    BY <1>1, <1>3, <1>4
  <2>2. frames[i + 1] = IF Len(got) + (i + 1) <= sent THEN Len(got) + (i + 1) ELSE CloseFrame
    BY <2>1 DEF InFlow
  <2> QED
    BY <1>4, <2>1, <2>2
<1> QED
  BY <1>5, <1>6, <1>7 DEF InFlow

\* The first frame is the close frame: everything has arrived.
LEMMA CloseArrives ==
  ASSUME NEW got \in Seq(Nat), NEW frames \in Seq(Nat), NEW sent \in Nat,
         NEW finished \in BOOLEAN,
         InFlow(got, frames, sent, finished), frames # << >>, Head(frames) = CloseFrame
  PROVE  finished /\ Len(got) = sent
<1>1. Len(got) \in Nat /\ Len(frames) \in Nat \ {0} /\ Head(frames) = frames[1]
  OBVIOUS
<1>2. frames[1] = IF Len(got) + 1 <= sent THEN Len(got) + 1 ELSE CloseFrame
  BY <1>1 DEF InFlow
<1>3. ~(Len(got) + 1 <= sent)
  BY <1>1, <1>2 DEF CloseFrame
<1> QED
  BY <1>1, <1>3 DEF InFlow

\* The data of all the frames arrives at once, and the close frame was among them.
LEMMA RestArrives ==
  ASSUME NEW got \in Seq(Nat), NEW frames \in Seq(Nat), NEW sent \in Nat,
         InFlow(got, frames, sent, TRUE)
  PROVE  LET all == got \o BeforeClose(frames)
         IN  Len(all) = sent /\ \A i \in 1..Len(all) : all[i] = i
<1> DEFINE n == sent - Len(got)
           data == BeforeClose(frames)
           all == got \o data
<1>1. Len(got) \in Nat /\ Len(frames) \in Nat /\ Len(frames) = n + 1 /\ n \in 0..Len(frames)
  BY DEF InFlow
<1>2. /\ \A i \in 1..n : frames[i] = Len(got) + i /\ frames[i] # CloseFrame
      /\ frames[n + 1] = CloseFrame
  <2>1. \A i \in 1..n : i \in 1..Len(frames) /\ Len(got) + i <= sent
    BY <1>1
  <2>2. \A i \in 1..n : Len(got) + i # 0
    BY <1>1
  <2>3. n + 1 \in 1..Len(frames) /\ ~(Len(got) + (n + 1) <= sent)
    BY <1>1
  <2> QED
    BY <2>1, <2>2, <2>3 DEF InFlow, CloseFrame
<1>3. /\ data \in Seq(Nat) /\ Len(data) = n
      /\ \A i \in 1..n : data[i] = Len(got) + i
  <2> HIDE DEF n
  <2> QED
    BY <1>1, <1>2, BeforeCloseIs
<1> HIDE DEF data
<1>4. /\ Len(all) = Len(got) + n
      /\ \A i \in 1..Len(got) : all[i] = got[i]
      /\ \A i \in (Len(got) + 1)..Len(all) : all[i] = data[i - Len(got)]
  BY <1>1, <1>3
<1>5. Len(all) = sent
  BY <1>1, <1>4
<1>6. ASSUME NEW i \in 1..Len(all) PROVE all[i] = i
  <2>1. CASE i \in 1..Len(got)
    BY <1>4, <2>1 DEF InFlow
  <2>2. CASE i \in (Len(got) + 1)..Len(all)
    <3>1. i - Len(got) \in 1..n /\ Len(got) + (i - Len(got)) = i
      BY <1>1, <1>4, <2>2
    <3> QED
      BY <1>3, <1>4, <2>2, <3>1
  <2> QED
    BY <1>1, <1>4, <2>1, <2>2
<1> QED
  BY <1>5, <1>6 DEF data

\* A step that neither reads nor moves a frame.
LEMMA QuietFlow ==
  ASSUME StreamTypeOK, FlowInv, UNCHANGED <<reader, toAgent>>,
         target'.got = target.got, user'.sent = user.sent, user'.ended = user.ended,
         \/ rx' = rx
         \/ rx = "none" /\ rx' = "streaming"
         \/ rx' = "failed",
         \/ link'.closer = link.closer
         \/ link'.closer \notin {"open", "user"} /\ (SessionDone => link'.closer = link.closer),
         handler' \in {"removed", "over"} => SessionDone,
         handler' = "accepted" => handler = "accepted"
  PROVE  FlowInv'
<1>1. EndsInOrder'
  BY DEF FlowInv, EndsInOrder, Fed, SessionDone
<1>2. Fed' => Fed
  BY DEF Fed
<1>3. InOrder => InOrder'
  BY DEF InOrder, Sent, Finished
<1>4. Whole => Whole'
  BY DEF Whole, Finished
<1> QED
  BY <1>1, <1>2, <1>3, <1>4 DEF FlowInv

\* The reader's steps.
LEMMA ReadFlow ==
  ASSUME StreamTypeOK, FlowInv, Begins \/ Reads \/ ReaderCloses
  PROVE  FlowInv'
<1>1. reader \in ReaderRecord /\ link \in LinkRecord
  BY DEF StreamTypeOK
<1>2. UNCHANGED <<user, toAgent, rx, target>>
  BY DEF Begins, Reads, ReaderCloses, channels, agentSide
<1>3. /\ reader.read \in Nat /\ user.sent \in Nat
      /\ toAgent \in Seq(Nat) /\ Len(toAgent) \in Nat
      /\ target.got \in Seq(Nat) /\ Len(target.got) \in Nat
  BY StreamValues
<1>4. CASE Begins
  <2>1. /\ reader.at = "none" /\ reader'.at = "reading" /\ reader'.read = reader.read
        /\ link'.closer = link.closer
        /\ handler' = "serving"
    BY <1>1, <1>4 DEF Begins, FlowInv, EndsInOrder, ReaderRecord, LinkRecord
  <2>2. EndsInOrder'
    BY <1>2, <2>1 DEF FlowInv, EndsInOrder, Fed
  <2>3. Fed' = Fed /\ Sent' = Sent /\ Finished' = Finished
    BY <2>1 DEF Fed, Sent, Finished
  <2> QED
    BY <1>2, <2>2, <2>3 DEF FlowInv, InOrder, Whole
<1>5. CASE Reads
  <2>1. UNCHANGED <<handler, link>> /\ reader.at = "reading"
    BY <1>5 DEF Reads
  <2>2. Fed' = Fed /\ ~Finished /\ SessionDone' = SessionDone
    BY <2>1 DEF Fed, Finished, SessionDone
  <2>3. ASSUME reader.read < user.sent, reader' = [at |-> "holding", read |-> reader.read + 1]
        PROVE  FlowInv'
    <3>1. reader'.at = "holding" /\ reader'.read = reader.read + 1
      BY <2>3
    <3>2. Sent' = Sent /\ Finished' = Finished
      BY <1>3, <2>1, <3>1 DEF Sent, Finished
    <3>3. EndsInOrder'
      BY <1>2, <1>3, <2>1, <2>2, <2>3, <3>1 DEF FlowInv, EndsInOrder, Fed
    <3> QED
      BY <1>2, <2>2, <3>2, <3>3 DEF FlowInv, InOrder, Whole
  <2>4. ASSUME \/ reader.read = user.sent /\ user.ended
               \/ handler = "over",
               reader' = [reader EXCEPT !.at = "eof"]
        PROVE  FlowInv'
    <3>1. reader'.at = "eof" /\ reader'.read = reader.read
      BY <1>1, <2>4 DEF ReaderRecord
    <3>2. Sent' = Sent /\ Finished' = Finished
      BY <2>1, <3>1 DEF Sent, Finished
    <3>3. Fed => reader.read = user.sent /\ user.ended
      BY <2>1, <2>4 DEF FlowInv, EndsInOrder, Fed, SessionDone
    <3>4. EndsInOrder'
      BY <1>2, <2>1, <2>2, <3>1, <3>3 DEF FlowInv, EndsInOrder, Fed
    <3> QED
      BY <1>2, <2>2, <3>2, <3>4 DEF FlowInv, InOrder, Whole
  <2> QED
    BY <1>5, <2>3, <2>4 DEF Reads
<1>6. CASE ReaderCloses
  <2>1. /\ reader.at = "closing" /\ reader'.at = "over" /\ reader'.read = reader.read
        /\ UNCHANGED handler
        /\ link' = Closed("user")
    BY <1>1, <1>6 DEF ReaderCloses, ReaderRecord
  <2>2. /\ link'.closer # "open"
        /\ SessionDone => link'.closer = link.closer
        /\ ~SessionDone => link'.closer = "user"
    BY <1>1, <2>1, ClosedIs DEF Closers
  <2>3. Fed' => link.closer = "open" /\ Fed
    BY <2>1, <2>2 DEF Fed, SessionDone, FlowInv, EndsInOrder
  <2>4. Sent' = Sent /\ Finished' = Finished
    BY <2>1 DEF Sent, Finished
  <2>5. EndsInOrder'
    BY <1>2, <2>1, <2>2, <2>3 DEF FlowInv, EndsInOrder, Fed, SessionDone
  <2> QED
    BY <1>2, <2>3, <2>4, <2>5 DEF FlowInv, InOrder, Whole
<1> QED
  BY <1>4, <1>5, <1>6

LEMMA PushFlow ==
  ASSUME StreamTypeOK, FlowInv, Pushes
  PROVE  FlowInv'
<1>1. reader \in ReaderRecord
  BY DEF StreamTypeOK
<1>2. UNCHANGED <<user, handler, link, rx, target>> /\ reader.at \in {"holding", "eof"}
  BY DEF Pushes, agentSide
<1>3. /\ reader.read \in Nat /\ user.sent \in Nat
      /\ toAgent \in Seq(Nat) /\ Len(toAgent) \in Nat
      /\ target.got \in Seq(Nat) /\ Len(target.got) \in Nat
  BY StreamValues
<1>4. Fed' = Fed /\ SessionDone' = SessionDone /\ ~Finished
  BY <1>2 DEF Fed, SessionDone, Finished
<1>5. CASE /\ SessionDone /\ reader' = [reader EXCEPT !.at = "over"]
  <2>1. reader'.at = "over" /\ reader'.read = reader.read
    BY <1>1, <1>5 DEF ReaderRecord
  <2>2. ~Fed
    BY <1>2, <1>5 DEF FlowInv, EndsInOrder, Fed, SessionDone
  <2> QED
    BY <1>2, <1>4, <2>1, <2>2 DEF FlowInv, EndsInOrder, Fed
<1>6. CASE reader.at = "holding" /\ toAgent' = Append(toAgent, reader.read)
           /\ reader' = [reader EXCEPT !.at = "reading"]
  <2>1. reader'.at = "reading" /\ reader'.read = reader.read
    BY <1>1, <1>6 DEF ReaderRecord
  <2>2. EndsInOrder'
    BY <1>2, <1>4, <1>6, <2>1 DEF FlowInv, EndsInOrder, Fed
  <2>3. /\ Sent = reader.read - 1 /\ Sent' = reader.read
        /\ Finished' = Finished /\ reader.read \in Nat \ {0}
    BY <1>3, <1>6, <2>1 DEF Sent, Finished, FlowInv, EndsInOrder
  <2>5. InOrder => InOrder'
    <3>1. Sent + 1 = reader.read /\ Sent' = Sent + 1 /\ Sent \in Nat
      BY <2>3
    <3>2. Finished = FALSE /\ Finished' = FALSE
      BY <1>4, <2>1 DEF Finished
    <3>3. InOrder = InFlow(target.got, toAgent, Sent, FALSE)
      BY <3>2 DEF InOrder
    <3>4. InOrder' = InFlow(target.got, Append(toAgent, Sent + 1), Sent + 1, FALSE)
      BY <1>2, <1>6, <3>1, <3>2 DEF InOrder
    <3> QED
      BY <1>3, <3>1, <3>3, <3>4, ChunkJoins
  <2> QED
    BY <1>2, <1>4, <2>2, <2>3, <2>5 DEF FlowInv, Whole
<1>7. CASE reader.at = "eof" /\ toAgent' = Append(toAgent, CloseFrame)
           /\ reader' = [reader EXCEPT !.at = "closing"]
  <2>1. reader'.at = "closing" /\ reader'.read = reader.read
    BY <1>1, <1>7 DEF ReaderRecord
  <2>2. EndsInOrder'
    BY <1>2, <1>4, <1>7, <2>1 DEF FlowInv, EndsInOrder, Fed
  <2>3. Sent = reader.read /\ Sent' = reader.read /\ Finished'
    BY <1>7, <2>1 DEF Sent, Finished
  <2>5. InOrder => InOrder'
    <3>1. Sent' = Sent /\ Sent \in Nat
      BY <1>3, <2>3
    <3>2. Finished = FALSE /\ Finished' = TRUE
      BY <1>4, <2>1 DEF Finished
    <3>3. InOrder = InFlow(target.got, toAgent, Sent, FALSE)
      BY <3>2 DEF InOrder
    <3>4. InOrder' = InFlow(target.got, Append(toAgent, CloseFrame), Sent, TRUE)
      BY <1>2, <1>7, <3>1, <3>2 DEF InOrder
    <3> QED
      BY <1>3, <3>1, <3>3, <3>4, CloseJoins
  <2> QED
    BY <1>2, <1>4, <2>2, <2>3, <2>5 DEF FlowInv, Whole
<1> QED
  BY <1>2, <1>5, <1>6, <1>7 DEF Pushes

\* The user's steps.
LEMMA UserFlow ==
  ASSUME StreamTypeOK, FlowInv, UserActs
  PROVE  FlowInv'
<1>1. /\ UNCHANGED <<handler, reader, link, toAgent, rx, target>>
      /\ ~user.ended
      /\ \/ user' = [user EXCEPT !.sent = @ + 1]
         \/ user' = [user EXCEPT !.ended = TRUE]
  BY DEF UserActs, channels, serverSide, agentSide
<1>2. user \in UserRecord /\ reader.read \in Nat /\ user.sent \in Nat
  BY StreamValues DEF StreamTypeOK
<1>3. user'.sent \in {user.sent, user.sent + 1}
  BY <1>1, <1>2 DEF UserRecord
<1>4. Fed => reader.at \notin {"eof", "closing", "over"} /\ ~Finished
  BY <1>1 DEF FlowInv, EndsInOrder, Finished
<1>5. Fed' = Fed /\ SessionDone' = SessionDone /\ InOrder' = InOrder
  BY <1>1 DEF Fed, SessionDone, InOrder, Sent, Finished
<1>6. EndsInOrder'
  <2>1. reader.read <= user'.sent
    BY <1>2, <1>3 DEF FlowInv, EndsInOrder
  <2> QED
    BY <1>1, <1>4, <1>5, <2>1 DEF FlowInv, EndsInOrder
<1> QED
  BY <1>1, <1>4, <1>5, <1>6 DEF FlowInv, Whole

\* The next frame leaves the channel.
LEMMA FrameFlow ==
  ASSUME StreamTypeOK, FlowInv, RxStreams
  PROVE  FlowInv'
<1>1. /\ UNCHANGED <<user, handler, reader, link>>
      /\ rx = "streaming" /\ toAgent # << >> /\ toAgent' = Tail(toAgent)
  BY DEF RxStreams, serverSide
<1>2. target \in TargetRecord
  BY DEF StreamTypeOK
<1>3. /\ reader.read \in Nat /\ toAgent \in Seq(Nat) /\ target.got \in Seq(Nat)
  BY StreamValues
<1>4. Fed' = Fed /\ SessionDone' = SessionDone /\ Sent' = Sent /\ Finished' = Finished
  BY <1>1 DEF Fed, SessionDone, Sent, Finished
<1>5. EndsInOrder'
  BY <1>1, <1>4 DEF FlowInv, EndsInOrder
<1>6. Fed => InOrder /\ Sent \in Nat /\ Finished \in BOOLEAN
  <2>1. Sent \in Nat
    BY <1>3 DEF Sent, FlowInv, EndsInOrder
  <2> QED
    BY <1>1, <2>1 DEF FlowInv, Finished
<1>7. CASE Head(toAgent) = CloseFrame /\ rx' = "over" /\ UNCHANGED target
  <2>1. Fed => Finished /\ Len(target.got) = Sent
    BY <1>1, <1>3, <1>6, <1>7, CloseArrives DEF InOrder
  <2>2. Fed /\ Finished => Sent = user.sent
    BY DEF FlowInv, EndsInOrder, Finished, Sent
  <2>3. Fed => Whole
    BY <1>6, <2>1, <2>2 DEF Whole, InOrder, InFlow
  <2>4. Fed' => Whole'
    BY <1>1, <1>4, <1>7, <2>3 DEF Whole
  <2> QED
    BY <1>5, <1>7, <2>4 DEF FlowInv
<1>8. CASE /\ Head(toAgent) # CloseFrame
           /\ target' = [target EXCEPT !.got = Append(@, Head(toAgent))]
           /\ UNCHANGED rx
  <2>1. target'.got = Append(target.got, Head(toAgent))
    BY <1>2, <1>8 DEF TargetRecord
  <2>2. Fed => InFlow(Append(target.got, Head(toAgent)), Tail(toAgent), Sent, Finished)
    BY <1>1, <1>3, <1>6, <1>8, ChunkArrives DEF InOrder
  <2>3. InOrder' = InFlow(Append(target.got, Head(toAgent)), Tail(toAgent), Sent, Finished)
    BY <1>1, <1>4, <2>1 DEF InOrder
  <2> QED
    BY <1>1, <1>4, <1>5, <1>8, <2>2, <2>3 DEF FlowInv
<1>9. CASE rx' = "failed"
  BY <1>5, <1>9 DEF FlowInv
<1> QED
  BY <1>7, <1>8, <1>9 DEF RxStreams

\* The channel is drained once the session is done.
LEMMA DrainFlow ==
  ASSUME StreamTypeOK, FlowInv, RxDrains
  PROVE  FlowInv'
<1>1. /\ UNCHANGED <<user, handler, reader, link>>
      /\ rx = "streaming" /\ SessionDone
  BY DEF RxDrains, serverSide
<1>2. target \in TargetRecord
  BY DEF StreamTypeOK
<1>3. /\ reader.read \in Nat /\ toAgent \in Seq(Nat) /\ target.got \in Seq(Nat)
  BY StreamValues
<1>4. Fed' = Fed /\ SessionDone' = SessionDone /\ Finished' = Finished
  BY <1>1 DEF Fed, SessionDone, Finished
<1>5. EndsInOrder'
  BY <1>1, <1>4 DEF FlowInv, EndsInOrder
<1>6. Fed => reader.at = "over" /\ Sent = user.sent /\ Sent \in Nat /\ Finished = TRUE
  BY <1>1, <1>3 DEF Fed, SessionDone, FlowInv, EndsInOrder, Sent, Finished
<1>7. CASE rx' = "failed"
  BY <1>5, <1>7 DEF FlowInv
<1>8. CASE rx' = "over" /\ target' = [target EXCEPT !.got = @ \o BeforeClose(toAgent)]
  <2>1. target'.got = target.got \o BeforeClose(toAgent)
    BY <1>2, <1>8 DEF TargetRecord
  <2>2. Fed => InFlow(target.got, toAgent, Sent, TRUE)
    BY <1>1, <1>6 DEF FlowInv, InOrder
  <2>3. Fed => /\ Len(target'.got) = user.sent
               /\ \A i \in 1..Len(target'.got) : target'.got[i] = i
    BY <1>3, <1>6, <2>1, <2>2, RestArrives
  <2>4. Fed' => Whole'
    BY <1>1, <1>4, <1>6, <2>3 DEF Whole
  <2> QED
    BY <1>5, <1>8, <2>4 DEF FlowInv
<1> QED
  BY <1>7, <1>8 DEF RxDrains

\* Everything else neither reads nor moves a frame.
LEMMA OtherFlow ==
  ASSUME StreamTypeOK, FlowInv,
         \/ Serves \/ Writes \/ Called \/ Dials \/ Brings \/ RxAsks
         \/ AgentCloses \/ Stopped \/ IdleCloses \/ TargetActs
  PROVE  FlowInv'
<1>1. link \in LinkRecord /\ target \in TargetRecord
  BY DEF StreamTypeOK
<1>2. UNCHANGED <<reader, toAgent>>
  BY DEF Serves, Watchdog, Removes, Hangs, Writes, WriterTakes, WriterStops, WriterWrites,
         WriterFails, Called, Dials, Brings, TxAsks, TxReads,
         TxPushes, TxDrains, RxAsks, AgentCloses, Stopped, IdleCloses, TargetActs,
         channels, serverSide, agentSide
<1>3. target'.got = target.got
  <2>1. \/ UNCHANGED target
        \/ target' = [target EXCEPT !.sent = 1, !.ended = "closed"]
        \/ target' = [target EXCEPT !.sent = @ + 1]
        \/ target' = [target EXCEPT !.ended = "closed"]
        \/ target' = [target EXCEPT !.ended = "cut"]
    BY DEF Serves, Watchdog, Removes, Hangs, Writes, WriterTakes, WriterStops, WriterWrites,
           WriterFails, Called, Dials, Brings, TxAsks, TxReads,
           TxPushes, TxDrains, RxAsks, AgentCloses, Stopped, IdleCloses, TargetActs
  <2> QED
    BY <1>1, <2>1 DEF TargetRecord
<1>4. user' = user
  BY DEF Serves, Watchdog, Removes, Hangs, Writes, WriterTakes, WriterStops, WriterWrites,
         WriterFails, Called, Dials, Brings, TxAsks, TxReads, TxPushes, TxDrains, RxAsks,
         AgentCloses, Stopped, IdleCloses, TargetActs
<1>5. \/ rx' = rx
      \/ rx = "none" /\ rx' = "streaming"
      \/ rx' = "failed"
  BY DEF Serves, Watchdog, Removes, Hangs, Writes, WriterTakes, WriterStops, WriterWrites,
         WriterFails, Called, Dials, Brings, TxAsks, TxReads,
         TxPushes, TxDrains, RxAsks, AgentCloses, Stopped, IdleCloses, TargetActs, agentSide
<1>6. \/ link'.closer = link.closer
      \/ /\ link'.closer \notin {"open", "user"}
         /\ SessionDone => link'.closer = link.closer
  <2>1. \/ UNCHANGED link
        \/ \E by \in Closers \ {"open", "user"} : link' = Closed(by)
        \/ link' = [Closed("other") EXCEPT !.listed = FALSE]
        \/ link' = [link EXCEPT !.listed = FALSE]
        \/ link' = [link EXCEPT !.up = @ \/ link.listed]
    BY DEF Serves, Watchdog, Removes, Hangs, Writes, WriterTakes, WriterStops, WriterWrites,
           WriterFails, Called, Dials, Brings, TxAsks, TxReads,
           TxPushes, TxDrains, RxAsks, AgentCloses, Stopped, IdleCloses, TargetActs, Closers
  <2>2. ASSUME NEW by \in Closers \ {"open", "user"}, link'.closer = Closed(by).closer
        PROVE  \/ link'.closer = link.closer
               \/ link'.closer \notin {"open", "user"} /\ (SessionDone => link'.closer = link.closer)
    BY <1>1, <2>2, ClosedIs
  <2>3. CASE \E by \in Closers \ {"open", "user"} : link' = Closed(by)
    BY <2>2, <2>3
  <2>4. CASE link' = [Closed("other") EXCEPT !.listed = FALSE]
    BY <1>1, <2>2, <2>4, ClosedIs DEF Closers
  <2>5. CASE link' = [link EXCEPT !.listed = FALSE] \/ link' = [link EXCEPT !.up = @ \/ link.listed]
    BY <1>1, <2>5 DEF LinkRecord
  <2> QED
    BY <2>1, <2>3, <2>4, <2>5
<1>7. /\ handler' \in {"removed", "over"} => SessionDone
      /\ handler' = "accepted" => handler = "accepted"
  <2>1. \/ UNCHANGED handler
        \/ handler' = "removed" /\ SessionDone
        \/ handler' = "over" /\ handler = "removed"
    BY DEF Serves, Watchdog, Removes, Hangs, Writes, WriterTakes, WriterStops, WriterWrites,
           WriterFails, Called, Dials, Brings, TxAsks, TxReads,
           TxPushes, TxDrains, RxAsks, AgentCloses, Stopped, IdleCloses, TargetActs, serverSide
  <2> QED
    BY <2>1 DEF FlowInv, EndsInOrder
<1> QED
  BY <1>2, <1>3, <1>4, <1>5, <1>6, <1>7, QuietFlow

LEMMA InitFlow == StreamInit => FlowInv
<1>1. SUFFICES ASSUME StreamInit PROVE FlowInv
  OBVIOUS
<1>2. /\ reader.at = "none" /\ reader.read = 0 /\ user.sent = 0
      /\ link.closer = "open" /\ handler = "accepted" /\ rx = "none"
      /\ Len(target.got) = 0 /\ Len(toAgent) = 0
  BY <1>1 DEF StreamInit
<1>3. EndsInOrder
  BY <1>2 DEF EndsInOrder, Fed
<1>4. InOrder
  BY <1>2 DEF InOrder, InFlow, Sent, Finished
<1> QED
  BY <1>2, <1>3, <1>4 DEF FlowInv

LEMMA StepFlow == StreamTypeOK /\ FlowInv /\ [StreamNext]_streamVars => FlowInv'
<1> SUFFICES ASSUME StreamTypeOK, FlowInv, [StreamNext]_streamVars PROVE FlowInv'
  OBVIOUS
<1>1. CASE UNCHANGED streamVars
  BY <1>1 DEF streamVars, channels, serverSide, agentSide, FlowInv, EndsInOrder, InOrder,
              Whole, Fed, Sent, Finished, SessionDone
<1> QED
  BY <1>1, ReadFlow, PushFlow, UserFlow, FrameFlow, DrainFlow, OtherFlow
     DEF StreamNext, Carries, Takes

\* What the user has sent before it closed the session reaches the target whole and in
\* order if the agent's rx stream ended well, whichever of the stream and the drain the
\* close overtakes, for every size of the channel (forward.go, the rx loop and its drain).
THEOREM RequestArrivesWhole == StreamSpec => []RequestWhole
<1>1. StreamTypeOK /\ FlowInv => RequestWhole
  <2> SUFFICES ASSUME StreamTypeOK, FlowInv, link.closer = "user", rx = "over"
               PROVE  target.got = [i \in 1..user.sent |-> i]
    BY DEF RequestWhole
  <2>1. /\ Len(target.got) = user.sent
        /\ \A i \in 1..Len(target.got) : target.got[i] = i
    BY DEF FlowInv, Fed, Whole
  <2>2. target.got \in Seq(Nat)
    BY StreamValues
  <2> QED
    BY <2>1, <2>2
<1>2. StreamInit => StreamTypeOK /\ FlowInv
  BY InitStreamTypes, InitFlow
<1>3. StreamTypeOK /\ FlowInv /\ [StreamNext]_streamVars => (StreamTypeOK /\ FlowInv)'
  BY StepStreamTypes, StepFlow
<1> QED
  BY <1>1, <1>2, <1>3, PTL DEF StreamSpec
=============================================================================
