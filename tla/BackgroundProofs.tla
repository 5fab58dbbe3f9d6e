--------------------------- MODULE BackgroundProofs ----------------------------
(***************************************************************************)
(* Proofs about the work that the server does in the background: calls to  *)
(* VictoriaMetrics through its circuit breaker, for any callers, threshold, *)
(* cool-down and timeout; the ingest loop over it, for any channel and     *)
(* batch; on-call pages, for any incidents, length of the policy and number *)
(* of restarts; updates of an agent; and the executions of a playbook, for *)
(* any hosts, steps, handlers and goroutines.                              *)
(***************************************************************************)
EXTENDS VMIngest, OnCall, AgentUpdate, Playbooks, SequenceTheorems, FiniteSetTheorems, TLAPS

(***************************************************************************)
(* The circuit breaker and the ingest loop.                                *)
(***************************************************************************)

\* The types of the variables, without the bounds that no proof needs.
BreakerTypes ==
  /\ health \in Healths
  /\ coolLeft \in 0..CoolDown
  /\ halfOpenProbe \in BOOLEAN
  /\ tripped \in BOOLEAN
  /\ req \in [Callers -> {"idle"} \cup InFlight \cup Answers]
  /\ age \in [Callers -> 0..Timeout]
  /\ probing \in [Callers -> BOOLEAN]

LEMMA InitBreakerTypes == Init => BreakerTypes
<1>1. 0 \in 0..CoolDown /\ 0 \in 0..Timeout
  BY VMBreakerAssumption
<1> QED
  BY <1>1 DEF Init, BreakerTypes, Healths

\* What Success and Failure leave of the breaker is well typed.
LEMMA OutcomeTypes ==
  ASSUME BreakerTypes, Success \/ Failure
  PROVE  /\ coolLeft' \in 0..CoolDown
         /\ halfOpenProbe' = FALSE
         /\ tripped' \in BOOLEAN
<1>1. 0 \in 0..CoolDown /\ CoolDown \in 0..CoolDown
  BY VMBreakerAssumption
<1>2. CASE Success
  BY <1>1, <1>2 DEF Success
<1>3. CASE Failure
  BY <1>1, <1>3 DEF Failure, BreakerTypes
<1> QED
  BY <1>2, <1>3

LEMMA StepTypes == BreakerTypes /\ [Next]_vars => BreakerTypes'
<1> SUFFICES ASSUME BreakerTypes, [Next]_vars PROVE BreakerTypes'
  OBVIOUS
<1> USE DEF InFlight, Answers
<1>1. CASE HealthChange
  BY <1>1 DEF HealthChange, BreakerTypes, breaker, Healths
<1>2. ASSUME NEW c \in Callers, Send(c) PROVE BreakerTypes'
  <2>1. 0 \in 0..Timeout
    BY VMBreakerAssumption
  <2> QED
    BY <1>2, <2>1 DEF Send, BreakerTypes
<1>3. ASSUME NEW c \in Callers, Answer(c) PROVE BreakerTypes'
  <2>1. req' \in [Callers -> {"idle"} \cup InFlight \cup Answers]
    BY <1>3 DEF Answer, BreakerTypes, Healths
  <2> QED
    BY <1>3, <2>1 DEF Answer, BreakerTypes, breaker
<1>4. ASSUME NEW c \in Callers, Report(c) PROVE BreakerTypes'
  <2>1. Success \/ Failure
    BY <1>4 DEF Report
  <2> QED
    BY <1>4, <2>1, OutcomeTypes DEF Report, BreakerTypes
<1>5. ASSUME NEW c \in Callers, Reject(c) PROVE BreakerTypes'
  BY <1>5, OutcomeTypes DEF Reject, BreakerTypes
<1>6. CASE Tick
  <2>1. \A n \in 0..CoolDown : (IF n > 0 THEN n - 1 ELSE 0) \in 0..CoolDown
    BY VMBreakerAssumption
  <2>2. \A n \in 0..Timeout : n < Timeout => n + 1 \in 0..Timeout
    BY VMBreakerAssumption
  <2>3. coolLeft' \in 0..CoolDown
    BY <1>6, <2>1 DEF Tick, BreakerTypes
  <2>4. age' \in [Callers -> 0..Timeout]
    BY <1>6, <2>2 DEF Tick, BreakerTypes
  <2> QED
    BY <1>6, <2>3, <2>4 DEF Tick, BreakerTypes
<1>7. CASE UNCHANGED vars
  BY <1>7 DEF vars, breaker, BreakerTypes
<1> QED
  BY <1>1, <1>2, <1>3, <1>4, <1>5, <1>6, <1>7 DEF Next

\* The breaker's counters and the requests under it keep their types, for any threshold
\* and times.
THEOREM Typed == Spec => []BreakerTypes
<1>1. Init => BreakerTypes
  BY InitBreakerTypes
<1>2. BreakerTypes /\ [Next]_vars => BreakerTypes'
  BY StepTypes
<1> QED
  BY <1>1, <1>2, PTL DEF Spec

-----------------------------------------------------------------------------
(* The probe.                                                               *)

\* The probe is a request that has not reported yet, and halfOpenProbe says so.
ProbeInv ==
  /\ \A c \in Callers : probing[c] => req[c] \in {"sent"} \cup Answers
  /\ ProbeOut

LEMMA StepProbe == BreakerTypes /\ ProbeInv /\ [Next]_vars => ProbeInv'
<1> SUFFICES ASSUME BreakerTypes, ProbeInv, [Next]_vars
             PROVE  ProbeInv'
  OBVIOUS
<1> USE DEF InFlight, Answers
<1>1. ASSUME UNCHANGED <<halfOpenProbe, req, probing>> PROVE ProbeInv'
  BY <1>1 DEF ProbeInv, ProbeOut, Probing
<1>2. ASSUME NEW c \in Callers, Send(c) PROVE ProbeInv'
  <2>1. \A d \in Callers : probing'[d] => req'[d] \in {"sent"} \cup Answers
    BY <1>2 DEF Send, BreakerTypes, ProbeInv
  <2>2. ASSUME halfOpenProbe' PROVE \E d \in Callers : probing'[d]
    <3>1. CASE tripped
      BY <1>2, <3>1 DEF Send, BreakerTypes
    <3>2. CASE ~tripped
      <4>1. PICK d \in Callers : probing[d]
        BY <1>2, <2>2, <3>2 DEF Send, BreakerTypes, ProbeInv, ProbeOut, Probing
      <4>2. d # c
        BY <1>2, <4>1 DEF Send, ProbeInv
      <4> QED
        BY <1>2, <4>1, <4>2 DEF Send, BreakerTypes
    <3> QED
      BY <3>1, <3>2
  <2> QED
    BY <2>1, <2>2 DEF ProbeInv, ProbeOut, Probing
<1>3. ASSUME NEW c \in Callers, Answer(c) PROVE ProbeInv'
  <2>1. /\ UNCHANGED <<halfOpenProbe, probing>>
        /\ \A d \in Callers : d # c => req'[d] = req[d]
        /\ req'[c] \in Answers
    BY <1>3 DEF Answer, BreakerTypes, Healths, breaker
  <2> QED
    BY <2>1 DEF ProbeInv, ProbeOut, Probing
<1>4. ASSUME NEW c \in Callers, Report(c) PROVE ProbeInv'
  <2>1. Success \/ Failure
    BY <1>4 DEF Report
  <2>2. halfOpenProbe' = FALSE
    BY <2>1, OutcomeTypes
  <2>3. \A d \in Callers : probing'[d] => req'[d] \in {"sent"} \cup Answers
    BY <1>4 DEF Report, BreakerTypes, ProbeInv
  <2> QED
    BY <2>2, <2>3 DEF ProbeInv, ProbeOut
<1>5. ASSUME NEW c \in Callers, Reject(c) PROVE ProbeInv'
  <2>1. halfOpenProbe' = FALSE
    BY <1>5, OutcomeTypes DEF Reject
  <2>2. \A d \in Callers : probing'[d] => req'[d] \in {"sent"} \cup Answers
    BY <1>5 DEF Reject, BreakerTypes, ProbeInv
  <2> QED
    BY <2>1, <2>2 DEF ProbeInv, ProbeOut
<1>6. CASE HealthChange \/ Tick
  BY <1>1, <1>6 DEF HealthChange, Tick, breaker
<1>7. CASE UNCHANGED vars
  BY <1>1, <1>7 DEF vars, breaker
<1> QED
  BY <1>2, <1>3, <1>4, <1>5, <1>6, <1>7 DEF Next

LEMMA ProbeAlways == Spec => []ProbeInv
<1>1. Init => ProbeInv
  BY DEF Init, ProbeInv, ProbeOut
<1>2. BreakerTypes /\ ProbeInv /\ [Next]_vars => ProbeInv'
  BY StepProbe
<1> QED
  BY <1>1, <1>2, Typed, PTL DEF Spec

\* For any timing, a breaker that is half-open has its probe in flight, so that
\* it can never refuse everybody for ever.
THEOREM ProbeIsOut == Spec => []ProbeOut
<1>1. ProbeInv => ProbeOut
  BY DEF ProbeInv
<1> QED
  BY <1>1, ProbeAlways, PTL

-----------------------------------------------------------------------------
(* The probe is alone when requests are shorter than the cool-down.         *)

Busy(c) == req[c] \in InFlight \cup Answers

\* What is in flight while the breaker is open was let through before it
\* tripped, or is the probe, alone.
AloneInv ==
  /\ \A c \in Callers : probing[c] => tripped /\ halfOpenProbe /\ coolLeft = 0
  /\ tripped => \A d \in Callers : Busy(d) /\ ~probing[d] => age[d] + coolLeft >= CoolDown
  /\ ProbeAlone

\* Success or failure of a request that is not the probe while it is alone.
LEMMA OutcomeAlone ==
  ASSUME BreakerTypes, ProbeInv, AloneInv, NEW c \in Callers, Busy(c),
         Success \/ Failure,
         \A d \in Callers : d # c => req'[d] = req[d] /\ probing'[d] = probing[d],
         ~probing'[c], age' = age
  PROVE  AloneInv'
<1> USE VMBreakerAssumption DEF InFlight, Answers
<1>1. ASSUME NEW d \in Callers PROVE ~probing'[d]
  <2>1. ASSUME d # c, probing[d] PROVE FALSE
    BY <2>1 DEF AloneInv, ProbeAlone, Probing, Busy
  <2> QED
    BY <2>1
<1>2. tripped' => UNCHANGED <<tripped, coolLeft>> \/ coolLeft' = CoolDown
  BY DEF Success, Failure, BreakerTypes
<1>3. ASSUME tripped', NEW d \in Callers, Busy(d)', ~probing'[d]
      PROVE  age'[d] + coolLeft' >= CoolDown
  <2>1. age[d] \in Nat /\ coolLeft \in Nat /\ CoolDown \in Nat
    BY DEF BreakerTypes
  <2>2. CASE coolLeft' = CoolDown
    BY <2>1, <2>2
  <2>3. CASE tripped /\ coolLeft' = coolLeft
    <3>1. Busy(d)
      BY <1>3 DEF Busy
    <3>2. ASSUME probing[d] PROVE FALSE
      <4>1. halfOpenProbe /\ coolLeft = 0
        BY <3>2 DEF AloneInv
      <4>2. coolLeft' = CoolDown
        BY <1>3, <4>1 DEF Success, Failure
      <4> QED
        BY <2>3, <4>1, <4>2
    <3> QED
      BY <2>1, <2>3, <3>1, <3>2 DEF AloneInv
  <2> QED
    BY <1>2, <1>3, <2>2, <2>3
<1> QED
  BY <1>1, <1>3 DEF AloneInv, ProbeAlone, Probing

LEMMA StepAlone ==
  ASSUME Timeout < CoolDown, BreakerTypes, ProbeInv, AloneInv, [Next]_vars
  PROVE  AloneInv'
<1> USE VMBreakerAssumption
<1>1. ASSUME UNCHANGED <<tripped, coolLeft, halfOpenProbe, probing, age>>,
             \A c \in Callers : Busy(c)' = Busy(c)
      PROVE  AloneInv'
  BY <1>1 DEF AloneInv, ProbeAlone, Probing, Busy
<1>2. ASSUME NEW c \in Callers, Send(c) PROVE AloneInv'
  <2>1. /\ UNCHANGED <<tripped, coolLeft>>
        /\ coolLeft = 0
        /\ tripped => ~halfOpenProbe
        /\ halfOpenProbe' = (halfOpenProbe \/ tripped)
        /\ \A d \in Callers : d # c => /\ req'[d] = req[d]
                                       /\ age'[d] = age[d]
                                       /\ probing'[d] = probing[d]
        /\ probing'[c] = tripped
    BY <1>2 DEF Send, Allow, BreakerTypes
  <2>2. ASSUME NEW d \in Callers PROVE ~probing[d]
    BY <2>1 DEF AloneInv
  <2>3. CASE tripped
    <3>1. ASSUME NEW d \in Callers PROVE ~Busy(d)
      BY <2>1, <2>2, <2>3 DEF AloneInv, BreakerTypes
    <3> QED
      BY <2>1, <2>2, <2>3, <3>1 DEF AloneInv, ProbeAlone, Probing, Busy
  <2>4. CASE ~tripped
    BY <2>1, <2>2, <2>4 DEF AloneInv, ProbeAlone, Probing
  <2> QED
    BY <2>3, <2>4
<1>3. ASSUME NEW c \in Callers, Answer(c) PROVE AloneInv'
  <2>1. UNCHANGED <<tripped, coolLeft, halfOpenProbe, probing, age>>
    BY <1>3 DEF Answer, breaker
  <2>2. \A d \in Callers : Busy(d)' = Busy(d)
    BY <1>3 DEF Answer, BreakerTypes, Healths, Busy, InFlight, Answers
  <2> QED
    BY <1>1, <2>1, <2>2
<1>4. ASSUME NEW c \in Callers, Report(c) PROVE AloneInv'
  <2>1. /\ Busy(c)
        /\ Success \/ Failure
        /\ \A d \in Callers : d # c => req'[d] = req[d] /\ probing'[d] = probing[d]
        /\ ~probing'[c]
        /\ age' = age
    BY <1>4 DEF Report, BreakerTypes, Busy, Answers
  <2> QED
    BY <2>1, OutcomeAlone
<1>5. ASSUME NEW c \in Callers, Reject(c) PROVE AloneInv'
  <2>1. /\ Busy(c)
        /\ Success \/ Failure
        /\ \A d \in Callers : d # c => req'[d] = req[d] /\ probing'[d] = probing[d]
        /\ ~probing'[c]
        /\ age' = age
    BY <1>5 DEF Reject, BreakerTypes, Busy, InFlight, Answers, ProbeInv
  <2> QED
    BY <2>1, OutcomeAlone
<1>6. CASE Tick
  <2>1. /\ UNCHANGED <<tripped, halfOpenProbe, req, probing>>
        /\ coolLeft' = IF coolLeft > 0 THEN coolLeft - 1 ELSE 0
        /\ \A d \in Callers : age'[d] = IF req[d] \in InFlight THEN age[d] + 1 ELSE age[d]
        /\ \A d \in Callers : req[d] \notin Answers
    BY <1>6 DEF Tick
  <2>2. \A d \in Callers : Busy(d)' = Busy(d) /\ (Busy(d) => req[d] \in InFlight)
    BY <2>1 DEF Busy
  <2>3. \A d \in Callers : age[d] \in Nat /\ coolLeft \in Nat
    BY DEF BreakerTypes
  <2>4. ASSUME tripped', NEW d \in Callers, Busy(d)', ~probing'[d]
        PROVE  age'[d] + coolLeft' >= CoolDown
    BY <2>1, <2>2, <2>3, <2>4 DEF AloneInv
  <2>5. \A c \in Callers : probing'[c] => tripped' /\ halfOpenProbe' /\ coolLeft' = 0
    BY <2>1 DEF AloneInv
  <2>6. ProbeAlone'
    BY <2>1 DEF AloneInv, ProbeAlone, Probing
  <2> QED
    BY <2>4, <2>5, <2>6 DEF AloneInv
<1>7. CASE HealthChange \/ UNCHANGED vars
  BY <1>1, <1>7 DEF HealthChange, vars, breaker, Busy
<1> QED
  BY <1>2, <1>3, <1>4, <1>5, <1>6, <1>7 DEF Next

\* With a timeout below the cool-down, as the defaults have it (15 s and 30 s),
\* exactly one caller is let through to probe: nothing else is in flight.
THEOREM ProbeIsAlone ==
  ASSUME Timeout < CoolDown
  PROVE  Spec => []ProbeAlone
<1>1. Init => AloneInv
  BY DEF Init, AloneInv, ProbeAlone, Probing
<1>2. BreakerTypes /\ ProbeInv /\ AloneInv /\ [Next]_vars => AloneInv'
  BY StepAlone
<1>3. AloneInv => ProbeAlone
  BY DEF AloneInv
<1> QED
  BY <1>1, <1>2, <1>3, Typed, ProbeAlways, PTL DEF Spec

-----------------------------------------------------------------------------
(* The ingest loop over the breaker.                                        *)

\* The loop is one more caller of the breaker: with it, the breaker is still what VMBreaker
\* specifies, so that its theorems hold of the write breaker too.
THEOREM IngestKeepsBreaker == IngestSpec => Spec
<1>1. IngestInit => Init
  BY DEF IngestInit
<1>2. [IngestNext]_ingestVars => [Next]_vars
  <2> SUFFICES ASSUME [IngestNext]_ingestVars PROVE [Next]_vars
    OBVIOUS
  <2> USE DEF Next
  <2>1. CASE UNCHANGED ingestVars
    BY <2>1 DEF ingestVars
  <2>2. CASE Passing(HealthChange) \/ Passing(Tick)
    BY <2>2 DEF Passing
  <2>3. ASSUME NEW c \in Callers,
               Queried(Send(c)) \/ Queried(Answer(c)) \/ Queried(Report(c)) \/ Queried(Reject(c))
        PROVE  [Next]_vars
    BY <2>3 DEF Queried
  <2>4. CASE \/ Pumped(Offer) \/ Pumped(Ready) \/ Pumped(Take) \/ Pumped(Flush)
             \/ Pumped(Shutdown) \/ Pumped(Drain) \/ Pumped(PushRefused)
    BY <2>4 DEF Pumped, Offer, Ready, Take, Flush, Shutdown, Drain, PushRefused
  <2>5. CASE \/ Pumped(PushSent) \/ Pumped(PushAnswered)
             \/ Pumped(PushReported) \/ Pumped(PushRejected)
    <3>1. Writer \in Callers
      BY VMIngestAssumption, VMBreakerAssumption
    <3> QED
      BY <2>5, <3>1 DEF Pumped, PushSent, PushAnswered, PushReported, PushRejected
  <2> QED
    BY <2>1, <2>2, <2>3, <2>4, <2>5 DEF IngestNext
<1> QED
  BY <1>1, <1>2, PTL DEF IngestSpec, Spec

\* What the sequences of the loop hold, however they are cut and joined.
LEMMA IndexHolds ==
  ASSUME NEW s, NEW x, \E i \in DOMAIN s : x = s[i]
  PROVE  x \in ToSet(s)
  BY DEF ToSet

LEMMA AppendHolds ==
  ASSUME NEW s \in Seq(Nat), NEW e \in Nat
  PROVE  Append(s, e) \in Seq(Nat) /\ ToSet(Append(s, e)) = ToSet(s) \cup {e}
<1> DEFINE t == Append(s, e)
<1>1. /\ t \in Seq(Nat) /\ Len(t) = Len(s) + 1 /\ t[Len(s) + 1] = e
      /\ \A i \in 1..Len(s) : t[i] = s[i]
  OBVIOUS
<1>2. Len(s) \in Nat /\ DOMAIN s = 1..Len(s) /\ DOMAIN t = 1..Len(t)
  BY <1>1
<1>3. DOMAIN t = DOMAIN s \cup {Len(s) + 1}
  BY <1>1, <1>2
<1> HIDE DEF t
<1> QED
  BY <1>1, <1>2, <1>3 DEF ToSet, t

LEMMA JoinHolds ==
  ASSUME NEW s \in Seq(Nat), NEW t \in Seq(Nat)
  PROVE  s \o t \in Seq(Nat) /\ ToSet(s \o t) = ToSet(s) \cup ToSet(t)
<1> DEFINE u == s \o t
<1>1. /\ u \in Seq(Nat) /\ Len(u) = Len(s) + Len(t)
      /\ \A i \in 1..Len(s) : u[i] = s[i]
      /\ \A i \in 1..Len(t) : u[Len(s) + i] = t[i]
  OBVIOUS
<1>2. /\ Len(s) \in Nat /\ Len(t) \in Nat
      /\ DOMAIN s = 1..Len(s) /\ DOMAIN t = 1..Len(t) /\ DOMAIN u = 1..Len(u)
  BY <1>1
<1> HIDE DEF u
<1>3. ASSUME NEW i \in DOMAIN u PROVE u[i] \in ToSet(s) \cup ToSet(t)
  <2>1. CASE i <= Len(s)
    BY <1>1, <1>2, <2>1 DEF ToSet
  <2>2. CASE ~(i <= Len(s))
    <3>1. i - Len(s) \in 1..Len(t) /\ Len(s) + (i - Len(s)) = i
      BY ONLY <1>1, <1>2, <2>2, i \in DOMAIN u
    <3>2. \E n \in DOMAIN t : u[i] = t[n]
      BY ONLY <1>1, <1>2, <3>1
    <3> QED
      BY ONLY <3>2, IndexHolds
  <2> QED
    BY <2>1, <2>2
<1>4. \A i \in DOMAIN s : s[i] \in ToSet(u)
  <2> TAKE i \in DOMAIN s
  <2>1. \E n \in DOMAIN u : s[i] = u[n]
    BY ONLY <1>1, <1>2, i \in DOMAIN s
  <2> QED
    BY ONLY <2>1, IndexHolds
<1>5. \A i \in DOMAIN t : t[i] \in ToSet(u)
  <2> TAKE i \in DOMAIN t
  <2>1. i \in 1..Len(t) /\ u[Len(s) + i] = t[i]
    BY ONLY <1>1, <1>2, i \in DOMAIN t, Zenon
  <2>2. Len(s) + i \in 1..Len(u)
    <3>1. Len(s) \in Nat /\ Len(t) \in Nat /\ Len(u) = Len(s) + Len(t) /\ i \in 1..Len(t)
      BY ONLY <1>1, <1>2, <2>1, Zenon
    <3> QED
      BY ONLY <3>1
  <2>3. \E n \in DOMAIN u : t[i] = u[n]
    BY ONLY <1>2, <2>1, <2>2, Zenon
  <2> QED
    BY ONLY <2>3, IndexHolds
<1> QED
  BY <1>1, <1>3, <1>4, <1>5 DEF ToSet, u

LEMMA HeadHolds ==
  ASSUME NEW s \in Seq(Nat), s # << >>
  PROVE  Head(s) \in Nat /\ Tail(s) \in Seq(Nat) /\ ToSet(s) = {Head(s)} \cup ToSet(Tail(s))
<1> DEFINE t == Tail(s)
<1>1. /\ t \in Seq(Nat) /\ Len(s) \in Nat \ {0} /\ Len(t) = Len(s) - 1
      /\ Head(s) = s[1] /\ s[1] \in Nat
      /\ \A i \in 1..Len(t) : t[i] = s[i + 1]
  OBVIOUS
<1>2. DOMAIN s = 1..Len(s) /\ DOMAIN t = 1..Len(t)
  BY <1>1
<1> HIDE DEF t
<1>3. ASSUME NEW i \in DOMAIN s PROVE s[i] \in {s[1]} \cup ToSet(t)
  <2>1. CASE i = 1
    BY <2>1
  <2>2. CASE i # 1
    <3>1. i - 1 \in 1..Len(t) /\ (i - 1) + 1 = i
      <4>1. Len(s) \in Nat /\ Len(t) = Len(s) - 1 /\ i \in 1..Len(s)
        BY ONLY <1>1, <1>2, i \in DOMAIN s, Zenon
      <4> QED
        BY ONLY <2>2, <4>1
    <3>2. t[i - 1] = s[(i - 1) + 1]
      BY ONLY <1>1, <3>1, Zenon
    <3>3. \E n \in DOMAIN t : s[i] = t[n]
      BY ONLY <1>2, <3>1, <3>2, Zenon
    <3> QED
      BY ONLY <3>3, IndexHolds
  <2> QED
    BY <2>1, <2>2
<1>4. \A i \in DOMAIN t : t[i] \in ToSet(s)
  <2> TAKE i \in DOMAIN t
  <2>1. i \in 1..Len(t) /\ t[i] = s[i + 1]
    BY ONLY <1>1, <1>2, i \in DOMAIN t, Zenon
  <2>2. i + 1 \in 1..Len(s)
    <3>1. Len(s) \in Nat \ {0} /\ Len(t) = Len(s) - 1 /\ i \in 1..Len(t)
      BY ONLY <1>1, <2>1, Zenon
    <3> QED
      BY ONLY <3>1
  <2>3. \E n \in DOMAIN s : t[i] = s[n]
    BY ONLY <1>2, <2>1, <2>2, Zenon
  <2> QED
    BY ONLY <2>3, IndexHolds
<1>5. s[1] \in ToSet(s)
  <2>1. 1 \in DOMAIN s
    BY <1>1, <1>2
  <2> QED
    BY <2>1 DEF ToSet
<1> QED
  BY <1>1, <1>3, <1>4, <1>5 DEF ToSet, t

\* The arithmetic of a cut after the k-th of n elements.
LEMMA CutAt ==
  ASSUME NEW n \in Nat, NEW k \in Nat, k <= n
  PROVE  /\ n - (k + 1) + 1 = n - k
         /\ k + 1 <= n \/ n - k = 0
         /\ \A i \in 1..(n - k) : (k + 1) + i - 1 = k + i
         /\ (k + 1)..n \subseteq 1..n
  OBVIOUS

LEMMA TrimHolds ==
  ASSUME NEW s \in Seq(Nat), NEW k \in 1..Len(s)
  PROVE  /\ SubSeq(s, k + 1, Len(s)) \in Seq(Nat)
         /\ ToSet(s) \subseteq ToSet(SubSeq(s, 1, k)) \cup ToSet(SubSeq(s, k + 1, Len(s)))
<1> DEFINE t == SubSeq(s, 1, k)
           u == SubSeq(s, k + 1, Len(s))
<1>1. Len(s) \in Nat /\ k \in Nat /\ k <= Len(s) /\ DOMAIN s = 1..Len(s)
  OBVIOUS
<1>2. Len(t) = k /\ \A i \in 1..k : t[i] = s[i]
  BY <1>1
<1>3. /\ u \in Seq(Nat) /\ Len(u) = Len(s) - k
      /\ \A i \in 1..(Len(s) - k) : u[i] = s[k + i]
  <2>1. /\ u \in Seq(Nat)
        /\ Len(u) = IF k + 1 <= Len(s) THEN Len(s) - (k + 1) + 1 ELSE 0
        /\ \A i \in 1..(Len(s) - (k + 1) + 1) : u[i] = s[(k + 1) + i - 1]
    <3>1. k + 1 \in Int /\ Len(s) \in Int
      BY ONLY <1>1
    <3>2. ASSUME NEW i \in (k + 1)..Len(s) PROVE s[i] \in Nat
      <4>1. i \in 1..Len(s)
        <5>1. (k + 1)..Len(s) \subseteq 1..Len(s)
          BY ONLY <1>1, CutAt, Zenon
        <5> QED
          BY ONLY <5>1, i \in (k + 1)..Len(s), Zenon
      <4> QED
        BY <4>1
    <3> QED
      BY <3>1, <3>2, SubSeqProperties
  <2> HIDE DEF u
  <2>2. /\ Len(s) - (k + 1) + 1 = Len(s) - k
        /\ k + 1 <= Len(s) \/ Len(s) - k = 0
        /\ \A i \in 1..(Len(s) - k) : (k + 1) + i - 1 = k + i
    BY ONLY <1>1, CutAt, Zenon
  <2>3. Len(u) = Len(s) - k
    BY ONLY <2>1, <2>2, Zenon
  <2>4. ASSUME NEW i \in 1..(Len(s) - k) PROVE u[i] = s[k + i]
    <3>1. (k + 1) + i - 1 = k + i
      BY ONLY <2>2, i \in 1..(Len(s) - k), Zenon
    <3>2. u[i] = s[(k + 1) + i - 1]
      BY ONLY <2>1, <2>2, i \in 1..(Len(s) - k), Zenon
    <3> QED
      BY ONLY <3>1, <3>2, Zenon
  <2> QED
    BY ONLY <2>1, <2>3, <2>4
<1>4. DOMAIN t = 1..k /\ DOMAIN u = 1..(Len(s) - k)
  <2>1. t \in Seq(Nat)
    BY <1>1
  <2> HIDE DEF t, u
  <2> QED
    BY <1>2, <1>3, <2>1
<1> HIDE DEF t, u
<1>5. ASSUME NEW i \in DOMAIN s PROVE s[i] \in ToSet(t) \cup ToSet(u)
  <2>1. CASE i <= k
    BY <1>1, <1>2, <1>4, <2>1 DEF ToSet
  <2>2. CASE ~(i <= k)
    <3>1. i - k \in 1..(Len(s) - k) /\ k + (i - k) = i
      BY <1>1, <2>2
    <3> QED
      BY <1>3, <1>4, <3>1 DEF ToSet
  <2> QED
    BY <2>1, <2>2
<1> QED
  BY <1>3, <1>5 DEF ToSet, t, u

\* Every sample that was offered is somewhere, and what a push was answered "ok" for has
\* been stored; the loop only fills the batch while no push is under way, and it stops
\* with an empty channel that nobody fills any more.
Held == 1..offered \subseteq stored \cup givenUp \cup ToSet(channel) \cup ToSet(batch)

PumpInv ==
  /\ offered \in Nat
  /\ channel \in Seq(Nat) /\ batch \in Seq(Nat)
  /\ pumping \in BOOLEAN
  /\ BreakerTypes
  /\ Held
  /\ pumping /\ req[Writer] # "idle" => loop \in {"push", "last"}
  /\ pumping /\ req[Writer] = "ok" => ToSet(batch) \subseteq stored
  /\ loop \in {"last", "stopped"} => stopping /\ channel = << >>

LEMMA InitPump == IngestInit => PumpInv
<1> SUFFICES ASSUME IngestInit PROVE PumpInv
  OBVIOUS
<1>1. Writer \in Callers
  BY VMIngestAssumption, VMBreakerAssumption
<1>2. BreakerTypes /\ req[Writer] = "idle"
  BY <1>1, InitBreakerTypes DEF IngestInit, Init
<1>3. Held
  <2>1. 1..offered = {}
    BY DEF IngestInit
  <2> QED
    BY <2>1 DEF Held
<1> QED
  BY <1>2, <1>3 DEF IngestInit, PumpInv

\* A batch that is kept loses only what is written off.
LEMMA KeepHolds ==
  ASSUME PumpInv, KeepBatch
  PROVE  /\ batch' \in Seq(Nat)
         /\ ToSet(batch) \cup givenUp \subseteq ToSet(batch') \cup givenUp'
<1>1. CASE Len(batch) > RetryMax
  <2> DEFINE k == Len(batch) - RetryMax
  <2>1. batch \in Seq(Nat) /\ Len(batch) \in Nat /\ RetryMax \in Nat \ {0}
    BY VMIngestAssumption DEF PumpInv
  <2>2. k \in 1..Len(batch)
    BY <1>1, <2>1
  <2>3. /\ batch' = SubSeq(batch, k + 1, Len(batch))
        /\ givenUp' = givenUp \cup ToSet(SubSeq(batch, 1, k))
    BY <1>1 DEF KeepBatch
  <2> HIDE DEF k
  <2> QED
    BY <2>1, <2>2, <2>3, TrimHolds
<1>2. CASE ~(Len(batch) > RetryMax)
  BY <1>2 DEF KeepBatch, PumpInv
<1> QED
  BY <1>1, <1>2

LEMMA StepPump == PumpInv /\ [IngestNext]_ingestVars => PumpInv'
<1> SUFFICES ASSUME PumpInv, [IngestNext]_ingestVars PROVE PumpInv'
  OBVIOUS
<1>1. Writer \in Callers
  BY VMIngestAssumption, VMBreakerAssumption
<1>2. /\ offered \in Nat /\ channel \in Seq(Nat) /\ batch \in Seq(Nat)
      /\ pumping \in BOOLEAN /\ BreakerTypes /\ Held
      /\ pumping /\ req[Writer] # "idle" => loop \in {"push", "last"}
      /\ pumping /\ req[Writer] = "ok" => ToSet(batch) \subseteq stored
      /\ loop \in {"last", "stopped"} => stopping /\ channel = << >>
      /\ req \in [Callers -> {"idle"} \cup InFlight \cup Answers]
  BY DEF PumpInv, BreakerTypes
<1>3. ASSUME [Next]_vars, UNCHANGED <<pumping, pump>>, pumping => req' = req
      PROVE  PumpInv'
  <2>1. BreakerTypes'
    BY <1>2, <1>3, StepTypes
  <2> QED
    BY <1>2, <1>3, <2>1 DEF PumpInv, Held, pump
<1>4. CASE Passing(HealthChange) \/ Passing(Tick)
  BY <1>3, <1>4 DEF Passing, HealthChange, Tick, Next
<1>5. ASSUME NEW c \in Callers,
             Queried(Send(c)) \/ Queried(Answer(c)) \/ Queried(Report(c)) \/ Queried(Reject(c))
      PROVE  PumpInv'
  BY <1>3, <1>5 DEF Queried, Next
<1>6. ASSUME Pumped(Offer) PROVE PumpInv'
  <2>1. /\ ~stopping /\ offered' = offered + 1
        /\ UNCHANGED <<vars, batch, loop, stopping, stored, pumping>>
    BY <1>6 DEF Pumped, Offer
  <2>2. /\ channel' \in Seq(Nat)
        /\ ToSet(channel) \cup givenUp \cup {offered + 1} \subseteq ToSet(channel') \cup givenUp'
    <3>1. CASE channel' = Append(channel, offered + 1) /\ UNCHANGED givenUp
      BY <1>2, <3>1, AppendHolds
    <3>2. CASE givenUp' = givenUp \cup {offered + 1} /\ UNCHANGED channel
      BY <1>2, <3>2
    <3> QED
      BY <1>6, <3>1, <3>2 DEF Pumped, Offer
  <2>3. Held'
    <3>1. 1..offered' = (1..offered) \cup {offered + 1}
      BY <1>2, <2>1
    <3> QED
      BY <1>2, <2>1, <2>2, <3>1 DEF Held
  <2> QED
    BY <1>2, <2>1, <2>2, <2>3 DEF PumpInv, BreakerTypes, vars, breaker
<1>7. ASSUME Pumped(Ready) \/ Pumped(Flush) \/ Pumped(Shutdown) PROVE PumpInv'
  <2>1. /\ UNCHANGED <<vars, offered, channel, batch, stored, givenUp, pumping>>
        /\ stopping => stopping'
        /\ loop' \in {"last", "stopped"} => loop' = loop
        /\ pumping /\ loop \in {"push", "last"} => loop' = loop
    BY <1>7 DEF Pumped, Ready, Flush, Shutdown
  <2> QED
    BY <1>2, <2>1 DEF PumpInv, Held, BreakerTypes, vars, breaker
<1>8. ASSUME Pumped(Take) PROVE PumpInv'
  <2>1. /\ loop = "select" /\ channel # << >>
        /\ channel' = Tail(channel) /\ batch' = Append(batch, Head(channel))
        /\ loop' \in {"push", "select"}
        /\ UNCHANGED <<vars, offered, stopping, stored, givenUp, pumping>>
    BY <1>8 DEF Pumped, Take
  <2>2. /\ channel' \in Seq(Nat) /\ batch' \in Seq(Nat)
        /\ ToSet(channel) \cup ToSet(batch) = ToSet(channel') \cup ToSet(batch')
    BY <1>2, <2>1, HeadHolds, AppendHolds
  <2>3. pumping => req[Writer] = "idle"
    BY <1>2, <2>1
  <2> QED
    BY <1>2, <2>1, <2>2, <2>3 DEF PumpInv, Held, BreakerTypes, vars, breaker
<1>9. ASSUME Pumped(Drain) PROVE PumpInv'
  <2>1. /\ loop = "select" /\ stopping
        /\ channel' = << >> /\ batch' = batch \o channel
        /\ UNCHANGED <<vars, offered, stopping, stored, givenUp, pumping>>
    BY <1>9 DEF Pumped, Drain
  <2>2. << >> \in Seq(Nat)
    OBVIOUS
  <2>3. batch' \in Seq(Nat) /\ ToSet(batch') = ToSet(channel) \cup ToSet(batch)
    BY <1>2, <2>1, JoinHolds
  <2>4. pumping => req[Writer] = "idle"
    BY <1>2, <2>1
  <2> QED
    BY <1>2, <2>1, <2>2, <2>3, <2>4 DEF PumpInv, Held, BreakerTypes, vars, breaker
<1>10. ASSUME Pumped(PushRefused) PROVE PumpInv'
  <2>1. /\ loop \in {"push", "last"} /\ req[Writer] = "idle"
        /\ KeepBatch /\ loop' = AfterPush
        /\ UNCHANGED <<vars, offered, channel, stopping, stored, pumping>>
    BY <1>10 DEF Pumped, PushRefused, AtPush, KeepBatch
  <2>2. /\ batch' \in Seq(Nat)
        /\ ToSet(batch) \cup givenUp \subseteq ToSet(batch') \cup givenUp'
    BY <2>1, KeepHolds
  <2> QED
    BY <1>2, <2>1, <2>2 DEF PumpInv, Held, BreakerTypes, vars, breaker, AfterPush
<1>11. ASSUME Pumped(PushSent) PROVE PumpInv'
  <2>1. /\ Send(Writer) /\ UNCHANGED <<pump, pumping>> /\ loop \in {"push", "last"}
    BY <1>11 DEF Pumped, PushSent, AtPush
  <2>2. req'[Writer] = "sent"
    BY <1>1, <1>2, <2>1 DEF Send
  <2>3. BreakerTypes'
    BY <1>1, <1>2, <2>1, StepTypes DEF Next
  <2> QED
    BY <1>2, <2>1, <2>2, <2>3 DEF PumpInv, Held, pump
<1>12. ASSUME Pumped(PushAnswered) PROVE PumpInv'
  <2>1. /\ Answer(Writer) /\ loop \in {"push", "last"}
        /\ UNCHANGED <<offered, channel, batch, loop, stopping, givenUp, pumping>>
        /\ \/ stored' = stored \cup ToSet(batch)
           \/ health # "up" /\ stored' = stored
    BY <1>12 DEF Pumped, PushAnswered, AtPush
  <2>2. health # "up" => req'[Writer] # "ok"
    BY <1>1, <1>2, <2>1 DEF Answer, BreakerTypes, Healths
  <2>3. BreakerTypes'
    BY <1>1, <1>2, <2>1, StepTypes DEF Next
  <2>4. req'[Writer] = "ok" => ToSet(batch) \subseteq stored'
    BY <2>1, <2>2
  <2> QED
    BY <1>2, <2>1, <2>3, <2>4 DEF PumpInv, Held
<1>13. ASSUME Pumped(PushReported) PROVE PumpInv'
  <2>1. /\ Report(Writer) /\ loop \in {"push", "last"} /\ pumping
        /\ UNCHANGED <<offered, channel, stopping, stored, pumping>>
    BY <1>13 DEF Pumped, PushReported, AtPush
  <2>2. BreakerTypes'
    BY <1>1, <1>2, <2>1, StepTypes DEF Next
  <2>3. /\ req[Writer] \in {"ok", "failed", "throttled", "rejected"}
        /\ req[Writer] = "rejected" => req'[Writer] = "body"
        /\ req[Writer] # "rejected" => req'[Writer] = "idle"
    BY <1>1, <1>2, <2>1, VMIngestAssumption DEF Report, Answers
  <2>4. CASE req[Writer] = "ok"
    <3>1. batch' = << >> /\ loop' = AfterPush /\ UNCHANGED givenUp
      BY <1>13, <2>4 DEF Pumped, PushReported
    <3>2. << >> \in Seq(Nat)
      OBVIOUS
    <3>3. Held'
      BY <1>2, <2>1, <2>4, <3>1 DEF Held
    <3> QED
      BY <1>2, <2>1, <2>2, <2>3, <2>4, <3>1, <3>2, <3>3 DEF PumpInv, AfterPush
  <2>5. CASE req[Writer] \in {"failed", "throttled"}
    <3>1. KeepBatch /\ loop' = AfterPush
      BY <1>13, <2>5 DEF Pumped, PushReported, KeepBatch
    <3>2. /\ batch' \in Seq(Nat)
          /\ ToSet(batch) \cup givenUp \subseteq ToSet(batch') \cup givenUp'
      BY <3>1, KeepHolds
    <3> QED
      BY <1>2, <2>1, <2>2, <2>3, <2>5, <3>1, <3>2 DEF PumpInv, Held, AfterPush
  <2>6. CASE req[Writer] = "rejected"
    <3>1. UNCHANGED <<batch, loop, givenUp>>
      BY <1>13, <2>6 DEF Pumped, PushReported
    <3> QED
      BY <1>2, <2>1, <2>2, <2>3, <2>6, <3>1 DEF PumpInv, Held
  <2> QED
    BY <2>3, <2>4, <2>5, <2>6
<1>14. ASSUME Pumped(PushRejected) PROVE PumpInv'
  <2>1. /\ Reject(Writer) /\ loop \in {"push", "last"}
        /\ batch' = << >> /\ givenUp' = givenUp \cup ToSet(batch) /\ loop' = AfterPush
        /\ UNCHANGED <<offered, channel, stopping, stored, pumping>>
    BY <1>14 DEF Pumped, PushRejected, AtPush
  <2>2. BreakerTypes'
    BY <1>1, <1>2, <2>1, StepTypes DEF Next
  <2>3. req'[Writer] = "idle" /\ << >> \in Seq(Nat)
    BY <1>1, <1>2, <2>1 DEF Reject
  <2>4. Held'
    BY <1>2, <2>1 DEF Held
  <2> QED
    BY <1>2, <2>1, <2>2, <2>3, <2>4 DEF PumpInv, AfterPush
<1>15. CASE UNCHANGED ingestVars
  <2>1. UNCHANGED <<pumping, pump>> /\ UNCHANGED vars /\ req' = req
    BY <1>15 DEF ingestVars, vars
  <2> QED
    BY <1>3, <2>1
<1> QED
  BY <1>4, <1>5, <1>6, <1>7, <1>8, <1>9, <1>10, <1>11, <1>12, <1>13, <1>14, <1>15 DEF IngestNext

\* A loop that stops with nothing left to retry has lost nothing: whatever the capacity of
\* the channel, the length of the batch and the answers of VictoriaMetrics, each sample
\* that was offered is stored, or was given up with a warning (vm.go, run and push).
THEOREM StopLosesNothing == IngestSpec => []DrainedAll
<1>1. PumpInv => DrainedAll
  <2> SUFFICES ASSUME PumpInv, loop = "stopped", batch = << >> PROVE Settled
    BY DEF DrainedAll
  <2>1. channel = << >>
    BY DEF PumpInv
  <2>2. ToSet(<< >>) = {}
    BY DEF ToSet
  <2> QED
    BY <2>1, <2>2 DEF PumpInv, Held, Settled
<1> QED
  BY <1>1, InitPump, StepPump, PTL DEF IngestSpec

-----------------------------------------------------------------------------
(***************************************************************************)
(* On-call pages and updates of an agent.                                  *)
(***************************************************************************)

LEMMA NoPageTyped == NoPage \in Page
BY OnCallAssumption DEF NoPage, Page, PageAnswers

LEMMA InitOnCallTypes == OnCallInit => OnCallTypeOK
BY NoPageTyped, OnCallAssumption DEF OnCallInit, OnCallTypeOK

\* The next step of any policy is one of its steps.
LEMMA NextPageTyped ==
  ASSUME policySteps \in 0..MaxSteps, NEW p \in Page, NEW step \in 0..MaxSteps
  PROVE  NextPage(p, step) \in Page
<1>1. step + 1 < policySteps => step + 1 \in 0..MaxSteps
  BY OnCallAssumption
<1>2. CASE step + 1 >= policySteps
  BY <1>2 DEF NextPage, Page
<1>3. CASE ~(step + 1 >= policySteps)
  <2>1. step + 1 \in 0..MaxSteps
    BY <1>1, <1>3, OnCallAssumption
  <2> QED
    BY <1>3, <2>1 DEF NextPage, Page
<1> QED
  BY <1>2, <1>3

LEMMA StepOnCallTypes == OnCallTypeOK /\ [OnCallNext]_ocVars => OnCallTypeOK'
<1> SUFFICES ASSUME OnCallTypeOK, [OnCallNext]_ocVars PROVE OnCallTypeOK'
  OBVIOUS
<1>1. ASSUME NEW i \in Incs, IncidentOpens(i) \/ IncidentRecovers(i) PROVE OnCallTypeOK'
  BY <1>1 DEF IncidentOpens, IncidentRecovers, OnCallTypeOK
<1>2. ASSUME NEW i \in Incs, StartPage(i) PROVE OnCallTypeOK'
  <2>1. [status |-> "pending", step |-> 0, due |-> FALSE] \in Page
    BY OnCallAssumption DEF Page
  <2>2. page' \in [Incs -> Page]
    BY <1>2, <2>1 DEF StartPage, OnCallTypeOK
  <2> QED
    BY <1>2, <2>2 DEF StartPage, OnCallTypeOK
<1>3. ASSUME NEW i \in Incs, PageComesDue(i) PROVE OnCallTypeOK'
  <2>1. [page[i] EXCEPT !.due = TRUE] \in Page
    BY DEF OnCallTypeOK, Page
  <2>2. page' = [page EXCEPT ![i] = [page[i] EXCEPT !.due = TRUE]]
    BY <1>3 DEF PageComesDue
  <2> QED
    BY <1>3, <2>1, <2>2 DEF PageComesDue, OnCallTypeOK
<1>4. ASSUME NEW i \in Incs, Escalate(i) PROVE OnCallTypeOK'
  <2>1. PICK step \in 0..MaxSteps : Advance(i, step)
    BY <1>4 DEF Escalate
  <2>2. NextPage(page[i], step) \in Page
    BY NextPageTyped DEF OnCallTypeOK
  <2>3. page' = page \/ page' = [page EXCEPT ![i] = NextPage(page[i], step)]
    BY <2>1 DEF Advance
  <2>4. page' \in [Incs -> Page]
    BY <2>2, <2>3 DEF OnCallTypeOK
  <2> QED
    BY <2>1, <2>4 DEF Advance, OnCallTypeOK
<1>5. ASSUME NEW i \in Incs, AckIncident(i) \/ ResolveIncident(i) PROVE OnCallTypeOK'
  BY <1>5 DEF AckIncident, ResolveIncident, OnCallTypeOK, PageAnswers
<1>6. ASSUME NEW i \in Incs, NEW with \in PageAnswers, AnswerPage(i, with) PROVE OnCallTypeOK'
  <2>1. [page[i] EXCEPT !.status = with, !.due = FALSE] \in Page
    BY DEF OnCallTypeOK, Page
  <2>2. page' = page \/ page' = [page EXCEPT ![i] = [page[i] EXCEPT !.status = with, !.due = FALSE]]
    BY <1>6 DEF AnswerPage
  <2>3. page' \in [Incs -> Page]
    BY <2>1, <2>2 DEF OnCallTypeOK
  <2> QED
    BY <1>6, <2>3 DEF AnswerPage, OnCallTypeOK
<1>7. ASSUME NEW n \in 0..MaxSteps, EditPolicy(n) PROVE OnCallTypeOK'
  BY <1>7 DEF EditPolicy, OnCallTypeOK
<1>8. CASE DuePages
  <2>1. \A i \in Incs : page[i].step \in 0..MaxSteps
    BY DEF OnCallTypeOK, Page
  <2> QED
    BY <1>8, <2>1 DEF DuePages, OnCallTypeOK
<1>9. CASE FlushPages
  BY <1>9 DEF FlushPages, OnCallTypeOK
<1>10. CASE Crash
  <2>1. crashes' \in 0..MaxCrashes
    BY <1>10, OnCallAssumption DEF Crash, OnCallTypeOK
  <2>2. incident' \in [Incs -> {"none", "open", "acknowledged", "resolved", "lost"}]
    BY <1>10 DEF Crash, Earlier
  <2> QED
    BY <1>10, <2>1, <2>2 DEF Crash, OnCallTypeOK
<1>11. CASE UNCHANGED ocVars
  BY <1>11 DEF ocVars, OnCallTypeOK
<1> QED
  BY <1>1, <1>2, <1>3, <1>4, <1>5, <1>6, <1>7, <1>8, <1>9, <1>10, <1>11 DEF OnCallNext

\* Every handler of incidents and pages, every tick and every restart keeps every
\* variable in its type: no page ever goes past the last step of the longest policy,
\* however operators edit it while the page goes up.
THEOREM PagesTyped == OnCallSpec => []OnCallTypeOK
<1>1. OnCallInit => OnCallTypeOK
  BY InitOnCallTypes
<1>2. OnCallTypeOK /\ [OnCallNext]_ocVars => OnCallTypeOK'
  BY StepOnCallTypes
<1> QED
  BY <1>1, <1>2, PTL DEF OnCallSpec

-----------------------------------------------------------------------------
(* An answer is final.  A page is opened once, because an incident opens once  *)
(* in all; a page is due only while it is pending; and what a tick has in hand *)
(* is, one entry per page, not at its end yet.                                 *)

OpenedOnce ==
  /\ \A i \in starting : page[i].status = "none" /\ incident[i] # "none"
  /\ \A i \in Incs : incident[i] = "none" =>
       page[i].status = "none" /\ pageRows[i].status = "none"

DueIsPending ==
  \A i \in Incs : /\ page[i].due => page[i].status = "pending"
                  /\ pageRows[i].due => pageRows[i].status = "pending"

PageInHand ==
  \A e \in escalating :
    /\ page[e.of].status \in {"pending"} \cup PageAnswers
    /\ \A f \in escalating : f.of = e.of => f = e

AnswersInv == OnCallTypeOK /\ OpenedOnce /\ DueIsPending /\ PageInHand

LEMMA InitAnswers == OnCallInit => AnswersInv
BY InitOnCallTypes DEF OnCallInit, AnswersInv, OpenedOnce, DueIsPending, PageInHand, NoPage

\* What a step of the ticker makes of a page.
LEMMA NextPageStatus ==
  ASSUME NEW p \in Page, NEW step \in 0..MaxSteps
  PROVE  /\ NextPage(p, step).status \in {p.status, "exhausted"}
         /\ NextPage(p, step).due = FALSE
BY DEF NextPage, Page

LEMMA StepAnswers == AnswersInv /\ [OnCallNext]_ocVars => AnswersInv'
<1> SUFFICES ASSUME AnswersInv, [OnCallNext]_ocVars
             PROVE  OpenedOnce' /\ DueIsPending' /\ PageInHand'
  BY StepOnCallTypes DEF AnswersInv
<1> USE DEF AnswersInv
<1>a. /\ \A i \in Incs : page[i] \in Page /\ pageRows[i] \in Page
      /\ \A e \in escalating : e.of \in Incs /\ e.step \in 0..MaxSteps
      /\ starting \subseteq Incs
  BY DEF OnCallTypeOK
<1>1. ASSUME NEW i \in Incs, IncidentOpens(i) \/ IncidentRecovers(i)
      PROVE  OpenedOnce' /\ DueIsPending' /\ PageInHand'
  BY <1>1, <1>a DEF IncidentOpens, IncidentRecovers, OnCallTypeOK, OpenedOnce, DueIsPending, PageInHand
<1>2. ASSUME NEW i \in Incs, StartPage(i) PROVE OpenedOnce' /\ DueIsPending' /\ PageInHand'
  <2>1. i \in starting /\ page[i].status = "none" /\ incident[i] # "none"
    BY <1>2 DEF StartPage, OpenedOnce
  <2>2. \A e \in escalating : e.of # i
    BY <2>1 DEF PageInHand, PageAnswers
  <2>3. \A j \in Incs \ {i} : page'[j] = page[j]
    BY <1>2 DEF StartPage, OnCallTypeOK
  <2>4. page'[i] = page[i] \/ page'[i] = [status |-> "pending", step |-> 0, due |-> FALSE]
    BY <1>2 DEF StartPage, OnCallTypeOK
  <2>5. DueIsPending'
    BY <1>2, <2>3, <2>4 DEF StartPage, DueIsPending
  <2> QED
    BY <1>2, <1>a, <2>1, <2>2, <2>3, <2>5 DEF StartPage, OpenedOnce, PageInHand
<1>3. ASSUME NEW i \in Incs, PageComesDue(i) PROVE OpenedOnce' /\ DueIsPending' /\ PageInHand'
  <2>1. page'[i].status = page[i].status /\ page[i].status = "pending"
    BY <1>3, <1>a DEF PageComesDue, OnCallTypeOK, Page
  <2>2. \A j \in Incs \ {i} : page'[j] = page[j]
    BY <1>3 DEF PageComesDue, OnCallTypeOK
  <2> QED
    BY <1>3, <1>a, <2>1, <2>2 DEF PageComesDue, OpenedOnce, DueIsPending, PageInHand
<1>4. ASSUME NEW i \in Incs, Escalate(i) PROVE OpenedOnce' /\ DueIsPending' /\ PageInHand'
  <2>1. PICK step \in 0..MaxSteps : Advance(i, step)
    BY <1>4 DEF Escalate
  <2>2. [of |-> i, step |-> step] \in escalating
    BY <2>1 DEF Advance
  <2>3. page[i].status \in {"pending"} \cup PageAnswers
    BY <2>2 DEF PageInHand
  <2>4. \A j \in Incs \ {i} : page'[j] = page[j]
    BY <2>1 DEF Advance, OnCallTypeOK
  <2>5. page'[i] = page[i] \/ page'[i] = NextPage(page[i], step)
    BY <2>1 DEF Advance, OnCallTypeOK
  <2>6. /\ NextPage(page[i], step).status \in {page[i].status, "exhausted"}
        /\ NextPage(page[i], step).due = FALSE
    BY <1>a, NextPageStatus
  <2>7. \A e \in escalating' : e \in escalating /\ e.of # i
    BY <2>1, <2>2 DEF Advance, PageInHand
  <2>8. page'[i].status # "none" /\ page[i].status # "none"
    BY <2>3, <2>5, <2>6 DEF PageAnswers
  <2>9. OpenedOnce'
    BY <1>a, <2>1, <2>4, <2>8 DEF Advance, OpenedOnce
  <2>10. DueIsPending'
    BY <2>1, <2>4, <2>5, <2>6 DEF Advance, DueIsPending
  <2>11. PageInHand'
    BY <1>a, <2>4, <2>7 DEF PageInHand
  <2> QED
    BY <2>9, <2>10, <2>11
<1>5. ASSUME NEW i \in Incs, AckIncident(i) \/ ResolveIncident(i)
      PROVE  OpenedOnce' /\ DueIsPending' /\ PageInHand'
  BY <1>5, <1>a DEF AckIncident, ResolveIncident, OnCallTypeOK, OpenedOnce, DueIsPending, PageInHand
<1>6. ASSUME NEW i \in Incs, NEW with \in PageAnswers, AnswerPage(i, with)
      PROVE  OpenedOnce' /\ DueIsPending' /\ PageInHand'
  <2>1. \A j \in Incs \ {i} : page'[j] = page[j]
    BY <1>6 DEF AnswerPage, OnCallTypeOK
  <2>2. \/ page'[i] = page[i]
        \/ page[i].status = "pending" /\ page'[i].status = with /\ page'[i].due = FALSE
    BY <1>6, <1>a DEF AnswerPage, OnCallTypeOK, Page
  <2>3. UNCHANGED <<incident, starting, escalating, pageRows>>
    BY <1>6 DEF AnswerPage
  <2>4. OpenedOnce'
    BY <1>a, <2>1, <2>2, <2>3 DEF OpenedOnce
  <2>5. DueIsPending'
    BY <2>1, <2>2, <2>3 DEF DueIsPending
  <2>6. PageInHand'
    <3>1. \A j \in Incs : page[j].status \in {"pending"} \cup PageAnswers
                           => page'[j].status \in {"pending"} \cup PageAnswers
      BY <2>1, <2>2
    <3> QED
      BY <1>a, <2>3, <3>1 DEF PageInHand
  <2> QED
    BY <2>4, <2>5, <2>6
<1>7. ASSUME NEW n \in 0..MaxSteps, EditPolicy(n) PROVE OpenedOnce' /\ DueIsPending' /\ PageInHand'
  BY <1>7 DEF EditPolicy, OpenedOnce, DueIsPending, PageInHand
<1>8. CASE DuePages
  <2>1. \A e \in escalating' :
          \E i \in Incs : page[i].due /\ e = [of |-> i, step |-> page[i].step]
    BY <1>8 DEF DuePages
  <2>2. PageInHand'
    BY <1>8, <2>1 DEF DuePages, PageInHand, DueIsPending
  <2> QED
    BY <1>8, <2>2 DEF DuePages, OpenedOnce, DueIsPending
<1>9. CASE FlushPages
  BY <1>9 DEF FlushPages, OpenedOnce, DueIsPending, PageInHand
<1>10. CASE Crash
  <2>1. \A i \in Incs : incident'[i] = "none" => incident[i] = "none"
    BY <1>10 DEF Crash, Earlier, OnCallTypeOK
  <2> QED
    BY <1>10, <2>1 DEF Crash, OpenedOnce, DueIsPending, PageInHand
<1>11. CASE UNCHANGED ocVars
  BY <1>11 DEF ocVars, OpenedOnce, DueIsPending, PageInHand
<1> QED
  BY <1>1, <1>2, <1>3, <1>4, <1>5, <1>6, <1>7, <1>8, <1>9, <1>10, <1>11 DEF OnCallNext

AtItsEnd(i) == page[i].status \in PageAnswers \cup {"exhausted"}

\* One step: a page that was answered or went to its end stays as it is.
LEMMA StepKeepsAnswers ==
  AnswersInv /\ [OnCallNext]_ocVars =>
    (crashes' = crashes => \A i \in Incs : AtItsEnd(i) => page'[i] = page[i])
<1> SUFFICES ASSUME AnswersInv, [OnCallNext]_ocVars, crashes' = crashes,
                    NEW i \in Incs, AtItsEnd(i)
             PROVE  page'[i] = page[i]
  OBVIOUS
<1> USE DEF AnswersInv, AtItsEnd
<1>1. page[i].status \notin {"none", "pending"}
  BY DEF PageAnswers
<1>2. ASSUME NEW j \in Incs, StartPage(j) PROVE page'[i] = page[i]
  BY <1>1, <1>2 DEF StartPage, OpenedOnce, OnCallTypeOK
<1>3. ASSUME NEW j \in Incs, PageComesDue(j) PROVE page'[i] = page[i]
  BY <1>1, <1>3 DEF PageComesDue, OnCallTypeOK
<1>4. ASSUME NEW j \in Incs, Escalate(j) PROVE page'[i] = page[i]
  <2>1. PICK step \in 0..MaxSteps : Advance(j, step)
    BY <1>4 DEF Escalate
  <2>2. [of |-> j, step |-> step] \in escalating
    BY <2>1 DEF Advance
  <2>3. page[j].status \in {"pending"} \cup PageAnswers
    BY <2>2 DEF PageInHand
  <2> QED
    BY <1>1, <2>1, <2>3 DEF Advance, OnCallTypeOK
<1>5. ASSUME NEW j \in Incs, NEW with \in PageAnswers, AnswerPage(j, with) PROVE page'[i] = page[i]
  BY <1>1, <1>5 DEF AnswerPage, OnCallTypeOK
<1>6. CASE Crash
  BY <1>6 DEF Crash, OnCallTypeOK
<1>7. CASE UNCHANGED page
  BY <1>7
<1> QED
  BY <1>2, <1>3, <1>4, <1>5, <1>6, <1>7
  DEF OnCallNext, IncidentOpens, IncidentRecovers, AckIncident, ResolveIncident, EditPolicy,
      DuePages, FlushPages, ocVars

\* "Acked/cancelled pages must not escalate further (race with DuePages)": while the
\* process runs, no tick, however old the list it works on, no handler and no late
\* start changes a page that was answered or went to the end of its policy.
THEOREM AnswersStay == OnCallSpec => AnsweredStays
<1>1. OnCallInit => AnswersInv
  BY InitAnswers
<1>2. AnswersInv /\ [OnCallNext]_ocVars => AnswersInv'
  BY StepAnswers
<1>3. AnswersInv /\ [OnCallNext]_ocVars =>
        [crashes' = crashes =>
           \A i \in Incs : page[i].status \in PageAnswers \cup {"exhausted"}
                             => page'[i] = page[i]]_ocVars
  BY StepKeepsAnswers DEF AtItsEnd
<1> QED
  BY <1>1, <1>2, <1>3, PTL DEF OnCallSpec, AnsweredStays

-----------------------------------------------------------------------------
(* Updates of an agent, for any number of jobs, pushes by hand, askers,      *)
(* reasons and retries: a mark has an owner, and automatic pushes take      *)
(* turns.  The last needs that whoever has marked the host is alone with it *)
(* and keeps the mark fresh for as long as the version is behind, and that  *)
(* nothing is sent to a host that has the version.                          *)

USE AgentUpdateAssumption

LEMMA NoJobTyped == NoJob \in UpdateJob
  BY DEF NoJob, UpdateJob, AutoPush, Push

\* The model of the server's updates starts and stays within its types.
LEMMA UpdateTypesInit == AgentUpdateInit => AgentUpdateTypeOK
  BY DEF AgentUpdateInit, AgentUpdateTypeOK, NotAsking, NoJob, NoStreak, AutoPush, Push,
         UpdateJob

LEMMA UpdateTypesStep ==
  AgentUpdateTypeOK /\ [AgentUpdateNext]_auVars => AgentUpdateTypeOK'
<1> SUFFICES ASSUME AgentUpdateTypeOK, [AgentUpdateNext]_auVars PROVE AgentUpdateTypeOK'
  OBVIOUS
<1> USE DEF AgentUpdateTypeOK
<1>1. ASSUME NEW a \in Askers, AskUpdate(a) PROVE AgentUpdateTypeOK'
  <2>1. ASSUME NEW force \in BOOLEAN, NEW rollback \in BOOLEAN,
               PushByHand(a, force, rollback)
        PROVE  AgentUpdateTypeOK'
    BY <2>1 DEF PushByHand, Push
  <2>2. CASE NoDownloadBase(a)
    BY <2>2 DEF NoDownloadBase, AskerLeaves, NotAsking, AutoPush, Push
  <2>3. CASE LookAtHost(a)
    BY <2>3 DEF LookAtHost, AutoPush, Push
  <2>4. CASE ReleaseCaughtUp(a)
    BY <2>4 DEF ReleaseCaughtUp, AskerLeaves, NotAsking, NoStreak, AutoPush, Push
  <2>5. CASE PassStreakGate(a) \/ PassPendingGate(a) \/ MarkOrSoftRetry(a)
    BY <2>5 DEF PassStreakGate, PassPendingGate, MarkOrSoftRetry, AskerMoves
  <2>6. CASE GateRefuses(a)
    BY <2>6 DEF GateRefuses, NotAsking, AutoPush, Push
  <2>7. CASE CreateJob(a)
    <3>1. asker[a].push \in Push
      OBVIOUS
    <3>2. [NoJob EXCEPT !.push = asker[a].push, !.status = "open", !.row = "pending",
                        !.at = "queued"] \in UpdateJob
      BY <3>1, NoJobTyped DEF UpdateJob
    <3>3. job' \in [Jobs -> UpdateJob]
      BY <2>7, <3>2 DEF CreateJob
    <3>4. asker' \in [Askers -> [stage : {"idle", "caughtUp", "behind", "counted", "free",
                                         "marked"},
                                push : Push]]
      BY <2>7 DEF CreateJob, AskerLeaves, NotAsking, AutoPush, Push
    <3> QED BY <2>7, <3>3, <3>4 DEF CreateJob
  <2> QED BY <1>1, <2>1, <2>2, <2>3, <2>4, <2>5, <2>6, <2>7 DEF AskUpdate
<1>2. ASSUME NEW j \in Jobs, UpdateWork(j) PROVE AgentUpdateTypeOK'
  <2> USE DEF WorkAt, UpdateJob
  <2>1. CASE SkipUpdate(j) \/ BeginUpdate(j)
    <3>1. CASE SkipUpdate(j)
      BY <3>1 DEF SkipUpdate
    <3>2. CASE BeginUpdate(j)
      BY <3>2 DEF BeginUpdate, FirstMethod
    <3> QED BY <2>1, <3>1, <3>2
  <2>2. ASSUME NEW verify \in BOOLEAN, CommandOk(j, verify) PROVE AgentUpdateTypeOK'
    BY <2>2 DEF CommandOk, NoStreak
  <2>3. CASE FallBack(j) \/ RetryCommand(j)
    <3>1. CASE FallBack(j)
      BY <3>1 DEF FallBack
    <3>2. CASE RetryCommand(j)
      <4> DEFINE try == job[j].try + 1
                 method == FirstMethod(j)
                 new == [job[j] EXCEPT !.try = try, !.method = method]
      <4>1. try \in 0..MaxRetries
        BY <3>2 DEF RetryCommand
      <4>2. method \in {"module", "script", "rollback"}
        BY DEF FirstMethod
      <4>3. job' = [job EXCEPT ![j] = new] /\ UNCHANGED <<machine, version, mark, asker, streak>>
        BY <3>2 DEF RetryCommand
      <4> HIDE DEF try, method
      <4>4. new \in UpdateJob
        <5>1. job[j] \in UpdateJob
          OBVIOUS
        <5> QED
          BY ONLY <4>1, <4>2, <5>1 DEF UpdateJob
      <4> HIDE DEF UpdateJob, new
      <4> QED
        BY <4>3, <4>4
    <3> QED BY <2>3, <3>1, <3>2
  <2>4. ASSUME NEW r \in Reasons,
               CommandFailed(j, r) \/ MarkVerifyFailed(j, r) \/ MarkDegraded(j, r)
        PROVE  AgentUpdateTypeOK'
    <3>1. CASE CommandFailed(j, r)
      BY <2>4, <3>1 DEF CommandFailed
    <3>2. CASE MarkVerifyFailed(j, r)
      <4>1. CASE job[j].method = "script-rescue"
        BY <2>4, <3>2, <4>1 DEF MarkVerifyFailed
      <4>2. CASE job[j].method # "script-rescue" /\ job[j].status = "forgotten"
        BY <2>4, <3>2, <4>2 DEF MarkVerifyFailed
      <4>3. CASE job[j].method # "script-rescue" /\ job[j].status # "forgotten"
        BY <2>4, <3>2, <4>3 DEF MarkVerifyFailed
      <4> QED BY <4>1, <4>2, <4>3
    <3>3. CASE MarkDegraded(j, r)
      <4> DEFINE row == IF job[j].status = "forgotten" THEN job[j].row ELSE "failed"
                 new == [job[j] EXCEPT !.row = row, !.why = r, !.at = "note", !.next = "over"]
      <4>1. row \in {"none", "pending", "running", "pending_verify",
                     "success", "failed", "skipped"}
        OBVIOUS
      <4>2. job' = [job EXCEPT ![j] = new] /\ UNCHANGED <<machine, version, mark, asker, streak>>
        BY <3>3 DEF MarkDegraded
      <4> HIDE DEF row
      <4>3. new \in UpdateJob
        <5>1. job[j] \in UpdateJob /\ r \in Reasons
          BY <2>4
        <5> QED
          BY ONLY <4>1, <5>1 DEF UpdateJob
      <4> HIDE DEF UpdateJob, new
      <4> QED
        BY <4>2, <4>3
    <3> QED BY <2>4, <3>1, <3>2, <3>3
  <2>5. CASE NoteFailure(j)
    <3>1. streak' \in [why : Reasons \cup {NoReason}, count : Nat]
      <4>1. streak.count \in Nat /\ job[j].why \in Reasons \cup {NoReason}
        OBVIOUS
      <4>2. CASE streak.why = job[j].why
        BY <2>5, <4>1, <4>2 DEF NoteFailure
      <4>3. CASE streak.why # job[j].why
        BY <2>5, <4>1, <4>3 DEF NoteFailure
      <4> QED BY <4>2, <4>3
    <3>2. job' \in [Jobs -> UpdateJob]
      <4>1. job[j].next \in {"none", "finish", "clear", "over"} /\ job[j] \in UpdateJob
        OBVIOUS
      <4>2. [job[j] EXCEPT !.at = job[j].next, !.next = "none", !.why = NoReason] \in UpdateJob
        <5>1. CASE job[j].next = "none"
          BY <4>1, <5>1
        <5>2. CASE job[j].next = "finish"
          BY <4>1, <5>2
        <5>3. CASE job[j].next = "clear"
          BY <4>1, <5>3
        <5>4. CASE job[j].next = "over"
          BY <4>1, <5>4
        <5> QED BY <4>1, <5>1, <5>2, <5>3, <5>4
      <4>3. job' = [job EXCEPT ![j] = [job[j] EXCEPT !.at = job[j].next, !.next = "none",
                                                     !.why = NoReason]]
        BY <2>5 DEF NoteFailure
      <4> QED BY <4>2, <4>3
    <3> QED BY <2>5, <3>1, <3>2 DEF NoteFailure
  <2>6. CASE FinishHostInFlight(j) \/ RollbackAccepted(j) \/ VersionAck(j) \/ VerifyExpires(j)
    <3>1. CASE FinishHostInFlight(j)
      BY <3>1 DEF FinishHostInFlight
    <3>2. CASE RollbackAccepted(j)
      BY <3>2 DEF RollbackAccepted
    <3>3. CASE VersionAck(j)
      BY <3>3 DEF VersionAck
    <3>4. CASE VerifyExpires(j)
      BY <3>4 DEF VerifyExpires
    <3> QED BY <2>6, <3>1, <3>2, <3>3, <3>4
  <2>7. CASE Rescue(j) \/ RescueAnswered(j) \/ RescueExpires(j)
    <3>1. CASE Rescue(j)
      BY <3>1 DEF Rescue
    <3>2. CASE RescueAnswered(j)
      BY <3>2 DEF RescueAnswered
    <3>3. CASE RescueExpires(j)
      BY <3>3 DEF RescueExpires
    <3> QED BY <2>7, <3>1, <3>2, <3>3
  <2>8. CASE MarkVerified(j) \/ ClearInFlight(j)
    <3>1. CASE MarkVerified(j)
      <4>1. job' \in [Jobs -> UpdateJob]
        <5>1. CASE job[j].status = "forgotten"
          BY <3>1, <5>1 DEF MarkVerified
        <5>2. CASE job[j].status # "forgotten"
          BY <3>1, <5>2 DEF MarkVerified
        <5> QED BY <5>1, <5>2
      <4>2. streak' \in [why : Reasons \cup {NoReason}, count : Nat]
        BY <3>1 DEF MarkVerified, NoStreak
      <4> QED
        BY <3>1, <4>1, <4>2 DEF MarkVerified
    <3>2. CASE ClearInFlight(j)
      BY <3>2 DEF ClearInFlight
    <3> QED BY <2>8, <3>1, <3>2
  <2> QED BY <1>2, <2>1, <2>2, <2>3, <2>4, <2>5, <2>6, <2>7, <2>8 DEF UpdateWork
<1>3. ASSUME NEW j \in Jobs, FinalizeJob(j) \/ Evict(j) PROVE AgentUpdateTypeOK'
  <2>1. CASE FinalizeJob(j)
    BY <2>1 DEF FinalizeJob, UpdateJob
  <2>2. CASE Evict(j)
    BY <2>2 DEF Evict, UpdateJob
  <2> QED BY <1>3, <2>1, <2>2
<1>4. CASE TouchInFlight \/ MarkAges
  BY <1>4 DEF TouchInFlight, MarkAges
<1>5. ASSUME NEW v \in {"behind", "target"}, Reports(v) PROVE AgentUpdateTypeOK'
  BY <1>5 DEF Reports
<1>6. CASE UNCHANGED auVars
  BY <1>6 DEF auVars
<1> QED BY <1>1, <1>2, <1>3, <1>4, <1>5, <1>6 DEF AgentUpdateNext

\* Whatever handlers, reports and goroutines do: rows, jobs, marks and the streak of
\* failures keep their types.
THEOREM UpdatesTyped == AgentUpdateSpec => []AgentUpdateTypeOK
  BY UpdateTypesInit, UpdateTypesStep, PTL DEF AgentUpdateSpec

-----------------------------------------------------------------------------

\* What the goroutines of jobs and the askers have in hand hangs together.
InHand ==
  /\ \A j \in Jobs :
       /\ job[j].status = "none" => job[j].at = "none" /\ job[j].method = "none"
       /\ job[j].status # "none" => machine.module \/ machine.base
       /\ job[j].push.auto => job[j].push = AutoPush
       /\ job[j].method = "rollback" => job[j].push.rollback
       /\ job[j].at = "note" => job[j].next # "none"
  /\ \A a \in Askers :
       /\ asker[a].push.auto => asker[a].push = AutoPush
       /\ asker[a].stage \in {"caughtUp", "behind", "counted", "free"} => asker[a].push.auto

LEMMA InHandInit == AgentUpdateInit => InHand
<1> SUFFICES ASSUME AgentUpdateInit PROVE InHand
  OBVIOUS
<1>1. ASSUME NEW j \in Jobs
      PROVE  /\ job[j].status = "none" /\ job[j].at = "none" /\ job[j].method = "none"
             /\ job[j].push = AutoPush
  BY DEF AgentUpdateInit, NoJob
<1>2. ASSUME NEW a \in Askers PROVE asker[a].push = AutoPush /\ asker[a].stage = "idle"
  BY DEF AgentUpdateInit, NotAsking
<1> QED BY <1>1, <1>2 DEF InHand

\* A step of j's goroutine, which is on its way, that touches nothing but its job.
LEMMA InHandKept ==
  ASSUME InHand, NEW j \in Jobs, UNCHANGED <<machine, asker>>,
         job[j].at # "none",
         \A i \in Jobs \ {j} : job'[i] = job[i],
         job'[j].push = job[j].push, job'[j].status = job[j].status,
         job'[j].method = "rollback" => job[j].push.rollback,
         job'[j].at = "note" => job'[j].next # "none"
  PROVE  InHand'
BY DEF InHand

\* What a failed attempt leaves of its job, and what counting the failure leaves.
LEMMA FailsTo ==
  ASSUME AgentUpdateTypeOK, NEW j \in Jobs, NEW r \in Reasons,
         CommandFailed(j, r) \/ MarkDegraded(j, r)
  PROVE  /\ \A i \in Jobs \ {j} : job'[i] = job[i]
         /\ job'[j].push = job[j].push
         /\ job'[j].status = job[j].status /\ job'[j].method = job[j].method
         /\ job'[j].at = "note"
         /\ IF CommandFailed(j, r)
              THEN job[j].at = "sent" /\ job'[j].next = "finish"
              ELSE job[j].at = "verdict" /\ job'[j].next = "over"
         /\ UNCHANGED <<machine, version, mark, asker>>
<1>1. job \in [Jobs -> UpdateJob]
  BY DEF AgentUpdateTypeOK
<1> HIDE DEF AgentUpdateTypeOK
<1>2. CASE CommandFailed(j, r)
  BY ONLY <1>1, <1>2, j \in Jobs DEF CommandFailed, WorkAt, UpdateJob
<1>3. CASE ~CommandFailed(j, r) /\ MarkDegraded(j, r)
  BY ONLY <1>1, <1>3, j \in Jobs DEF MarkDegraded, WorkAt, UpdateJob
<1> QED
  BY <1>2, <1>3

LEMMA NotesTo ==
  ASSUME AgentUpdateTypeOK, NEW j \in Jobs, NoteFailure(j)
  PROVE  /\ \A i \in Jobs \ {j} : job'[i] = job[i]
         /\ job'[j].push = job[j].push
         /\ job'[j].status = job[j].status /\ job'[j].method = job[j].method
         /\ job'[j].at = job[j].next /\ job'[j].at # "note"
         /\ job[j].at = "note" /\ job[j].next \in {"none", "finish", "clear", "over"}
         /\ UNCHANGED <<machine, version, mark, asker>>
<1>1. job \in [Jobs -> UpdateJob]
  BY DEF AgentUpdateTypeOK
<1> QED
  BY ONLY <1>1, NoteFailure(j), j \in Jobs DEF NoteFailure, WorkAt, UpdateJob

LEMMA InHandStep == AgentUpdateTypeOK /\ InHand /\ [AgentUpdateNext]_auVars => InHand'
<1> SUFFICES ASSUME AgentUpdateTypeOK, InHand, [AgentUpdateNext]_auVars PROVE InHand'
  OBVIOUS
<1> USE DEF AgentUpdateTypeOK, InHand
<1>1. ASSUME NEW a \in Askers, AskUpdate(a) PROVE InHand'
  <2>1. ASSUME NEW force \in BOOLEAN, NEW rollback \in BOOLEAN,
               PushByHand(a, force, rollback)
        PROVE  InHand'
    BY <2>1 DEF PushByHand
  <2>2. CASE NoDownloadBase(a)
    BY <2>2 DEF NoDownloadBase, AskerLeaves, NotAsking, AutoPush
  <2>3. CASE LookAtHost(a)
    BY <2>3 DEF LookAtHost, AutoPush
  <2>4. CASE ReleaseCaughtUp(a)
    BY <2>4 DEF ReleaseCaughtUp, AskerLeaves, NotAsking, AutoPush
  <2>5. CASE PassStreakGate(a) \/ PassPendingGate(a) \/ MarkOrSoftRetry(a)
    BY <2>5 DEF PassStreakGate, PassPendingGate, MarkOrSoftRetry, AskerMoves
  <2>6. CASE GateRefuses(a)
    BY <2>6 DEF GateRefuses, NotAsking, AutoPush
  <2>7. CASE CreateJob(a)
    <3>1. PICK j \in Jobs :
            job' = [job EXCEPT ![j] = [NoJob EXCEPT !.push = asker[a].push, !.status = "open",
                                                    !.row = "pending", !.at = "queued"]]
      BY <2>7 DEF CreateJob
    <3>2. /\ job'[j].status = "open" /\ job'[j].at = "queued" /\ job'[j].method = "none"
          /\ job'[j].push = asker[a].push
      BY <3>1 DEF NoJob
    <3>3. \A i \in Jobs \ {j} : job'[i] = job[i]
      BY <3>1
    <3>4. asker' = [asker EXCEPT ![a] = NotAsking] /\ UNCHANGED machine
          /\ (machine.module \/ machine.base)
      BY <2>7 DEF CreateJob, AskerLeaves
    <3> QED BY <3>2, <3>3, <3>4 DEF NotAsking, AutoPush
  <2> QED BY <1>1, <2>1, <2>2, <2>3, <2>4, <2>5, <2>6, <2>7 DEF AskUpdate
<1>2. ASSUME NEW j \in Jobs, UpdateWork(j) PROVE InHand'
  <2> USE DEF WorkAt, UpdateJob
  <2>0. /\ job[j].method = "rollback" => job[j].push.rollback
        /\ job[j].at = "note" => job[j].next # "none"
    OBVIOUS
  <2> HIDE DEF InHand
  <2>1. CASE SkipUpdate(j)
    BY <2>0, <2>1, InHandKept DEF SkipUpdate
  <2>2. CASE BeginUpdate(j)
    BY <2>0, <2>2, InHandKept DEF BeginUpdate, FirstMethod
  <2>3. CASE FallBack(j)
    BY <2>0, <2>3, InHandKept DEF FallBack
  <2>4. CASE RetryCommand(j)
    BY <2>0, <2>4, InHandKept DEF RetryCommand, FirstMethod
  <2>5. CASE NoteFailure(j)
    BY <2>0, <2>5, NotesTo, InHandKept
  <2>6. CASE FinishHostInFlight(j)
    <3>1. CASE job[j].row = "pending_verify"
      BY <2>0, <2>6, <3>1, InHandKept DEF FinishHostInFlight
    <3>2. CASE job[j].row # "pending_verify"
      BY <2>0, <2>6, <3>2, InHandKept DEF FinishHostInFlight
    <3> QED BY <3>1, <3>2
  <2>7. CASE RollbackAccepted(j)
    BY <2>0, <2>7, InHandKept DEF RollbackAccepted
  <2>8. CASE VersionAck(j)
    BY <2>0, <2>8, InHandKept DEF VersionAck
  <2>9. CASE VerifyExpires(j)
    BY <2>0, <2>9, InHandKept DEF VerifyExpires
  <2>10. CASE Rescue(j)
    BY <2>0, <2>10, InHandKept DEF Rescue
  <2>11. CASE RescueAnswered(j)
    BY <2>0, <2>11, InHandKept DEF RescueAnswered
  <2>12. CASE RescueExpires(j)
    BY <2>0, <2>12, InHandKept DEF RescueExpires
  <2>13. CASE MarkVerified(j)
    BY <2>0, <2>13, InHandKept DEF MarkVerified
  <2>14. CASE ClearInFlight(j)
    BY <2>0, <2>14, InHandKept DEF ClearInFlight
  <2>15. ASSUME NEW verify \in BOOLEAN, CommandOk(j, verify) PROVE InHand'
    BY <2>0, <2>15, InHandKept DEF CommandOk
  <2>16. ASSUME NEW r \in Reasons, CommandFailed(j, r) PROVE InHand'
    BY <2>0, <2>16, FailsTo, InHandKept
  <2>17. ASSUME NEW r \in Reasons, MarkDegraded(j, r) PROVE InHand'
    BY <2>0, <2>17, FailsTo, InHandKept
  <2>18. ASSUME NEW r \in Reasons, MarkVerifyFailed(j, r) PROVE InHand'
    <3>1. CASE job[j].method = "script-rescue"
      BY <2>0, <2>18, <3>1, InHandKept DEF MarkVerifyFailed
    <3>2. CASE job[j].method # "script-rescue" /\ job[j].status = "forgotten"
      BY <2>0, <2>18, <3>2, InHandKept DEF MarkVerifyFailed
    <3>3. CASE job[j].method # "script-rescue" /\ job[j].status # "forgotten"
      BY <2>0, <2>18, <3>3, InHandKept DEF MarkVerifyFailed
    <3> QED BY <3>1, <3>2, <3>3
  <2> QED BY <1>2, <2>1, <2>2, <2>3, <2>4, <2>5, <2>6, <2>7, <2>8, <2>9,
             <2>10, <2>11, <2>12, <2>13, <2>14, <2>15, <2>16, <2>17, <2>18 DEF UpdateWork
<1>3. ASSUME NEW j \in Jobs, FinalizeJob(j) \/ Evict(j) PROVE InHand'
  <2>1. CASE FinalizeJob(j)
    BY <2>1 DEF FinalizeJob, UpdateJob
  <2>2. CASE Evict(j)
    BY <2>2 DEF Evict, UpdateJob
  <2> QED BY <1>3, <2>1, <2>2
<1>4. CASE TouchInFlight \/ MarkAges
  BY <1>4 DEF TouchInFlight, MarkAges
<1>5. ASSUME NEW v \in {"behind", "target"}, Reports(v) PROVE InHand'
  BY <1>5 DEF Reports
<1>6. CASE UNCHANGED auVars
  BY <1>6 DEF auVars
<1> QED BY <1>1, <1>2, <1>3, <1>4, <1>5, <1>6 DEF AgentUpdateNext
-----------------------------------------------------------------------------

\* A job that is to take the mark away.
Owes(j) ==
  \/ job[j].at \notin {"none", "verdict", "note", "over"}
  \/ job[j].at = "note" /\ job[j].next # "over"

\* A step of j's goroutine that leaves the mark alone and keeps j in debt, or is that
\* of a job without one, keeps an owner.
LEMMA OwnerKept ==
  ASSUME AgentUpdateTypeOK, MarkHasOwner, NEW j \in Jobs,
         mark' = mark, asker' = asker,
         \A i \in Jobs \ {j} : job'[i] = job[i],
         Owes(j) => Owes(j)'
  PROVE  MarkHasOwner'
<1> SUFFICES ASSUME mark' # "none"
             PROVE  \/ \E a \in Askers : asker'[a].stage = "marked"
                    \/ \E i \in Jobs : Owes(i)'
  BY DEF MarkHasOwner, Owes
<1>1. CASE \E a \in Askers : asker[a].stage = "marked"
  BY <1>1
<1>2. ASSUME NEW i \in Jobs, Owes(i) PROVE Owes(i)'
  BY <1>2 DEF Owes
<1> QED BY <1>1, <1>2 DEF MarkHasOwner, Owes

LEMMA OwnerStep ==
  AgentUpdateTypeOK /\ InHand /\ MarkHasOwner /\ [AgentUpdateNext]_auVars => MarkHasOwner'
<1> SUFFICES ASSUME AgentUpdateTypeOK, InHand, MarkHasOwner, [AgentUpdateNext]_auVars
             PROVE  MarkHasOwner'
  OBVIOUS
<1> USE DEF AgentUpdateTypeOK
<1>1. ASSUME NEW a \in Askers, AskUpdate(a) PROVE MarkHasOwner'
  <2>1. ASSUME NEW force \in BOOLEAN, NEW rollback \in BOOLEAN,
               PushByHand(a, force, rollback)
        PROVE  MarkHasOwner'
    BY <2>1 DEF PushByHand, MarkHasOwner
  <2>2. CASE NoDownloadBase(a) \/ ReleaseCaughtUp(a)
    BY <2>2 DEF NoDownloadBase, ReleaseCaughtUp, MarkHasOwner
  <2>3. CASE LookAtHost(a)
    BY <2>3 DEF LookAtHost, MarkHasOwner
  <2>4. CASE PassStreakGate(a) \/ PassPendingGate(a)
    BY <2>4 DEF PassStreakGate, PassPendingGate, AskerMoves, MarkHasOwner
  <2>5. CASE MarkOrSoftRetry(a)
    BY <2>5 DEF MarkOrSoftRetry, AskerMoves, MarkHasOwner
  <2>6. CASE GateRefuses(a)
    BY <2>6 DEF GateRefuses, MarkHasOwner
  <2>7. CASE CreateJob(a)
    <3>1. PICK j \in Jobs :
            job' = [job EXCEPT ![j] = [NoJob EXCEPT !.push = asker[a].push, !.status = "open",
                                                    !.row = "pending", !.at = "queued"]]
      BY <2>7 DEF CreateJob
    <3>2. job'[j].at = "queued"
      BY <3>1 DEF NoJob
    <3> QED BY <3>2 DEF MarkHasOwner
  <2> QED BY <1>1, <2>1, <2>2, <2>3, <2>4, <2>5, <2>6, <2>7 DEF AskUpdate
<1>2. ASSUME NEW j \in Jobs, UpdateWork(j) PROVE MarkHasOwner'
  <2> USE DEF WorkAt, Owes
  <2>1. CASE SkipUpdate(j) \/ BeginUpdate(j) \/ FallBack(j) \/ RetryCommand(j)
    BY <2>1, OwnerKept DEF SkipUpdate, BeginUpdate, FallBack, RetryCommand, UpdateJob
  <2>2. ASSUME NEW verify \in BOOLEAN, CommandOk(j, verify) PROVE MarkHasOwner'
    BY <2>2, OwnerKept DEF CommandOk, UpdateJob
  <2>3. ASSUME NEW r \in Reasons, CommandFailed(j, r) PROVE MarkHasOwner'
    BY <2>3, FailsTo, OwnerKept
  <2>4. ASSUME NEW r \in Reasons, MarkVerifyFailed(j, r) PROVE MarkHasOwner'
    <3>1. CASE job[j].method = "script-rescue"
      BY <2>4, <3>1, OwnerKept DEF MarkVerifyFailed, UpdateJob
    <3>2. CASE job[j].method # "script-rescue" /\ job[j].status = "forgotten"
      BY <2>4, <3>2, OwnerKept DEF MarkVerifyFailed, UpdateJob
    <3>3. CASE job[j].method # "script-rescue" /\ job[j].status # "forgotten"
      BY <2>4, <3>3, OwnerKept DEF MarkVerifyFailed, UpdateJob
    <3> QED BY <3>1, <3>2, <3>3
  <2>5. ASSUME NEW r \in Reasons, MarkDegraded(j, r) PROVE MarkHasOwner'
    BY <2>5, OwnerKept DEF MarkDegraded, UpdateJob
  <2>6. CASE NoteFailure(j)
    BY <2>6, NotesTo, OwnerKept DEF InHand
  <2>7. CASE FinishHostInFlight(j)
    BY <2>7 DEF FinishHostInFlight, MarkHasOwner, UpdateJob
  <2>8. CASE RollbackAccepted(j) \/ VerifyExpires(j)
    BY <2>8, OwnerKept DEF RollbackAccepted, VerifyExpires, UpdateJob
  <2>9. CASE VersionAck(j) \/ ClearInFlight(j)
    BY <2>9 DEF VersionAck, ClearInFlight, MarkHasOwner
  <2>10. CASE Rescue(j) \/ RescueAnswered(j) \/ RescueExpires(j)
    BY <2>10, OwnerKept DEF Rescue, RescueAnswered, RescueExpires, UpdateJob
  <2>11. CASE MarkVerified(j)
    BY <2>11, OwnerKept DEF MarkVerified, UpdateJob
  <2> QED BY <1>2, <2>1, <2>2, <2>3, <2>4, <2>5, <2>6, <2>7, <2>8, <2>9, <2>10, <2>11
          DEF UpdateWork
<1>3. ASSUME NEW j \in Jobs, FinalizeJob(j) \/ Evict(j) PROVE MarkHasOwner'
  BY <1>3, OwnerKept DEF FinalizeJob, Evict, UpdateJob, Owes
<1>4. CASE TouchInFlight \/ MarkAges
  BY <1>4 DEF TouchInFlight, MarkAges, MarkHasOwner
<1>5. ASSUME NEW v \in {"behind", "target"}, Reports(v) PROVE MarkHasOwner'
  BY <1>5 DEF Reports, MarkHasOwner
<1>6. CASE UNCHANGED auVars
  BY <1>6 DEF auVars, MarkHasOwner
<1> QED BY <1>1, <1>2, <1>3, <1>4, <1>5, <1>6 DEF AgentUpdateNext

\* Whenever the host is marked, somebody is left who takes the mark away: an asker
\* between marking it and creating its job, or a goroutine on its way to
\* clearInFlight.
THEOREM MarksAreOwned == AgentUpdateSpec => []MarkHasOwner
<1>1. AgentUpdateInit => MarkHasOwner
  BY DEF AgentUpdateInit, MarkHasOwner
<1> QED BY <1>1, UpdateTypesInit, UpdateTypesStep, InHandInit, InHandStep, OwnerStep, PTL
        DEF AgentUpdateSpec
-----------------------------------------------------------------------------

AllAuto == \A j \in Jobs : job[j].status # "none" => job[j].push.auto

\* As long as the version is behind, one asker or one goroutine at most has the host,
\* and its mark does not age.
OneHasTheHost ==
  /\ \A a, b \in Askers : asker[a].stage = "marked" /\ asker[b].stage = "marked" => a = b
  /\ \A i, j \in Jobs : Owes(i) /\ Owes(j) => i = j
  /\ \A a \in Askers, j \in Jobs : ~(asker[a].stage = "marked" /\ Owes(j))
  /\ \A a \in Askers : asker[a].stage = "marked" => mark = "fresh"
  /\ \A j \in Jobs : Owes(j) => mark = "fresh"

Turns ==
  AllAuto =>
    /\ \A a \in Askers : asker[a].stage = "caughtUp" => version = "target"
    /\ \A i, j \in CommandsOut : i = j
    /\ version = "behind" => OneHasTheHost

\* A step of a goroutine that leaves mark, askers and version alone, and sends nothing
\* but while the version is behind and it has the host.
LEMMA TurnsKept ==
  ASSUME AgentUpdateTypeOK, Turns, NEW j \in Jobs,
         mark' = mark, asker' = asker, version' = version,
         \A i \in Jobs \ {j} : job'[i] = job[i],
         job'[j].push = job[j].push,
         job[j].status # "none" => job'[j].status # "none",
         Owes(j)' => Owes(j),
         AllAuto /\ j \in CommandsOut' =>
           j \in CommandsOut \/ (version = "behind" /\ Owes(j))
  PROVE  Turns'
<1>1. AllAuto' => AllAuto
  BY DEF AllAuto
<1>2. AllAuto => \A a \in Askers : asker'[a].stage = "caughtUp" => version' = "target"
  BY DEF Turns
<1>3. \A i \in Jobs : Owes(i)' => Owes(i)
  BY DEF Owes
<1>4. AllAuto => (version' = "behind" => OneHasTheHost')
  BY <1>3 DEF Turns, OneHasTheHost
<1>5. \A i \in CommandsOut' : i = j \/ i \in CommandsOut
  BY DEF CommandsOut
<1>6. \A i \in CommandsOut : i \in Jobs /\ Owes(i)
  BY DEF CommandsOut, Owes
<1>7. AllAuto => \A i, k \in CommandsOut' : i = k
  BY <1>5, <1>6 DEF Turns, OneHasTheHost
<1> QED BY <1>1, <1>2, <1>4, <1>7 DEF Turns

\* A step of an asker, which sends nothing.
LEMMA TurnsKeptAsking ==
  ASSUME AgentUpdateTypeOK, InHand, Turns,
         version' = version, job' = job,
         AllAuto => \A a \in Askers : asker'[a].stage = "caughtUp" => version = "target",
         AllAuto /\ version = "behind" => OneHasTheHost'
  PROVE  Turns'
  BY DEF Turns, AllAuto, CommandsOut

LEMMA TurnsStep ==
  AgentUpdateTypeOK /\ InHand /\ Turns /\ [AgentUpdateNext]_auVars => Turns'
<1> SUFFICES ASSUME AgentUpdateTypeOK, InHand, Turns, [AgentUpdateNext]_auVars PROVE Turns'
  OBVIOUS
<1> USE DEF AgentUpdateTypeOK
<1>1. ASSUME NEW a \in Askers, AskUpdate(a) PROVE Turns'
  <2>1. ASSUME NEW force \in BOOLEAN, NEW rollback \in BOOLEAN,
               PushByHand(a, force, rollback)
        PROVE  Turns'
    BY <2>1, TurnsKeptAsking DEF PushByHand, Turns, OneHasTheHost, Owes
  <2>2. CASE NoDownloadBase(a)
    <3>1. \A j \in Jobs : ~Owes(j)
      BY <2>2 DEF NoDownloadBase, InHand, Owes
    <3>2. /\ UNCHANGED <<version, job>>
          /\ asker[a].stage = "marked" /\ asker' = [asker EXCEPT ![a] = NotAsking]
      BY <2>2 DEF NoDownloadBase, AskerLeaves
    <3>3. AllAuto /\ version = "behind" => \A b \in Askers : asker'[b].stage # "marked"
      BY <3>2 DEF NotAsking, Turns, OneHasTheHost
    <3>4. AllAuto /\ version = "behind" => OneHasTheHost'
      BY <3>1, <3>2, <3>3 DEF OneHasTheHost, Owes
    <3>5. AllAuto => \A b \in Askers : asker'[b].stage = "caughtUp" => version = "target"
      BY <3>2 DEF NotAsking, Turns
    <3> QED BY <3>2, <3>4, <3>5, TurnsKeptAsking
  <2>3. CASE LookAtHost(a)
    BY <2>3, TurnsKeptAsking DEF LookAtHost, Turns, OneHasTheHost, Owes
  <2>4. CASE ReleaseCaughtUp(a)
    BY <2>4, TurnsKeptAsking DEF ReleaseCaughtUp, AskerLeaves, NotAsking, Turns, OneHasTheHost
  <2>5. CASE PassStreakGate(a) \/ PassPendingGate(a)
    <3>1. CASE PassStreakGate(a)
      BY <3>1, TurnsKeptAsking DEF PassStreakGate, AskerMoves, Turns, OneHasTheHost, Owes
    <3>2. CASE PassPendingGate(a)
      BY <3>2, TurnsKeptAsking DEF PassPendingGate, AskerMoves, Turns, OneHasTheHost, Owes
    <3> QED BY <2>5, <3>1, <3>2
  <2>6. CASE MarkOrSoftRetry(a)
    BY <2>6, TurnsKeptAsking DEF MarkOrSoftRetry, AskerMoves, Turns, OneHasTheHost, Owes
  <2>7. CASE GateRefuses(a)
    BY <2>7, TurnsKeptAsking DEF GateRefuses, NotAsking, Turns, OneHasTheHost, Owes
  <2>8. CASE CreateJob(a)
    <3>1. PICK j \in Jobs :
            /\ job[j].status = "none"
            /\ job' = [job EXCEPT ![j] = [NoJob EXCEPT !.push = asker[a].push,
                                                       !.status = "open", !.row = "pending",
                                                       !.at = "queued"]]
      BY <2>8 DEF CreateJob, NextJob
    <3>2. job'[j].at = "queued" /\ \A i \in Jobs \ {j} : job'[i] = job[i]
      BY <3>1 DEF NoJob
    <3>3. /\ asker[a].stage = "marked" /\ asker'[a].stage = "idle"
          /\ \A b \in Askers \ {a} : asker'[b] = asker[b]
          /\ mark' = mark /\ version' = version
      BY <2>8 DEF CreateJob, AskerLeaves, NotAsking
    <3>4. AllAuto' => AllAuto
      BY <3>1, <3>2 DEF AllAuto
    <3>5. CommandsOut' \subseteq CommandsOut
      BY <3>2 DEF CommandsOut
    <3>6. AllAuto /\ version = "behind" => OneHasTheHost'
      BY <3>2, <3>3 DEF Turns, OneHasTheHost, Owes
    <3>7. \A b \in Askers : asker'[b].stage = "caughtUp" => asker[b].stage = "caughtUp"
      BY <3>3
    <3> QED BY <3>3, <3>4, <3>5, <3>6, <3>7 DEF Turns
  <2> QED BY <1>1, <2>1, <2>2, <2>3, <2>4, <2>5, <2>6, <2>7, <2>8 DEF AskUpdate
<1>2. ASSUME NEW j \in Jobs, UpdateWork(j) PROVE Turns'
  <2> USE DEF WorkAt, Owes, UpdateJob
  <2>1. CASE SkipUpdate(j)
    BY <2>1, TurnsKept DEF SkipUpdate, CommandsOut
  <2>2. CASE BeginUpdate(j)
    <3>1. AllAuto => version = "behind"
      BY <2>2 DEF BeginUpdate, AllAuto, UpToDate, InHand, AutoPush
    <3> QED BY <2>2, <3>1, TurnsKept DEF BeginUpdate, CommandsOut
  <2>3. CASE FallBack(j) \/ RetryCommand(j)
    <3>1. CASE FallBack(j)
      BY <3>1, TurnsKept DEF FallBack, CommandsOut
    <3>2. CASE RetryCommand(j)
      BY <3>2, TurnsKept DEF RetryCommand, CommandsOut
    <3> QED BY <2>3, <3>1, <3>2
  <2>4. ASSUME NEW verify \in BOOLEAN, CommandOk(j, verify) PROVE Turns'
    BY <2>4, TurnsKept DEF CommandOk, CommandsOut
  <2>5. ASSUME NEW r \in Reasons, CommandFailed(j, r) PROVE Turns'
    <3>1. /\ \A i \in Jobs \ {j} : job'[i] = job[i]
          /\ job'[j].push = job[j].push /\ job'[j].status = job[j].status
          /\ job[j].at = "sent" /\ job'[j].at = "note"
          /\ UNCHANGED <<version, mark, asker>>
      BY <2>5, FailsTo
    <3> QED BY <3>1, TurnsKept DEF CommandsOut
  <2>6. ASSUME NEW r \in Reasons, MarkVerifyFailed(j, r) PROVE Turns'
    <3>1. CASE job[j].method = "script-rescue"
      BY <2>6, <3>1, TurnsKept DEF MarkVerifyFailed, CommandsOut
    <3>2. CASE job[j].method # "script-rescue" /\ job[j].status = "forgotten"
      BY <2>6, <3>2, TurnsKept DEF MarkVerifyFailed, CommandsOut
    <3>3. CASE job[j].method # "script-rescue" /\ job[j].status # "forgotten"
      BY <2>6, <3>3, TurnsKept DEF MarkVerifyFailed, CommandsOut
    <3> QED BY <3>1, <3>2, <3>3
  <2>7. ASSUME NEW r \in Reasons, MarkDegraded(j, r) PROVE Turns'
    <3>1. /\ \A i \in Jobs \ {j} : job'[i] = job[i]
          /\ job'[j].push = job[j].push /\ job'[j].status = job[j].status
          /\ job'[j].at = "note" /\ job'[j].next = "over"
          /\ UNCHANGED <<version, mark, asker>>
      BY <2>7 DEF MarkDegraded
    <3> QED BY <3>1, TurnsKept DEF CommandsOut
  <2>8. CASE NoteFailure(j)
    BY <2>8, NotesTo, TurnsKept DEF CommandsOut, InHand
  <2>9. CASE FinishHostInFlight(j)
    <3>1. AllAuto' => AllAuto
      BY <2>9 DEF FinishHostInFlight, AllAuto
    <3>2. CommandsOut' \subseteq CommandsOut
      BY <2>9 DEF FinishHostInFlight, CommandsOut
    <3>3. AllAuto /\ version = "behind" => OneHasTheHost'
      <4>1. /\ \A i \in Jobs : Owes(i)' => Owes(i)
            /\ mark' # "fresh" => ~Owes(j)'
        BY <2>9 DEF FinishHostInFlight
      <4>2. Owes(j) /\ asker' = asker
        BY <2>9 DEF FinishHostInFlight
      <4> HIDE DEF Owes
      <4> QED BY <4>1, <4>2 DEF Turns, OneHasTheHost
    <3> QED BY <2>9, <3>1, <3>2, <3>3 DEF FinishHostInFlight, Turns
  <2>10. CASE RollbackAccepted(j) \/ VerifyExpires(j)
    <3>1. CASE RollbackAccepted(j)
      BY <3>1, TurnsKept DEF RollbackAccepted, CommandsOut
    <3>2. CASE VerifyExpires(j)
      BY <3>2, TurnsKept DEF VerifyExpires, CommandsOut
    <3> QED BY <2>10, <3>1, <3>2
  <2>11. CASE VersionAck(j)
    <3>1. AllAuto' => AllAuto
      BY <2>11 DEF VersionAck, AllAuto
    <3>2. CommandsOut' \subseteq CommandsOut
      BY <2>11 DEF VersionAck, CommandsOut
    <3> QED BY <2>11, <3>1, <3>2 DEF VersionAck, Turns
  <2>12. CASE ClearInFlight(j)
    <3>1. AllAuto' => AllAuto
      BY <2>12 DEF ClearInFlight, AllAuto
    <3>2. CommandsOut' \subseteq CommandsOut
      BY <2>12 DEF ClearInFlight, CommandsOut
    <3>3. AllAuto /\ version = "behind" => OneHasTheHost'
      BY <2>12 DEF ClearInFlight, Turns, OneHasTheHost
    <3> QED BY <2>12, <3>1, <3>2, <3>3 DEF ClearInFlight, Turns
  <2>13. CASE Rescue(j) \/ RescueAnswered(j) \/ RescueExpires(j)
    <3>1. CASE Rescue(j)
      BY <3>1, TurnsKept DEF Rescue, CommandsOut
    <3>2. CASE RescueAnswered(j)
      BY <3>2, TurnsKept DEF RescueAnswered, CommandsOut
    <3>3. CASE RescueExpires(j)
      BY <3>3, TurnsKept DEF RescueExpires, CommandsOut
    <3> QED BY <2>13, <3>1, <3>2, <3>3
  <2>14. CASE MarkVerified(j)
    BY <2>14, TurnsKept DEF MarkVerified, CommandsOut
  <2> QED BY <1>2, <2>1, <2>2, <2>3, <2>4, <2>5, <2>6, <2>7, <2>8, <2>9, <2>10, <2>11, <2>12,
             <2>13, <2>14 DEF UpdateWork
<1>3. ASSUME NEW j \in Jobs, FinalizeJob(j) \/ Evict(j) PROVE Turns'
  BY <1>3, TurnsKept DEF FinalizeJob, Evict, UpdateJob, Owes, CommandsOut
<1>4. CASE TouchInFlight
  BY <1>4 DEF TouchInFlight, Turns, AllAuto, CommandsOut, OneHasTheHost, Owes
<1>5. CASE MarkAges
  <2>1. \A a \in Askers : asker[a].stage # "marked"
    BY <1>5 DEF MarkAges, AtOnce
  <2>2. AllAuto => \A j \in Jobs : ~Owes(j)
    BY <1>5 DEF MarkAges, AtOnce, HostHeld, WorkAt, AllAuto, Owes, InHand, UpdateJob
  <2>3. AllAuto => OneHasTheHost'
    BY <1>5, <2>1, <2>2 DEF MarkAges, OneHasTheHost, Owes
  <2> QED BY <1>5, <2>3 DEF MarkAges, Turns, AllAuto, CommandsOut
<1>6. ASSUME NEW v \in {"behind", "target"}, Reports(v) PROVE Turns'
  <2>1. AllAuto => v = "target"
    BY <1>6 DEF Reports, AllAuto, InHand, AutoPush
  <2> QED BY <1>6, <2>1 DEF Reports, Turns, AllAuto, CommandsOut
<1>7. CASE UNCHANGED auVars
  BY <1>7 DEF auVars, Turns, AllAuto, CommandsOut, OneHasTheHost, Owes
<1> QED BY <1>1, <1>2, <1>3, <1>4, <1>5, <1>6, <1>7 DEF AgentUpdateNext

LEMMA TurnsTaken == AgentUpdateTypeOK /\ Turns => AutosTakeTurns
<1> SUFFICES ASSUME AgentUpdateTypeOK, Turns, AllAuto PROVE Cardinality(CommandsOut) <= 1
  BY DEF AutosTakeTurns, AllAuto
<1>1. CASE CommandsOut = {}
  BY <1>1, FS_EmptySet
<1>2. CASE CommandsOut # {}
  <2>1. PICK j \in CommandsOut : TRUE
    BY <1>2
  <2>2. CommandsOut = {j}
    BY <2>1 DEF Turns
  <2>3. Cardinality({j}) = 1
    BY FS_Singleton
  <2> QED BY <2>2, <2>3
<1> QED BY <1>1, <1>2

\* With automatic pushes alone, whatever reports, scans, retries, waits and rescues
\* do at once, no second command is sent to the host while one is out.
THEOREM AutomaticPushesTakeTurns == AgentUpdateSpec => []AutosTakeTurns
<1>1. AgentUpdateInit => Turns
  BY DEF AgentUpdateInit, Turns, CommandsOut, OneHasTheHost, Owes, NoJob, NotAsking
<1> QED BY <1>1, UpdateTypesInit, UpdateTypesStep, InHandInit, InHandStep, TurnsStep, TurnsTaken,
           PTL DEF AgentUpdateSpec

-----------------------------------------------------------------------------
(***************************************************************************)
(* The executions of a playbook.                                           *)
(***************************************************************************)

\* Executions of the right form, under numbers that they may have.
ExecutionsFit(ex) ==
  /\ DOMAIN ex \subseteq ExecIDs
  /\ \A i \in DOMAIN ex : ex[i] \in Execution

\* The same executions, as far as their status and trigger go.
SameStatuses(ex, new) ==
  /\ DOMAIN new = DOMAIN ex
  /\ \A i \in DOMAIN ex : /\ new[i].status = ex[i].status
                          /\ new[i].trigger = ex[i].trigger

\* A status that is terminal stays; another one of this execution becomes the given one.
StatusSet(ex, new, id, status) ==
  /\ DOMAIN new = DOMAIN ex
  /\ \A i \in DOMAIN ex :
       /\ new[i].status = IF i = id /\ ex[i].status \notin Terminal
                          THEN status ELSE ex[i].status
       /\ new[i].trigger = ex[i].trigger

LEMMA FinishedFits ==
  ASSUME NEW ex, ExecutionsFit(ex), NEW id, NEW status \in Terminal
  PROVE  /\ ExecutionsFit(Finished(ex, id, status))
         /\ StatusSet(ex, Finished(ex, id, status), id, status)
<1>1. ASSUME NEW i \in DOMAIN ex
      PROVE  [ex[i] EXCEPT !.status = status] \in Execution
  BY <1>1 DEF ExecutionsFit, Execution
<1> QED
  BY <1>1 DEF ExecutionsFit, StatusSet, Finished, Execution

LEMMA HostsFit ==
  ASSUME NEW e \in Execution, NEW hosts \in [Targets -> HostStatuses]
  PROVE  /\ [e EXCEPT !.hosts = hosts] \in Execution
         /\ [e EXCEPT !.hosts = hosts].status = e.status
         /\ [e EXCEPT !.hosts = hosts].trigger = e.trigger
BY DEF Execution

LEMMA HostUpdatedFits ==
  ASSUME NEW ex, ExecutionsFit(ex), NEW id, NEW h \in Targets, NEW status \in HostStatuses
  PROVE  /\ ExecutionsFit(HostUpdated(ex, id, h, status))
         /\ SameStatuses(ex, HostUpdated(ex, id, h, status))
<1>1. ASSUME NEW i \in DOMAIN ex
      PROVE  /\ [ex[i] EXCEPT !.hosts[h] = status] \in Execution
             /\ [ex[i] EXCEPT !.hosts[h] = status].status = ex[i].status
             /\ [ex[i] EXCEPT !.hosts[h] = status].trigger = ex[i].trigger
  BY <1>1 DEF ExecutionsFit, Execution
<1> QED
  BY <1>1 DEF ExecutionsFit, SameStatuses, HostUpdated

LEMMA HostsCancelledFits ==
  ASSUME NEW ex, ExecutionsFit(ex), NEW id
  PROVE  /\ ExecutionsFit(HostsCancelled(ex, id))
         /\ SameStatuses(ex, HostsCancelled(ex, id))
<1> DEFINE mapped(i) == [h \in Targets |->
             IF ex[i].hosts[h] \in {"pending", "running"} THEN "cancelled" ELSE ex[i].hosts[h]]
<1>1. ASSUME NEW i \in DOMAIN ex PROVE ex[i] \in Execution /\ mapped(i) \in [Targets -> HostStatuses]
  BY <1>1 DEF ExecutionsFit, Execution, HostStatuses
<1>2. HostsCancelled(ex, id)
        = [i \in DOMAIN ex |-> IF i # id THEN ex[i] ELSE [ex[i] EXCEPT !.hosts = mapped(i)]]
  BY DEF HostsCancelled
<1> HIDE DEF mapped
<1> QED
  BY <1>1, <1>2, HostsFit DEF ExecutionsFit, SameStatuses

LEMMA ResetsFit ==
  ASSUME NEW ex, ExecutionsFit(ex), NEW id
  PROVE  /\ ExecutionsFit(Resets(ex, id))
         /\ SameStatuses(ex, Resets(ex, id))
<1> DEFINE mapped(i) == [h \in Targets |->
             IF ex[i].hosts[h] = "cancelled" THEN ex[i].hosts[h] ELSE "pending"]
<1>1. ASSUME NEW i \in DOMAIN ex PROVE ex[i] \in Execution /\ mapped(i) \in [Targets -> HostStatuses]
  BY <1>1 DEF ExecutionsFit, Execution, HostStatuses
<1>2. Resets(ex, id)
        = [i \in DOMAIN ex |-> IF i # id \/ ex[i].status \in Terminal THEN ex[i]
                               ELSE [ex[i] EXCEPT !.hosts = mapped(i)]]
  BY DEF Resets
<1> HIDE DEF mapped
<1> QED
  BY <1>1, <1>2, HostsFit DEF ExecutionsFit, SameStatuses

\* A number is the count of those up to it.
LEMMA UpTo == ASSUME NEW n \in Nat PROVE IsFiniteSet(1..n) /\ Cardinality(1..n) = n
<1>1. 1 \in Int /\ n \in Int
  OBVIOUS
<1>2. IsFiniteSet(1..n)
  BY <1>1, FS_Interval
<1>3. Cardinality(1..n) = IF 1 > n THEN 0 ELSE n - 1 + 1
  BY <1>1, FS_Interval
<1> QED
  BY <1>2, <1>3

LEMMA NextExecIDFits ==
  ASSUME playbook \in Shapes, ExecutionsFit(executions), NextExecID <= playbook.maxExecutions
  PROVE  NextExecID \in ExecIDs
<1>1. playbook.maxExecutions \in Nat
  BY PlaybooksAssumption
<1>2. IsFiniteSet(DOMAIN executions)
  <2>1. IsFiniteSet(1..playbook.maxExecutions)
    BY <1>1, UpTo
  <2> QED
    BY <2>1, FS_Subset DEF ExecutionsFit, ExecIDs
<1> QED
  BY <1>1, <1>2, FS_CardinalityType DEF NextExecID, ExecIDs

Triggers == {"manual", "schedule"}
Beginnings == {"running", "pending_approval"}

\* One execution more, which starts with this status.
Adds(new, id, trigger, status) ==
  /\ DOMAIN new = DOMAIN executions \cup {id}
  /\ \A i \in DOMAIN executions : new[i] = executions[i]
  /\ new[id].status = status
  /\ new[id].trigger = trigger

LEMMA StartedFits ==
  ASSUME ExecutionsFit(executions), NEW id \in ExecIDs \ DOMAIN executions, NEW trigger \in Triggers,
         NEW status \in Beginnings, NEW new,
         new = Started(id, trigger, status)
  PROVE  ExecutionsFit(new) /\ Adds(new, id, trigger, status)
<1> DEFINE hosts == [h \in Targets |-> "pending"]
           e == [status |-> status, trigger |-> trigger, awaited |-> status = "pending_approval",
                 hosts |-> hosts]
<1>1. e \in Execution
  <2>1. hosts \in [Targets -> HostStatuses]
    BY DEF HostStatuses
  <2>2. (status = "pending_approval") \in BOOLEAN
    OBVIOUS
  <2> HIDE DEF hosts
  <2> QED
    BY <2>1, <2>2 DEF Execution, Triggers, Beginnings
<1>2. e.status = status /\ e.trigger = trigger
  OBVIOUS
<1>3. new = [i \in DOMAIN executions \cup {id} |-> IF i \in DOMAIN executions THEN executions[i] ELSE e]
  BY DEF Started
<1> HIDE DEF e
<1> QED
  BY <1>1, <1>2, <1>3 DEF ExecutionsFit, Adds

-----------------------------------------------------------------------------
(* What else holds between the handlers, the goroutines and the executions. *)

\* Executions are numbered from 1 on.
Numbered == DOMAIN executions = 1..Cardinality(DOMAIN executions)

\* What there is to undo are steps before the one at hand.
UndoneBefore ==
  \A r \in Runners : \A h \in Targets :
    LET w == runner[r].work[h]
    IN  w.at \in {"queued", "step"} => w.undo < w.step

Awaits(id) == id \in DOMAIN executions /\ executions[id].status = "pending_approval"

\* A goroutine that has collected its results has a verdict.
Judged == \A r \in Runners : runner[r].stage = "verdict" => runner[r].verdict \in Terminal

\* Executions await approval only if the schedule started them and nobody has begun.
WhoAwaits ==
  /\ \A i \in DOMAIN executions : Awaits(i) => executions[i].trigger = "schedule"
  /\ \A r \in Runners : runner[r].stage # "free" => /\ runner[r].id \in DOMAIN executions
                                                    /\ ~Awaits(runner[r].id)
  /\ \A o \in Operators :
       /\ hand[o].does # "nothing" => hand[o].id \in DOMAIN executions
       /\ hand[o].does = "approved" => ~Awaits(hand[o].id)
       /\ hand[o].does \in {"signal", "hosts", "finish"} /\ ~hand[o].clears
            => executions[hand[o].id].trigger = "manual"

\* While the guard of the schedule is set, there is somebody who will clear it: the
\* scheduler, whoever decides on an execution that waits, a handler that has approved
\* one and not started it yet, or a goroutine that clears the guard when it returns.
GuardHasHolder ==
  schedBusy =>
    \/ scheduler = "due"
    \/ \E i \in DOMAIN executions : Awaits(i)
    \/ \E o \in Operators : hand[o].does = "approved"
    \/ \E r \in Runners : runner[r].stage # "free" /\ runner[r].clears

PlaybookInv ==
  PlaybooksTypeOK /\ Numbered /\ UndoneBefore /\ Judged /\ WhoAwaits /\ GuardHasHolder

RunnerStates ==
  [stage : {"free", "spawned", "running", "verdict", "leaving"},
   id : 0..playbook.maxExecutions, ctx : BOOLEAN, clears : BOOLEAN,
   verdict : Terminal \cup {"none"}, work : [Targets -> HostWork]]
HandStates ==
  [does : {"nothing", "approve", "approved", "reject", "signal", "hosts", "finish"},
   id : 0..playbook.maxExecutions, clears : BOOLEAN]

\* What a step has to keep of the types, in terms of the playbook, which no step changes.
LEMMA PlaybookTypes ==
  ASSUME PlaybooksTypeOK, playbook' = playbook, ExecutionsFit(executions'),
         schedBusy' \in BOOLEAN, scheduler' \in {"idle", "due"},
         runCancel' \in [ExecIDs -> Runners \cup {NoRunner}],
         runner' \in [Runners -> RunnerStates], hand' \in [Operators -> HandStates],
         cancels' \in 0..playbook.maxCancels
  PROVE  PlaybooksTypeOK'
BY DEF PlaybooksTypeOK, ExecutionsFit, ExecIDs, Execution, Targets, RunnerStates, HandStates, HostWork

LEMMA TypesOfPlaybook ==
  ASSUME PlaybooksTypeOK
  PROVE  /\ playbook \in Shapes
         /\ ExecutionsFit(executions)
         /\ schedBusy \in BOOLEAN /\ scheduler \in {"idle", "due"}
         /\ runCancel \in [ExecIDs -> Runners \cup {NoRunner}]
         /\ runner \in [Runners -> RunnerStates]
         /\ hand \in [Operators -> HandStates]
         /\ cancels \in 0..playbook.maxCancels
BY DEF PlaybooksTypeOK, ExecutionsFit, RunnerStates, HandStates

LEMMA ShapeFacts ==
  ASSUME playbook \in Shapes
  PROVE  /\ {playbook.steps, playbook.attempts, playbook.maxExecutions} \subseteq Nat \ {0}
         /\ playbook.maxCancels \in Nat
BY PlaybooksAssumption

LEMMA FreshFits ==
  ASSUME playbook \in Shapes
  PROVE  /\ Fresh \in HostWork /\ Done \in HostWork
         /\ Fresh.at = "queued" /\ Fresh.undo < Fresh.step
         /\ Done.at = "done"
         /\ Idle \in RunnerStates
         /\ \A h \in Targets : Idle.work[h] = Fresh
<1>1. Fresh \in HostWork /\ Fresh.undo < Fresh.step
  BY ShapeFacts DEF Fresh, HostWork
<1>2. Done \in HostWork /\ Done.at = "done"
  BY <1>1 DEF Done, HostWork
<1>3. [h \in Targets |-> Fresh] \in [Targets -> HostWork]
  BY <1>1
<1>4. Idle \in RunnerStates /\ Idle.work = [h \in Targets |-> Fresh]
  BY <1>3, ShapeFacts DEF Idle, RunnerStates
<1> QED
  BY <1>1, <1>2, <1>4 DEF Fresh

LEMMA SpawnedFits ==
  ASSUME playbook \in Shapes, NEW id \in ExecIDs, NEW clears \in BOOLEAN
  PROVE  /\ Spawned(id, clears) \in RunnerStates
         /\ Spawned(id, clears).stage = "spawned"
         /\ Spawned(id, clears).id = id
         /\ Spawned(id, clears).clears = clears
         /\ Spawned(id, clears).work = Idle.work
<1>1. Idle \in RunnerStates /\ id \in 0..playbook.maxExecutions
  BY FreshFits, ShapeFacts DEF ExecIDs
<1> QED
  BY <1>1 DEF Spawned, RunnerStates

\* A goroutine that was free is started.
LEMMA SpawnFits ==
  ASSUME PlaybooksTypeOK, NEW id \in ExecIDs, NEW clears \in BOOLEAN, Spawn(id, clears)
  PROVE  \E r \in Runners :
           /\ runner[r].stage = "free"
           /\ runner' \in [Runners -> RunnerStates]
           /\ \A q \in Runners : runner'[q] = IF q = r THEN Spawned(id, clears) ELSE runner[q]
<1> DEFINE r == CHOOSE r \in FreeRunners : TRUE
<1>1. r \in Runners /\ runner[r].stage = "free"
  BY DEF Spawn, FreeRunners
<1>2. runner' = [runner EXCEPT ![r] = Spawned(id, clears)]
  BY DEF Spawn
<1> HIDE DEF r
<1>3. runner \in [Runners -> RunnerStates] /\ Spawned(id, clears) \in RunnerStates
  BY TypesOfPlaybook, SpawnedFits
<1> QED
  BY <1>1, <1>2, <1>3

\* A step keeps what concerns those who await approval if it makes none await it anew
\* and hands and goroutines get to known executions only.
LEMMA AwaitersKept ==
  ASSUME PlaybookInv, DOMAIN executions' = DOMAIN executions,
         \A i \in DOMAIN executions :
           /\ executions'[i].trigger = executions[i].trigger
           /\ executions'[i].status = "pending_approval" => executions[i].status = "pending_approval",
         \A r \in Runners : runner'[r].stage # "free" =>
           /\ runner'[r].id \in DOMAIN executions
           /\ \/ runner[r].stage # "free" /\ runner'[r].id = runner[r].id
              \/ executions[runner'[r].id].status # "pending_approval",
         \A o \in Operators :
           \/ hand'[o] = hand[o] \/ hand'[o].does = "nothing"
           \/ /\ hand'[o].id \in DOMAIN executions
              /\ hand'[o].does = "approved" => executions'[hand'[o].id].status # "pending_approval"
              /\ hand'[o].does \in {"signal", "hosts", "finish"} /\ ~hand'[o].clears
                   => executions[hand'[o].id].trigger = "manual"
  PROVE  Numbered' /\ WhoAwaits'
<1>1. Numbered'
  BY DEF PlaybookInv, Numbered
<1>2. \A i \in DOMAIN executions' : Awaits(i)' => executions'[i].trigger = "schedule"
  BY DEF PlaybookInv, WhoAwaits, Awaits
<1>3. \A r \in Runners : runner'[r].stage # "free" => /\ runner'[r].id \in DOMAIN executions'
                                                      /\ ~(executions'[runner'[r].id].status = "pending_approval")
  BY DEF PlaybookInv, WhoAwaits, Awaits
<1>4. ASSUME NEW o \in Operators
      PROVE  /\ hand'[o].does # "nothing" => hand'[o].id \in DOMAIN executions'
             /\ hand'[o].does = "approved" => ~(executions'[hand'[o].id].status = "pending_approval")
             /\ hand'[o].does \in {"signal", "hosts", "finish"} /\ ~hand'[o].clears
                  => executions'[hand'[o].id].trigger = "manual"
  <2>1. CASE hand'[o] = hand[o]
    BY <2>1 DEF PlaybookInv, WhoAwaits, Awaits
  <2> QED
    BY <2>1
<1> QED
  BY <1>1, <1>2, <1>3, <1>4 DEF WhoAwaits, Awaits

\* So does the guard's holder, if he is not the one who goes.
LEMMA HoldersKept ==
  ASSUME PlaybookInv, schedBusy' => schedBusy,
         schedBusy' => (scheduler = "due" => scheduler' = "due"),
         schedBusy' => \A i \in DOMAIN executions : Awaits(i) => Awaits(i)',
         schedBusy' => \A o \in Operators : hand[o].does = "approved" => hand'[o].does = "approved",
         schedBusy' => \A r \in Runners : runner[r].stage # "free" /\ runner[r].clears
                          => runner'[r].stage # "free" /\ runner'[r].clears
  PROVE  GuardHasHolder'
<1> SUFFICES ASSUME schedBusy'
             PROVE  \/ scheduler' = "due"
                    \/ \E i \in DOMAIN executions' : Awaits(i)'
                    \/ \E o \in Operators : hand'[o].does = "approved"
                    \/ \E r \in Runners : runner'[r].stage # "free" /\ runner'[r].clears
  BY DEF GuardHasHolder
<1>1. \A i : Awaits(i)' => i \in DOMAIN executions'
  BY DEF Awaits
<1>2. \/ scheduler = "due"
      \/ \E i \in DOMAIN executions : Awaits(i)
      \/ \E o \in Operators : hand[o].does = "approved"
      \/ \E r \in Runners : runner[r].stage # "free" /\ runner[r].clears
  BY DEF PlaybookInv, GuardHasHolder
<1> QED
  BY <1>1, <1>2

\* A goroutine starts the execution that the step has added.
LEMMA StartAwaiters ==
  ASSUME PlaybookInv, playbook' = playbook, NextExecID <= playbook.maxExecutions,
         NEW trigger \in Triggers, NEW status \in Beginnings,
         trigger = "manual" => status = "running",
         executions' = Started(NextExecID, trigger, status),
         \A r \in Runners : runner'[r].stage # "free" =>
           \/ runner[r].stage # "free" /\ runner'[r].id = runner[r].id
           \/ runner'[r].id = NextExecID /\ status = "running",
         hand' = hand
  PROVE  /\ ExecutionsFit(executions') /\ NextExecID \in ExecIDs
         /\ Numbered' /\ WhoAwaits'
         /\ \A i \in DOMAIN executions : executions'[i] = executions[i] /\ i \in DOMAIN executions'
         /\ NextExecID \in DOMAIN executions' /\ executions'[NextExecID].status = status
<1> DEFINE n == Cardinality(DOMAIN executions)
<1>1. ExecutionsFit(executions) /\ playbook \in Shapes
  BY TypesOfPlaybook DEF PlaybookInv
<1>2. NextExecID \in ExecIDs
  BY <1>1, NextExecIDFits
<1>3. n \in Nat /\ DOMAIN executions = 1..n /\ NextExecID = n + 1
  <2>1. IsFiniteSet(DOMAIN executions)
    <3>1. playbook.maxExecutions \in Nat
      BY <1>1, ShapeFacts
    <3>2. IsFiniteSet(1..playbook.maxExecutions)
      BY <3>1, UpTo
    <3> QED
      BY <1>1, <3>2, FS_Subset DEF ExecutionsFit, ExecIDs
  <2> QED
    BY <2>1, FS_CardinalityType DEF PlaybookInv, Numbered, NextExecID
<1>4. NextExecID \notin DOMAIN executions
  BY <1>3
<1>5. /\ ExecutionsFit(executions')
      /\ DOMAIN executions' = DOMAIN executions \cup {NextExecID}
      /\ \A i \in DOMAIN executions : executions'[i] = executions[i]
      /\ executions'[NextExecID].status = status
      /\ executions'[NextExecID].trigger = trigger
  <2> DEFINE new == executions'
  <2>1. new = Started(NextExecID, trigger, status)
    OBVIOUS
  <2> HIDE DEF new
  <2>2. ExecutionsFit(new) /\ Adds(new, NextExecID, trigger, status)
    BY <1>1, <1>2, <1>4, <2>1, StartedFits
  <2> QED
    BY <2>2 DEF new, Adds
<1> HIDE DEF n
<1>6. DOMAIN executions' = 1..(n + 1)
  <2>1. 1..(n + 1) = (1..n) \cup {n + 1}
    BY <1>3
  <2> QED
    BY <1>3, <1>5, <2>1
<1>7. Numbered'
  <2>1. Cardinality(1..(n + 1)) = n + 1
    BY <1>3, UpTo
  <2> QED
    BY <1>6, <2>1 DEF Numbered
<1>8. \A i \in DOMAIN executions' : executions'[i].status = "pending_approval" => executions'[i].trigger = "schedule"
  <2>1. \A i \in DOMAIN executions : executions[i].status = "pending_approval" => executions[i].trigger = "schedule"
    BY DEF PlaybookInv, WhoAwaits, Awaits
  <2>2. status = "pending_approval" => trigger = "schedule"
    BY DEF Triggers
  <2> QED
    BY <1>5, <2>1, <2>2
<1>9. \A r \in Runners : runner'[r].stage # "free" =>
        /\ runner'[r].id \in DOMAIN executions'
        /\ executions'[runner'[r].id].status # "pending_approval"
  BY <1>5 DEF PlaybookInv, WhoAwaits, Awaits
<1>10. \A o \in Operators :
         /\ hand'[o].does # "nothing" => hand'[o].id \in DOMAIN executions'
         /\ hand'[o].does = "approved" => executions'[hand'[o].id].status # "pending_approval"
         /\ hand'[o].does \in {"signal", "hosts", "finish"} /\ ~hand'[o].clears
              => executions'[hand'[o].id].trigger = "manual"
  BY <1>5 DEF PlaybookInv, WhoAwaits, Awaits
<1> QED
  BY <1>2, <1>5, <1>7, <1>8, <1>9, <1>10 DEF WhoAwaits, Awaits

\* A goroutine that has just been started has nothing to undo and no verdict.
LEMMA SpawnKeeps ==
  ASSUME PlaybookInv, playbook' = playbook, NEW id \in ExecIDs, NEW clears \in BOOLEAN,
         NEW r \in Runners,
         \A q \in Runners : runner'[q] = IF q = r THEN Spawned(id, clears) ELSE runner[q]
  PROVE  UndoneBefore' /\ Judged'
<1>1. /\ Spawned(id, clears).stage = "spawned"
      /\ \A h \in Targets : Spawned(id, clears).work[h] = Fresh
      /\ Fresh.undo < Fresh.step
  BY SpawnedFits, FreshFits, TypesOfPlaybook DEF PlaybookInv
<1> QED
  BY <1>1 DEF PlaybookInv, UndoneBefore, Judged, Targets

LEMMA StartManualKeeps == ASSUME PlaybookInv, StartManual PROVE PlaybookInv'
<1> DEFINE id == NextExecID
<1>0. /\ playbook' = playbook /\ id <= playbook.maxExecutions
      /\ executions' = Started(id, "manual", "running") /\ Spawn(id, FALSE)
      /\ UNCHANGED <<schedBusy, scheduler, runCancel, hand, cancels>>
  BY DEF StartManual
<1>1. id \in ExecIDs
  BY <1>0, NextExecIDFits, TypesOfPlaybook DEF PlaybookInv
<1>2. PICK r \in Runners :
        /\ runner[r].stage = "free"
        /\ runner' \in [Runners -> RunnerStates]
        /\ \A q \in Runners : runner'[q] = IF q = r THEN Spawned(id, FALSE) ELSE runner[q]
  BY <1>0, <1>1, SpawnFits DEF PlaybookInv
<1>3. Spawned(id, FALSE).id = id /\ Spawned(id, FALSE).stage = "spawned"
  BY <1>1, SpawnedFits, TypesOfPlaybook DEF PlaybookInv
<1>4. /\ ExecutionsFit(executions') /\ Numbered' /\ WhoAwaits'
      /\ \A i \in DOMAIN executions : executions'[i] = executions[i] /\ i \in DOMAIN executions'
  BY <1>0, <1>2, <1>3, StartAwaiters DEF Triggers, Beginnings
<1>5. PlaybooksTypeOK'
  BY <1>0, <1>2, <1>4, PlaybookTypes, TypesOfPlaybook DEF PlaybookInv
<1>6. UndoneBefore' /\ Judged'
  BY <1>0, <1>1, <1>2, SpawnKeeps
<1>7. GuardHasHolder'
  BY <1>0, <1>2, <1>4, HoldersKept DEF Awaits
<1> QED
  BY <1>4, <1>5, <1>6, <1>7 DEF PlaybookInv

LEMMA DueKeeps == ASSUME PlaybookInv, Due PROVE PlaybookInv'
<1>1. PlaybooksTypeOK'
  BY PlaybookTypes, TypesOfPlaybook DEF PlaybookInv, Due
<1>2. Numbered' /\ UndoneBefore' /\ Judged' /\ WhoAwaits'
  BY DEF PlaybookInv, Due, Numbered, UndoneBefore, Judged, WhoAwaits, Awaits, Targets
<1>3. GuardHasHolder'
  BY DEF Due, GuardHasHolder
<1> QED
  BY <1>1, <1>2, <1>3 DEF PlaybookInv

LEMMA FireKeeps == ASSUME PlaybookInv, Fire PROVE PlaybookInv'
<1> DEFINE id == NextExecID
<1>1. CASE FireSkipped
  <2>1. PlaybooksTypeOK'
    BY <1>1, PlaybookTypes, TypesOfPlaybook DEF PlaybookInv, FireSkipped
  <2>2. Numbered' /\ UndoneBefore' /\ Judged' /\ WhoAwaits'
    BY <1>1 DEF PlaybookInv, FireSkipped, Numbered, UndoneBefore, Judged, WhoAwaits, Awaits, Targets
  <2>3. GuardHasHolder'
    BY <1>1 DEF FireSkipped, GuardHasHolder
  <2> QED
    BY <2>1, <2>2, <2>3 DEF PlaybookInv
<1>2. CASE FirePending
  <2>0. /\ playbook' = playbook /\ id <= playbook.maxExecutions /\ scheduler' = "idle"
        /\ executions' = Started(id, "schedule", "pending_approval")
        /\ UNCHANGED <<schedBusy, runCancel, runner, hand, cancels>>
    BY <1>2 DEF FirePending
  <2>1. /\ ExecutionsFit(executions') /\ Numbered' /\ WhoAwaits'
        /\ id \in DOMAIN executions' /\ executions'[id].status = "pending_approval"
    BY <2>0, StartAwaiters DEF Triggers, Beginnings
  <2>2. PlaybooksTypeOK'
    BY <2>0, <2>1, PlaybookTypes, TypesOfPlaybook DEF PlaybookInv
  <2>3. UndoneBefore' /\ Judged'
    BY <2>0 DEF PlaybookInv, UndoneBefore, Judged, Targets
  <2>4. GuardHasHolder'
    BY <2>1 DEF GuardHasHolder, Awaits
  <2> QED
    BY <2>1, <2>2, <2>3, <2>4 DEF PlaybookInv
<1>3. CASE FireReadOnly
  <2>0. /\ playbook' = playbook /\ id <= playbook.maxExecutions /\ scheduler' = "idle"
        /\ executions' = Started(id, "schedule", "running") /\ Spawn(id, TRUE)
        /\ UNCHANGED <<schedBusy, runCancel, hand, cancels>>
    BY <1>3 DEF FireReadOnly
  <2>1. id \in ExecIDs
    BY <2>0, NextExecIDFits, TypesOfPlaybook DEF PlaybookInv
  <2>2. PICK r \in Runners :
          /\ runner[r].stage = "free"
          /\ runner' \in [Runners -> RunnerStates]
          /\ \A q \in Runners : runner'[q] = IF q = r THEN Spawned(id, TRUE) ELSE runner[q]
    BY <2>0, <2>1, SpawnFits DEF PlaybookInv
  <2>3. Spawned(id, TRUE).id = id /\ Spawned(id, TRUE).stage = "spawned" /\ Spawned(id, TRUE).clears
    BY <2>1, SpawnedFits, TypesOfPlaybook DEF PlaybookInv
  <2>4. ExecutionsFit(executions') /\ Numbered' /\ WhoAwaits'
    BY <2>0, <2>2, <2>3, StartAwaiters DEF Triggers, Beginnings
  <2>5. PlaybooksTypeOK'
    BY <2>0, <2>2, <2>4, PlaybookTypes, TypesOfPlaybook DEF PlaybookInv
  <2>6. UndoneBefore' /\ Judged'
    BY <2>0, <2>1, <2>2, SpawnKeeps
  <2>7. GuardHasHolder'
    BY <2>2, <2>3 DEF GuardHasHolder
  <2> QED
    BY <2>4, <2>5, <2>6, <2>7 DEF PlaybookInv
<1> QED
  BY <1>1, <1>2, <1>3 DEF Fire

\* A goroutine comes to a status that it has written, or is gone.
LEMMA BlockedKeeps == ASSUME PlaybookInv, NEW r \in Runners, Blocked(r) PROVE PlaybookInv'
<1> DEFINE id == runner[r].id
<1>0. /\ playbook' = playbook /\ runner[r].stage = "spawned"
      /\ executions' = Finished(executions, id, "failed")
      /\ runner' = [runner EXCEPT ![r] = Idle]
      /\ schedBusy' = (schedBusy /\ ~runner[r].clears)
      /\ UNCHANGED <<scheduler, runCancel, hand, cancels>>
  BY DEF Blocked
<1>1. /\ ExecutionsFit(executions')
      /\ StatusSet(executions, executions', id, "failed")
  <2>1. "failed" \in Terminal /\ ExecutionsFit(executions)
    BY TypesOfPlaybook DEF PlaybookInv, Terminal
  <2> HIDE DEF id
  <2> QED
    BY <1>0, <2>1, FinishedFits
<1>2. ~Awaits(id) /\ id \in DOMAIN executions
  BY <1>0 DEF PlaybookInv, WhoAwaits
<1>3. runner \in [Runners -> RunnerStates] /\ Idle \in RunnerStates /\ playbook \in Shapes
  BY TypesOfPlaybook, FreshFits DEF PlaybookInv
<1>4. \A q \in Runners : runner'[q] = IF q = r THEN Idle ELSE runner[q]
  BY <1>0, <1>3
<1>5. Idle.stage = "free" /\ \A h \in Targets : Idle.work[h] = Fresh
  BY <1>3, FreshFits DEF Idle
<1> HIDE DEF id
<1>6. PlaybooksTypeOK'
  <2>1. schedBusy' \in BOOLEAN
    BY <1>0
  <2>2. runner' \in [Runners -> RunnerStates]
    BY <1>0, <1>3
  <2> QED
    BY <1>0, <1>1, <2>1, <2>2, PlaybookTypes, TypesOfPlaybook DEF PlaybookInv
<1>7. Numbered' /\ WhoAwaits'
  <2>1. \A i \in DOMAIN executions :
          /\ executions'[i].trigger = executions[i].trigger
          /\ executions'[i].status = "pending_approval" => executions[i].status = "pending_approval"
    BY <1>1 DEF StatusSet
  <2>2. \A q \in Runners : runner'[q].stage # "free" =>
          /\ runner'[q].id \in DOMAIN executions
          /\ runner[q].stage # "free" /\ runner'[q].id = runner[q].id
    BY <1>4, <1>5 DEF PlaybookInv, WhoAwaits
  <2> QED
    BY <1>0, <1>1, <2>1, <2>2, AwaitersKept DEF StatusSet
<1>8. UndoneBefore' /\ Judged'
  BY <1>0, <1>3, <1>4, <1>5, FreshFits DEF PlaybookInv, UndoneBefore, Judged, Targets
<1>9. GuardHasHolder'
  <2>1. \A i \in DOMAIN executions : Awaits(i) => Awaits(i)'
    BY <1>1, <1>2 DEF StatusSet, Awaits
  <2>2. schedBusy' => schedBusy /\ ~runner[r].clears
    BY <1>0
  <2>3. \A q \in Runners : q # r => runner'[q] = runner[q]
    BY <1>4
  <2> QED
    BY <1>0, <2>1, <2>2, <2>3, HoldersKept
<1> QED
  BY <1>6, <1>7, <1>8, <1>9 DEF PlaybookInv

\* Steps of goroutines that keep what they run and who clears the guard, and set no
\* status to one that awaits.
LEMMA RunningOn ==
  ASSUME PlaybookInv, playbook' = playbook, ExecutionsFit(executions'),
         DOMAIN executions' = DOMAIN executions,
         \A i \in DOMAIN executions :
           /\ executions'[i].trigger = executions[i].trigger
           /\ executions'[i].status = "pending_approval" <=> executions[i].status = "pending_approval",
         runner' \in [Runners -> RunnerStates],
         \A r \in Runners : /\ runner'[r].stage = "free" <=> runner[r].stage = "free"
                            /\ runner'[r].id = runner[r].id
                            /\ runner'[r].clears = runner[r].clears,
         runCancel' \in [ExecIDs -> Runners \cup {NoRunner}],
         UndoneBefore', Judged',
         UNCHANGED <<schedBusy, scheduler, hand, cancels>>
  PROVE  PlaybookInv'
<1>1. PlaybooksTypeOK'
  BY PlaybookTypes, TypesOfPlaybook DEF PlaybookInv
<1>2. Numbered' /\ WhoAwaits'
  <2>1. \A r \in Runners : runner'[r].stage # "free" =>
          /\ runner'[r].id \in DOMAIN executions
          /\ runner[r].stage # "free" /\ runner'[r].id = runner[r].id
    BY DEF PlaybookInv, WhoAwaits
  <2> QED
    BY <2>1, AwaitersKept
<1>3. GuardHasHolder'
  <2>1. \A i \in DOMAIN executions : Awaits(i) => Awaits(i)'
    BY DEF Awaits
  <2> QED
    BY <2>1, HoldersKept
<1> QED
  BY <1>1, <1>2, <1>3 DEF PlaybookInv

LEMMA RegisterKeeps == ASSUME PlaybookInv, NEW r \in Runners, Register(r) PROVE PlaybookInv'
<1> DEFINE old == runCancel[runner[r].id]
           now(q) == IF q = r THEN [runner[q] EXCEPT !.stage = "running"]
                     ELSE IF q = old THEN [runner[q] EXCEPT !.ctx = TRUE]
                     ELSE runner[q]
<1>0. /\ playbook' = playbook /\ runner[r].stage = "spawned"
      /\ runner' = [q \in Runners |-> now(q)]
      /\ runCancel' = [runCancel EXCEPT ![runner[r].id] = r]
      /\ UNCHANGED <<executions, schedBusy, scheduler, hand, cancels>>
  BY DEF Register
<1>1. ASSUME NEW q \in Runners
      PROVE  /\ now(q) \in RunnerStates
             /\ now(q).stage = IF q = r THEN "running" ELSE runner[q].stage
             /\ now(q).id = runner[q].id /\ now(q).clears = runner[q].clears
             /\ now(q).work = runner[q].work /\ now(q).verdict = runner[q].verdict
  <2>1. runner[q] \in RunnerStates
    BY TypesOfPlaybook DEF PlaybookInv
  <2> QED
    BY <2>1 DEF RunnerStates
<1>2. runCancel' \in [ExecIDs -> Runners \cup {NoRunner}]
  BY <1>0, TypesOfPlaybook DEF PlaybookInv
<1> HIDE DEF now
<1>3. runner' \in [Runners -> RunnerStates] /\ \A q \in Runners : runner'[q] = now(q)
  BY <1>0, <1>1
<1>4. UndoneBefore' /\ Judged'
  BY <1>0, <1>1, <1>3 DEF PlaybookInv, UndoneBefore, Judged, Targets
<1>5. ExecutionsFit(executions')
  BY <1>0, TypesOfPlaybook DEF PlaybookInv
<1>6. \A q \in Runners : /\ runner'[q].stage = "free" <=> runner[q].stage = "free"
                         /\ runner'[q].id = runner[q].id
                         /\ runner'[q].clears = runner[q].clears
  BY <1>0, <1>1, <1>3
<1> QED
  BY <1>0, <1>2, <1>3, <1>4, <1>5, <1>6, RunningOn

\* The goroutine of a host moves on.
LEMMA HostGoesKeeps ==
  ASSUME PlaybookInv, NEW r \in Runners, NEW h \in Targets, NEW w \in HostWork,
         w.at \in {"queued", "step"} => w.undo < w.step,
         NEW status \in HostStatuses, HostGoes(r, h, w, status)
  PROVE  PlaybookInv'
<1>0. /\ playbook' = playbook
      /\ runner' = [runner EXCEPT ![r].work[h] = w]
      /\ executions' = HostUpdated(executions, runner[r].id, h, status)
      /\ UNCHANGED <<schedBusy, scheduler, runCancel, hand, cancels>>
  BY DEF HostGoes
<1>1. ExecutionsFit(executions') /\ SameStatuses(executions, executions')
  <2> DEFINE id == runner[r].id
  <2>1. ExecutionsFit(executions)
    BY TypesOfPlaybook DEF PlaybookInv
  <2>2. executions' = HostUpdated(executions, id, h, status)
    BY <1>0
  <2> HIDE DEF id
  <2> QED
    BY <2>1, <2>2, HostUpdatedFits
<1>2. runner \in [Runners -> RunnerStates]
  BY TypesOfPlaybook DEF PlaybookInv
<1> DEFINE x == [runner[r] EXCEPT !.work[h] = w]
<1>3. /\ x \in RunnerStates
      /\ x.stage = runner[r].stage /\ x.id = runner[r].id /\ x.clears = runner[r].clears
      /\ x.verdict = runner[r].verdict
      /\ \A k \in Targets : x.work[k] = IF k = h THEN w ELSE runner[r].work[k]
  <2>1. runner[r] \in RunnerStates
    BY <1>2
  <2> QED
    BY <2>1 DEF RunnerStates
<1>4. runner' = [runner EXCEPT ![r] = x]
  BY <1>0, <1>2
<1> HIDE DEF x
<1>5. runner' \in [Runners -> RunnerStates] /\ \A q \in Runners : runner'[q] = IF q = r THEN x ELSE runner[q]
  BY <1>2, <1>3, <1>4
<1>6. UndoneBefore' /\ Judged'
  BY <1>0, <1>3, <1>5 DEF PlaybookInv, UndoneBefore, Judged, Targets
<1>7. \A q \in Runners : /\ runner'[q].stage = "free" <=> runner[q].stage = "free"
                         /\ runner'[q].id = runner[q].id
                         /\ runner'[q].clears = runner[q].clears
  BY <1>3, <1>5
<1>8. runCancel' \in [ExecIDs -> Runners \cup {NoRunner}]
  BY <1>0, TypesOfPlaybook DEF PlaybookInv
<1> QED
  BY <1>0, <1>1, <1>5, <1>6, <1>7, <1>8, RunningOn DEF SameStatuses

LEMMA AfterStepKeeps ==
  ASSUME PlaybookInv, NEW r \in Runners, NEW h \in Targets, NEW w \in HostWork,
         w.undo <= w.step, w.at = "step", AfterStep(r, h, w)
  PROVE  PlaybookInv'
<1>1. playbook \in Shapes /\ Done \in HostWork /\ Done.at = "done"
  BY TypesOfPlaybook, FreshFits DEF PlaybookInv
<1>2. {"failed", "success", "running"} \subseteq HostStatuses
  BY DEF HostStatuses
<1>3. CASE w.step < playbook.steps /\ (~w.failed \/ playbook.continueErr)
  <2> DEFINE v == [w EXCEPT !.step = @ + 1, !.attempt = 1]
             status == IF w.failed THEN "failed" ELSE "running"
  <2>1. v \in HostWork /\ v.undo < v.step
    <3>1. w.step < playbook.steps
      BY <1>3
    <3>2. w.step + 1 \in 1..playbook.steps /\ 1 \in 1..playbook.attempts /\ w.undo < w.step + 1
      BY <1>1, <3>1, ShapeFacts DEF HostWork
    <3>3. v \in HostWork /\ v.undo = w.undo /\ v.step = w.step + 1
      BY <3>2 DEF HostWork
    <3> QED
      BY <3>2, <3>3
  <2>2. status \in HostStatuses /\ HostGoes(r, h, v, status)
    BY <1>2, <1>3 DEF AfterStep
  <2> HIDE DEF v, status
  <2> QED
    BY <2>1, <2>2, HostGoesKeeps
<1>4. CASE ~(w.step < playbook.steps /\ (~w.failed \/ playbook.continueErr))
  <2>0. AfterSteps(r, h, w)
    BY <1>4 DEF AfterStep
  <2> DEFINE v == [w EXCEPT !.at = "rollback"]
             status == IF w.failed THEN "failed" ELSE "success"
  <2>1. v \in HostWork /\ v.at = "rollback"
    BY DEF HostWork
  <2>2. status \in HostStatuses
    BY <1>2
  <2>3. HostGoes(r, h, v, "failed") \/ HostGoes(r, h, Done, status)
    BY <2>0 DEF AfterSteps
  <2> HIDE DEF v, status
  <2> QED
    BY <1>1, <1>2, <2>1, <2>2, <2>3, HostGoesKeeps
<1> QED
  BY <1>3, <1>4

LEMMA HostStepKeeps ==
  ASSUME PlaybookInv, NEW r \in Runners, NEW h, HostStep(r, h)
  PROVE  PlaybookInv'
<1> DEFINE w == runner[r].work[h]
<1>1. h \in Targets
  BY DEF HostStep
<1>2. runner[r] \in RunnerStates /\ playbook \in Shapes /\ Done \in HostWork /\ Done.at = "done"
  BY TypesOfPlaybook, FreshFits DEF PlaybookInv
<1>3. w \in HostWork /\ (w.at \in {"queued", "step"} => w.undo < w.step)
  BY <1>1, <1>2 DEF RunnerStates, PlaybookInv, UndoneBefore
<1>4. {"failed", "success", "running", "cancelled"} \subseteq HostStatuses
  BY DEF HostStatuses
<1>5. CASE HostStart(r, h)
  <2> DEFINE v == [w EXCEPT !.at = "step"]
  <2>1. v \in HostWork /\ (w.at = "queued" => v.undo < v.step)
    BY <1>3 DEF HostWork
  <2>2. w.at = "queued" /\ (HostGoes(r, h, Done, "cancelled") \/ HostGoes(r, h, v, "running"))
    BY <1>5 DEF HostStart
  <2> HIDE DEF v
  <2> QED
    BY <1>1, <1>2, <1>4, <2>1, <2>2, HostGoesKeeps
<1>6. ASSUME NEW outcome \in {"ok", "skipped", "infra", "exit", "cancelled"}, StepEnds(r, h, outcome)
      PROVE  PlaybookInv'
  <2>0. w.at = "step" /\ runner[r].stage = "running"
    BY <1>6 DEF StepEnds
  <2>1. CASE HostGoes(r, h, Done, "cancelled")
    BY <1>1, <1>2, <1>4, <2>1, HostGoesKeeps
  <2>2. CASE AfterStep(r, h, [w EXCEPT !.undo = @ + 1])
    <3> DEFINE v == [w EXCEPT !.undo = @ + 1]
    <3>1. v \in HostWork /\ v.undo <= v.step /\ v.at = "step"
      BY <1>2, <1>3, <2>0, ShapeFacts DEF HostWork
    <3>2. AfterStep(r, h, v)
      BY <2>2
    <3> HIDE DEF v
    <3> QED
      BY <1>1, <3>1, <3>2, AfterStepKeeps
  <2>3. CASE AfterStep(r, h, w)
    <3>1. w \in HostWork /\ w.at = "step"
      BY <1>3, <2>0
    <3>2. w.undo < w.step
      BY <1>3, <3>1
    <3> HIDE DEF w
    <3>3. w.undo \in 0..playbook.steps /\ w.step \in 1..playbook.steps
      BY <3>1 DEF HostWork
    <3>4. playbook.steps \in Nat
      BY <1>2, ShapeFacts
    <3>5. w.undo <= w.step
      BY <3>2, <3>3, <3>4
    <3>6. AfterStep(r, h, w)
      BY <2>3 DEF w
    <3>7. PlaybookInv /\ r \in Runners
      OBVIOUS
    <3> QED
      BY ONLY <1>1, <3>1, <3>5, <3>6, <3>7, AfterStepKeeps
  <2>4. CASE /\ w.attempt < playbook.attempts
             /\ HostGoes(r, h, [w EXCEPT !.attempt = @ + 1], executions[runner[r].id].hosts[h])
    <3> DEFINE v == [w EXCEPT !.attempt = @ + 1]
               status == executions[runner[r].id].hosts[h]
    <3>1. v \in HostWork /\ v.undo < v.step
      <4>1. w \in HostWork /\ w.undo < w.step
        BY <1>3, <2>0
      <4>2. w.attempt < playbook.attempts /\ playbook.attempts \in Nat
        BY <1>2, <2>4, ShapeFacts
      <4> HIDE DEF w
      <4> QED
        BY ONLY <4>1, <4>2 DEF HostWork
    <3>2. status \in HostStatuses
      <4>1. runner[r].id \in DOMAIN executions
        BY <2>0 DEF PlaybookInv, WhoAwaits
      <4>2. executions[runner[r].id] \in Execution
        BY <4>1, TypesOfPlaybook DEF PlaybookInv, ExecutionsFit
      <4> QED
        BY <1>1, <4>2 DEF Execution
    <3>3. HostGoes(r, h, v, status)
      BY <2>4
    <3> HIDE DEF v, status
    <3> QED
      BY <1>1, <3>1, <3>2, <3>3, HostGoesKeeps
  <2>5. CASE AfterStep(r, h, [w EXCEPT !.failed = TRUE])
    <3> DEFINE v == [w EXCEPT !.failed = TRUE]
    <3>1. v \in HostWork /\ v.undo = w.undo /\ v.step = w.step /\ v.at = w.at
      BY <1>3 DEF HostWork
    <3>2. AfterStep(r, h, v)
      BY <2>5
    <3>3. w.undo <= w.step
      BY <1>2, <1>3, <2>0, ShapeFacts DEF HostWork
    <3> HIDE DEF v
    <3> QED
      BY <1>1, <2>0, <3>1, <3>2, <3>3, AfterStepKeeps
  <2> QED
    BY <1>6, <2>1, <2>2, <2>3, <2>4, <2>5 DEF StepEnds
<1>7. CASE RollbackEnds(r, h)
  <2> DEFINE v == [w EXCEPT !.undo = @ - 1]
  <2>1. w.at = "rollback" /\ (HostGoes(r, h, Done, "failed") \/ (w.undo > 1 /\ HostGoes(r, h, v, "failed")))
    BY <1>7 DEF RollbackEnds
  <2>2. w.undo > 1 => v \in HostWork
    BY <1>2, <1>3, ShapeFacts DEF HostWork
  <2>3. w.at = "rollback" => v.at = "rollback"
    BY <1>3 DEF HostWork
  <2> HIDE DEF v
  <2> QED
    BY <1>1, <1>2, <1>4, <2>1, <2>2, <2>3, HostGoesKeeps
<1> QED
  BY <1>5, <1>6, <1>7 DEF HostStep

LEMMA CollectKeeps == ASSUME PlaybookInv, NEW r \in Runners, Collect(r) PROVE PlaybookInv'
<1> DEFINE e == executions[runner[r].id]
           verdict == IF e.status = "cancelled" \/ runner[r].ctx THEN "cancelled" ELSE Outcome(e.hosts)
           x == [runner[r] EXCEPT !.stage = "verdict", !.verdict = verdict, !.work = Idle.work]
<1>1. verdict \in Terminal
  BY DEF Outcome, Terminal
<1>2. runner \in [Runners -> RunnerStates] /\ playbook \in Shapes /\ Idle \in RunnerStates
  BY TypesOfPlaybook, FreshFits DEF PlaybookInv
<1>3. /\ playbook' = playbook /\ runner[r].stage = "running"
      /\ runner' = [runner EXCEPT ![r] = x]
      /\ UNCHANGED <<executions, schedBusy, scheduler, runCancel, hand, cancels>>
  BY <1>2 DEF Collect
<1> HIDE DEF verdict
<1>4. /\ x \in RunnerStates /\ x.stage = "verdict" /\ x.verdict \in Terminal
      /\ x.id = runner[r].id /\ x.clears = runner[r].clears
      /\ x.work = Idle.work
  <2>1. runner[r] \in RunnerStates
    BY <1>2
  <2> QED
    BY <1>1, <1>2, <2>1 DEF RunnerStates
<1> HIDE DEF x
<1>5. runner' \in [Runners -> RunnerStates] /\ \A q \in Runners : runner'[q] = IF q = r THEN x ELSE runner[q]
  BY <1>2, <1>3, <1>4
<1>6. UndoneBefore' /\ Judged'
  <2>1. \A h \in Targets : x.work[h] = Fresh /\ Fresh.undo < Fresh.step
    BY <1>2, <1>4, FreshFits
  <2> QED
    BY <1>3, <1>4, <1>5, <2>1 DEF PlaybookInv, UndoneBefore, Judged, Targets
<1>7. \A q \in Runners : /\ runner'[q].stage = "free" <=> runner[q].stage = "free"
                         /\ runner'[q].id = runner[q].id
                         /\ runner'[q].clears = runner[q].clears
  BY <1>3, <1>4, <1>5
<1>8. ExecutionsFit(executions') /\ runCancel' \in [ExecIDs -> Runners \cup {NoRunner}]
  BY <1>3, TypesOfPlaybook DEF PlaybookInv
<1> QED
  BY <1>3, <1>5, <1>6, <1>7, <1>8, RunningOn

LEMMA ConcludeKeeps == ASSUME PlaybookInv, NEW r \in Runners, Conclude(r) PROVE PlaybookInv'
<1> DEFINE id == runner[r].id
           verdict == runner[r].verdict
           ex == IF verdict = "cancelled" THEN HostsCancelled(executions, id) ELSE executions
           x == [runner[r] EXCEPT !.stage = "leaving"]
<1>0. /\ playbook' = playbook /\ runner[r].stage = "verdict"
      /\ executions' = Finished(ex, id, verdict)
      /\ runner' = [runner EXCEPT ![r].stage = "leaving"]
      /\ UNCHANGED <<schedBusy, scheduler, runCancel, hand, cancels>>
  BY DEF Conclude
<1>1. runner \in [Runners -> RunnerStates] /\ ExecutionsFit(executions)
  BY TypesOfPlaybook DEF PlaybookInv
<1>2. verdict \in Terminal /\ id \in DOMAIN executions /\ executions[id].status # "pending_approval"
  BY <1>0 DEF PlaybookInv, Judged, WhoAwaits, Awaits
<1>3. runner' = [runner EXCEPT ![r] = x]
  BY <1>0, <1>1
<1>4. /\ x \in RunnerStates /\ x.stage = "leaving"
      /\ x.id = runner[r].id /\ x.clears = runner[r].clears /\ x.work = runner[r].work
  <2>1. runner[r] \in RunnerStates
    BY <1>1
  <2> QED
    BY <2>1 DEF RunnerStates
<1>9. "pending_approval" \notin Terminal
  BY DEF Terminal
<1> HIDE DEF id, verdict, x
<1>5. ExecutionsFit(ex) /\ DOMAIN ex = DOMAIN executions
      /\ \A i \in DOMAIN executions : /\ ex[i].status = executions[i].status
                                      /\ ex[i].trigger = executions[i].trigger
  <2>1. ExecutionsFit(HostsCancelled(executions, id))
        /\ SameStatuses(executions, HostsCancelled(executions, id))
    BY <1>1, HostsCancelledFits
  <2> QED
    BY <1>1, <2>1 DEF SameStatuses
<1> HIDE DEF ex
<1>6. ExecutionsFit(executions') /\ StatusSet(ex, executions', id, verdict)
  BY <1>0, <1>2, <1>5, FinishedFits
<1>7. /\ DOMAIN executions' = DOMAIN executions
      /\ \A i \in DOMAIN executions :
           /\ executions'[i].trigger = executions[i].trigger
           /\ executions'[i].status = "pending_approval" <=> executions[i].status = "pending_approval"
  BY <1>2, <1>5, <1>6, <1>9 DEF StatusSet
<1>8. runner' \in [Runners -> RunnerStates] /\ \A q \in Runners : runner'[q] = IF q = r THEN x ELSE runner[q]
  BY <1>1, <1>3, <1>4
<1>10. UndoneBefore' /\ Judged'
  BY <1>0, <1>4, <1>8 DEF PlaybookInv, UndoneBefore, Judged, Targets
<1>11. \A q \in Runners : /\ runner'[q].stage = "free" <=> runner[q].stage = "free"
                          /\ runner'[q].id = runner[q].id
                          /\ runner'[q].clears = runner[q].clears
  BY <1>0, <1>4, <1>8
<1>12. runCancel' \in [ExecIDs -> Runners \cup {NoRunner}]
  BY <1>0, TypesOfPlaybook DEF PlaybookInv
<1> QED
  BY <1>0, <1>6, <1>7, <1>8, <1>10, <1>11, <1>12, RunningOn

LEMMA LeaveKeeps == ASSUME PlaybookInv, NEW r \in Runners, Leave(r) PROVE PlaybookInv'
<1>0. /\ playbook' = playbook /\ runner[r].stage = "leaving"
      /\ runCancel' = [runCancel EXCEPT ![runner[r].id] = NoRunner]
      /\ runner' = [runner EXCEPT ![r] = Idle]
      /\ schedBusy' = (schedBusy /\ ~runner[r].clears)
      /\ UNCHANGED <<executions, scheduler, hand, cancels>>
  BY DEF Leave
<1>3. runner \in [Runners -> RunnerStates] /\ Idle \in RunnerStates /\ playbook \in Shapes
  BY TypesOfPlaybook, FreshFits DEF PlaybookInv
<1>4. runner' \in [Runners -> RunnerStates] /\ \A q \in Runners : runner'[q] = IF q = r THEN Idle ELSE runner[q]
  BY <1>0, <1>3
<1>5. Idle.stage = "free" /\ \A h \in Targets : Idle.work[h] = Fresh
  BY <1>3, FreshFits DEF Idle
<1>6. PlaybooksTypeOK'
  <2>1. schedBusy' \in BOOLEAN
    BY <1>0
  <2>2. runCancel' \in [ExecIDs -> Runners \cup {NoRunner}]
    BY <1>0, TypesOfPlaybook DEF PlaybookInv
  <2> QED
    BY <1>0, <1>4, <2>1, <2>2, PlaybookTypes, TypesOfPlaybook DEF PlaybookInv
<1>7. Numbered' /\ WhoAwaits'
  <2>1. \A q \in Runners : runner'[q].stage # "free" =>
          /\ runner'[q].id \in DOMAIN executions
          /\ runner[q].stage # "free" /\ runner'[q].id = runner[q].id
    BY <1>4, <1>5 DEF PlaybookInv, WhoAwaits
  <2> QED
    BY <1>0, <2>1, AwaitersKept
<1>8. UndoneBefore' /\ Judged'
  BY <1>0, <1>3, <1>4, <1>5, FreshFits DEF PlaybookInv, UndoneBefore, Judged, Targets
<1>9. GuardHasHolder'
  <2>1. \A i \in DOMAIN executions : Awaits(i) => Awaits(i)'
    BY <1>0 DEF Awaits
  <2>2. schedBusy' => schedBusy /\ ~runner[r].clears
    BY <1>0
  <2>3. \A q \in Runners : q # r => runner'[q] = runner[q]
    BY <1>4
  <2> QED
    BY <1>0, <2>1, <2>2, <2>3, HoldersKept
<1> QED
  BY <1>6, <1>7, <1>8, <1>9 DEF PlaybookInv

\* A handler that leaves the executions' statuses and the guard alone.
LEMMA HandKeeps ==
  ASSUME PlaybookInv, playbook' = playbook, ExecutionsFit(executions'),
         SameStatuses(executions, executions'),
         NEW o \in Operators, NEW x \in HandStates, hand' = [hand EXCEPT ![o] = x],
         hand[o].does # "approved", x.does # "approved",
         x.does # "nothing" => x.id \in DOMAIN executions,
         x.does \in {"signal", "hosts", "finish"} /\ ~x.clears
           => executions[x.id].trigger = "manual",
         runner' \in [Runners -> RunnerStates],
         \A r \in Runners : /\ runner'[r].stage = runner[r].stage /\ runner'[r].id = runner[r].id
                            /\ runner'[r].clears = runner[r].clears
                            /\ runner'[r].verdict = runner[r].verdict
                            /\ runner'[r].work = runner[r].work,
         cancels' \in 0..playbook.maxCancels,
         UNCHANGED <<schedBusy, scheduler, runCancel>>
  PROVE  PlaybookInv'
<1>1. hand' \in [Operators -> HandStates] /\ \A p \in Operators : hand'[p] = IF p = o THEN x ELSE hand[p]
  BY TypesOfPlaybook DEF PlaybookInv
<1>2. PlaybooksTypeOK'
  BY <1>1, PlaybookTypes, TypesOfPlaybook DEF PlaybookInv
<1>3. Numbered' /\ WhoAwaits'
  <2>1. \A r \in Runners : runner'[r].stage # "free" =>
          /\ runner'[r].id \in DOMAIN executions
          /\ runner[r].stage # "free" /\ runner'[r].id = runner[r].id
    BY DEF PlaybookInv, WhoAwaits
  <2>2. \A p \in Operators :
          \/ hand'[p] = hand[p] \/ hand'[p].does = "nothing"
          \/ /\ hand'[p].id \in DOMAIN executions
             /\ hand'[p].does # "approved"
             /\ hand'[p].does \in {"signal", "hosts", "finish"} /\ ~hand'[p].clears
                  => executions[hand'[p].id].trigger = "manual"
    BY <1>1
  <2> QED
    BY <2>1, <2>2, AwaitersKept DEF SameStatuses
<1>4. UndoneBefore' /\ Judged'
  BY DEF PlaybookInv, UndoneBefore, Judged, Targets
<1>5. GuardHasHolder'
  <2>1. \A i \in DOMAIN executions : Awaits(i) => Awaits(i)'
    BY DEF Awaits, SameStatuses
  <2> QED
    BY <1>1, <2>1, HoldersKept
<1> QED
  BY <1>2, <1>3, <1>4, <1>5 DEF PlaybookInv

\* A request is let in.
LEMMA RequestKeeps ==
  ASSUME PlaybookInv, NEW o \in Operators, NEW id \in ExecIDs,
         NEW does \in {"approve", "reject", "signal"}, NEW clears \in BOOLEAN,
         Request(o, does, id, clears),
         ~clears => executions[id].trigger = "manual",
         cancels' \in 0..playbook.maxCancels
  PROVE  PlaybookInv'
<1> DEFINE x == [does |-> does, id |-> id, clears |-> clears]
<1>1. /\ hand[o] = AtRest /\ id \in DOMAIN executions
      /\ hand' = [hand EXCEPT ![o] = x]
      /\ UNCHANGED <<playbook, executions, schedBusy, scheduler, runCancel, runner>>
  BY DEF Request
<1>2. x \in HandStates /\ x.does = does /\ x.id = id /\ x.clears = clears
  BY ShapeFacts, TypesOfPlaybook DEF PlaybookInv, HandStates, ExecIDs
<1>3. hand[o].does = "nothing"
  BY <1>1 DEF AtRest
<1> HIDE DEF x
<1>4. ExecutionsFit(executions') /\ runner' \in [Runners -> RunnerStates]
  BY <1>1, TypesOfPlaybook DEF PlaybookInv
<1>5. SameStatuses(executions, executions')
  BY <1>1 DEF SameStatuses
<1> QED
  BY <1>1, <1>2, <1>3, <1>4, <1>5, HandKeeps

LEMMA ChecksKeep ==
  ASSUME PlaybookInv, NEW o \in Operators, NEW id \in ExecIDs,
         CheckApprove(o, id) \/ CheckReject(o, id) \/ CheckCancel(o, id) \/ Abort(o, id)
  PROVE  PlaybookInv'
<1>0. cancels \in 0..playbook.maxCancels /\ playbook.maxCancels \in Nat
  BY TypesOfPlaybook, ShapeFacts DEF PlaybookInv
<1>1. CASE CheckApprove(o, id)
  BY <1>0, <1>1, RequestKeeps DEF CheckApprove
<1>2. CASE CheckReject(o, id)
  BY <1>0, <1>2, RequestKeeps DEF CheckReject
<1>3. CASE CheckCancel(o, id)
  <2>1. cancels' \in 0..playbook.maxCancels
    BY <1>0, <1>3 DEF CheckCancel
  <2> QED
    BY <1>3, <2>1, RequestKeeps DEF CheckCancel
<1>4. CASE Abort(o, id)
  <2>1. cancels' \in 0..playbook.maxCancels
    BY <1>0, <1>4 DEF Abort
  <2> QED
    BY <1>4, <2>1, RequestKeeps DEF Abort
<1> QED
  BY <1>1, <1>2, <1>3, <1>4

LEMMA AtRestFits == ASSUME playbook \in Shapes PROVE AtRest \in HandStates /\ AtRest.does = "nothing"
BY ShapeFacts DEF AtRest, HandStates

\* A handler finishes an execution; the guard is cleared, or the execution is not one
\* that awaits.
LEMMA DecisionKeeps ==
  ASSUME PlaybookInv, playbook' = playbook, NEW o \in Operators, hand[o].does \notin {"nothing", "approved"},
         NEW status \in Terminal, executions' = Finished(executions, hand[o].id, status),
         hand' = [hand EXCEPT ![o] = AtRest], schedBusy' \in BOOLEAN,
         schedBusy' => schedBusy /\ ~Awaits(hand[o].id),
         UNCHANGED <<scheduler, runCancel, runner, cancels>>
  PROVE  PlaybookInv'
<1> DEFINE id == hand[o].id
<1>1. AtRest \in HandStates /\ AtRest.does = "nothing" /\ ExecutionsFit(executions)
  BY TypesOfPlaybook, AtRestFits DEF PlaybookInv
<1>2. hand' \in [Operators -> HandStates] /\ \A p \in Operators : hand'[p] = IF p = o THEN AtRest ELSE hand[p]
  BY <1>1, TypesOfPlaybook DEF PlaybookInv
<1> HIDE DEF id
<1>3. ExecutionsFit(executions') /\ StatusSet(executions, executions', id, status)
  BY <1>1, FinishedFits DEF id
<1>4. PlaybooksTypeOK'
  BY <1>2, <1>3, PlaybookTypes, TypesOfPlaybook DEF PlaybookInv
<1>5. Numbered' /\ WhoAwaits'
  <2>1. \A i \in DOMAIN executions :
          /\ executions'[i].trigger = executions[i].trigger
          /\ executions'[i].status = "pending_approval" => executions[i].status = "pending_approval"
    BY <1>3 DEF StatusSet, Terminal
  <2>2. \A r \in Runners : runner'[r].stage # "free" =>
          /\ runner'[r].id \in DOMAIN executions
          /\ runner[r].stage # "free" /\ runner'[r].id = runner[r].id
    BY DEF PlaybookInv, WhoAwaits
  <2>3. \A p \in Operators : hand'[p] = hand[p] \/ hand'[p].does = "nothing"
    BY <1>1, <1>2
  <2> QED
    BY <1>3, <2>1, <2>2, <2>3, AwaitersKept DEF StatusSet
<1>6. UndoneBefore' /\ Judged'
  BY DEF PlaybookInv, UndoneBefore, Judged, Targets
<1>7. GuardHasHolder'
  <2>1. schedBusy' => \A i \in DOMAIN executions : Awaits(i) => Awaits(i)'
    BY <1>3 DEF StatusSet, Awaits, id
  <2>2. \A p \in Operators : hand[p].does = "approved" => hand'[p].does = "approved"
    BY <1>2
  <2> QED
    BY <2>1, <2>2, HoldersKept
<1> QED
  BY <1>4, <1>5, <1>6, <1>7 DEF PlaybookInv

LEMMA ApproveKeeps == ASSUME PlaybookInv, NEW o \in Operators, Approve(o) PROVE PlaybookInv'
<1> DEFINE id == hand[o].id
           x == [hand[o] EXCEPT !.does = "approved"]
           e == [executions[id] EXCEPT !.status = "running"]
<1>0. /\ playbook' = playbook /\ hand[o].does = "approve"
      /\ executions' = [executions EXCEPT ![id].status = "running"]
      /\ hand' = [hand EXCEPT ![o].does = "approved"]
      /\ UNCHANGED <<schedBusy, scheduler, runCancel, runner, cancels>>
  BY DEF Approve
<1>1. hand \in [Operators -> HandStates] /\ ExecutionsFit(executions)
  BY TypesOfPlaybook DEF PlaybookInv
<1>2. id \in DOMAIN executions
  BY <1>0 DEF PlaybookInv, WhoAwaits
<1>3. e \in Execution /\ e.status = "running" /\ e.trigger = executions[id].trigger
  BY <1>1, <1>2 DEF ExecutionsFit, Execution
<1>4. executions' = [executions EXCEPT ![id] = e]
  BY <1>0
<1>5. x \in HandStates /\ x.does = "approved" /\ x.id = id
  <2>1. hand[o] \in HandStates
    BY <1>1
  <2> QED
    BY <2>1 DEF HandStates
<1>6. hand' = [hand EXCEPT ![o] = x]
  BY <1>0, <1>1
<1> HIDE DEF x, e
<1>7. hand' \in [Operators -> HandStates] /\ \A p \in Operators : hand'[p] = IF p = o THEN x ELSE hand[p]
  BY <1>1, <1>5, <1>6
<1>8. /\ DOMAIN executions' = DOMAIN executions
      /\ \A i \in DOMAIN executions : executions'[i] = IF i = id THEN e ELSE executions[i]
  <2> HIDE DEF id
  <2> QED
    BY <1>4
<1>9. ExecutionsFit(executions')
  BY <1>1, <1>3, <1>8 DEF ExecutionsFit
<1>10. PlaybooksTypeOK'
  BY <1>0, <1>7, <1>9, PlaybookTypes, TypesOfPlaybook DEF PlaybookInv
<1>11. Numbered' /\ WhoAwaits'
  <2>1. \A i \in DOMAIN executions :
          /\ executions'[i].trigger = executions[i].trigger
          /\ executions'[i].status = "pending_approval" => executions[i].status = "pending_approval"
    BY <1>3, <1>8
  <2>2. \A r \in Runners : runner'[r].stage # "free" =>
          /\ runner'[r].id \in DOMAIN executions
          /\ runner[r].stage # "free" /\ runner'[r].id = runner[r].id
    BY <1>0 DEF PlaybookInv, WhoAwaits
  <2>3. \A p \in Operators :
          \/ hand'[p] = hand[p]
          \/ /\ hand'[p].id \in DOMAIN executions
             /\ executions'[hand'[p].id].status # "pending_approval"
             /\ hand'[p].does \notin {"signal", "hosts", "finish"}
    BY <1>2, <1>3, <1>5, <1>7, <1>8
  <2> QED
    BY <1>8, <2>1, <2>2, <2>3, AwaitersKept
<1>12. UndoneBefore' /\ Judged'
  BY <1>0 DEF PlaybookInv, UndoneBefore, Judged, Targets
<1>13. GuardHasHolder'
  BY <1>5, <1>7 DEF GuardHasHolder
<1> QED
  BY <1>10, <1>11, <1>12, <1>13 DEF PlaybookInv

LEMMA ApproveRunsKeeps == ASSUME PlaybookInv, NEW o \in Operators, ApproveRuns(o) PROVE PlaybookInv'
<1> DEFINE id == hand[o].id
<1>0. /\ playbook' = playbook /\ hand[o].does = "approved"
      /\ executions' = Resets(executions, id) /\ Spawn(id, TRUE)
      /\ hand' = [hand EXCEPT ![o] = AtRest]
      /\ UNCHANGED <<schedBusy, scheduler, runCancel, cancels>>
  BY DEF ApproveRuns
<1>1. AtRest \in HandStates /\ AtRest.does = "nothing" /\ ExecutionsFit(executions) /\ playbook \in Shapes
  BY TypesOfPlaybook, AtRestFits DEF PlaybookInv
<1>2. id \in DOMAIN executions /\ ~Awaits(id)
  BY <1>0 DEF PlaybookInv, WhoAwaits
<1>3. id \in ExecIDs
  BY <1>1, <1>2 DEF ExecutionsFit
<1>4. hand' \in [Operators -> HandStates] /\ \A p \in Operators : hand'[p] = IF p = o THEN AtRest ELSE hand[p]
  BY <1>0, <1>1, TypesOfPlaybook DEF PlaybookInv
<1> HIDE DEF id
<1>5. ExecutionsFit(executions') /\ SameStatuses(executions, executions')
  BY <1>0, <1>1, ResetsFit
<1>6. PICK r \in Runners :
        /\ runner[r].stage = "free"
        /\ runner' \in [Runners -> RunnerStates]
        /\ \A q \in Runners : runner'[q] = IF q = r THEN Spawned(id, TRUE) ELSE runner[q]
  BY <1>0, <1>3, SpawnFits DEF PlaybookInv
<1>7. Spawned(id, TRUE).id = id /\ Spawned(id, TRUE).stage = "spawned" /\ Spawned(id, TRUE).clears
  BY <1>1, <1>3, SpawnedFits
<1>8. PlaybooksTypeOK'
  BY <1>0, <1>4, <1>5, <1>6, PlaybookTypes, TypesOfPlaybook DEF PlaybookInv
<1>9. Numbered' /\ WhoAwaits'
  <2>1. \A q \in Runners : runner'[q].stage # "free" =>
          /\ runner'[q].id \in DOMAIN executions
          /\ \/ runner[q].stage # "free" /\ runner'[q].id = runner[q].id
             \/ executions[runner'[q].id].status # "pending_approval"
    BY <1>2, <1>6, <1>7 DEF PlaybookInv, WhoAwaits, Awaits
  <2>2. \A p \in Operators : hand'[p] = hand[p] \/ hand'[p].does = "nothing"
    BY <1>1, <1>4
  <2> QED
    BY <1>5, <2>1, <2>2, AwaitersKept DEF SameStatuses
<1>10. UndoneBefore' /\ Judged'
  BY <1>0, <1>3, <1>6, SpawnKeeps
<1>11. GuardHasHolder'
  BY <1>6, <1>7 DEF GuardHasHolder
<1> QED
  BY <1>8, <1>9, <1>10, <1>11 DEF PlaybookInv

LEMMA SignalKeeps == ASSUME PlaybookInv, NEW o \in Operators, Signal(o) PROVE PlaybookInv'
<1> DEFINE r == runCancel[hand[o].id]
           x == [hand[o] EXCEPT !.does = "hosts"]
           y == [runner[r] EXCEPT !.ctx = TRUE]
<1>0. /\ playbook' = playbook /\ hand[o].does = "signal"
      /\ runner' = IF r = NoRunner THEN runner ELSE [runner EXCEPT ![r].ctx = TRUE]
      /\ hand' = [hand EXCEPT ![o].does = "hosts"]
      /\ UNCHANGED <<executions, schedBusy, scheduler, runCancel, cancels>>
  BY DEF Signal
<1>1. /\ hand \in [Operators -> HandStates] /\ ExecutionsFit(executions)
      /\ runner \in [Runners -> RunnerStates] /\ cancels \in 0..playbook.maxCancels
      /\ runCancel \in [ExecIDs -> Runners \cup {NoRunner}]
  BY TypesOfPlaybook DEF PlaybookInv
<1>2. /\ hand[o].id \in DOMAIN executions
      /\ ~hand[o].clears => executions[hand[o].id].trigger = "manual"
  BY <1>0 DEF PlaybookInv, WhoAwaits
<1>3. r \in Runners \cup {NoRunner}
  BY <1>1, <1>2 DEF ExecutionsFit
<1>4. x \in HandStates /\ x.does = "hosts" /\ x.id = hand[o].id /\ x.clears = hand[o].clears
  <2>1. hand[o] \in HandStates
    BY <1>1
  <2> QED
    BY <2>1 DEF HandStates
<1>5. hand' = [hand EXCEPT ![o] = x]
  BY <1>0, <1>1
<1> HIDE DEF r, x
<1>6. /\ runner' \in [Runners -> RunnerStates]
      /\ \A q \in Runners : /\ runner'[q].stage = runner[q].stage /\ runner'[q].id = runner[q].id
                            /\ runner'[q].clears = runner[q].clears
                            /\ runner'[q].verdict = runner[q].verdict
                            /\ runner'[q].work = runner[q].work
  <2>1. CASE r = NoRunner
    BY <1>0, <1>1, <2>1
  <2>2. CASE r \in Runners /\ r # NoRunner
    <3>1. runner[r] \in RunnerStates
      BY <1>1, <2>2
    <3>2. /\ y \in RunnerStates /\ y.stage = runner[r].stage /\ y.id = runner[r].id
          /\ y.clears = runner[r].clears /\ y.verdict = runner[r].verdict /\ y.work = runner[r].work
      BY <3>1 DEF RunnerStates
    <3>3. runner' = [runner EXCEPT ![r] = y]
      BY <1>0, <1>1, <2>2
    <3> HIDE DEF y
    <3> QED
      BY <1>1, <2>2, <3>2, <3>3
  <2> QED
    BY <1>3, <2>1, <2>2
<1>7. SameStatuses(executions, executions') /\ ExecutionsFit(executions') /\ cancels' \in 0..playbook.maxCancels
  BY <1>0, <1>1 DEF SameStatuses
<1>8. hand[o].does # "approved"
  BY <1>0
<1> QED
  BY <1>0, <1>2, <1>4, <1>5, <1>6, <1>7, <1>8, HandKeeps

LEMMA CancelHostsKeeps == ASSUME PlaybookInv, NEW o \in Operators, CancelHosts(o) PROVE PlaybookInv'
<1> DEFINE x == [hand[o] EXCEPT !.does = "finish"]
           id == hand[o].id
<1>0. /\ playbook' = playbook /\ hand[o].does = "hosts"
      /\ executions' = HostsCancelled(executions, id)
      /\ hand' = [hand EXCEPT ![o].does = "finish"]
      /\ UNCHANGED <<runner, schedBusy, scheduler, runCancel, cancels>>
  BY DEF CancelHosts
<1>1. /\ hand \in [Operators -> HandStates] /\ ExecutionsFit(executions)
      /\ runner \in [Runners -> RunnerStates] /\ cancels \in 0..playbook.maxCancels
  BY TypesOfPlaybook DEF PlaybookInv
<1>2. /\ hand[o].id \in DOMAIN executions
      /\ ~hand[o].clears => executions[hand[o].id].trigger = "manual"
  BY <1>0 DEF PlaybookInv, WhoAwaits
<1>3. x \in HandStates /\ x.does = "finish" /\ x.id = hand[o].id /\ x.clears = hand[o].clears
  <2>1. hand[o] \in HandStates
    BY <1>1
  <2> QED
    BY <2>1 DEF HandStates
<1>4. hand' = [hand EXCEPT ![o] = x]
  BY <1>0, <1>1
<1> HIDE DEF x, id
<1>5. SameStatuses(executions, executions') /\ ExecutionsFit(executions')
  BY <1>0, <1>1, HostsCancelledFits
<1>6. hand[o].does # "approved" /\ runner' = runner /\ cancels' = cancels
  BY <1>0
<1> QED
  BY <1>0, <1>1, <1>2, <1>3, <1>4, <1>5, <1>6, HandKeeps

LEMMA HandleKeeps == ASSUME PlaybookInv, NEW o \in Operators, Handle(o) PROVE PlaybookInv'
<1>0. {"failed", "rejected", "cancelled"} \subseteq Terminal
  BY DEF Terminal
<1>1. CASE ApproveNoHosts(o)
  <2>1. schedBusy' = FALSE /\ schedBusy' \in BOOLEAN
    BY <1>1 DEF ApproveNoHosts
  <2> QED
    BY <1>0, <1>1, <2>1, DecisionKeeps DEF ApproveNoHosts
<1>2. CASE RejectDecides(o)
  <2>1. schedBusy' = FALSE /\ schedBusy' \in BOOLEAN
    BY <1>2 DEF RejectDecides
  <2> QED
    BY <1>0, <1>2, <2>1, DecisionKeeps DEF RejectDecides
<1>3. CASE CancelFinish(o)
  <2>1. schedBusy' = (schedBusy /\ ~hand[o].clears)
    BY <1>3 DEF CancelFinish
  <2>2. schedBusy' \in BOOLEAN
    BY <2>1
  <2>3. schedBusy' => schedBusy /\ ~Awaits(hand[o].id)
    <3>1. ~hand[o].clears => executions[hand[o].id].trigger = "manual" /\ hand[o].id \in DOMAIN executions
      BY <1>3 DEF CancelFinish, PlaybookInv, WhoAwaits
    <3>2. Awaits(hand[o].id) => executions[hand[o].id].trigger = "schedule"
      BY DEF PlaybookInv, WhoAwaits, Awaits
    <3> QED
      BY <2>1, <3>1, <3>2
  <2> QED
    BY <1>0, <1>3, <2>2, <2>3, DecisionKeeps DEF CancelFinish
<1> QED
  BY <1>1, <1>2, <1>3, ApproveKeeps, ApproveRunsKeeps, SignalKeeps, CancelHostsKeeps DEF Handle

LEMMA InitPlaybook == PlaybooksInit => PlaybookInv
<1> SUFFICES ASSUME PlaybooksInit PROVE PlaybookInv
  OBVIOUS
<1>1. playbook \in Shapes /\ Idle \in RunnerStates /\ AtRest \in HandStates /\ AtRest.does = "nothing"
      /\ \A h \in Targets : Idle.work[h] = Fresh /\ Fresh.undo < Fresh.step
  BY FreshFits, AtRestFits DEF PlaybooksInit
<1>2. DOMAIN executions = {} /\ Idle.stage = "free"
  BY DEF PlaybooksInit, Idle
<1>3. PlaybooksTypeOK
  <2>1. 0 \in 0..playbook.maxCancels
    BY <1>1, ShapeFacts
  <2>2. runner \in [Runners -> RunnerStates] /\ hand \in [Operators -> HandStates]
    BY <1>1 DEF PlaybooksInit
  <2> QED
    BY <1>1, <1>2, <2>1, <2>2 DEF PlaybooksInit, PlaybooksTypeOK, RunnerStates, HandStates
<1>4. Numbered
  <2>1. Cardinality({}) = 0
    BY FS_EmptySet
  <2> QED
    BY <1>2, <2>1 DEF Numbered
<1>5. UndoneBefore /\ Judged
  BY <1>1, <1>2 DEF PlaybooksInit, UndoneBefore, Judged
<1>6. WhoAwaits /\ GuardHasHolder
  BY <1>1, <1>2 DEF PlaybooksInit, WhoAwaits, Awaits, GuardHasHolder
<1> QED
  BY <1>3, <1>4, <1>5, <1>6 DEF PlaybookInv

LEMMA StepPlaybook == PlaybookInv /\ [PlaybooksNext]_pbVars => PlaybookInv'
<1> SUFFICES ASSUME PlaybookInv, [PlaybooksNext]_pbVars PROVE PlaybookInv'
  OBVIOUS
<1>1. CASE Run
  <2>1. ASSUME NEW r \in Runners, RunnerStep(r) PROVE PlaybookInv'
    BY <2>1, BlockedKeeps, RegisterKeeps, CollectKeeps, ConcludeKeeps, LeaveKeeps DEF RunnerStep
  <2> QED
    BY <1>1, <2>1, HostStepKeeps DEF Run
<1>2. CASE DecidePending \/ (\E o \in Operators, id \in ExecIDs : Abort(o, id))
  BY <1>2, ChecksKeep DEF DecidePending
<1>3. CASE HandlerSteps
  BY <1>3, HandleKeeps DEF HandlerSteps
<1>4. CASE UNCHANGED pbVars
  BY <1>4 DEF pbVars, PlaybookInv, PlaybooksTypeOK, ExecIDs, Execution, Targets, HostWork, Numbered,
              UndoneBefore, Judged, WhoAwaits, Awaits, GuardHasHolder
<1> QED
  BY <1>1, <1>2, <1>3, <1>4, StartManualKeeps, DueKeeps, FireKeeps DEF PlaybooksNext

\* While a scheduled run blocks those that come due after it, there is somebody who will
\* let go: the guard of a schedule is never left set with nobody to clear it, however
\* approvals, rejections, cancellations and goroutines overtake each other (playbook.go).
THEOREM GuardsAreHeld == PlaybooksSpec => [](PlaybooksTypeOK /\ GuardHasHolder)
<1>1. PlaybookInv => PlaybooksTypeOK /\ GuardHasHolder
  BY DEF PlaybookInv
<1> QED
  BY <1>1, InitPlaybook, StepPlaybook, PTL DEF PlaybooksSpec

\* A terminal status is changed by nothing but an approval that was checked while the
\* execution was pending, for any number of hosts, steps, executions and handlers: not
\* by a runner's verdict, a late result of a host or a second cancellation.
THEOREM TerminalsStick == PlaybooksSpec => TerminalSticks
<1> DEFINE Sticks == \A id \in DOMAIN executions :
       executions[id].status \in Terminal /\ executions'[id].status # executions[id].status
         => \E o \in Operators : hand[o].does = "approve" /\ hand[o].id = id
<1>1. ASSUME PlaybookInv, PlaybooksNext PROVE Sticks
  <2>0. ExecutionsFit(executions)
    BY <1>1, TypesOfPlaybook DEF PlaybookInv
  <2>1. ASSUME NEW id, NEW status \in Terminal, executions' = Finished(executions, id, status)
        PROVE  Sticks
    BY <2>0, <2>1, FinishedFits DEF StatusSet
  <2>2. ASSUME SameStatuses(executions, executions') PROVE Sticks
    BY <2>2 DEF SameStatuses
  <2>3. CASE StartManual \/ Due \/ Fire
    BY <2>3 DEF StartManual, Due, Fire, FireSkipped, FirePending, FireReadOnly, Started
  <2>4. ASSUME NEW r \in Runners, NEW h, HostStep(r, h) PROVE Sticks
    <3>1. h \in Targets /\ \E w, status : HostGoes(r, h, w, status)
      BY <2>4 DEF HostStep, HostStart, StepEnds, AfterStep, AfterSteps, RollbackEnds
    <3>2. PICK w, status : HostGoes(r, h, w, status)
      BY <3>1
    <3>3. ASSUME NEW i \in DOMAIN executions
          PROVE  [executions[i] EXCEPT !.hosts[h] = status].status = executions[i].status
      BY <2>0 DEF ExecutionsFit, Execution
    <3>4. SameStatuses(executions, executions') \/ Sticks
      BY <3>2, <3>3 DEF HostGoes, HostUpdated
    <3> QED
      BY <2>2, <3>4
  <2>5. ASSUME NEW r \in Runners, RunnerStep(r) PROVE Sticks
    <3>1. CASE Blocked(r)
      <4>1. "failed" \in Terminal
        BY DEF Terminal
      <4> QED
        BY <2>1, <3>1, <4>1 DEF Blocked
    <3>2. CASE Register(r) \/ Collect(r) \/ Leave(r)
      BY <3>2 DEF Register, Collect, Leave
    <3>3. CASE Conclude(r)
      <4> DEFINE verdict == runner[r].verdict
                 id == runner[r].id
                 ex == IF verdict = "cancelled" THEN HostsCancelled(executions, id) ELSE executions
      <4>1. verdict \in Terminal /\ executions' = Finished(ex, id, verdict)
        BY <1>1, <3>3 DEF Conclude, PlaybookInv, Judged
      <4> HIDE DEF verdict, id
      <4>2. ExecutionsFit(ex) /\ SameStatuses(executions, ex)
        BY <2>0, HostsCancelledFits DEF SameStatuses
      <4> HIDE DEF ex
      <4>3. StatusSet(ex, executions', id, verdict)
        BY <4>1, <4>2, FinishedFits
      <4> QED
        BY <4>2, <4>3 DEF SameStatuses, StatusSet
    <3> QED
      BY <2>5, <3>1, <3>2, <3>3 DEF RunnerStep
  <2>6. ASSUME NEW o \in Operators, Handle(o) PROVE Sticks
    <3>0. {"failed", "rejected", "cancelled"} \subseteq Terminal
      BY DEF Terminal
    <3>1. CASE ApproveNoHosts(o) \/ RejectDecides(o) \/ CancelFinish(o)
      BY <2>1, <3>0, <3>1 DEF ApproveNoHosts, RejectDecides, CancelFinish
    <3>2. CASE Approve(o)
      BY <3>2 DEF Approve
    <3>3. CASE ApproveRuns(o)
      BY <2>0, <2>2, <3>3, ResetsFit DEF ApproveRuns
    <3>4. CASE Signal(o)
      BY <3>4 DEF Signal
    <3>5. CASE CancelHosts(o)
      BY <2>0, <2>2, <3>5, HostsCancelledFits DEF CancelHosts
    <3> QED
      BY <2>6, <3>1, <3>2, <3>3, <3>4, <3>5 DEF Handle
  <2>7. CASE DecidePending \/ (\E o \in Operators, id \in ExecIDs : Abort(o, id))
    BY <2>7 DEF DecidePending, CheckApprove, CheckReject, CheckCancel, Abort, Request
  <2> QED
    BY <1>1, <2>3, <2>4, <2>5, <2>6, <2>7 DEF PlaybooksNext, Run, HandlerSteps
<1>2. PlaybookInv /\ [PlaybooksNext]_pbVars => [Sticks]_pbVars
  BY <1>1
<1>3. PlaybookInv /\ [PlaybooksNext]_pbVars => PlaybookInv'
  BY StepPlaybook
<1> QED
  BY <1>2, <1>3, InitPlaybook, PTL DEF PlaybooksSpec, TerminalSticks
================================================================================
