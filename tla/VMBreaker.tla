------------------------------- MODULE VMBreaker -------------------------------
(***************************************************************************)
(* The circuit breaker in front of VictoriaMetrics                         *)
(* (src/cmd/server/vm_breaker.go), with the requests that run under it.    *)
(* newVMWriter makes two: one for the single ingest loop and one for the   *)
(* chart queries, which run concurrently.  allow, success and failure each *)
(* hold b.mu; between them a request is in flight, and the breaker may     *)
(* trip, cool down and probe meanwhile.  Time passes in ticks; a request   *)
(* reports as soon as it has its answer, that is, within a tick.           *)
(***************************************************************************)
EXTENDS Naturals

CONSTANTS
  Callers,       \* goroutines that send requests under this breaker
  Ingest,        \* those of the ingest loop: vmImportDone reports a 4xx again
  Threshold,     \* consecutive failures that trip it
  CoolDown,      \* coolDown, in ticks
  Timeout        \* vmQueryTimeout: bounds a request and the reading of its body

ASSUME VMBreakerAssumption ==
  /\ Ingest \subseteq Callers
  /\ Threshold \in Nat \ {0}
  /\ CoolDown \in Nat \ {0}
  /\ Timeout \in Nat \ {0}

VARIABLES
  health,        \* VictoriaMetrics: "up", "down", "throttling" (429) or "rejecting"
                 \* (any other 4xx)
  failures,      \* b.failures
  tripped,       \* openUntil is set
  coolLeft,      \* ticks until openUntil
  halfOpenProbe, \* b.halfOpenProbe
  req,           \* each caller's request
  age,           \* ticks since allow let it through
  probing        \* allow let it through as the probe

breaker == <<failures, tripped, coolLeft, halfOpenProbe>>
vars == <<health, breaker, req, age, probing>>

\* "body": a 4xx has been counted and its body is being read.
InFlight == {"sent", "body"}
Answers == {"ok", "failed", "throttled", "rejected"}
Healths == {"up", "down", "throttling", "rejecting"}

TypeOK ==
  /\ health \in Healths
  /\ failures \in 0..(Threshold - 1)
  /\ tripped \in BOOLEAN
  /\ coolLeft \in 0..CoolDown
  /\ halfOpenProbe \in BOOLEAN
  /\ req \in [Callers -> {"idle"} \cup InFlight \cup Answers]
  /\ age \in [Callers -> 0..Timeout]
  /\ probing \in [Callers -> BOOLEAN]

Init ==
  /\ health = "up"
  /\ failures = 0
  /\ tripped = FALSE
  /\ coolLeft = 0
  /\ halfOpenProbe = FALSE
  /\ req = [c \in Callers |-> "idle"]
  /\ age = [c \in Callers |-> 0]
  /\ probing = [c \in Callers |-> FALSE]

-----------------------------------------------------------------------------

HealthChange ==
  /\ health' \in Healths \ {health}
  /\ UNCHANGED <<breaker, req, age, probing>>

\* Mutant: the half-open breaker lets everybody through.
AllowAll == coolLeft = 0
\* allow: closed, or cooled down with no probe out.
Allow == coolLeft = 0 /\ (tripped => ~halfOpenProbe)

\* A refused caller gets errVMCircuitOpen and changes nothing.
Send(c) ==
  /\ req[c] = "idle"
  /\ Allow
  /\ halfOpenProbe' = (halfOpenProbe \/ tripped)
  /\ req' = [req EXCEPT ![c] = "sent"]
  /\ age' = [age EXCEPT ![c] = 0]
  /\ probing' = [probing EXCEPT ![c] = tripped]
  /\ UNCHANGED <<health, failures, tripped, coolLeft>>

\* httpc.Do returns.
Answer(c) ==
  /\ req[c] = "sent"
  /\ req' = [req EXCEPT ![c] = CASE health = "up" -> "ok"
                                 [] health = "down" -> "failed"
                                 [] health = "throttling" -> "throttled"
                                 [] health = "rejecting" -> "rejected"]
  /\ UNCHANGED <<health, breaker, age, probing>>

\* Mutant: a success leaves the breaker open until the cool-down.
SuccessKeepsOpen ==
  /\ failures' = 0
  /\ halfOpenProbe' = FALSE
  /\ UNCHANGED <<tripped, coolLeft>>

Success ==
  /\ failures' = 0
  /\ halfOpenProbe' = FALSE
  /\ tripped' = FALSE
  /\ coolLeft' = 0

\* Mutant: a probe that failed is not given back.
FailureKeepsProbe ==
  /\ halfOpenProbe' = halfOpenProbe
  /\ IF halfOpenProbe \/ failures + 1 >= Threshold
       THEN tripped' = TRUE /\ coolLeft' = CoolDown /\ failures' = 0
       ELSE failures' = failures + 1 /\ UNCHANGED <<tripped, coolLeft>>

\* failure: a probe trips the breaker again, others count to the threshold.
Failure ==
  /\ halfOpenProbe' = FALSE
  /\ IF halfOpenProbe \/ failures + 1 >= Threshold
       THEN tripped' = TRUE /\ coolLeft' = CoolDown /\ failures' = 0
       ELSE failures' = failures + 1 /\ UNCHANGED <<tripped, coolLeft>>

\* doVMWithBreaker after Do: an error or a 5xx is a failure, the rest success.
Report(c) ==
  /\ req[c] \in Answers
  /\ IF req[c] = "failed" THEN Failure ELSE Success
  /\ req' = [req EXCEPT ![c] = IF @ = "rejected" /\ c \in Ingest THEN "body" ELSE "idle"]
  /\ probing' = [probing EXCEPT ![c] = FALSE]
  /\ UNCHANGED <<health, age>>

\* vmImportDone has read the body of a 4xx.
Reject(c) ==
  /\ req[c] = "body"
  /\ Failure
  /\ req' = [req EXCEPT ![c] = "idle"]
  /\ UNCHANGED <<health, age, probing>>

\* Time passes, up to the timeout of every request in flight.
Tick ==
  /\ \A c \in Callers : req[c] \notin Answers
  /\ \A c \in Callers : req[c] \in InFlight => age[c] < Timeout
  /\ coolLeft' = IF coolLeft > 0 THEN coolLeft - 1 ELSE 0
  /\ age' = [c \in Callers |-> IF req[c] \in InFlight THEN age[c] + 1 ELSE age[c]]
  /\ UNCHANGED <<health, failures, tripped, halfOpenProbe, req, probing>>

Next ==
  \/ HealthChange
  \/ \E c \in Callers : Send(c) \/ Answer(c) \/ Report(c) \/ Reject(c)
  \/ Tick

\* Time passes, an answered request is reported, a request is answered or times
\* out, and callers keep calling: the ingest loop flushes every 5 s and charts
\* refresh.
Fairness ==
  /\ WF_vars(Tick)
  /\ \A c \in Callers : WF_vars(Answer(c)) /\ WF_vars(Report(c)) /\ WF_vars(Reject(c))
  /\ WF_vars(\E c \in Callers : Send(c))

Spec == Init /\ [][Next]_vars
FairSpec == Spec /\ Fairness

-----------------------------------------------------------------------------
(* Properties.                                                              *)

Probing == {c \in Callers : probing[c]}

\* The breaker is never half-open with nobody probing: halfOpenProbe is given
\* back whatever answers of older requests come in between.  Otherwise allow
\* would refuse every request for ever.
ProbeOut == halfOpenProbe => Probing # {}

\* After the cool-down "exactly ONE caller gets through to probe" until it
\* reports back: while a probe is out, no other request is in flight.
ProbeAlone ==
  \A c \in Probing : \A d \in Callers \ {c} : req[d] \notin InFlight \cup Answers

\* A VictoriaMetrics that stays up is in use again: the breaker closes for good.
Recovers == <>[](health = "up") => <>[](~tripped /\ failures = 0)

\* One that stays down trips the breaker for good: the readers fall back to
\* memory at once, but for one probe at a time.
Trips == <>[](health = "down") => <>[]tripped

\* One that keeps rejecting the ingest loop trips the write breaker.
RejectionsTrip == <>[](health = "rejecting") => <>[]tripped
=============================================================================
