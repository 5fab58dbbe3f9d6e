------------------------------- MODULE Notifier -------------------------------
(***************************************************************************)
(* The alert engine of src/cmd/server/notify.go.                           *)
(*                                                                         *)
(* tick() takes a copy of the configuration, evaluates every alert source, *)
(* reconciles the result with the confirmed alerts under n.mu and then,    *)
(* outside the lock, dispatches the transitions one by one: an alert       *)
(* record, a job for the push goroutine, the incident hook.  It is run by  *)
(* the loop of Run every 10 s and, after a configuration save, by          *)
(* "go s.notifier.Trigger()": two ticks can be under way at once.          *)
(***************************************************************************)
EXTENDS Naturals, Sequences

CONSTANTS
  Keys,          \* alertKey(a): host / type / scope
  Ticker,        \* the goroutine of Run
  Triggers,      \* the goroutines handleSetConfig may have started and not ended
  ConfirmTicks,  \* alertConfirmTicks
  ClearTicks,    \* alertClearTicks
  QueueCap,      \* notifyPushQueue
  RecordCap,     \* maxAlertHistory
  Inhibits,      \* <<source, target>>: an enabled inhibit rule of the governance
  MaxSaves       \* bound on the configuration saves of a behaviour

Workers == {Ticker} \cup Triggers

ASSUME NotifierAssumption ==
  /\ Ticker \notin Triggers
  /\ ConfirmTicks \in Nat \ {0}
  /\ ClearTicks \in Nat \ {0}
  /\ QueueCap \in Nat
  /\ RecordCap \in Nat \ {0}
  /\ MaxSaves \in Nat
  /\ Inhibits \subseteq Keys \X Keys

VARIABLES
  \* The world and the configuration.
  cond,          \* the keys whose condition holds: what the sources would report
  enabled,       \* cfg.AlertsEnabled
  saves,         \* configuration saves so far
  admin,         \* handleSetConfig: "idle", or "saved" before it resets the state
  \* Notifier, under n.mu.  A map of counters is a function: 0 is no entry.
  active,        \* confirmed alerts
  since,         \* keys with a first-fired time
  pending,       \* candidates: consecutive rounds with the condition
  missing,       \* confirmed alerts: consecutive rounds without it
  \* Each tick under way.
  pc,            \* where it is
  cfgOn,         \* AlertsEnabled in its copy of the configuration
  cur,           \* the keys its evaluation found
  fires,         \* transitions it has still to dispatch ...
  resolves,
  hand,          \* ... and the one it has dispatched and not yet given to the hooks
  \* What dispatch writes.
  records,       \* alertHistory, oldest first: {k} for a record of k with ResolvedAt = 0,
                 \* {} for a resolved one and for one of another source
  recordIDs,     \* recordIDs[k]: how many records are newer than the one the map has
                 \* for k, counted up to RecordCap; NoEntry without one
  pushQ,         \* jobs of the push goroutine
  dropped,       \* keys of which a job found the queue full
  told           \* told[k]: what the push goroutine last did about k

configVars == <<enabled, saves, admin>>
alertVars  == <<active, since, pending, missing>>
tickVars   == <<pc, cfgOn, cur, fires, resolves, hand>>
recordVars == <<records, recordIDs>>
outVars    == <<recordVars, pushQ, dropped, told>>
vars == <<cond, configVars, alertVars, tickVars, outVars>>

Transitions == [key : Keys, firing : BOOLEAN]
NoTransition == [key |-> "none", firing |-> FALSE]
NoEntry == RecordCap + 1
RingRecords == {{}} \cup {{k} : k \in Keys}

TypeOK ==
  /\ cond \in SUBSET Keys
  /\ enabled \in BOOLEAN
  /\ saves \in 0..MaxSaves
  /\ admin \in {"idle", "saved"}
  /\ active \in SUBSET Keys
  /\ since \in SUBSET Keys
  /\ pending \in [Keys -> Nat]
  /\ missing \in [Keys -> Nat]
  /\ pc \in [Workers -> {"idle", "begin", "evaluate", "reconcile", "dispatch", "hook"}]
  /\ cfgOn \in [Workers -> BOOLEAN]
  /\ cur \in [Workers -> SUBSET Keys]
  /\ fires \in [Workers -> SUBSET Keys]
  /\ resolves \in [Workers -> SUBSET Keys]
  /\ hand \in [Workers -> Transitions \cup {NoTransition}]
  /\ records \in Seq(RingRecords)
  /\ Len(records) <= RecordCap
  /\ recordIDs \in [Keys -> 0..NoEntry]
  /\ pushQ \in Seq(Transitions)
  /\ dropped \in SUBSET Keys
  /\ told \in [Keys -> {"nothing", "firing", "suppressed", "recovered"}]

Init ==
  /\ cond = {}
  /\ enabled = TRUE
  /\ saves = 0
  /\ admin = "idle"
  /\ active = {}
  /\ since = {}
  /\ pending = [k \in Keys |-> 0]
  /\ missing = [k \in Keys |-> 0]
  /\ pc = [w \in Workers |-> "idle"]
  /\ cfgOn = [w \in Workers |-> FALSE]
  /\ cur = [w \in Workers |-> {}]
  /\ fires = [w \in Workers |-> {}]
  /\ resolves = [w \in Workers |-> {}]
  /\ hand = [w \in Workers |-> NoTransition]
  /\ records = <<>>
  /\ recordIDs = [k \in Keys |-> NoEntry]
  /\ pushQ = <<>>
  /\ dropped = {}
  /\ told = [k \in Keys |-> "nothing"]

-----------------------------------------------------------------------------
(* The world: a monitored value crosses its threshold, in either direction. *)

Toggle(k) ==
  /\ cond' = IF k \in cond THEN cond \ {k} ELSE cond \cup {k}
  /\ UNCHANGED <<configVars, alertVars, tickVars, outVars>>

-----------------------------------------------------------------------------
(* handleSetConfig: cfg.Set, then ResetState, then "go Trigger()".          *)

SaveConfig ==
  /\ admin = "idle"
  /\ saves < MaxSaves
  /\ saves' = saves + 1
  /\ admin' = "saved"
  /\ enabled' \in BOOLEAN
  /\ UNCHANGED <<cond, alertVars, tickVars, outVars>>

ResetState ==
  /\ active' = {}
  /\ pending' = [k \in Keys |-> 0]
  /\ missing' = [k \in Keys |-> 0]
  /\ UNCHANGED since

ResetAndTrigger(w) ==
  /\ admin = "saved"
  /\ pc[w] = "idle"
  /\ ResetState
  /\ pc' = [pc EXCEPT ![w] = "begin"]
  /\ admin' = "idle"
  /\ UNCHANGED <<cond, enabled, saves, cfgOn, cur, fires, resolves, hand, outVars>>

-----------------------------------------------------------------------------
(* tick().                                                                  *)

\* cfg := n.cfg.Get()
Begin(w) ==
  /\ pc[w] = IF w = Ticker THEN "idle" ELSE "begin"
  /\ pc' = [pc EXCEPT ![w] = "evaluate"]
  /\ cfgOn' = [cfgOn EXCEPT ![w] = enabled]
  /\ UNCHANGED <<cond, configVars, alertVars, cur, fires, resolves, hand, outVars>>

\* Evaluate(...) and the other sources, collected by alertKey.
Evaluate(w) ==
  /\ pc[w] = "evaluate"
  /\ pc' = [pc EXCEPT ![w] = "reconcile"]
  /\ cur' = [cur EXCEPT ![w] = cond]
  /\ UNCHANGED <<cond, configVars, alertVars, cfgOn, fires, resolves, hand, outVars>>

\* Candidates that reach the confirmation threshold in a round that saw seen.
Confirmed(seen) == {k \in seen \ active : pending[k] + 1 >= ConfirmTicks}

\* Confirmed alerts that reach the clearing threshold in that round.
Cleared(seen) == {k \in active \ seen : missing[k] + 1 >= ClearTicks}

\* Mutant: a key that vanishes keeps its count.
PendingAfterKeepsVanished(seen) ==
  [k \in Keys |-> IF k \in Confirmed(seen) THEN 0
                  ELSE IF k \in active \/ k \notin seen THEN pending[k] ELSE pending[k] + 1]
PendingAfter(seen) ==
  [k \in Keys |-> IF k \in Confirmed(seen) \/ k \notin seen THEN 0
                  ELSE IF k \in active THEN pending[k] ELSE pending[k] + 1]

MissingAfter(seen) ==
  [k \in Keys |-> IF k \notin active THEN missing[k]
                  ELSE IF k \in seen \/ k \in Cleared(seen) THEN 0 ELSE missing[k] + 1]

\* Mutant: a recovered key is reported and stays confirmed.
ReconciledKeepsCleared(seen) ==
  /\ active' = active \cup Confirmed(seen)
  /\ since' = (since \cup Confirmed(seen)) \ Cleared(seen)
  /\ pending' = PendingAfter(seen)
  /\ missing' = MissingAfter(seen)

Reconciled(seen) ==
  /\ active' = (active \cup Confirmed(seen)) \ Cleared(seen)
  /\ since' = (since \cup Confirmed(seen)) \ Cleared(seen)
  /\ pending' = PendingAfter(seen)
  /\ missing' = MissingAfter(seen)

\* reconcile, and the transitions kept for dispatch if the copy has alerts on.
Reconcile(w) ==
  LET f == IF cfgOn[w] THEN Confirmed(cur[w]) ELSE {}
      r == IF cfgOn[w] THEN Cleared(cur[w]) ELSE {}
  IN /\ pc[w] = "reconcile"
     /\ Reconciled(cur[w])
     /\ fires' = [fires EXCEPT ![w] = f]
     /\ resolves' = [resolves EXCEPT ![w] = r]
     /\ cur' = [cur EXCEPT ![w] = {}]
     /\ pc' = [pc EXCEPT ![w] = IF f \cup r = {} THEN "idle" ELSE "dispatch"]
     /\ UNCHANGED <<cond, configVars, cfgOn, hand, outVars>>

\* enqueuePush never blocks: a full queue drops the job.
EnqueuePush(t) ==
  IF Len(pushQ) < QueueCap
    THEN pushQ' = Append(pushQ, t) /\ UNCHANGED dropped
    ELSE dropped' = dropped \cup {t.key} /\ UNCHANGED pushQ

\* AddAlertRecord: the ring keeps the RecordCap newest records, resolved or not.
\* Mutant: nothing is trimmed.
RingWithUntrimmed(record) == Append(records, record)
RingWith(record) ==
  LET all == Append(records, record)
  IN  IF Len(all) > RecordCap THEN Tail(all) ELSE all

\* One more record is newer than what recordIDs holds.
Aged == [k \in Keys |-> IF recordIDs[k] < RecordCap THEN recordIDs[k] + 1 ELSE recordIDs[k]]

\* Where the ring has unresolved records of k.
OpenAt(k) == {i \in DOMAIN records : k \in records[i]}

\* ResolveAlert closes the latest unresolved record of the key, if the ring has one.
\* Mutant: the walk backwards stops short of the oldest.
RingResolvedButOldest(k) ==
  [i \in DOMAIN records |->
     IF i > 1 /\ i \in OpenAt(k) /\ \A j \in OpenAt(k) : j <= i THEN {} ELSE records[i]]
RingResolved(k) ==
  [i \in DOMAIN records |->
     IF i \in OpenAt(k) /\ \A j \in OpenAt(k) : j <= i THEN {} ELSE records[i]]

\* The record of a transition.
Record(t) ==
  /\ records' = IF t.firing THEN RingWith({t.key}) ELSE RingResolved(t.key)
  /\ recordIDs' = IF t.firing THEN [Aged EXCEPT ![t.key] = 0]
                  ELSE [recordIDs EXCEPT ![t.key] = NoEntry]

\* A failed pipeline, or a playbook that waits for approval, has its own record, of
\* a key that the engine does not know.
FileOther ==
  /\ records' = RingWith({})
  /\ recordIDs' = Aged
  /\ UNCHANGED <<cond, configVars, alertVars, tickVars, pushQ, dropped, told>>

\* dispatch of one transition; every firing one comes before the recoveries,
\* in the order a map is walked, which is any order.
Dispatch(w, k) ==
  LET t == [key |-> k, firing |-> fires[w] # {}]
  IN /\ pc[w] = "dispatch"
     /\ k \in (IF fires[w] # {} THEN fires[w] ELSE resolves[w])
     /\ Record(t)
     /\ EnqueuePush(t)
     /\ fires' = [fires EXCEPT ![w] = @ \ {k}]
     /\ resolves' = [resolves EXCEPT ![w] = IF t.firing THEN @ ELSE @ \ {k}]
     /\ hand' = [hand EXCEPT ![w] = t]
     /\ pc' = [pc EXCEPT ![w] = "hook"]
     /\ UNCHANGED <<cond, configVars, alertVars, cfgOn, cur, told>>

\* The incident and remediation hooks have been called with the transition.
Hooked(w) ==
  /\ pc[w] = "hook"
  /\ hand' = [hand EXCEPT ![w] = NoTransition]
  /\ pc' = [pc EXCEPT ![w] = IF fires[w] \cup resolves[w] = {} THEN "idle" ELSE "dispatch"]
  /\ UNCHANGED <<cond, configVars, alertVars, cfgOn, cur, fires, resolves, outVars>>

-----------------------------------------------------------------------------
(* The push goroutine: pushChannels on the oldest job.  Only a firing alert *)
(* can be suppressed, by a silence or by a source that is active now.       *)

Inhibited(k) == \E s \in active \ {k} : <<s, k>> \in Inhibits

\* Mutant: the governance rules are applied to recoveries too.
GovernedAlways(t) == TRUE
\* Silences and inhibit rules are looked up for this job.
Governed(t) == t.firing

\* A silence may match at any time, an inhibit rule when its source is active.
Deliver ==
  /\ pushQ # <<>>
  /\ pushQ' = Tail(pushQ)
  /\ LET t == Head(pushQ)
     IN \/ /\ Governed(t)
           /\ told' = [told EXCEPT ![t.key] = "suppressed"]
        \/ /\ ~(Governed(t) /\ Inhibited(t.key))
           /\ told' = [told EXCEPT ![t.key] = IF t.firing THEN "firing" ELSE "recovered"]
  /\ UNCHANGED <<cond, configVars, alertVars, tickVars, recordVars, dropped>>

-----------------------------------------------------------------------------

TickStep(w) ==
  \/ Begin(w)
  \/ Evaluate(w)
  \/ Reconcile(w)
  \/ \E k \in Keys : Dispatch(w, k)
  \/ Hooked(w)

Next ==
  \/ \E k \in Keys : Toggle(k)
  \/ SaveConfig
  \/ \E w \in Triggers : ResetAndTrigger(w)
  \/ \E w \in Workers : TickStep(w)
  \/ Deliver
  \/ FileOther

\* Run loops for ever under superviseLoop, a started goroutine and the push
\* goroutine are scheduled, and a request that has been accepted is handled.
Fairness ==
  /\ \A w \in Workers : WF_vars(TickStep(w))
  /\ WF_vars(\E w \in Triggers : ResetAndTrigger(w))
  /\ WF_vars(Deliver)

Spec == Init /\ [][Next]_vars
FairSpec == Spec /\ Fairness

-----------------------------------------------------------------------------
(* Properties.                                                              *)

Idle == \A w \in Workers : pc[w] = "idle"

\* The counters of reconcile say one thing about a key: it is a candidate
\* below the confirmation threshold, or a confirmed alert below the clearing
\* threshold.  A count left over from an earlier life of the key would let the
\* next blip through the flapping guard.
CountersWellFormed ==
  \A k \in Keys :
    /\ k \in active => pending[k] = 0 /\ missing[k] < ClearTicks /\ k \in since
    /\ k \notin active => missing[k] = 0 /\ pending[k] < ConfirmTicks

\* reconcile and ResetState, whoever runs them and in whatever order the ticks
\* interleave, are the debounce automaton of each key and nothing else.
Debounce == INSTANCE AlertDebounce
  WITH Observers <- Workers,
       inbox <- [w \in Workers |-> IF pc[w] = "reconcile" THEN {cur[w]} ELSE {}],
       firing <- active,
       toward <- [k \in Keys |-> IF k \in active THEN missing[k] ELSE pending[k]]
Debounced == Debounce!Spec

\* As long as only the loop of Run ticks, recordIDs has an entry for exactly the
\* confirmed alerts, up to the transitions in hand, and the unresolved records of a
\* key are that one, still at its place, unless RecordCap newer records, of any
\* source, have pushed it out: then none is left for its recovery to resolve.
Said(k) == (k \in active /\ k \notin fires[Ticker]) \/ k \in resolves[Ticker]
RecordsMirrorAlerts ==
  saves = 0 =>
    \A k \in Keys :
      /\ recordIDs[k] # NoEntry <=> Said(k)
      /\ OpenAt(k) = IF recordIDs[k] < Len(records)
                       THEN {Len(records) - recordIDs[k]} ELSE {}

\* "Recoveries are always sent, so that no rule makes an alert look alive for
\* ever": once nothing is in flight, the channels were last told that an alert
\* fires exactly when it does, unless its job met a full queue.
ChannelAgreesAtRest ==
  (saves = 0 /\ Idle /\ pushQ = <<>>) =>
    \A k \in Keys \ dropped :
      k \in active <=> told[k] \in {"firing", "suppressed"}

\* A condition that stays becomes a confirmed alert and one that has gone
\* leaves the confirmed alerts, whatever configuration saves come in between.
AlertsConverge ==
  \A k \in Keys :
    /\ <>[](k \in cond) => <>[](k \in active)
    /\ <>[](k \notin cond) => <>[](k \notin active)
=============================================================================
