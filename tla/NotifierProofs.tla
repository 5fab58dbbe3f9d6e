---------------------------- MODULE NotifierProofs ----------------------------
(***************************************************************************)
(* Proofs about the alert engine, for any set of keys, any number of ticks *)
(* under way, any thresholds, queue and number of configuration saves.     *)
(***************************************************************************)
EXTENDS Notifier, TLAPS

-----------------------------------------------------------------------------
(* The types.                                                               *)

\* The constructor leaves every variable in its type.
LEMMA InitTypeOK == Init => TypeOK
<1> SUFFICES ASSUME Init PROVE TypeOK
  OBVIOUS
<1>1. 0 \in 0..MaxSaves
  BY NotifierAssumption
<1>2. /\ <<>> \in Seq(Transitions)
      /\ <<>> \in Seq(RingRecords)
      /\ Len(<<>>) <= RecordCap
  BY NotifierAssumption
<1>3. NoEntry \in 0..NoEntry
  BY NotifierAssumption DEF NoEntry
<1> QED
  BY <1>1, <1>2, <1>3 DEF Init, TypeOK, NoTransition

\* The counters that reconcile leaves are counters again.
LEMMA CountersStayNat ==
  ASSUME pending \in [Keys -> Nat], missing \in [Keys -> Nat], NEW seen \in SUBSET Keys
  PROVE  /\ PendingAfter(seen) \in [Keys -> Nat]
         /\ MissingAfter(seen) \in [Keys -> Nat]
<1>1. \A k \in Keys : pending[k] + 1 \in Nat /\ missing[k] + 1 \in Nat
  OBVIOUS
<1>2. PendingAfter(seen) \in [Keys -> Nat]
  BY <1>1 DEF PendingAfter
<1>3. MissingAfter(seen) \in [Keys -> Nat]
  BY <1>1 DEF MissingAfter
<1> QED
  BY <1>2, <1>3

LEMMA ReconcileTypeOK ==
  ASSUME TypeOK, NEW w \in Workers, Reconcile(w)
  PROVE  TypeOK'
<1>1. cur[w] \in SUBSET Keys
  BY DEF TypeOK
<1>2. /\ Confirmed(cur[w]) \in SUBSET Keys
      /\ Cleared(cur[w]) \in SUBSET Keys
  BY <1>1 DEF TypeOK, Confirmed, Cleared
<1>3. /\ active' \in SUBSET Keys
      /\ since' \in SUBSET Keys
  BY <1>2 DEF TypeOK, Reconcile, Reconciled
<1>4. /\ pending' \in [Keys -> Nat]
      /\ missing' \in [Keys -> Nat]
  BY <1>1, CountersStayNat DEF TypeOK, Reconcile, Reconciled
<1>5. /\ fires' \in [Workers -> SUBSET Keys]
      /\ resolves' \in [Workers -> SUBSET Keys]
      /\ cur' \in [Workers -> SUBSET Keys]
  BY <1>2 DEF TypeOK, Reconcile
<1>6. pc' \in [Workers -> {"idle", "begin", "evaluate", "reconcile", "dispatch", "hook"}]
  BY DEF TypeOK, Reconcile
<1> QED
  BY <1>3, <1>4, <1>5, <1>6 DEF TypeOK, Reconcile, configVars, outVars, recordVars

\* What the ring is once a record has been added: its newest one is the last, and the
\* others have moved down if the ring was full.
LEMMA RingGrows ==
  ASSUME TypeOK, NEW record \in RingRecords
  PROVE  /\ RingWith(record) \in Seq(RingRecords)
         /\ Len(RingWith(record)) = IF Len(records) < RecordCap THEN Len(records) + 1
                                    ELSE RecordCap
         /\ RingWith(record)[Len(RingWith(record))] = record
         /\ \A i \in 1..(Len(RingWith(record)) - 1) :
              RingWith(record)[i] = records[i + (Len(records) + 1 - Len(RingWith(record)))]
<1> DEFINE all == Append(records, record)
           ring == RingWith(record)
           n == Len(records)
<1>1. /\ records \in Seq(RingRecords)
      /\ n \in Nat
      /\ n <= RecordCap
      /\ RecordCap \in Nat \ {0}
  BY NotifierAssumption DEF TypeOK
<1>2. /\ all \in Seq(RingRecords)
      /\ Len(all) = n + 1
      /\ all[n + 1] = record
      /\ \A i \in 1..n : all[i] = records[i]
  BY <1>1
<1>3. ring = IF Len(all) > RecordCap THEN Tail(all) ELSE all
  BY DEF RingWith
<1> HIDE DEF all, ring, n
<1> SUFFICES /\ ring \in Seq(RingRecords)
             /\ Len(ring) = IF n < RecordCap THEN n + 1 ELSE RecordCap
             /\ ring[Len(ring)] = record
             /\ \A i \in 1..(Len(ring) - 1) : ring[i] = records[i + (n + 1 - Len(ring))]
  BY DEF ring, n
<1>4. CASE n < RecordCap
  <2>1. ring = all
    BY ONLY <1>1, <1>2, <1>3, <1>4
  <2>2. Len(ring) = n + 1 /\ n + 1 - Len(ring) = 0
    BY ONLY <1>1, <1>2, <2>1
  <2>3. \A i \in 1..(Len(ring) - 1) : i \in 1..n /\ i + (n + 1 - Len(ring)) = i
    BY ONLY <1>1, <2>2
  <2> QED
    BY ONLY <1>2, <1>4, <2>1, <2>2, <2>3
<1>5. CASE n = RecordCap
  <2>1. ring = Tail(all) /\ all # <<>>
    BY ONLY <1>1, <1>2, <1>3, <1>5
  <2>2. /\ ring \in Seq(RingRecords)
        /\ Len(ring) = n
        /\ \A i \in 1..n : ring[i] = all[i + 1]
    BY ONLY <1>1, <1>2, <2>1
  <2>3. n \in 1..n /\ ring[n] = record
    BY ONLY <1>1, <1>2, <1>5, <2>2
  <2>4. ASSUME NEW i \in 1..(Len(ring) - 1)
        PROVE  i \in 1..n /\ i + 1 \in 1..n /\ i + (n + 1 - Len(ring)) = i + 1
    BY ONLY <1>1, <2>2, <2>4
  <2> QED
    BY ONLY <1>1, <1>2, <1>5, <2>2, <2>3, <2>4
<1> QED
  BY ONLY <1>1, <1>4, <1>5

\* Resolving a record leaves the others where they are.
LEMMA RingStays ==
  ASSUME TypeOK, NEW k \in Keys
  PROVE  RingResolved(k) \in Seq(RingRecords) /\ Len(RingResolved(k)) = Len(records)
<1>1. /\ records \in Seq(RingRecords)
      /\ DOMAIN records = 1..Len(records)
      /\ Len(records) \in Nat
      /\ {} \in RingRecords
  BY DEF TypeOK, RingRecords
<1>2. /\ DOMAIN RingResolved(k) = 1..Len(records)
      /\ \A i \in 1..Len(records) : RingResolved(k)[i] \in RingRecords
  BY <1>1 DEF RingResolved
<1>3. RingResolved(k) = [i \in 1..Len(records) |-> RingResolved(k)[i]]
  BY <1>1 DEF RingResolved
<1> QED
  BY <1>1, <1>2, <1>3

LEMMA AgedTypeOK ==
  ASSUME TypeOK
  PROVE  Aged \in [Keys -> 0..NoEntry]
<1>1. RecordCap \in Nat /\ NoEntry = RecordCap + 1 /\ recordIDs \in [Keys -> 0..NoEntry]
  BY NotifierAssumption DEF TypeOK, NoEntry
<1>2. ASSUME NEW k \in Keys
      PROVE  (IF recordIDs[k] < RecordCap THEN recordIDs[k] + 1 ELSE recordIDs[k]) \in 0..NoEntry
  BY <1>1
<1> QED
  BY <1>2 DEF Aged

\* The ring and the map keep their types whatever transition is recorded.
LEMMA RecordTypeOK ==
  ASSUME TypeOK, NEW t \in Transitions, Record(t)
  PROVE  /\ records' \in Seq(RingRecords)
         /\ Len(records') <= RecordCap
         /\ recordIDs' \in [Keys -> 0..NoEntry]
<1>1. t.key \in Keys /\ {t.key} \in RingRecords
  BY DEF Transitions, RingRecords
<1>2. /\ Len(records) \in Nat
      /\ Len(records) <= RecordCap
      /\ RecordCap \in Nat \ {0}
      /\ 0 \in 0..NoEntry
      /\ NoEntry \in 0..NoEntry
  BY NotifierAssumption DEF TypeOK, NoEntry
<1>3. CASE t.firing
  <2>1. records' = RingWith({t.key}) /\ recordIDs' = [Aged EXCEPT ![t.key] = 0]
    BY <1>3 DEF Record
  <2> QED
    BY ONLY <1>1, <1>2, <2>1, RingGrows, AgedTypeOK, TypeOK
<1>4. CASE ~t.firing
  <2>1. records' = RingResolved(t.key) /\ recordIDs' = [recordIDs EXCEPT ![t.key] = NoEntry]
    BY <1>4 DEF Record
  <2>2. recordIDs \in [Keys -> 0..NoEntry]
    BY DEF TypeOK
  <2> QED
    BY ONLY <1>1, <1>2, <2>1, <2>2, RingStays, TypeOK
<1> QED
  BY <1>3, <1>4

LEMMA FileOtherTypeOK ==
  ASSUME TypeOK, FileOther
  PROVE  TypeOK'
<1>1. records' = RingWith({}) /\ recordIDs' = Aged /\ {} \in RingRecords
  BY DEF FileOther, RingRecords
<1>2. Len(records) \in Nat /\ Len(records) <= RecordCap /\ RecordCap \in Nat \ {0}
  BY NotifierAssumption DEF TypeOK
<1>3. /\ records' \in Seq(RingRecords)
      /\ Len(records') <= RecordCap
      /\ recordIDs' \in [Keys -> 0..NoEntry]
  BY ONLY <1>1, <1>2, RingGrows, AgedTypeOK, TypeOK
<1> QED
  BY <1>3 DEF TypeOK, FileOther, configVars, alertVars, tickVars

LEMMA DispatchTypeOK ==
  ASSUME TypeOK, NEW w \in Workers, NEW k \in Keys, Dispatch(w, k)
  PROVE  TypeOK'
<1> DEFINE t == [key |-> k, firing |-> fires[w] # {}]
<1>1. t \in Transitions
  BY DEF Transitions
<1>2. /\ records' \in Seq(RingRecords)
      /\ Len(records') <= RecordCap
      /\ recordIDs' \in [Keys -> 0..NoEntry]
  <2>1. Record(t)
    BY DEF Dispatch
  <2> HIDE DEF t
  <2> QED
    BY <1>1, <2>1, RecordTypeOK
<1>3. /\ pushQ' \in Seq(Transitions)
      /\ dropped' \in SUBSET Keys
  <2>1. EnqueuePush(t)
    BY DEF Dispatch
  <2>2. Append(pushQ, t) \in Seq(Transitions)
    BY <1>1 DEF TypeOK
  <2> QED
    BY <1>1, <2>1, <2>2 DEF TypeOK, EnqueuePush
<1>4. /\ fires' \in [Workers -> SUBSET Keys]
      /\ resolves' \in [Workers -> SUBSET Keys]
  BY DEF TypeOK, Dispatch
<1>5. hand' \in [Workers -> Transitions \cup {NoTransition}]
  BY <1>1 DEF TypeOK, Dispatch
<1>6. pc' \in [Workers -> {"idle", "begin", "evaluate", "reconcile", "dispatch", "hook"}]
  BY DEF TypeOK, Dispatch
<1> QED
  BY <1>2, <1>3, <1>4, <1>5, <1>6 DEF TypeOK, Dispatch, configVars, alertVars

LEMMA DeliverTypeOK ==
  ASSUME TypeOK, Deliver
  PROVE  TypeOK'
<1>1. Head(pushQ) \in Transitions
  BY DEF TypeOK, Deliver
<1>2. Tail(pushQ) \in Seq(Transitions)
  BY DEF TypeOK, Deliver
<1>3. told' \in [Keys -> {"nothing", "firing", "suppressed", "recovered"}]
  BY <1>1 DEF TypeOK, Deliver, Transitions
<1> QED
  BY <1>2, <1>3 DEF TypeOK, Deliver, configVars, alertVars, tickVars, recordVars

LEMMA StepTypeOK == TypeOK /\ [Next]_vars => TypeOK'
<1> SUFFICES ASSUME TypeOK, [Next]_vars
             PROVE  TypeOK'
  OBVIOUS
<1>1. ASSUME NEW k \in Keys, Toggle(k) PROVE TypeOK'
  BY <1>1 DEF TypeOK, Toggle, configVars, alertVars, tickVars, outVars, recordVars
<1>2. ASSUME SaveConfig PROVE TypeOK'
  <2>1. saves' \in 0..MaxSaves
    BY <1>2, NotifierAssumption DEF TypeOK, SaveConfig
  <2> QED
    BY <1>2, <2>1 DEF TypeOK, SaveConfig, alertVars, tickVars, outVars, recordVars
<1>3. ASSUME NEW w \in Triggers, ResetAndTrigger(w) PROVE TypeOK'
  BY <1>3 DEF TypeOK, ResetAndTrigger, ResetState, outVars, recordVars
<1>4. ASSUME NEW w \in Workers, TickStep(w) PROVE TypeOK'
  <2>1. CASE Begin(w)
    BY <2>1 DEF TypeOK, Begin, configVars, alertVars, outVars, recordVars
  <2>2. CASE Evaluate(w)
    BY <2>2 DEF TypeOK, Evaluate, configVars, alertVars, outVars, recordVars
  <2>3. CASE Reconcile(w)
    BY <2>3, ReconcileTypeOK
  <2>4. ASSUME NEW k \in Keys, Dispatch(w, k) PROVE TypeOK'
    BY <2>4, DispatchTypeOK
  <2>5. CASE Hooked(w)
    BY <2>5 DEF TypeOK, Hooked, configVars, alertVars, outVars, recordVars
  <2> QED
    BY <1>4, <2>1, <2>2, <2>3, <2>4, <2>5 DEF TickStep
<1>5. CASE Deliver
  BY <1>5, DeliverTypeOK
<1>6. CASE FileOther
  BY <1>6, FileOtherTypeOK
<1>7. CASE UNCHANGED vars
  BY <1>7 DEF TypeOK, vars, configVars, alertVars, tickVars, outVars, recordVars
<1> QED
  BY <1>1, <1>2, <1>3, <1>4, <1>5, <1>6, <1>7 DEF Next

\* Type correctness: every handler of the alert engine leaves every variable
\* in its type, whatever ticks and saves interleave.
THEOREM Typing == Spec => []TypeOK
<1>1. Init => TypeOK
  BY InitTypeOK
<1>2. TypeOK /\ [Next]_vars => TypeOK'
  BY StepTypeOK
<1> QED
  BY <1>1, <1>2, PTL DEF Spec

-----------------------------------------------------------------------------
(* The counters.                                                            *)

LEMMA ReconcileCounters ==
  ASSUME TypeOK, CountersWellFormed, NEW w \in Workers, Reconcile(w)
  PROVE  CountersWellFormed'
<1> DEFINE seen == cur[w]
<1>1. /\ active' = (active \cup Confirmed(seen)) \ Cleared(seen)
      /\ since' = (since \cup Confirmed(seen)) \ Cleared(seen)
      /\ pending' = PendingAfter(seen)
      /\ missing' = MissingAfter(seen)
  BY DEF Reconcile, Reconciled
<1>2. SUFFICES ASSUME NEW k \in Keys
               PROVE  /\ k \in active' => pending'[k] = 0 /\ missing'[k] < ClearTicks /\ k \in since'
                      /\ k \notin active' => missing'[k] = 0 /\ pending'[k] < ConfirmTicks
  BY DEF CountersWellFormed
<1>3. /\ pending[k] \in Nat
      /\ missing[k] \in Nat
      /\ ConfirmTicks \in Nat \ {0}
      /\ ClearTicks \in Nat \ {0}
  BY NotifierAssumption DEF TypeOK
<1>4. CASE k \in active
  <2>1. /\ pending[k] = 0
        /\ missing[k] < ClearTicks
        /\ k \in since
        /\ k \notin Confirmed(seen)
    BY <1>4 DEF CountersWellFormed, Confirmed
  <2>2. pending'[k] = 0
    BY <1>1, <1>4, <2>1 DEF PendingAfter
  <2>3. CASE k \in Cleared(seen)
    BY <1>1, <1>3, <1>4, <2>2, <2>3 DEF MissingAfter
  <2>4. CASE k \notin Cleared(seen)
    <3>1. missing'[k] < ClearTicks
      BY <1>1, <1>3, <1>4, <2>4 DEF MissingAfter, Cleared
    <3> QED
      BY <1>1, <1>4, <2>1, <2>2, <2>4, <3>1
  <2> QED
    BY <2>3, <2>4
<1>5. CASE k \notin active
  <2>1. /\ missing[k] = 0
        /\ pending[k] < ConfirmTicks
        /\ k \notin Cleared(seen)
    BY <1>5 DEF CountersWellFormed, Cleared
  <2>2. missing'[k] = 0
    BY <1>1, <1>5, <2>1 DEF MissingAfter
  <2>3. CASE k \in Confirmed(seen)
    BY <1>1, <1>3, <2>1, <2>2, <2>3 DEF PendingAfter
  <2>4. CASE k \notin Confirmed(seen)
    <3>1. pending'[k] < ConfirmTicks
      BY <1>1, <1>3, <1>5, <2>4 DEF PendingAfter, Confirmed
    <3> QED
      BY <1>1, <1>5, <2>2, <2>4, <3>1
  <2> QED
    BY <2>3, <2>4
<1> QED
  BY <1>4, <1>5

LEMMA ResetCounters ==
  ASSUME ResetState
  PROVE  CountersWellFormed'
<1>1. 0 < ConfirmTicks
  BY NotifierAssumption
<1> QED
  BY <1>1 DEF ResetState, CountersWellFormed

LEMMA StepCounters == TypeOK /\ CountersWellFormed /\ [Next]_vars => CountersWellFormed'
<1> SUFFICES ASSUME TypeOK, CountersWellFormed, [Next]_vars
             PROVE  CountersWellFormed'
  OBVIOUS
<1>1. ASSUME UNCHANGED alertVars PROVE CountersWellFormed'
  BY <1>1 DEF alertVars, CountersWellFormed
<1>2. ASSUME NEW w \in Triggers, ResetAndTrigger(w) PROVE CountersWellFormed'
  BY <1>2, ResetCounters DEF ResetAndTrigger
<1>3. ASSUME NEW w \in Workers, TickStep(w) PROVE CountersWellFormed'
  <2>1. CASE Reconcile(w)
    BY <2>1, ReconcileCounters
  <2>2. CASE Begin(w) \/ Evaluate(w) \/ Hooked(w) \/ \E k \in Keys : Dispatch(w, k)
    BY <1>1, <2>2 DEF Begin, Evaluate, Hooked, Dispatch
  <2> QED
    BY <1>3, <2>1, <2>2 DEF TickStep
<1>4. CASE (\E k \in Keys : Toggle(k)) \/ SaveConfig \/ Deliver \/ FileOther
  BY <1>1, <1>4 DEF Toggle, SaveConfig, Deliver, FileOther
<1>5. CASE UNCHANGED vars
  BY <1>1, <1>5 DEF vars
<1> QED
  BY <1>2, <1>3, <1>4, <1>5 DEF Next

\* The counters of reconcile are well formed for any thresholds, whatever ticks
\* and resets interleave: no count outlives the state it was counted in.
THEOREM Counters == Spec => []CountersWellFormed
<1>1. Init => CountersWellFormed
  <2> SUFFICES ASSUME Init, NEW k \in Keys
               PROVE  /\ active = {}
                      /\ missing[k] = 0
                      /\ pending[k] < ConfirmTicks
    BY DEF CountersWellFormed
  <2>1. pending[k] = 0 /\ 0 < ConfirmTicks
    BY NotifierAssumption DEF Init
  <2> QED
    BY <2>1 DEF Init
<1>2. TypeOK /\ CountersWellFormed /\ [Next]_vars => CountersWellFormed'
  BY StepCounters
<1> QED
  BY <1>1, <1>2, Typing, PTL DEF Spec

-----------------------------------------------------------------------------
(* The debounce automaton.                                                  *)

\* One reconciliation is one round of every automaton.
LEMMA ReconcileIsRound ==
  ASSUME TypeOK, CountersWellFormed, NEW w \in Workers, Reconcile(w),
         NEW seen \in SUBSET Keys, seen = cur[w]
  PROVE  Debounce!Round(w, seen)
<1> DEFINE inbox == [v \in Workers |-> IF pc[v] = "reconcile" THEN {cur[v]} ELSE {}]
           toward == [k \in Keys |-> IF k \in active THEN missing[k] ELSE pending[k]]
<1>1. /\ active' = (active \cup Confirmed(seen)) \ Cleared(seen)
      /\ pending' = PendingAfter(seen)
      /\ missing' = MissingAfter(seen)
  BY DEF Reconcile, Reconciled
<1>2. active \in SUBSET Keys
  BY DEF TypeOK
<1>3. Debounce!Flips(seen) = Confirmed(seen) \cup Cleared(seen)
  <2>1. ASSUME NEW k \in active
        PROVE  k \in Debounce!Flips(seen) <=> k \in Confirmed(seen) \cup Cleared(seen)
    BY <1>2 DEF Debounce!Flips, Debounce!Contradicts, Debounce!Threshold, Confirmed, Cleared
  <2>2. ASSUME NEW k \in Keys \ active
        PROVE  k \in Debounce!Flips(seen) <=> k \in Confirmed(seen) \cup Cleared(seen)
    BY <1>2 DEF Debounce!Flips, Debounce!Contradicts, Debounce!Threshold, Confirmed, Cleared
  <2>3. /\ Debounce!Flips(seen) \subseteq Keys
        /\ Confirmed(seen) \cup Cleared(seen) \subseteq Keys
    BY <1>2 DEF Debounce!Flips, Confirmed, Cleared
  <2> QED
    BY <2>1, <2>2, <2>3
<1>4. /\ Confirmed(seen) \cap active = {}
      /\ Cleared(seen) \subseteq active
  BY DEF Confirmed, Cleared
<1>5. inbox[w] = {seen} /\ inbox' = [inbox EXCEPT ![w] = {}]
  <2>1. pc[w] = "reconcile" /\ pc'[w] # "reconcile"
    BY DEF Reconcile, TypeOK
  <2>2. \A v \in Workers \ {w} : pc'[v] = pc[v] /\ cur'[v] = cur[v]
    BY DEF Reconcile, TypeOK
  <2> QED
    BY <2>1, <2>2
<1>6. active' = (active \ Debounce!Flips(seen)) \cup (Debounce!Flips(seen) \ active)
  BY <1>1, <1>2, <1>3, <1>4
<1>7. toward' = [k \in Keys |-> IF Debounce!Contradicts(seen, k) /\ k \notin Debounce!Flips(seen)
                                  THEN toward[k] + 1 ELSE 0]
  <2> SUFFICES ASSUME NEW k \in Keys
               PROVE  (IF k \in active' THEN missing'[k] ELSE pending'[k])
                        = IF Debounce!Contradicts(seen, k) /\ k \notin Debounce!Flips(seen)
                            THEN (IF k \in active THEN missing[k] ELSE pending[k]) + 1 ELSE 0
    OBVIOUS
  <2>1. CASE k \in active
    BY <1>1, <1>3, <1>4, <2>1
       DEF Debounce!Contradicts, PendingAfter, MissingAfter, CountersWellFormed, Cleared
  <2>2. CASE k \notin active
    BY <1>1, <1>3, <1>4, <2>2
       DEF Debounce!Contradicts, PendingAfter, MissingAfter, CountersWellFormed, Confirmed
  <2> QED
    BY <2>1, <2>2
<1> QED
  BY <1>5, <1>6, <1>7 DEF Debounce!Round

LEMMA StepDebounced ==
  TypeOK /\ CountersWellFormed /\ [Next]_vars => [Debounce!Next]_(Debounce!vars)
<1> SUFFICES ASSUME TypeOK, CountersWellFormed, [Next]_vars
             PROVE  [Debounce!Next]_(Debounce!vars)
  OBVIOUS
<1>1. ASSUME UNCHANGED alertVars,
             \A v \in Workers : (pc[v] = "reconcile" \/ pc'[v] = "reconcile")
                                  => pc'[v] = pc[v] /\ cur'[v] = cur[v]
      PROVE  UNCHANGED Debounce!vars
  BY <1>1 DEF alertVars, Debounce!vars
<1>2. ASSUME NEW w \in Triggers, ResetAndTrigger(w) PROVE Debounce!Forget
  BY <1>2 DEF ResetAndTrigger, ResetState, Debounce!Forget, TypeOK, Workers
<1>3. ASSUME NEW w \in Workers, TickStep(w) PROVE [Debounce!Next]_(Debounce!vars)
  <2>1. CASE Evaluate(w)
    <3>1. PICK seen \in SUBSET Keys : seen = cond
      BY DEF TypeOK
    <3>2. Debounce!Observe(w, seen)
      BY <2>1, <3>1 DEF Evaluate, Debounce!Observe, TypeOK, alertVars
    <3> QED
      BY <3>2 DEF Debounce!Next
  <2>2. CASE Reconcile(w)
    <3>1. PICK seen \in SUBSET Keys : seen = cur[w]
      BY DEF TypeOK
    <3>2. Debounce!Round(w, seen)
      BY <2>2, <3>1, ReconcileIsRound
    <3> QED
      BY <3>2 DEF Debounce!Next
  <2>3. CASE Begin(w)
    BY <1>1, <2>3 DEF Begin, TypeOK
  <2>4. CASE Hooked(w)
    BY <1>1, <2>4 DEF Hooked, TypeOK
  <2>5. ASSUME NEW k \in Keys, Dispatch(w, k) PROVE UNCHANGED Debounce!vars
    BY <1>1, <2>5 DEF Dispatch, TypeOK
  <2> QED
    BY <1>3, <2>1, <2>2, <2>3, <2>4, <2>5 DEF TickStep
<1>4. CASE (\E k \in Keys : Toggle(k)) \/ SaveConfig \/ Deliver \/ FileOther
  BY <1>1, <1>4 DEF Toggle, SaveConfig, Deliver, FileOther, tickVars
<1>5. CASE UNCHANGED vars
  BY <1>1, <1>5 DEF vars, tickVars
<1> QED
  BY <1>2, <1>3, <1>4, <1>5 DEF Next, Debounce!Next

\* Refinement: reconcile and ResetState, run by any number of ticks in any
\* order, implement the debounce automaton of AlertDebounce for every key.
THEOREM Refinement == Spec => Debounced
<1>1. Init => Debounce!Init
  BY DEF Init, Debounce!Init
<1>2. TypeOK /\ CountersWellFormed /\ [Next]_vars => [Debounce!Next]_(Debounce!vars)
  BY StepDebounced
<1> QED
  BY <1>1, <1>2, Typing, Counters, PTL DEF Spec, Debounced, Debounce!Spec

-----------------------------------------------------------------------------
(* The alert records, before any configuration save.                        *)

\* Only the loop of Run has ever ticked, with alerts enabled; a transition it
\* still has to dispatch is one that its last reconciliation made.
OneLoop ==
  saves = 0 =>
    /\ enabled = TRUE
    /\ admin = "idle"
    /\ \A w \in Triggers : pc[w] = "idle"
    /\ pc[Ticker] \in {"evaluate", "reconcile"} => cfgOn[Ticker] = TRUE
    /\ pc[Ticker] \notin {"dispatch", "hook"} => fires[Ticker] = {} /\ resolves[Ticker] = {}
    /\ fires[Ticker] \subseteq active
    /\ resolves[Ticker] \cap active = {}

RecordsInv == OneLoop /\ RecordsMirrorAlerts

\* Where the record that recordIDs has for k is, while the ring still has it.
Place(k) == IF recordIDs[k] < Len(records) THEN {Len(records) - recordIDs[k]} ELSE {}

\* RecordsMirrorAlerts speaks of the ring, of recordIDs and of what was dispatched.
LEMMA RecordsUntouched ==
  ASSUME RecordsMirrorAlerts, UNCHANGED <<saves, recordVars>>, \A k \in Keys : Said(k)' = Said(k)
  PROVE  RecordsMirrorAlerts'
  BY DEF RecordsMirrorAlerts, recordVars, OpenAt

\* One more record in the ring, not of k: that of k moves down by one place or
\* leaves the ring, as its age in recordIDs says.
LEMMA RingAges ==
  ASSUME TypeOK, NEW record \in RingRecords, NEW k \in Keys, k \notin record,
         records' = RingWith(record), recordIDs'[k] = Aged[k], OpenAt(k) = Place(k)
  PROVE  OpenAt(k)' = Place(k)' /\ (recordIDs'[k] = NoEntry <=> recordIDs[k] = NoEntry)
<1> DEFINE n == Len(records)
           m == Len(records')
           a == recordIDs[k]
<1>1. /\ n \in Nat
      /\ n <= RecordCap
      /\ RecordCap \in Nat \ {0}
      /\ NoEntry = RecordCap + 1
      /\ a \in 0..NoEntry
      /\ DOMAIN records = 1..n
  BY NotifierAssumption DEF TypeOK, NoEntry
<1>2. /\ DOMAIN records' = 1..m
      /\ m = IF n < RecordCap THEN n + 1 ELSE RecordCap
      /\ records'[m] = record
      /\ \A i \in 1..(m - 1) : records'[i] = records[i + (n + 1 - m)]
  <2>1. /\ RingWith(record) \in Seq(RingRecords)
        /\ Len(RingWith(record)) = IF n < RecordCap THEN n + 1 ELSE RecordCap
        /\ RingWith(record)[Len(RingWith(record))] = record
        /\ \A i \in 1..(Len(RingWith(record)) - 1) :
             RingWith(record)[i] = records[i + (n + 1 - Len(RingWith(record)))]
    BY RingGrows
  <2>2. records' \in Seq(RingRecords)
    BY <2>1
  <2>3. DOMAIN records' = 1..m
    BY ONLY <2>2
  <2> QED
    BY ONLY <2>1, <2>3, records' = RingWith(record)
<1>3. recordIDs'[k] = IF a < RecordCap THEN a + 1 ELSE a
  BY DEF Aged
<1>4. \A i \in 1..n : k \in records[i] <=> (a < n /\ i = n - a)
  <2>1. OpenAt(k) = {i \in 1..n : k \in records[i]}
    BY <1>1 DEF OpenAt
  <2>2. OpenAt(k) = IF a < n THEN {n - a} ELSE {}
    BY DEF Place
  <2> HIDE DEF n, a
  <2> QED
    BY <1>1, <2>1, <2>2
<1>5. OpenAt(k)' = {i \in 1..m : k \in records'[i]}
  BY <1>2 DEF OpenAt
<1>6. Place(k)' = IF recordIDs'[k] < m THEN {m - recordIDs'[k]} ELSE {}
  BY DEF Place
<1> HIDE DEF n, m, a
<1>7. \A i \in 1..m : k \in records'[i] <=> (recordIDs'[k] < m /\ i = m - recordIDs'[k])
  <2> SUFFICES ASSUME NEW i \in 1..m
               PROVE  k \in records'[i] <=> (recordIDs'[k] < m /\ i = m - recordIDs'[k])
    OBVIOUS
  <2>1. CASE i = m
    <3>1. k \notin records'[i]
      BY <1>2, <2>1
    <3>2. recordIDs'[k] > 0 /\ recordIDs'[k] \in Nat
      BY <1>1, <1>3
    <3> QED
      BY <1>1, <1>2, <2>1, <3>1, <3>2
  <2>2. CASE i # m
    <3> DEFINE j == i + (n + 1 - m)
    <3>1. i \in 1..(m - 1) /\ j \in 1..n
      BY <1>1, <1>2, <2>2
    <3>2. k \in records'[i] <=> (a < n /\ j = n - a)
      BY <1>2, <1>4, <3>1
    <3>3. (a < n /\ j = n - a) <=> (recordIDs'[k] < m /\ i = m - recordIDs'[k])
      BY <1>1, <1>2, <1>3, <3>1
    <3> QED
      BY <3>2, <3>3
  <2> QED
    BY <2>1, <2>2
<1>8. recordIDs'[k] < m => m - recordIDs'[k] \in 1..m
  BY <1>1, <1>2, <1>3
<1>9. OpenAt(k)' = Place(k)'
  BY <1>5, <1>6, <1>7, <1>8
<1>10. recordIDs'[k] = NoEntry <=> a = NoEntry
  BY <1>1, <1>3
<1> QED
  BY <1>9, <1>10 DEF a

\* There is no record at first, and no alert that one could be of.
LEMMA InitRecords == Init => RecordsMirrorAlerts
<1> SUFFICES ASSUME Init, NEW k \in Keys
             PROVE  recordIDs[k] = NoEntry /\ ~Said(k) /\ OpenAt(k) = {} /\ ~(NoEntry < Len(records))
  BY DEF RecordsMirrorAlerts
<1>1. recordIDs[k] = NoEntry /\ records = <<>>
  BY DEF Init
<1>2. ~Said(k)
  BY DEF Init, Said, Workers
<1>3. OpenAt(k) = {} /\ ~(NoEntry < Len(records))
  BY <1>1, NotifierAssumption DEF OpenAt, NoEntry
<1> QED
  BY <1>1, <1>2, <1>3

LEMMA ReconcileRecords ==
  ASSUME TypeOK, RecordsInv, Reconcile(Ticker), saves = 0
  PROVE  RecordsInv'
<1> DEFINE seen == cur[Ticker]
<1>1. /\ pc[Ticker] = "reconcile"
      /\ cfgOn[Ticker] = TRUE
      /\ fires[Ticker] = {} /\ resolves[Ticker] = {}
  BY DEF Reconcile, RecordsInv, OneLoop
<1>2. /\ fires'[Ticker] = Confirmed(seen)
      /\ resolves'[Ticker] = Cleared(seen)
      /\ active' = (active \cup Confirmed(seen)) \ Cleared(seen)
  BY <1>1 DEF TypeOK, Reconcile, Reconciled, Workers
<1>3. /\ Confirmed(seen) \cap active = {}
      /\ Confirmed(seen) \cap Cleared(seen) = {}
      /\ Cleared(seen) \subseteq active
  BY DEF Confirmed, Cleared
<1>4. /\ UNCHANGED <<enabled, saves, admin, recordVars>>
      /\ \A w \in Triggers : pc'[w] = pc[w]
      /\ pc'[Ticker] = IF Confirmed(seen) \cup Cleared(seen) = {} THEN "idle" ELSE "dispatch"
  BY <1>1, NotifierAssumption DEF TypeOK, Reconcile, configVars, outVars, Workers
<1>5. OneLoop'
  BY <1>2, <1>3, <1>4 DEF RecordsInv, OneLoop
<1>6. \A k \in Keys : Said(k)' = Said(k)
  BY <1>1, <1>2, <1>3 DEF Said
<1>7. RecordsMirrorAlerts'
  BY ONLY <1>4, <1>6, RecordsInv, RecordsUntouched DEF RecordsInv
<1> QED
  BY <1>5, <1>7 DEF RecordsInv

LEMMA DispatchRecords ==
  ASSUME TypeOK, RecordsInv, NEW x \in Keys, Dispatch(Ticker, x), saves = 0
  PROVE  RecordsInv'
<1>1. /\ UNCHANGED <<enabled, saves, admin, active, cfgOn>>
      /\ \A w \in Triggers : pc'[w] = pc[w]
      /\ pc'[Ticker] = "hook"
  BY NotifierAssumption DEF TypeOK, Dispatch, configVars, alertVars, Workers
<1>2. /\ \A k \in Keys : (recordIDs[k] # NoEntry <=> Said(k)) /\ OpenAt(k) = Place(k)
      /\ fires[Ticker] \subseteq active
      /\ resolves[Ticker] \cap active = {}
  BY DEF RecordsInv, RecordsMirrorAlerts, OneLoop, Place
<1>3. /\ Len(records) \in Nat
      /\ Len(records) <= RecordCap
      /\ RecordCap \in Nat \ {0}
      /\ NoEntry = RecordCap + 1
      /\ recordIDs \in [Keys -> 0..NoEntry]
      /\ DOMAIN records = 1..Len(records)
  BY NotifierAssumption DEF TypeOK, NoEntry
<1>4. SUFFICES ASSUME NEW k \in Keys
               PROVE  OneLoop' /\ (recordIDs'[k] # NoEntry <=> Said(k)') /\ OpenAt(k)' = Place(k)'
  <2>1. Dispatch(Ticker, x) => Keys # {}
    OBVIOUS
  <2> QED
    BY <2>1 DEF RecordsInv, RecordsMirrorAlerts, Place
<1>5. CASE fires[Ticker] # {}
  <2>1. /\ x \in fires[Ticker]
        /\ fires'[Ticker] = fires[Ticker] \ {x}
        /\ resolves'[Ticker] = resolves[Ticker]
        /\ records' = RingWith({x})
        /\ recordIDs' = [Aged EXCEPT ![x] = 0]
    BY <1>5 DEF TypeOK, Dispatch, Record, Workers
  <2>2. OneLoop'
    BY <1>1, <2>1 DEF RecordsInv, OneLoop
  <2>3. {x} \in RingRecords /\ Aged \in [Keys -> 0..NoEntry]
    BY AgedTypeOK DEF RingRecords
  <2>4. CASE k # x
    <3>1. Said(k)' = Said(k)
      BY <1>1, <2>1, <2>4 DEF Said
    <3>2. recordIDs'[k] = Aged[k] /\ k \notin {x}
      BY <2>1, <2>3, <2>4
    <3>3. OpenAt(k)' = Place(k)' /\ (recordIDs'[k] = NoEntry <=> recordIDs[k] = NoEntry)
      BY ONLY <1>2, <2>1, <2>3, <3>2, RingAges, TypeOK, k \in Keys
    <3> QED
      BY <1>2, <2>2, <3>1, <3>3
  <2>5. CASE k = x
    <3> DEFINE m == Len(records')
    <3>1. Said(x)' /\ ~Said(x)
      BY <1>1, <1>2, <2>1 DEF Said
    <3>2. recordIDs'[x] = 0 /\ recordIDs[x] = NoEntry
      BY <1>2, <2>1, <2>3, <3>1
    <3>3. \A i \in 1..Len(records) : x \notin records[i]
      <4>1. OpenAt(x) = {}
        BY <1>2, <1>3, <3>2 DEF Place
      <4> QED
        BY <1>3, <4>1 DEF OpenAt
    <3>4. /\ DOMAIN records' = 1..m
          /\ m = IF Len(records) < RecordCap THEN Len(records) + 1 ELSE RecordCap
          /\ records'[m] = {x}
          /\ \A i \in 1..(m - 1) : records'[i] = records[i + (Len(records) + 1 - m)]
      <4>1. /\ RingWith({x}) \in Seq(RingRecords)
            /\ Len(RingWith({x})) = IF Len(records) < RecordCap THEN Len(records) + 1
                                    ELSE RecordCap
            /\ RingWith({x})[Len(RingWith({x}))] = {x}
            /\ \A i \in 1..(Len(RingWith({x})) - 1) :
                 RingWith({x})[i] = records[i + (Len(records) + 1 - Len(RingWith({x})))]
        BY <2>3, RingGrows
      <4>2. records' \in Seq(RingRecords)
        BY <2>1, <4>1
      <4>3. DOMAIN records' = 1..m
        BY ONLY <4>2
      <4> QED
        BY ONLY <2>1, <4>1, <4>3
    <3>5. OpenAt(x)' = {i \in 1..m : x \in records'[i]}
      BY <3>4 DEF OpenAt
    <3>6. Place(x)' = {m} /\ m \in Nat \ {0}
      <4>1. m \in Nat \ {0}
        BY <1>3, <3>4
      <4> QED
        BY <3>2, <4>1 DEF Place
    <3> HIDE DEF m
    <3>7. ASSUME NEW i \in 1..m PROVE x \in records'[i] <=> i = m
      <4>1. CASE i = m
        BY ONLY <3>4, <4>1
      <4>2. CASE i # m
        <5>1. i \in 1..(m - 1) /\ i + (Len(records) + 1 - m) \in 1..Len(records)
          <6>1. /\ Len(records) \in Nat
                /\ Len(records) <= RecordCap
                /\ RecordCap \in Nat \ {0}
                /\ m = IF Len(records) < RecordCap THEN Len(records) + 1 ELSE RecordCap
            BY ONLY <1>3, <3>4
          <6> QED
            BY ONLY <4>2, <6>1, i \in 1..m
        <5>2. x \notin records[i + (Len(records) + 1 - m)]
          BY ONLY <3>3, <5>1
        <5>3. records'[i] = records[i + (Len(records) + 1 - m)]
          BY ONLY <3>4, <5>1
        <5> QED
          BY ONLY <4>2, <5>2, <5>3
      <4> QED
        BY <4>1, <4>2
    <3>8. OpenAt(x)' = Place(x)'
      BY <3>5, <3>6, <3>7
    <3>9. recordIDs'[x] # NoEntry
      BY <1>3, <3>2
    <3> QED
      BY <2>2, <2>5, <3>1, <3>8, <3>9
  <2> QED
    BY <2>4, <2>5
<1>6. CASE fires[Ticker] = {}
  <2>1. /\ x \in resolves[Ticker]
        /\ fires'[Ticker] = fires[Ticker]
        /\ resolves'[Ticker] = resolves[Ticker] \ {x}
        /\ records' = RingResolved(x)
        /\ recordIDs' = [recordIDs EXCEPT ![x] = NoEntry]
    BY <1>6 DEF TypeOK, Dispatch, Record, Workers
  <2>2. OneLoop'
    BY <1>1, <2>1 DEF RecordsInv, OneLoop
  <2>3. /\ DOMAIN records' = 1..Len(records)
        /\ Len(records') = Len(records)
        /\ \A i \in 1..Len(records) :
             records'[i] = IF i \in OpenAt(x) /\ \A j \in OpenAt(x) : j <= i THEN {}
                           ELSE records[i]
    BY <1>3, <2>1, RingStays DEF RingResolved
  <2>4. /\ OpenAt(k) = {i \in 1..Len(records) : k \in records[i]}
        /\ OpenAt(k)' = {i \in 1..Len(records) : k \in records'[i]}
        /\ OpenAt(x) = {i \in 1..Len(records) : x \in records[i]}
    BY <1>3, <2>3 DEF OpenAt
  <2>5. CASE k # x
    <3>1. Said(k)' = Said(k)
      BY <1>1, <2>1, <2>5 DEF Said
    <3>2. recordIDs'[k] = recordIDs[k]
      BY <1>3, <2>1, <2>5
    <3>3. \A i \in 1..Len(records) : x \in records[i] => k \notin records[i]
      <4>1. \A i \in 1..Len(records) : records[i] \in RingRecords
        BY <1>3 DEF TypeOK
      <4> QED
        BY <2>5, <4>1 DEF RingRecords
    <3>4. OpenAt(k)' = OpenAt(k)
      BY <2>3, <2>4, <3>3
    <3>5. Place(k)' = Place(k)
      BY <2>3, <3>2 DEF Place
    <3> QED
      BY <1>2, <2>2, <3>1, <3>2, <3>4, <3>5
  <2>6. CASE k = x
    <3>1. ~Said(x)'
      BY <1>1, <1>2, <2>1 DEF Said
    <3>2. recordIDs'[x] = NoEntry
      BY <1>3, <2>1
    <3>3. OpenAt(x)' = {}
      <4>1. \A i, j \in OpenAt(x) : i = j /\ i \in Nat
        BY <1>2, <1>3, <2>4 DEF Place
      <4>2. \A i \in OpenAt(x) : \A j \in OpenAt(x) : j <= i
        BY <4>1
      <4>3. \A i \in 1..Len(records) : x \notin records'[i]
        BY <2>3, <2>4, <4>2
      <4> QED
        BY <2>4, <2>6, <4>3
    <3>4. Place(x)' = {}
      BY <1>3, <2>3, <3>2 DEF Place
    <3> QED
      BY <2>2, <2>6, <3>1, <3>2, <3>3, <3>4
  <2> QED
    BY <2>5, <2>6
<1> QED
  BY <1>5, <1>6

LEMMA FileOtherRecords ==
  ASSUME TypeOK, RecordsInv, FileOther
  PROVE  RecordsInv'
<1>1. OneLoop'
  BY DEF RecordsInv, OneLoop, FileOther, configVars, alertVars, tickVars
<1>2. /\ records' = RingWith({}) /\ recordIDs' = Aged /\ {} \in RingRecords
      /\ saves' = saves
      /\ \A k \in Keys : k \notin {} /\ Said(k)' = Said(k)
  BY DEF FileOther, RingRecords, Said, configVars, alertVars, tickVars
<1>3. ASSUME NEW k \in Keys, saves = 0
      PROVE  (recordIDs'[k] # NoEntry <=> Said(k)') /\ OpenAt(k)' = Place(k)'
  <2>1. (recordIDs[k] # NoEntry <=> Said(k)) /\ OpenAt(k) = Place(k)
    BY <1>3 DEF RecordsInv, RecordsMirrorAlerts, Place
  <2>2. OpenAt(k)' = Place(k)' /\ (recordIDs'[k] = NoEntry <=> recordIDs[k] = NoEntry)
    BY ONLY <1>2, <2>1, RingAges, TypeOK, k \in Keys
  <2> QED
    BY <1>2, <2>1, <2>2
<1> QED
  BY <1>1, <1>2, <1>3 DEF RecordsInv, RecordsMirrorAlerts, Place

LEMMA StepRecords == TypeOK /\ RecordsInv /\ [Next]_vars => RecordsInv'
<1> SUFFICES ASSUME TypeOK, RecordsInv, [Next]_vars
             PROVE  RecordsInv'
  OBVIOUS
<1>1. saves' \in Nat /\ saves \in Nat
  BY StepTypeOK, NotifierAssumption DEF TypeOK
<1>2. CASE saves' # 0
  BY <1>2 DEF RecordsInv, OneLoop, RecordsMirrorAlerts
<1>3. CASE saves' = 0 /\ saves # 0
  <2>1. ASSUME NEW w \in Workers, TickStep(w) PROVE saves' = saves
    BY <2>1 DEF TickStep, Begin, Evaluate, Reconcile, Dispatch, Hooked, configVars
  <2> QED
    BY <1>1, <1>3, <2>1
       DEF Next, Toggle, SaveConfig, ResetAndTrigger, Deliver, FileOther, vars, configVars
<1>4. CASE saves' = 0 /\ saves = 0
  <2>1. ASSUME UNCHANGED <<configVars, alertVars, tickVars, recordVars>> PROVE RecordsInv'
    <3>1. OneLoop'
      BY <2>1 DEF configVars, alertVars, tickVars, RecordsInv, OneLoop
    <3>2. \A k \in Keys : Said(k)' = Said(k)
      BY <2>1 DEF alertVars, tickVars, Said
    <3>3. saves' = saves
      BY <2>1 DEF configVars
    <3> QED
      BY <2>1, <3>1, <3>2, <3>3, RecordsUntouched DEF RecordsInv
  <2>2. ~SaveConfig
    BY <1>4, <1>1 DEF SaveConfig
  <2>3. ASSUME NEW w \in Triggers PROVE ~ResetAndTrigger(w)
    BY <1>4 DEF ResetAndTrigger, RecordsInv, OneLoop
  <2>4. ASSUME NEW w \in Triggers PROVE ~TickStep(w)
    <3>1. pc[w] = "idle" /\ w # Ticker
      BY <1>4, NotifierAssumption DEF RecordsInv, OneLoop
    <3> QED
      BY <3>1 DEF TickStep, Begin, Evaluate, Reconcile, Dispatch, Hooked
  <2>5. ASSUME TickStep(Ticker) PROVE RecordsInv'
    <3> USE <1>4, NotifierAssumption DEF Workers
    <3>0. ASSUME UNCHANGED <<configVars, alertVars, fires, resolves, recordVars>>
          PROVE  RecordsMirrorAlerts'
      <4>1. \A k \in Keys : Said(k)' = Said(k)
        BY <3>0 DEF alertVars, Said
      <4> QED
        BY <3>0, <4>1, RecordsUntouched DEF RecordsInv, configVars
    <3>1. CASE Begin(Ticker)
      <4>1. OneLoop'
        BY <3>1 DEF TypeOK, Begin, configVars, alertVars, RecordsInv, OneLoop
      <4> QED
        BY <3>0, <3>1, <4>1 DEF Begin, outVars, RecordsInv
    <3>2. CASE Evaluate(Ticker)
      <4>1. OneLoop'
        BY <3>2 DEF TypeOK, Evaluate, configVars, alertVars, RecordsInv, OneLoop
      <4> QED
        BY <3>0, <3>2, <4>1 DEF Evaluate, outVars, RecordsInv
    <3>3. CASE Reconcile(Ticker)
      BY <3>3, ReconcileRecords
    <3>4. ASSUME NEW k \in Keys, Dispatch(Ticker, k) PROVE RecordsInv'
      BY <3>4, DispatchRecords
    <3>5. CASE Hooked(Ticker)
      <4>1. OneLoop'
        BY <3>5 DEF TypeOK, Hooked, configVars, alertVars, RecordsInv, OneLoop
      <4> QED
        BY <3>0, <3>5, <4>1 DEF Hooked, outVars, RecordsInv
    <3> QED
      BY <2>5, <3>1, <3>2, <3>3, <3>4, <3>5 DEF TickStep
  <2>6. CASE (\E k \in Keys : Toggle(k)) \/ Deliver \/ UNCHANGED vars
    BY <2>1, <2>6 DEF Toggle, Deliver, vars, outVars
  <2>7. CASE FileOther
    BY <2>7, FileOtherRecords
  <2> QED
    BY <2>2, <2>3, <2>4, <2>5, <2>6, <2>7 DEF Next, Workers
<1> QED
  BY <1>2, <1>3, <1>4

\* As long as no configuration save has reset the state: the unresolved records of a
\* key are the one of its confirmed alert, at the place that its age gives it, and none
\* once it has recovered, or once RecordCap records of any source are newer.
THEOREM Records == Spec => []RecordsMirrorAlerts
<1>1. Init => RecordsInv
  <2>1. Init => OneLoop
    BY DEF Init, OneLoop, Workers
  <2>2. Init => RecordsMirrorAlerts
    BY InitRecords
  <2> QED
    BY <2>1, <2>2 DEF RecordsInv
<1>2. TypeOK /\ RecordsInv /\ [Next]_vars => RecordsInv'
  BY StepRecords
<1>3. RecordsInv => RecordsMirrorAlerts
  BY DEF RecordsInv
<1> QED
  BY <1>1, <1>2, <1>3, Typing, PTL DEF Spec

-----------------------------------------------------------------------------
(* What the channels were told, before any configuration save.              *)

ToldFiring(k) == told[k] \in {"firing", "suppressed"}

\* i is the place of the last job of k in the queue.
LastJob(k, i) ==
  /\ i \in 1..Len(pushQ)
  /\ pushQ[i].key = k
  /\ \A j \in 1..Len(pushQ) : j > i => pushQ[j].key # k

NoJob(k) == \A i \in 1..Len(pushQ) : pushQ[i].key # k

\* The last thing on its way to the channels about k, or else the last thing
\* they were told, is what was dispatched last.
ChannelInv ==
  saves = 0 =>
    \A k \in Keys \ dropped :
      /\ \A i \in 1..Len(pushQ) : LastJob(k, i) => pushQ[i].firing = Said(k)
      /\ NoJob(k) => (ToldFiring(k) <=> Said(k))

LEMMA DispatchChannel ==
  ASSUME TypeOK, RecordsInv, ChannelInv, NEW x \in Keys, Dispatch(Ticker, x), saves = 0
  PROVE  ChannelInv'
<1> DEFINE t == [key |-> x, firing |-> fires[Ticker] # {}]
<1>1. /\ UNCHANGED <<saves, active, told>>
      /\ EnqueuePush(t)
  BY DEF Dispatch, configVars, alertVars
<1>2. /\ \A k \in Keys : k # x => Said(k)' = Said(k)
      /\ Said(x)' = t.firing
  <2>1. CASE fires[Ticker] # {}
    <3>1. /\ x \in fires[Ticker]
          /\ fires'[Ticker] = fires[Ticker] \ {x}
          /\ resolves'[Ticker] = resolves[Ticker]
          /\ active' = active
      BY <2>1 DEF TypeOK, Dispatch, Workers, alertVars
    <3>2. x \in active
      BY <3>1 DEF RecordsInv, OneLoop
    <3> QED
      BY <2>1, <3>1, <3>2 DEF Said
  <2>2. CASE fires[Ticker] = {}
    <3>1. /\ x \in resolves[Ticker]
          /\ fires'[Ticker] = fires[Ticker]
          /\ resolves'[Ticker] = resolves[Ticker] \ {x}
          /\ active' = active
      BY <2>2 DEF TypeOK, Dispatch, Workers, alertVars
    <3>2. x \notin active
      BY <3>1 DEF RecordsInv, OneLoop
    <3> QED
      BY <2>2, <3>1, <3>2 DEF Said
  <2> QED
    BY <2>1, <2>2
<1>3. pushQ \in Seq(Transitions) /\ t \in Transitions /\ t.key = x
  BY DEF TypeOK, Transitions
<1> HIDE DEF t
<1>4. SUFFICES ASSUME NEW k \in Keys \ dropped'
               PROVE  /\ \A i \in 1..Len(pushQ') : LastJob(k, i)' => pushQ'[i].firing = Said(k)'
                      /\ NoJob(k)' => (ToldFiring(k)' <=> Said(k)')
  BY DEF ChannelInv
<1>5. CASE Len(pushQ) < QueueCap
  <2>1. pushQ' = Append(pushQ, t) /\ dropped' = dropped
    BY <1>1, <1>5 DEF EnqueuePush
  <2>2. /\ Len(pushQ) \in Nat
        /\ Len(pushQ') = Len(pushQ) + 1
        /\ pushQ'[Len(pushQ) + 1] = t
        /\ \A i \in 1..Len(pushQ) : pushQ'[i] = pushQ[i]
    BY <1>3, <2>1
  <2>3. CASE k = x
    BY <1>2, <1>3, <2>2, <2>3 DEF LastJob, NoJob
  <2>4. CASE k # x
    <3>1. \A i \in 1..Len(pushQ') : LastJob(k, i)' => LastJob(k, i)
      BY <1>3, <2>2, <2>4 DEF LastJob
    <3>2. NoJob(k)' => NoJob(k)
      BY <2>2 DEF NoJob
    <3>3. \A i \in 1..Len(pushQ) : LastJob(k, i) => pushQ'[i].firing = Said(k)'
      BY <1>2, <2>1, <2>2, <2>4 DEF ChannelInv
    <3>4. NoJob(k) => (ToldFiring(k)' <=> Said(k)')
      BY <1>1, <1>2, <2>1, <2>4 DEF ChannelInv, ToldFiring
    <3> QED
      BY <3>1, <3>2, <3>3, <3>4 DEF LastJob
  <2> QED
    BY <2>3, <2>4
<1>6. CASE ~(Len(pushQ) < QueueCap)
  <2>1. pushQ' = pushQ /\ dropped' = dropped \cup {x}
    BY <1>1, <1>3, <1>6 DEF EnqueuePush
  <2>2. k # x /\ k \in Keys \ dropped
    BY <2>1
  <2> QED
    BY <1>1, <1>2, <2>1, <2>2 DEF ChannelInv, LastJob, NoJob, ToldFiring
<1> QED
  BY <1>5, <1>6

LEMMA DeliverChannel ==
  ASSUME TypeOK, ChannelInv, Deliver, saves = 0
  PROVE  ChannelInv'
<1> DEFINE h == Head(pushQ)
<1>1. /\ UNCHANGED <<saves, active, fires, resolves, dropped>>
      /\ pushQ # <<>>
      /\ pushQ' = Tail(pushQ)
  BY DEF Deliver, configVars, alertVars, tickVars
<1>2. /\ pushQ \in Seq(Transitions)
      /\ Len(pushQ) \in Nat \ {0}
      /\ Len(pushQ') = Len(pushQ) - 1
      /\ h = pushQ[1]
      /\ h \in Transitions
      /\ \A i \in 1..Len(pushQ') : pushQ'[i] = pushQ[i + 1]
  BY <1>1 DEF TypeOK
<1>3. /\ \A k \in Keys : k # h.key => told'[k] = told[k]
      /\ told'[h.key] \in {"firing", "suppressed"} <=> h.firing = TRUE
  <2>1. h.key \in Keys /\ h.firing \in BOOLEAN
    BY <1>2 DEF Transitions
  <2>2. \/ /\ h.firing
           /\ told' = [told EXCEPT ![h.key] = "suppressed"]
        \/ told' = [told EXCEPT ![h.key] = IF h.firing THEN "firing" ELSE "recovered"]
    BY DEF Deliver, Governed
  <2> HIDE DEF h
  <2> QED
    BY <2>1, <2>2 DEF TypeOK
<1> HIDE DEF h
<1>4. SUFFICES ASSUME NEW k \in Keys \ dropped
               PROVE  /\ \A i \in 1..Len(pushQ') : LastJob(k, i)' => pushQ'[i].firing = Said(k)
                      /\ NoJob(k)' => (ToldFiring(k)' <=> Said(k))
  BY <1>1 DEF ChannelInv, Said
<1>5. ASSUME NEW i \in 1..Len(pushQ'), LastJob(k, i)'
      PROVE  pushQ'[i].firing = Said(k)
  <2>1. i + 1 \in 1..Len(pushQ) /\ pushQ'[i] = pushQ[i + 1]
    BY <1>2
  <2>2. ASSUME NEW j \in 1..Len(pushQ), j > i + 1
        PROVE  pushQ[j].key # k
    <3>1. j - 1 \in 1..Len(pushQ') /\ j - 1 > i /\ (j - 1) + 1 = j
      BY <1>2, <2>2
    <3> QED
      BY <1>2, <1>5, <3>1 DEF LastJob
  <2>3. LastJob(k, i + 1)
    BY <1>5, <2>1, <2>2 DEF LastJob
  <2> QED
    BY <2>1, <2>3 DEF ChannelInv
<1>6. ASSUME NoJob(k)'
      PROVE  ToldFiring(k)' <=> Said(k)
  <2>1. ASSUME NEW j \in 1..Len(pushQ), j # 1
        PROVE  pushQ[j].key # k
    <3>1. j - 1 \in 1..Len(pushQ') /\ (j - 1) + 1 = j
      BY <1>2, <2>1
    <3> QED
      BY <1>2, <1>6, <3>1 DEF NoJob
  <2>2. CASE h.key = k
    <3>1. LastJob(k, 1)
      BY <1>2, <2>1, <2>2 DEF LastJob
    <3>2. h.firing = Said(k)
      BY <1>2, <3>1 DEF ChannelInv
    <3>3. ToldFiring(k)' <=> h.firing = TRUE
      BY <1>3, <2>2 DEF ToldFiring
    <3>4. h.firing \in BOOLEAN
      BY <1>2 DEF Transitions
    <3> QED
      BY <3>2, <3>3, <3>4
  <2>3. CASE h.key # k
    <3>1. NoJob(k)
      BY <1>2, <2>1, <2>3 DEF NoJob
    <3> QED
      BY <1>3, <2>3, <3>1 DEF ChannelInv, ToldFiring
  <2> QED
    BY <2>2, <2>3
<1> QED
  BY <1>5, <1>6

LEMMA ReconcileChannel ==
  ASSUME TypeOK, RecordsInv, ChannelInv, Reconcile(Ticker), saves = 0
  PROVE  ChannelInv'
<1> DEFINE seen == cur[Ticker]
<1>1. /\ cfgOn[Ticker] = TRUE
      /\ fires[Ticker] = {} /\ resolves[Ticker] = {}
  BY DEF Reconcile, RecordsInv, OneLoop
<1>2. /\ fires'[Ticker] = Confirmed(seen)
      /\ resolves'[Ticker] = Cleared(seen)
      /\ active' = (active \cup Confirmed(seen)) \ Cleared(seen)
      /\ UNCHANGED <<saves, pushQ, dropped, told>>
  BY <1>1 DEF TypeOK, Reconcile, Reconciled, Workers, configVars, outVars
<1>3. /\ Confirmed(seen) \cap active = {}
      /\ Cleared(seen) \subseteq active
  BY DEF Confirmed, Cleared
<1>4. \A k \in Keys : Said(k)' = Said(k)
  BY <1>1, <1>2, <1>3 DEF Said
<1> QED
  BY <1>2, <1>4 DEF ChannelInv, LastJob, NoJob, ToldFiring

LEMMA StepChannel == TypeOK /\ RecordsInv /\ ChannelInv /\ [Next]_vars => ChannelInv'
<1> SUFFICES ASSUME TypeOK, RecordsInv, ChannelInv, [Next]_vars
             PROVE  ChannelInv'
  OBVIOUS
<1>1. saves' \in Nat /\ saves \in Nat
  BY StepTypeOK, NotifierAssumption DEF TypeOK
<1>2. CASE saves' # 0
  BY <1>2 DEF ChannelInv
<1>3. CASE saves' = 0 /\ saves # 0
  <2>1. ASSUME NEW w \in Workers, TickStep(w) PROVE saves' = saves
    BY <2>1 DEF TickStep, Begin, Evaluate, Reconcile, Dispatch, Hooked, configVars
  <2> QED
    BY <1>1, <1>3, <2>1
       DEF Next, Toggle, SaveConfig, ResetAndTrigger, Deliver, FileOther, vars, configVars
<1>4. CASE saves' = 0 /\ saves = 0
  <2>1. ASSUME UNCHANGED <<saves, alertVars, fires, resolves, pushQ, dropped, told>>
        PROVE  ChannelInv'
    BY <2>1 DEF alertVars, ChannelInv, LastJob, NoJob, ToldFiring, Said
  <2>2. ~SaveConfig
    BY <1>4, <1>1 DEF SaveConfig
  <2>3. ASSUME NEW w \in Triggers PROVE ~ResetAndTrigger(w)
    BY <1>4 DEF ResetAndTrigger, RecordsInv, OneLoop
  <2>4. ASSUME NEW w \in Triggers PROVE ~TickStep(w)
    <3>1. pc[w] = "idle" /\ w # Ticker
      BY <1>4, NotifierAssumption DEF RecordsInv, OneLoop
    <3> QED
      BY <3>1 DEF TickStep, Begin, Evaluate, Reconcile, Dispatch, Hooked
  <2>5. ASSUME TickStep(Ticker) PROVE ChannelInv'
    <3>1. CASE Begin(Ticker) \/ Evaluate(Ticker) \/ Hooked(Ticker)
      BY <2>1, <3>1 DEF Begin, Evaluate, Hooked, configVars, outVars
    <3>2. CASE Reconcile(Ticker)
      BY <1>4, <3>2, ReconcileChannel
    <3>3. ASSUME NEW k \in Keys, Dispatch(Ticker, k) PROVE ChannelInv'
      BY <1>4, <3>3, DispatchChannel
    <3> QED
      BY <2>5, <3>1, <3>2, <3>3 DEF TickStep
  <2>6. CASE Deliver
    BY <1>4, <2>6, DeliverChannel
  <2>7. CASE (\E k \in Keys : Toggle(k)) \/ FileOther \/ UNCHANGED vars
    BY <2>1, <2>7 DEF Toggle, FileOther, vars, configVars, tickVars, outVars
  <2> QED
    BY <2>2, <2>3, <2>4, <2>5, <2>6, <2>7 DEF Next, Workers
<1> QED
  BY <1>2, <1>3, <1>4

\* With any queue and any rules, once nothing is in flight the channels were
\* last told the truth about every key none of whose jobs met a full queue.
THEOREM Channels == Spec => []ChannelAgreesAtRest
<1>1. Init => RecordsInv /\ ChannelInv
  <2>1. Init => OneLoop /\ RecordsMirrorAlerts
    BY InitRecords DEF Init, OneLoop, Workers
  <2>2. Init => ChannelInv
    <3> SUFFICES ASSUME Init, NEW k \in Keys
                 PROVE  /\ 1..Len(pushQ) = {}
                        /\ ToldFiring(k) <=> Said(k)
      BY DEF ChannelInv
    <3>1. 1..Len(pushQ) = {}
      BY DEF Init
    <3>2. ~ToldFiring(k) /\ ~Said(k)
      BY DEF Init, ToldFiring, Said, Workers
    <3> QED
      BY <3>1, <3>2 DEF ToldFiring, Said
  <2> QED
    BY <2>1, <2>2 DEF RecordsInv
<1>2. TypeOK /\ RecordsInv /\ [Next]_vars => RecordsInv'
  BY StepRecords
<1>3. TypeOK /\ RecordsInv /\ ChannelInv /\ [Next]_vars => ChannelInv'
  BY StepChannel
<1>4. RecordsInv /\ ChannelInv => ChannelAgreesAtRest
  <2> SUFFICES ASSUME RecordsInv, ChannelInv, saves = 0, Idle, pushQ = <<>>,
                      NEW k \in Keys \ dropped
               PROVE  k \in active <=> ToldFiring(k)
    BY DEF ChannelAgreesAtRest, ToldFiring
  <2>1. fires[Ticker] = {} /\ resolves[Ticker] = {}
    BY DEF RecordsInv, OneLoop, Idle, Workers
  <2>2. NoJob(k)
    BY DEF NoJob
  <2> QED
    BY <2>1, <2>2 DEF ChannelInv, Said
<1> QED
  BY <1>1, <1>2, <1>3, <1>4, Typing, PTL DEF Spec
=============================================================================
