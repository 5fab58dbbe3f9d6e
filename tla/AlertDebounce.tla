---------------------------- MODULE AlertDebounce ----------------------------
(***************************************************************************)
(* What the alert engine promises about flapping, with no maps and no      *)
(* goroutines: one two-state automaton per alert key.  An evaluation round *)
(* that contradicts the state of a key counts towards a change of state, a *)
(* round that agrees with it starts the count again, and the state changes *)
(* when the count reaches the threshold of that direction.  Observers look *)
(* at the conditions on their own time and bring what they saw to the      *)
(* automata later, in any order; each observation counts exactly once.     *)
(***************************************************************************)
EXTENDS Naturals

CONSTANTS
  Keys,          \* alert keys: host / type / scope
  Observers,     \* the evaluations that may be under way
  ConfirmTicks,  \* consecutive rounds that contain a key before it fires
  ClearTicks     \* consecutive rounds that lack it before it recovers

VARIABLES
  inbox,         \* inbox[o]: what o has seen and not yet brought, at most one set
  firing,        \* the keys whose alert has fired and not recovered
  toward         \* toward[k]: consecutive rounds that contradicted k's state

vars == <<inbox, firing, toward>>

Init ==
  /\ inbox = [o \in Observers |-> {}]
  /\ firing = {}
  /\ toward = [k \in Keys |-> 0]

\* The round seen contradicts the state of k.
Contradicts(seen, k) == (k \in seen) # (k \in firing)

Threshold(k) == IF k \in firing THEN ClearTicks ELSE ConfirmTicks

Flips(seen) ==
  {k \in Keys : Contradicts(seen, k) /\ toward[k] + 1 >= Threshold(k)}

Observe(o, seen) ==
  /\ inbox[o] = {}
  /\ inbox' = [inbox EXCEPT ![o] = {seen}]
  /\ UNCHANGED <<firing, toward>>

\* One evaluation round, with what o has seen.
Round(o, seen) ==
  /\ inbox[o] = {seen}
  /\ inbox' = [inbox EXCEPT ![o] = {}]
  /\ firing' = (firing \ Flips(seen)) \cup (Flips(seen) \ firing)
  /\ toward' = [k \in Keys |-> IF Contradicts(seen, k) /\ k \notin Flips(seen)
                                 THEN toward[k] + 1 ELSE 0]

\* Every automaton starts again, as after a change of the configuration.
Forget ==
  /\ firing' = {}
  /\ toward' = [k \in Keys |-> 0]
  /\ UNCHANGED inbox

\* The process dies and starts again: what observers had seen is lost as well.
StartOver ==
  /\ inbox' = [o \in Observers |-> {}]
  /\ firing' = {}
  /\ toward' = [k \in Keys |-> 0]

Next ==
  \/ Forget
  \/ \E o \in Observers, seen \in SUBSET Keys : Observe(o, seen) \/ Round(o, seen)

Spec == Init /\ [][Next]_vars

\* The same promise, through any number of restarts.
LivesSpec == Init /\ [][Next \/ StartOver]_vars
=============================================================================
