---------------------------- MODULE AlertLoopProofs ----------------------------
(***************************************************************************)
(* Proofs about incidents and the alerts they follow, for any keys, any    *)
(* length of the history and any number of ticks, saves and restarts.      *)
(***************************************************************************)
EXTENDS AlertLoop, NotifierProofs, FiniteSetTheorems, WellFoundedInduction

-----------------------------------------------------------------------------
(* Sets of ids: the least one, the greatest one, how many come before one.  *)

LEMMA HasLeast ==
  ASSUME NEW S \in SUBSET Nat, S # {}
  PROVE  \E x \in S : \A y \in S : x <= y
<1>1. IsWellFoundedOn(OpToRel(<, Nat), Nat)
  BY NatLessThanWellFounded
<1>2. \A x, y \in Nat : x < y => <<x, y>> \in OpToRel(<, Nat)
  BY DEF OpToRel
<1>3. PICK x \in S : \A y \in S : ~(<<y, x>> \in OpToRel(<, Nat))
  BY <1>1, WFMin
<1>4. \A y \in S : ~(y < x)
  BY <1>2, <1>3
<1> QED
  BY <1>4

LEMMA HasGreatest ==
  ASSUME NEW n \in Nat, NEW S \in SUBSET (0..n), S # {}
  PROVE  \E x \in S : \A y \in S : y <= x
<1> DEFINE T == {n - x : x \in S}
<1>1. T \in SUBSET Nat /\ T # {}
  <2>1. \A x \in S : n - x \in Nat
    OBVIOUS
  <2> QED
    BY <2>1
<1>2. PICK y \in T : \A z \in T : y <= z
  BY <1>1, HasLeast
<1>3. PICK x \in S : y = n - x
  BY <1>2
<1>4. \A z \in S : n - x <= n - z
  BY <1>2, <1>3
<1> QED
  BY <1>4

LEMMA MaxIsGreatest ==
  ASSUME NEW n \in Nat, NEW S \in SUBSET (0..n), S # {}
  PROVE  Max(S) \in S /\ \A y \in S : y <= Max(S)
<1> DEFINE Greatest(x) == x \in S /\ \A y \in S : x >= y
<1>1. \E x \in S : \A y \in S : x >= y
  BY HasGreatest
<1>2. Greatest(CHOOSE x : Greatest(x))
  BY <1>1
<1> QED
  BY <1>2 DEF Max

\* As many of the first elements as one likes, and no more.
LEMMA FirstOnes ==
  ASSUME NEW n \in Nat, NEW S \in SUBSET (0..n), NEW m \in Nat
  PROVE  Cardinality({i \in S : Cardinality({j \in S : j < i}) < m}) <= m
<1> DEFINE Before(i) == {j \in S : j < i}
           First == {i \in S : Cardinality(Before(i)) < m}
           rank == [i \in First |-> Cardinality(Before(i))]
<1>1. \A i \in S : IsFiniteSet(Before(i)) /\ Cardinality(Before(i)) \in Nat
  <2>1. IsFiniteSet(0..n)
    BY FS_Interval
  <2>2. TAKE i \in S
  <2>3. Before(i) \in SUBSET (0..n)
    OBVIOUS
  <2> QED
    BY <2>1, <2>3, FS_Subset, FS_CardinalityType
<1>2. ASSUME NEW i \in S, NEW k \in S, i < k
      PROVE  Cardinality(Before(i)) # Cardinality(Before(k))
  <2>1. Before(i) \in SUBSET Before(k)
    <3>1. \A j \in S : j < i => j < k
      BY <1>2
    <3> QED
      BY <3>1
  <2>2. i \in Before(k) /\ i \notin Before(i)
    BY <1>2
  <2>3. Before(i) # Before(k)
    BY <2>2
  <2>4. IsFiniteSet(Before(k))
    BY <1>1
  <2> HIDE DEF Before
  <2> QED
    BY <2>1, <2>3, <2>4, FS_Subset
<1>3. rank \in Injection(First, 0..(m - 1))
  <2>1. rank \in [First -> 0..(m - 1)]
    <3>1. \A i \in First : Cardinality(Before(i)) \in 0..(m - 1)
      <4>1. TAKE i \in First
      <4>2. Cardinality(Before(i)) \in Nat /\ Cardinality(Before(i)) < m
        BY <1>1
      <4> HIDE DEF Before
      <4> QED
        BY <4>2
    <3> HIDE DEF Before, First
    <3> QED
      BY <3>1
  <2>2. \A i, k \in First : rank[i] = rank[k] => i = k
    <3>1. TAKE i, k \in First
    <3>2. i \in S /\ k \in S /\ rank[i] = Cardinality(Before(i))
                             /\ rank[k] = Cardinality(Before(k))
      OBVIOUS
    <3> HIDE DEF Before, rank
    <3>3. i < k \/ k < i \/ i = k
      BY <3>2
    <3> QED
      BY <1>2, <3>2, <3>3
  <2> HIDE DEF rank, First
  <2> QED
    BY <2>1, <2>2 DEF Injection, IsInjective
<1>4. IsFiniteSet(0..(m - 1)) /\ Cardinality(0..(m - 1)) = m
  BY FS_Interval
<1> HIDE DEF rank, First
<1>5. Cardinality(First) <= m
  BY <1>3, <1>4, FS_Injection
<1> QED
  BY <1>5 DEF First

-----------------------------------------------------------------------------
(* trimLocked.                                                              *)

Ids(rows) == DOMAIN rows \in SUBSET (0..MaxIncidents)

LEMMA IdsAreFinite ==
  ASSUME NEW rows, Ids(rows), NEW S \in SUBSET DOMAIN rows
  PROVE  IsFiniteSet(S) /\ Cardinality(S) \in Nat
<1>1. IsFiniteSet(0..MaxIncidents)
  BY FS_Interval, IncidentsAssumption
<1> QED
  BY <1>1, FS_Subset, FS_CardinalityType DEF Ids

\* The history keeps what is not resolved, what it keeps it does not change, and it
\* drops no more than the excess.
LEMMA TrimmedKeeps ==
  ASSUME NEW rows, Ids(rows)
  PROVE  /\ DOMAIN Trimmed(rows) \subseteq DOMAIN rows
         /\ \A i \in DOMAIN Trimmed(rows) : Trimmed(rows)[i] = rows[i]
         /\ Unresolved(Trimmed(rows)) = Unresolved(rows)
         /\ Unresolved(rows) \subseteq DOMAIN Trimmed(rows)
         /\ Cardinality(DOMAIN rows) <= HistoryCap => DOMAIN Trimmed(rows) = DOMAIN rows
         /\ \/ DOMAIN Trimmed(rows) = DOMAIN rows
            \/ Cardinality(DOMAIN Trimmed(rows)) >= HistoryCap
<1> DEFINE excess == Cardinality(DOMAIN rows) - HistoryCap
           resolved == DOMAIN rows \ Unresolved(rows)
           Before(i) == {j \in resolved : j < i}
           thrown == {i \in resolved : Cardinality(Before(i)) < excess}
<1>1. DOMAIN Trimmed(rows) = DOMAIN rows \ thrown
      /\ \A i \in DOMAIN rows \ thrown : Trimmed(rows)[i] = rows[i]
  BY DEF Trimmed, Restrict
<1>2. thrown \cap Unresolved(rows) = {} /\ thrown \subseteq DOMAIN rows
  OBVIOUS
<1>3. Cardinality(DOMAIN rows) \in Nat /\ HistoryCap \in Nat
  BY IdsAreFinite, IncidentsAssumption
<1>4. \A i \in resolved : Cardinality(Before(i)) \in Nat
  <2>1. TAKE i \in resolved
  <2>2. Before(i) \in SUBSET DOMAIN rows
    OBVIOUS
  <2> QED
    BY <2>2, IdsAreFinite
<1>5. Cardinality(DOMAIN rows) <= HistoryCap => thrown = {}
  <2> HIDE DEF resolved, Before
  <2> QED
    BY <1>3, <1>4
<1>6. thrown = {} \/ Cardinality(DOMAIN rows \ thrown) >= HistoryCap
  <2> SUFFICES ASSUME thrown # {}
               PROVE  Cardinality(DOMAIN rows \ thrown) >= HistoryCap
    OBVIOUS
  <2>1. excess \in Nat
    <3>1. ~(Cardinality(DOMAIN rows) <= HistoryCap)
      <4> HIDE DEF thrown
      <4> QED
        BY <1>5
    <3> QED
      BY <1>3, <3>1
  <2>2. resolved \in SUBSET (0..MaxIncidents) /\ MaxIncidents \in Nat
    BY IncidentsAssumption DEF Ids
  <2>3. Cardinality(thrown) <= excess
    <3> HIDE DEF resolved, excess
    <3> QED
      BY <2>1, <2>2, FirstOnes
  <2>4. IsFiniteSet(DOMAIN rows) /\ Cardinality(thrown) \in Nat
        /\ Cardinality(DOMAIN rows \cap thrown) = Cardinality(thrown)
    <3>1. DOMAIN rows \cap thrown = thrown
      BY <1>2
    <3> QED
      BY <1>2, <3>1, IdsAreFinite
  <2> HIDE DEF thrown
  <2>5. Cardinality(DOMAIN rows \ thrown) = Cardinality(DOMAIN rows) - Cardinality(thrown)
    <3> DEFINE all == DOMAIN rows
    <3>1. IsFiniteSet(all) /\ Cardinality(all \cap thrown) = Cardinality(thrown)
      BY <2>4
    <3> HIDE DEF all
    <3>2. Cardinality(all \ thrown) = Cardinality(all) - Cardinality(all \cap thrown)
      BY <3>1, FS_Difference
    <3>3. Cardinality(all \ thrown) = Cardinality(all) - Cardinality(thrown)
      BY <3>1, <3>2
    <3> QED
      BY <3>3 DEF all
  <2> QED
    BY <1>3, <2>3, <2>4, <2>5
<1> HIDE DEF thrown
<1>7. Unresolved(Trimmed(rows)) = Unresolved(rows)
  BY <1>1, <1>2 DEF Unresolved
<1>8. Unresolved(rows) \subseteq DOMAIN Trimmed(rows)
  BY <1>1, <1>2 DEF Unresolved
<1> QED
  BY <1>1, <1>2, <1>5, <1>6, <1>7, <1>8

\* What it drops are the oldest resolved ones.
LEMMA TrimmedFromOldest ==
  ASSUME NEW rows, Ids(rows), NEW i \in DOMAIN rows, NEW j \in DOMAIN rows, i < j,
         rows[i].status = "resolved", j \notin DOMAIN Trimmed(rows)
  PROVE  i \notin DOMAIN Trimmed(rows)
<1> DEFINE excess == Cardinality(DOMAIN rows) - HistoryCap
           resolved == DOMAIN rows \ Unresolved(rows)
           Before(n) == {m \in resolved : m < n}
           thrown == {n \in resolved : Cardinality(Before(n)) < excess}
<1>1. DOMAIN Trimmed(rows) = DOMAIN rows \ thrown
  BY DEF Trimmed, Restrict
<1>2. j \in resolved /\ Cardinality(Before(j)) < excess
  BY <1>1
<1>3. i \in resolved
  BY DEF Unresolved
<1>4. Before(i) \in SUBSET Before(j)
  <2>1. \A m \in DOMAIN rows : m \in Nat
    BY IncidentsAssumption DEF Ids
  <2>2. \A m \in resolved : m < i => m < j
    BY <2>1
  <2> QED
    BY <2>2
<1>5. IsFiniteSet(Before(j)) /\ Cardinality(Before(j)) \in Nat
      /\ IsFiniteSet(Before(i)) /\ Cardinality(Before(i)) \in Nat
      /\ Cardinality(DOMAIN rows) \in Nat
  <2>1. Before(i) \in SUBSET DOMAIN rows /\ Before(j) \in SUBSET DOMAIN rows
    OBVIOUS
  <2> HIDE DEF Before
  <2> QED
    BY <2>1, IdsAreFinite
<1>6. Cardinality(Before(i)) <= Cardinality(Before(j))
  <2> HIDE DEF Before
  <2> QED
    BY <1>4, <1>5, FS_Subset
<1>7. Cardinality(Before(i)) < excess
  <2> HIDE DEF Before
  <2> QED
    BY <1>2, <1>5, <1>6, IncidentsAssumption
<1>8. i \in thrown
  BY <1>3, <1>7
<1> QED
  BY <1>1, <1>8

-----------------------------------------------------------------------------
(* The index of open incidents.                                             *)

\* Ids grow: the last one is in memory, and every other is below it.
IdsGrow ==
  /\ lastIncident >= 1
  /\ lastIncident = 1 \/ lastIncident \in DOMAIN incidents
  /\ DOMAIN incidents \cup DOMAIN incidentRows \subseteq 2..lastIncident

\* While the history has never been full, memory has every incident of the table ...
NothingTrimmed ==
  lastIncident <= HistoryCap + 1 => DOMAIN incidentRows \subseteq DOMAIN incidents

\* ... and as long as the table has no more than that, no two open rows share a key.
RowsAgree ==
  (\A i \in DOMAIN incidentRows : i <= HistoryCap + 1) =>
    \A i, j \in Unresolved(incidentRows) :
      incidentRows[i].key = incidentRows[j].key /\ incidentRows[i].key \in IncidentKeys
        => i = j

IndexInv ==
  IncidentsTypeOK /\ IdsGrow /\ NothingTrimmed /\ RowsAgree /\ OpenIndexExact

LEMMA InitIndex == IncidentsInit => IndexInv
<1> SUFFICES ASSUME IncidentsInit PROVE IndexInv
  OBVIOUS
<1>1. DOMAIN incidents = {} /\ DOMAIN incidentRows = {} /\ lastIncident = 1 /\ imports = 0
      /\ openByKey = [k \in IncidentKeys |-> 0]
  BY DEF IncidentsInit
<1>2. IncidentsTypeOK
  BY <1>1, IncidentsAssumption DEF IncidentsTypeOK
<1>3. OpenIndexExact
  BY <1>1 DEF OpenIndexExact, OpenOf, Unresolved
<1> QED
  BY <1>1, <1>2, <1>3 DEF IndexInv, IdsGrow, NothingTrimmed, RowsAgree, Unresolved

\* What an action that neither adds nor drops an incident, nor opens one again, has to
\* say of the index: it follows the incidents that it closes.
LEMMA ClosingKeepsIndex ==
  ASSUME IndexInv, IncidentsTypeOK',
         DOMAIN incidents' = DOMAIN incidents,
         UNCHANGED <<lastIncident, incidentRows, imports>>,
         \A i \in DOMAIN incidents : incidents'[i].key = incidents[i].key,
         Unresolved(incidents)' \subseteq Unresolved(incidents),
         \A k \in IncidentKeys :
           \/ openByKey'[k] = openByKey[k] /\ OpenOf(k)' = OpenOf(k)
           \/ openByKey'[k] = 0 /\ (NothingComesBack => OpenOf(k)' = {})
  PROVE  IndexInv'
<1>1. IdsGrow' /\ NothingTrimmed' /\ RowsAgree'
  BY DEF IndexInv, IdsGrow, NothingTrimmed, RowsAgree, Unresolved
<1>2. OpenIndexExact'
  <2> SUFFICES ASSUME NEW k \in IncidentKeys
               PROVE  /\ NothingComesBack' =>
                           OpenOf(k)' = IF openByKey'[k] = 0 THEN {} ELSE {openByKey'[k]}
                      /\ openByKey'[k] # 0 =>
                           openByKey'[k] \in OpenOf(k)' /\ \A i \in OpenOf(k)' : i <= openByKey'[k]
    BY DEF OpenIndexExact
  <2>1. NothingComesBack' = NothingComesBack
    BY DEF NothingComesBack
  <2> QED
    BY <2>1 DEF IndexInv, OpenIndexExact
<1> QED
  BY <1>1, <1>2 DEF IndexInv

LEMMA ClosedIsTyped ==
  ASSUME NEW row \in IncidentRecord, NEW by \in {"recovered", "resolved"}
  PROVE  [row EXCEPT !.status = "resolved", !.closed = by] \in IncidentRecord
BY DEF IncidentRecord, IncidentStatuses

LEMMA AckIndex ==
  ASSUME IndexInv, NEW i \in DOMAIN incidents, Ack(i)
  PROVE  IndexInv'
<1>1. /\ DOMAIN incidents' = DOMAIN incidents
      /\ \A j \in DOMAIN incidents : incidents'[j].key = incidents[j].key
      /\ \A j \in DOMAIN incidents :
           incidents'[j].status = "resolved" <=> incidents[j].status = "resolved"
  BY DEF Ack, IndexInv, IncidentsTypeOK, IncidentRecord
<1>2. IncidentsTypeOK'
  BY DEF Ack, IndexInv, IncidentsTypeOK, IncidentRecord, IncidentStatuses
<1>3. Unresolved(incidents)' = Unresolved(incidents)
  BY <1>1 DEF Unresolved
<1>4. \A k \in IncidentKeys : OpenOf(k)' = OpenOf(k)
  BY <1>1, <1>3 DEF OpenOf, Unresolved
<1> QED
  BY <1>1, <1>2, <1>3, <1>4, ClosingKeepsIndex DEF Ack

\* Closing one incident, or none, leaves no other of its key to the index.
LEMMA ResolveIndex ==
  ASSUME IndexInv, NEW i \in DOMAIN incidents, Resolve(i)
  PROVE  IndexInv'
<1>1. /\ DOMAIN incidents' = DOMAIN incidents
      /\ \A j \in DOMAIN incidents : incidents'[j].key = incidents[j].key
      /\ \A j \in DOMAIN incidents \ {i} : incidents'[j] = incidents[j]
      /\ incidents[i].status # "resolved"
      /\ incidents'[i].status = "resolved"
  BY DEF Resolve, IndexInv, IncidentsTypeOK, IncidentRecord
<1>2. IncidentsTypeOK'
  <2>1. \A j \in DOMAIN incidents : incidents[j] \in IncidentRecord
    BY DEF IndexInv, IncidentsTypeOK
  <2>2. \A j \in DOMAIN incidents' : incidents'[j] \in IncidentRecord
    BY <1>1, <2>1, ClosedIsTyped DEF Resolve
  <2>3. openByKey' \in [IncidentKeys -> 0..MaxIncidents]
    <3>1. 0 \in 0..MaxIncidents /\ openByKey \in [IncidentKeys -> 0..MaxIncidents]
      BY IncidentsAssumption DEF IndexInv, IncidentsTypeOK
    <3> QED
      BY <3>1 DEF Resolve
  <2> QED
    BY <1>1, <2>2, <2>3 DEF Resolve, IndexInv, IncidentsTypeOK
<1>3. Unresolved(incidents)' = Unresolved(incidents) \ {i}
  BY <1>1 DEF Unresolved
<1>4. \A k \in IncidentKeys : OpenOf(k)' = OpenOf(k) \ {i}
  BY <1>1, <1>3 DEF OpenOf, Unresolved
<1>5. ASSUME NEW k \in IncidentKeys
      PROVE  \/ openByKey'[k] = openByKey[k] /\ OpenOf(k)' = OpenOf(k)
             \/ openByKey'[k] = 0 /\ (NothingComesBack => OpenOf(k)' = {})
  <2>1. CASE k = incidents[i].key
    <3>1. openByKey'[k] = 0
      BY <2>1, IncidentsAssumption DEF Resolve, IndexInv, IncidentsTypeOK
    <3>2. i \in OpenOf(k)
      BY <1>1, <2>1 DEF OpenOf, Unresolved
    <3>3. NothingComesBack => OpenOf(k) = {i}
      BY <3>2 DEF IndexInv, OpenIndexExact
    <3> QED
      BY <1>4, <3>1, <3>3
  <2>2. CASE k # incidents[i].key
    <3>1. openByKey'[k] = openByKey[k]
      BY <2>2 DEF Resolve, IndexInv, IncidentsTypeOK
    <3>2. i \notin OpenOf(k)
      BY <2>2 DEF OpenOf
    <3> QED
      BY <1>4, <3>1, <3>2
  <2> QED
    BY <2>1, <2>2
<1> QED
  BY <1>1, <1>2, <1>3, <1>5, ClosingKeepsIndex DEF Resolve

LEMMA ResolveByKeyIndex ==
  ASSUME IndexInv, NEW key \in IncidentKeys, ResolveByKey(key)
  PROVE  IndexInv'
<1> DEFINE i == openByKey[key]
<1>1. /\ DOMAIN incidents' = DOMAIN incidents
      /\ \A j \in DOMAIN incidents : incidents'[j].key = incidents[j].key
      /\ \A j \in DOMAIN incidents \ {i} : incidents'[j] = incidents[j]
      /\ i \in DOMAIN incidents => incidents'[i].status = "resolved"
  BY DEF ResolveByKey, IndexInv, IncidentsTypeOK, IncidentRecord
<1>2. IncidentsTypeOK'
  <2>1. \A j \in DOMAIN incidents : incidents[j] \in IncidentRecord
    BY DEF IndexInv, IncidentsTypeOK
  <2>2. \A j \in DOMAIN incidents' : incidents'[j] \in IncidentRecord
    BY <1>1, <2>1, ClosedIsTyped DEF ResolveByKey
  <2>3. openByKey' \in [IncidentKeys -> 0..MaxIncidents]
    <3>1. 0 \in 0..MaxIncidents /\ openByKey \in [IncidentKeys -> 0..MaxIncidents]
      BY IncidentsAssumption DEF IndexInv, IncidentsTypeOK
    <3> QED
      BY <3>1 DEF ResolveByKey
  <2> QED
    BY <1>1, <2>2, <2>3 DEF ResolveByKey, IndexInv, IncidentsTypeOK
<1>3. openByKey'[key] = 0 /\ \A k \in IncidentKeys \ {key} : openByKey'[k] = openByKey[k]
  BY DEF ResolveByKey, IndexInv, IncidentsTypeOK
<1>4. i # 0 => i \in OpenOf(key)
  BY DEF IndexInv, OpenIndexExact
<1> HIDE DEF i
<1>5. Unresolved(incidents)' = Unresolved(incidents) \ {i}
  BY <1>1 DEF Unresolved
<1>6. \A k \in IncidentKeys : OpenOf(k)' = OpenOf(k) \ {i}
  BY <1>1, <1>5 DEF OpenOf, Unresolved
<1>7. ASSUME NEW k \in IncidentKeys
      PROVE  \/ openByKey'[k] = openByKey[k] /\ OpenOf(k)' = OpenOf(k)
             \/ openByKey'[k] = 0 /\ (NothingComesBack => OpenOf(k)' = {})
  <2>1. CASE k = key
    <3>1. NothingComesBack => OpenOf(key) = IF i = 0 THEN {} ELSE {i}
      BY DEF IndexInv, OpenIndexExact, i
    <3> QED
      BY <1>3, <1>6, <2>1, <3>1
  <2>2. CASE k # key
    <3>1. i \notin OpenOf(k)
      <4>1. CASE i = 0
        BY <4>1 DEF IndexInv, IdsGrow, OpenOf, Unresolved
      <4>2. CASE i # 0
        BY <1>4, <2>2, <4>2 DEF OpenOf
      <4> QED
        BY <4>1, <4>2
    <3> QED
      BY <1>3, <1>6, <2>2, <3>1
  <2> QED
    BY <2>1, <2>2
<1> QED
  BY <1>1, <1>2, <1>5, <1>7, ClosingKeepsIndex DEF ResolveByKey

\* An incident that is new has an id above all others.
LEMMA NewIncident ==
  ASSUME IndexInv, NEW key \in IncidentKeys \cup {NoKey}, lastIncident < MaxIncidents,
         NEW new,
         new = Over(incidents, [i \in {lastIncident + 1} |->
                                  [key |-> key, status |-> "open", closed |-> "no"]])
  PROVE  /\ lastIncident + 1 \in 2..MaxIncidents
         /\ lastIncident + 1 \notin DOMAIN incidents \cup DOMAIN incidentRows
         /\ Ids(new)
         /\ DOMAIN new = DOMAIN incidents \cup {lastIncident + 1}
         /\ new[lastIncident + 1] = [key |-> key, status |-> "open", closed |-> "no"]
         /\ \A i \in DOMAIN incidents : new[i] = incidents[i]
         /\ Unresolved(new) = Unresolved(incidents) \cup {lastIncident + 1}
         /\ Cardinality(DOMAIN new) <= lastIncident
<1>1. lastIncident \in 1..MaxIncidents /\ DOMAIN incidents \subseteq 2..lastIncident
      /\ DOMAIN incidentRows \subseteq 2..lastIncident
  BY DEF IndexInv, IncidentsTypeOK, IdsGrow
<1>2. lastIncident + 1 \in 2..MaxIncidents
      /\ lastIncident + 1 \notin DOMAIN incidents \cup DOMAIN incidentRows
  BY <1>1, IncidentsAssumption
<1>3. /\ DOMAIN new = DOMAIN incidents \cup {lastIncident + 1}
      /\ new[lastIncident + 1] = [key |-> key, status |-> "open", closed |-> "no"]
      /\ \A i \in DOMAIN incidents : new[i] = incidents[i]
  BY <1>2 DEF Over
<1>4. Ids(new)
  <2>1. \A i \in 2..lastIncident : i \in 0..MaxIncidents
    BY <1>1, IncidentsAssumption
  <2> QED
    BY <1>1, <1>2, <1>3, <2>1 DEF Ids
<1>5. Unresolved(new) = Unresolved(incidents) \cup {lastIncident + 1}
  BY <1>2, <1>3 DEF Unresolved
<1>6. Cardinality(DOMAIN new) <= lastIncident
  <2>1. IsFiniteSet(2..(lastIncident + 1)) /\ Cardinality(2..(lastIncident + 1)) = lastIncident
    BY <1>1, FS_Interval
  <2>2. DOMAIN new \in SUBSET (2..(lastIncident + 1))
    <3>1. \A i \in 2..lastIncident : i \in 2..(lastIncident + 1)
      BY <1>1
    <3> QED
      BY <1>1, <1>3, <3>1
  <2>3. Cardinality(DOMAIN new) <= Cardinality(2..(lastIncident + 1))
    BY <2>1, <2>2, FS_Subset
  <2> QED
    BY <2>1, <2>3
<1> QED
  BY <1>2, <1>3, <1>4, <1>5, <1>6

LEMMA RaiseIndex ==
  ASSUME IndexInv, NEW key \in IncidentKeys \cup {NoKey}, Raise(key)
  PROVE  IndexInv'
<1>1. CASE HasOpen(key)
  BY <1>1 DEF Raise, IndexInv, incidentVars, IncidentsTypeOK, IdsGrow, NothingTrimmed,
              RowsAgree, OpenIndexExact, OpenOf, Unresolved, NothingComesBack
<1>2. CASE ~HasOpen(key)
  <2> DEFINE row == [key |-> key, status |-> "open", closed |-> "no"]
             new == Over(incidents, [i \in {lastIncident + 1} |-> row])
             id == lastIncident + 1
  <2>1. /\ lastIncident < MaxIncidents
        /\ lastIncident' = id
        /\ incidents' = Trimmed(new)
        /\ openByKey' = IF key = NoKey THEN openByKey ELSE [openByKey EXCEPT ![key] = id]
        /\ incidentRows' = incidentRows /\ imports' = imports
    BY <1>2 DEF Raise
  <2>2. /\ id \in 2..MaxIncidents
        /\ id \notin DOMAIN incidents \cup DOMAIN incidentRows
        /\ Ids(new)
        /\ DOMAIN new = DOMAIN incidents \cup {id}
        /\ new[id] = row
        /\ \A i \in DOMAIN incidents : new[i] = incidents[i]
        /\ Unresolved(new) = Unresolved(incidents) \cup {id}
        /\ Cardinality(DOMAIN new) <= lastIncident
    BY <2>1, NewIncident
  <2> HIDE DEF new
  <2>3. /\ DOMAIN incidents' \subseteq DOMAIN new
        /\ \A i \in DOMAIN incidents' : incidents'[i] = new[i]
        /\ Unresolved(incidents)' = Unresolved(new)
        /\ Unresolved(new) \subseteq DOMAIN incidents'
        /\ Cardinality(DOMAIN new) <= HistoryCap => DOMAIN incidents' = DOMAIN new
    <3>1. Unresolved(incidents)' = Unresolved(incidents')
      BY DEF Unresolved
    <3> QED
      BY <2>1, <2>2, <3>1, TrimmedKeeps
  <2>4. lastIncident \in 1..MaxIncidents /\ DOMAIN incidents \subseteq 2..lastIncident
        /\ DOMAIN incidentRows \subseteq 2..lastIncident
    BY DEF IndexInv, IncidentsTypeOK, IdsGrow
  <2>5. \A i \in 2..lastIncident : i \in 2..id
    BY <2>4
  <2>6. IncidentsTypeOK'
    <3>1. row \in IncidentRecord
      BY DEF IncidentRecord, IncidentStatuses
    <3>2. \A i \in DOMAIN new : new[i] \in IncidentRecord
      BY <2>2, <3>1 DEF IndexInv, IncidentsTypeOK
    <3>3. DOMAIN new \subseteq 1..MaxIncidents
      BY <2>2 DEF IndexInv, IncidentsTypeOK
    <3>4. openByKey' \in [IncidentKeys -> 0..MaxIncidents]
      BY <2>1, <2>2 DEF IndexInv, IncidentsTypeOK
    <3>5. lastIncident' \in 0..MaxIncidents
      BY <2>1, <2>2
    <3> QED
      BY <2>1, <2>3, <3>2, <3>3, <3>4, <3>5 DEF IndexInv, IncidentsTypeOK
  <2>7. IdsGrow'
    <3>1. id \in DOMAIN incidents' /\ id >= 1 /\ id \in 2..id
      BY <2>2, <2>3
    <3> QED
      BY <2>1, <2>2, <2>3, <2>4, <2>5, <3>1 DEF IdsGrow
  <2>8. id <= HistoryCap + 1 => DOMAIN incidents' = DOMAIN new /\ lastIncident <= HistoryCap + 1
    <3>1. Cardinality(DOMAIN new) \in Nat /\ HistoryCap \in Nat
      BY <2>2, IdsAreFinite, IncidentsAssumption
    <3> QED
      BY <2>2, <2>3, <2>4, <3>1
  <2>9. NothingTrimmed'
    BY <2>1, <2>2, <2>8 DEF IndexInv, NothingTrimmed
  <2>10. RowsAgree'
    BY <2>1 DEF IndexInv, RowsAgree, Unresolved
  <2>11. \A k \in IncidentKeys : OpenOf(k)' = IF k = key THEN OpenOf(k) \cup {id} ELSE OpenOf(k)
    BY <2>2, <2>3 DEF OpenOf, Unresolved
  <2>12. NothingComesBack' => NothingComesBack
    BY <2>1, <2>8 DEF NothingComesBack
  <2>13. OpenIndexExact'
    <3> SUFFICES ASSUME NEW k \in IncidentKeys
                 PROVE  /\ NothingComesBack' =>
                             OpenOf(k)' = IF openByKey'[k] = 0 THEN {} ELSE {openByKey'[k]}
                        /\ openByKey'[k] # 0 =>
                             openByKey'[k] \in OpenOf(k)' /\ \A i \in OpenOf(k)' : i <= openByKey'[k]
      BY DEF OpenIndexExact
    <3>1. CASE k = key
      <4>1. openByKey'[k] = id
        BY <2>1, <3>1, IncidentsAssumption DEF IndexInv, IncidentsTypeOK
      <4>2. openByKey[k] = 0
        BY <1>2, <3>1, IncidentsAssumption
        DEF HasOpen, IndexInv, OpenIndexExact, OpenOf, Unresolved
      <4>3. NothingComesBack => OpenOf(k) = {}
        BY <4>2 DEF IndexInv, OpenIndexExact
      <4>4. OpenOf(k)' = OpenOf(k) \cup {id}
        BY <2>11, <3>1
      <4>5. \A i \in OpenOf(k) : i <= id
        BY <2>4 DEF OpenOf, Unresolved
      <4>6. id # 0 /\ id <= id
        BY <2>2
      <4> QED
        BY <2>12, <4>1, <4>3, <4>4, <4>5, <4>6
    <3>2. CASE k # key
      <4>1. openByKey'[k] = openByKey[k] /\ OpenOf(k)' = OpenOf(k)
        BY <2>1, <2>11, <3>2 DEF IndexInv, IncidentsTypeOK
      <4> QED
        BY <2>12, <4>1 DEF IndexInv, OpenIndexExact
    <3> QED
      BY <3>1, <3>2
  <2> QED
    BY <2>6, <2>7, <2>9, <2>10, <2>13 DEF IndexInv
<1> QED
  BY <1>1, <1>2

LEMMA FlushIndex ==
  ASSUME IndexInv, Flush
  PROVE  IndexInv'
<1>1. /\ DOMAIN incidentRows' = DOMAIN incidentRows \cup DOMAIN incidents
      /\ \A i \in DOMAIN incidents : incidentRows'[i] = incidents[i]
      /\ \A i \in DOMAIN incidentRows \ DOMAIN incidents : incidentRows'[i] = incidentRows[i]
      /\ UNCHANGED <<incidents, lastIncident, openByKey, imports>>
  BY DEF Flush, Over
<1>2. IncidentsTypeOK'
  BY <1>1 DEF IndexInv, IncidentsTypeOK
<1>3. IdsGrow' /\ NothingTrimmed'
  BY <1>1 DEF IndexInv, IdsGrow, NothingTrimmed
<1>4. OpenIndexExact'
  BY <1>1 DEF IndexInv, OpenIndexExact, OpenOf, Unresolved, NothingComesBack
<1>5. RowsAgree'
  <2> SUFFICES ASSUME \A i \in DOMAIN incidentRows' : i <= HistoryCap + 1,
                      NEW i \in Unresolved(incidentRows)', NEW j \in Unresolved(incidentRows)',
                      incidentRows'[i].key = incidentRows'[j].key,
                      incidentRows'[i].key \in IncidentKeys
               PROVE  i = j
    BY DEF RowsAgree
  <2>1. lastIncident <= HistoryCap + 1
    BY <1>1, IncidentsAssumption DEF IndexInv, IdsGrow
  <2>2. DOMAIN incidentRows \subseteq DOMAIN incidents /\ NothingComesBack
    BY <2>1 DEF IndexInv, NothingTrimmed, NothingComesBack
  <2>3. {i, j} \subseteq OpenOf(incidents[i].key) /\ incidents[i].key \in IncidentKeys
    BY <1>1, <2>2 DEF OpenOf, Unresolved
  <2> QED
    BY <2>2, <2>3 DEF IndexInv, OpenIndexExact
<1> QED
  BY <1>2, <1>3, <1>4, <1>5 DEF IndexInv

\* The last unresolved row of a key is its entry.
LEMMA OwnerIs ==
  ASSUME IndexInv, NEW k \in IncidentKeys,
         NEW owners, owners = {i \in Unresolved(incidentRows) : incidentRows[i].key = k}
  PROVE  /\ owners = {} => Owner(incidentRows, k) = 0
         /\ owners # {} => /\ Owner(incidentRows, k) \in owners
                           /\ \A i \in owners : i <= Owner(incidentRows, k)
         /\ owners \subseteq 1..MaxIncidents
<1>1. owners \in SUBSET (0..MaxIncidents) /\ owners \subseteq 1..MaxIncidents
  BY IncidentsAssumption DEF IndexInv, IncidentsTypeOK, Unresolved
<1>2. Owner(incidentRows, k) = IF owners = {} THEN 0 ELSE Max(owners)
  BY DEF Owner
<1>3. MaxIncidents \in Nat
  BY IncidentsAssumption
<1> QED
  BY <1>1, <1>2, <1>3, MaxIsGreatest

LEMMA ReloadIndex ==
  ASSUME IndexInv, Reload
  PROVE  IndexInv'
<1> DEFINE rows == incidentRows
<1>1. /\ incidents' = rows /\ incidentRows' = rows
      /\ lastIncident' = LastIncidentID(rows)
      /\ openByKey' = [k \in IncidentKeys |-> Owner(rows, k)]
      /\ imports' \in 0..MaxImports /\ imports' # 0
  <2>1. imports \in 0..MaxImports /\ MaxImports \in Nat
    BY IncidentsAssumption DEF IndexInv, IncidentsTypeOK
  <2> QED
    BY <2>1 DEF Reload
<1>2. DOMAIN rows \subseteq 2..lastIncident /\ lastIncident \in 1..MaxIncidents
  <2>1. lastIncident \in 0..MaxIncidents /\ lastIncident >= 1 /\ MaxIncidents \in Nat
    BY IncidentsAssumption DEF IndexInv, IdsGrow, IncidentsTypeOK
  <2> QED
    BY <2>1 DEF IndexInv, IdsGrow
<1>3. /\ DOMAIN rows = {} => lastIncident' = 1
      /\ DOMAIN rows # {} => /\ lastIncident' \in DOMAIN rows
                             /\ \A i \in DOMAIN rows : i <= lastIncident'
  <2>1. DOMAIN rows \in SUBSET (0..MaxIncidents) /\ MaxIncidents \in Nat
    BY <1>2, IncidentsAssumption
  <2> QED
    BY <1>1, <2>1, MaxIsGreatest DEF LastIncidentID
<1>4. IdsGrow' /\ NothingTrimmed'
  <2>1. lastIncident' \in 1..MaxIncidents
    BY <1>2, <1>3, IncidentsAssumption
  <2>2. DOMAIN rows \subseteq 2..(lastIncident')
    BY <1>2, <1>3, <2>1
  <2>3. DOMAIN incidents' = DOMAIN rows /\ DOMAIN incidentRows' = DOMAIN rows
    BY <1>1
  <2>4. lastIncident' = 1 \/ lastIncident' \in DOMAIN rows
    BY <1>3
  <2> QED
    BY ONLY <2>1, <2>2, <2>3, <2>4, IncidentsAssumption DEF IdsGrow, NothingTrimmed
<1>5. IncidentsTypeOK'
  <2>1. lastIncident' \in 0..MaxIncidents
    <3>1. CASE DOMAIN rows = {}
      BY ONLY <1>3, <3>1, IncidentsAssumption
    <3>2. CASE DOMAIN rows # {}
      BY ONLY <1>2, <1>3, <3>2, IncidentsAssumption
    <3> QED
      BY <3>1, <3>2
  <2>2. \A k \in IncidentKeys : Owner(rows, k) \in 0..MaxIncidents
    <3>1. TAKE k \in IncidentKeys
    <3> DEFINE owners == {i \in Unresolved(rows) : rows[i].key = k}
    <3>2. /\ owners = {} => Owner(rows, k) = 0
          /\ owners # {} => Owner(rows, k) \in owners
          /\ owners \subseteq 1..MaxIncidents
      BY OwnerIs
    <3>3. \A i \in 1..MaxIncidents : i \in 0..MaxIncidents
      BY IncidentsAssumption
    <3>4. 0 \in 0..MaxIncidents
      BY IncidentsAssumption
    <3> HIDE DEF owners
    <3> QED
      BY <3>2, <3>3, <3>4
  <2> QED
    BY <1>1, <2>1, <2>2 DEF IndexInv, IncidentsTypeOK
<1>6. RowsAgree'
  BY <1>1 DEF IndexInv, RowsAgree, Unresolved
<1>7. OpenIndexExact'
  <2> SUFFICES ASSUME NEW k \in IncidentKeys
               PROVE  /\ NothingComesBack' =>
                           OpenOf(k)' = IF openByKey'[k] = 0 THEN {} ELSE {openByKey'[k]}
                      /\ openByKey'[k] # 0 =>
                           openByKey'[k] \in OpenOf(k)' /\ \A i \in OpenOf(k)' : i <= openByKey'[k]
    BY DEF OpenIndexExact
  <2> DEFINE owners == {i \in Unresolved(rows) : rows[i].key = k}
  <2>1. OpenOf(k)' = owners
    BY <1>1 DEF OpenOf, Unresolved
  <2>2. openByKey'[k] = Owner(rows, k)
    BY <1>1
  <2>3. /\ owners = {} => Owner(rows, k) = 0
        /\ owners # {} => /\ Owner(rows, k) \in owners
                          /\ \A i \in owners : i <= Owner(rows, k)
        /\ owners \subseteq 1..MaxIncidents
    BY OwnerIs
  <2>4. NothingComesBack' => \A i, j \in owners : i = j
    <3>1. SUFFICES ASSUME NothingComesBack', NEW i \in owners, NEW j \in owners
                   PROVE  i = j
      OBVIOUS
    <3>2. lastIncident' <= HistoryCap + 1
      BY <1>1, <3>1 DEF NothingComesBack
    <3>3. DOMAIN rows # {}
      BY <3>1 DEF Unresolved
    <3>4. lastIncident' \in 1..MaxIncidents /\ HistoryCap \in Nat
      BY <1>2, <1>3, IncidentsAssumption
    <3>5. \A n \in DOMAIN rows : n <= HistoryCap + 1
      BY <1>2, <1>3, <3>2, <3>3, <3>4
    <3> QED
      BY <3>1, <3>5 DEF IndexInv, RowsAgree
  <2>5. 0 \notin owners
    BY <2>3
  <2> HIDE DEF owners
  <2>6. CASE owners = {}
    BY <2>1, <2>2, <2>3, <2>6
  <2>7. CASE owners # {}
    BY <2>1, <2>2, <2>3, <2>4, <2>5, <2>7
  <2> QED
    BY <2>6, <2>7
<1> QED
  BY <1>4, <1>5, <1>6, <1>7 DEF IndexInv

LEMMA StepIndex == IndexInv /\ [IncidentsNext]_incidentVars => IndexInv'
<1> SUFFICES ASSUME IndexInv, [IncidentsNext]_incidentVars PROVE IndexInv'
  OBVIOUS
<1>1. ASSUME NEW k \in IncidentKeys, NEW firing \in BOOLEAN, OnAlertTransition(k, firing)
      PROVE  IndexInv'
  BY <1>1, RaiseIndex, ResolveByKeyIndex DEF OnAlertTransition
<1>2. CASE IncidentOps
  BY <1>2, RaiseIndex, AckIndex, ResolveIndex, FlushIndex DEF IncidentOps, Ack, Resolve
<1>3. CASE Reload
  BY <1>3, ReloadIndex
<1>4. CASE UNCHANGED incidentVars
  BY <1>4 DEF incidentVars, IndexInv, IncidentsTypeOK, IdsGrow, NothingTrimmed, RowsAgree,
              OpenIndexExact, OpenOf, Unresolved, NothingComesBack
<1> QED
  BY <1>1, <1>2, <1>3, <1>4 DEF IncidentsNext

\* For any keys, any length of the history and any number of restarts: openByKey is an
\* exact index of the unresolved incidents until one that was trimmed may have come back,
\* and even then an entry is the newest unresolved incident of its key.
THEOREM IncidentsIndexed == IncidentsSpec => []OpenIndexExact
<1>1. IndexInv => OpenIndexExact
  BY DEF IndexInv
<1> QED
  BY <1>1, InitIndex, StepIndex, PTL DEF IncidentsSpec

-----------------------------------------------------------------------------
(* What is kept, and under which id.                                        *)

\* raise appends, and its trimming changes nothing that it keeps.
LEMMA RaiseAdds ==
  ASSUME IndexInv, NEW key \in IncidentKeys \cup {NoKey}, Raise(key), ~HasOpen(key)
  PROVE  /\ lastIncident' = lastIncident + 1
         /\ lastIncident' \in DOMAIN incidents'
         /\ lastIncident' \notin DOMAIN incidents \cup DOMAIN incidentRows
         /\ incidents'[lastIncident'] = [key |-> key, status |-> "open", closed |-> "no"]
         /\ DOMAIN incidents' \subseteq DOMAIN incidents \cup {lastIncident'}
         /\ \A i \in DOMAIN incidents' \ {lastIncident'} : incidents'[i] = incidents[i]
         /\ \A j \in DOMAIN incidents \ DOMAIN incidents' :
              \A i \in DOMAIN incidents :
                i < j /\ incidents[i].status = "resolved" => i \notin DOMAIN incidents'
         /\ lastIncident' <= HistoryCap + 1 => DOMAIN incidents \subseteq DOMAIN incidents'
         /\ \A i \in DOMAIN incidents : i < lastIncident'
<1> DEFINE row == [key |-> key, status |-> "open", closed |-> "no"]
           id == lastIncident + 1
           new == Over(incidents, [i \in {id} |-> row])
<1>1. /\ lastIncident < MaxIncidents
      /\ lastIncident' = id
      /\ incidents' = Trimmed(new)
  BY DEF Raise
<1>2. /\ Ids(new)
      /\ DOMAIN new = DOMAIN incidents \cup {id}
      /\ new[id] = row
      /\ \A i \in DOMAIN incidents : new[i] = incidents[i]
      /\ Unresolved(new) = Unresolved(incidents) \cup {id}
      /\ id \notin DOMAIN incidents \cup DOMAIN incidentRows
      /\ Cardinality(DOMAIN new) <= lastIncident
  BY <1>1, NewIncident
<1>3. lastIncident \in Nat /\ \A i \in DOMAIN incidents : i < id
  BY DEF IndexInv, IncidentsTypeOK, IdsGrow
<1> HIDE DEF new
<1>4. /\ Unresolved(new) \subseteq DOMAIN incidents'
      /\ DOMAIN incidents' \subseteq DOMAIN new
      /\ \A i \in DOMAIN incidents' : incidents'[i] = new[i]
      /\ Cardinality(DOMAIN new) <= HistoryCap => DOMAIN incidents' = DOMAIN new
  BY <1>1, <1>2, TrimmedKeeps
<1>5. ASSUME NEW j \in DOMAIN incidents \ DOMAIN incidents', NEW i \in DOMAIN incidents,
             i < j, incidents[i].status = "resolved"
      PROVE  i \notin DOMAIN incidents'
  BY <1>1, <1>2, <1>5, TrimmedFromOldest
<1>6. id <= HistoryCap + 1 => DOMAIN incidents \subseteq DOMAIN incidents'
  <2>1. Cardinality(DOMAIN new) \in Nat /\ HistoryCap \in Nat
    BY <1>2, IdsAreFinite, IncidentsAssumption
  <2> QED
    BY <1>2, <1>3, <1>4, <2>1
<1> QED
  BY <1>1, <1>2, <1>3, <1>4, <1>5, <1>6

LEMMA RaiseIsSafe ==
  ASSUME IndexInv, NEW key \in IncidentKeys \cup {NoKey}, Raise(key), ~HasOpen(key)
  PROVE  /\ Unresolved(incidents) \subseteq DOMAIN incidents'
         /\ Cardinality(DOMAIN incidents \ DOMAIN incidents') > 0
              => Cardinality(DOMAIN incidents') >= HistoryCap
         /\ lastIncident' \notin DOMAIN incidents \cup DOMAIN incidentRows
<1> DEFINE row == [key |-> key, status |-> "open", closed |-> "no"]
           new == Over(incidents, [i \in {lastIncident + 1} |-> row])
<1>1. /\ lastIncident < MaxIncidents
      /\ lastIncident' = lastIncident + 1
      /\ incidents' = Trimmed(new)
  BY DEF Raise
<1>2. /\ Ids(new)
      /\ DOMAIN new = DOMAIN incidents \cup {lastIncident + 1}
      /\ Unresolved(new) = Unresolved(incidents) \cup {lastIncident + 1}
      /\ lastIncident + 1 \notin DOMAIN incidents \cup DOMAIN incidentRows
  BY <1>1, NewIncident
<1> HIDE DEF new
<1>3. /\ Unresolved(new) \subseteq DOMAIN incidents'
      /\ DOMAIN incidents' = DOMAIN new \/ Cardinality(DOMAIN incidents') >= HistoryCap
  BY <1>1, <1>2, TrimmedKeeps
<1>4. DOMAIN incidents' = DOMAIN new => DOMAIN incidents \ DOMAIN incidents' = {}
  BY <1>2
<1>5. Cardinality({}) = 0
  BY FS_EmptySet
<1>6. Cardinality(DOMAIN incidents \ DOMAIN incidents') > 0
        => Cardinality(DOMAIN incidents') >= HistoryCap
  BY <1>3, <1>4, <1>5
<1> QED
  BY <1>1, <1>2, <1>3, <1>6

LEMMA StepIsSafe ==
  ASSUME IndexInv, [IncidentsNext]_incidentVars, imports' = imports
  PROVE  /\ Unresolved(incidents) \subseteq DOMAIN incidents'
         /\ Cardinality(DOMAIN incidents \ DOMAIN incidents') > 0
              => Cardinality(DOMAIN incidents') >= HistoryCap
         /\ lastIncident' # lastIncident =>
              lastIncident' \notin DOMAIN incidents \cup DOMAIN incidentRows
<1>1. CASE DOMAIN incidents' = DOMAIN incidents /\ lastIncident' = lastIncident
  <2>1. DOMAIN incidents \ DOMAIN incidents' = {}
    BY <1>1
  <2> QED
    BY <1>1, <2>1, FS_EmptySet DEF Unresolved
<1>2. ASSUME NEW key \in IncidentKeys \cup {NoKey}, Raise(key)
      PROVE  \/ DOMAIN incidents' = DOMAIN incidents /\ lastIncident' = lastIncident
             \/ ~HasOpen(key)
  BY <1>2 DEF Raise, incidentVars
<1>3. ~Reload
  <2>1. imports \in 0..MaxImports
    BY DEF IndexInv, IncidentsTypeOK
  <2> QED
    BY <2>1 DEF Reload
<1>4. ASSUME NEW k \in IncidentKeys, ResolveByKey(k)
      PROVE  DOMAIN incidents' = DOMAIN incidents /\ lastIncident' = lastIncident
  BY <1>4 DEF ResolveByKey
<1>5. ASSUME NEW i \in 1..MaxIncidents, Ack(i) \/ Resolve(i)
      PROVE  DOMAIN incidents' = DOMAIN incidents /\ lastIncident' = lastIncident
  BY <1>5 DEF Ack, Resolve
<1>6. Flush \/ UNCHANGED incidentVars =>
        DOMAIN incidents' = DOMAIN incidents /\ lastIncident' = lastIncident
  BY DEF Flush, incidentVars
<1> QED
  BY <1>1, <1>2, <1>3, <1>4, <1>5, <1>6, RaiseIsSafe
  DEF IncidentsNext, OnAlertTransition, IncidentOps

\* For any length of the history: whatever is raised, the incidents that somebody has
\* still to deal with stay in memory, and no incident gets an id that another one, in
\* memory or in the table, has.
THEOREM HistoryStaysSafe == IncidentsSpec => HistoryIsSafe
<1>1. IndexInv /\ [IncidentsNext]_incidentVars =>
        [imports' = imports =>
           /\ Unresolved(incidents) \subseteq DOMAIN incidents'
           /\ Cardinality(DOMAIN incidents \ DOMAIN incidents') > 0
                => Cardinality(DOMAIN incidents') >= HistoryCap
           /\ lastIncident' # lastIncident =>
                lastIncident' \notin DOMAIN incidents \cup DOMAIN incidentRows]_incidentVars
  BY StepIsSafe
<1> QED
  BY <1>1, InitIndex, StepIndex, PTL DEF IncidentsSpec, HistoryIsSafe

-----------------------------------------------------------------------------
(* The loop of alerts and incidents: its steps are steps of each.           *)

\* What a tick has in hand when it calls the hooks is a transition.
HandsFull == \A w \in Workers : pc[w] = "hook" => hand[w] \in Transitions

LEMMA LoopStepIsNext ==
  ASSUME [LoopNext]_loopVars
  PROVE  Restart \/ [Next]_vars
<1>1. ASSUME NEW w \in Workers, LoopTickStep(w) PROVE TickStep(w)
  BY <1>1 DEF LoopTickStep, TickStep, HookIncident
<1> QED
  BY <1>1
     DEF LoopNext, loopVars, CrossThreshold, Configure, Push, FileElsewhere, Operate, Persist, Next

LEMMA LoopStepIsIncidents ==
  ASSUME IncidentsTypeOK, HandsFull, [LoopNext]_loopVars
  PROVE  [IncidentsNext]_incidentVars
<1>1. ASSUME NEW w \in Workers, HookIncident(w) PROVE IncidentsNext
  <2>1. hand[w].key \in IncidentKeys /\ hand[w].firing \in BOOLEAN
    BY <1>1, LoopAssumption DEF HookIncident, Hooked, HandsFull, Transitions
  <2> QED
    BY <1>1, <2>1 DEF HookIncident, IncidentsNext
<1>2. ASSUME NEW w \in Workers, LoopTickStep(w) PROVE [IncidentsNext]_incidentVars
  BY <1>1, <1>2 DEF LoopTickStep
<1>3. Operate => IncidentsNext
  BY DEF Operate, IncidentsNext, IncidentOps, IncidentsTypeOK
<1> QED
  BY <1>2, <1>3 DEF LoopNext, loopVars, CrossThreshold, Configure, Push, FileElsewhere,
                    Persist, Restart, IncidentsNext, IncidentOps

LEMMA RestartTypeOK ==
  ASSUME TypeOK, Restart
  PROVE  TypeOK'
<1>1. <<>> \in Seq(Transitions) /\ NoEntry \in 0..NoEntry
  BY NotifierAssumption DEF NoEntry
<1>2. /\ records' \in Seq(RingRecords)
      /\ Len(records') <= RecordCap
  <2>1. /\ records \in Seq(RingRecords)
        /\ DOMAIN records = 1..Len(records)
        /\ Len(records) \in Nat
        /\ Len(records) <= RecordCap
    BY DEF TypeOK
  <2>2. records' \in [1..Len(records) -> RingRecords]
    BY <2>1 DEF Restart, Reloaded
  <2> QED
    BY ONLY <2>1, <2>2
<1> QED
  BY <1>1, <1>2 DEF TypeOK, Restart, NoTransition

LEMMA StepHands == TypeOK /\ HandsFull /\ [LoopNext]_loopVars => HandsFull'
<1> SUFFICES ASSUME TypeOK, HandsFull, [LoopNext]_loopVars PROVE HandsFull'
  OBVIOUS
<1>1. CASE Restart
  BY <1>1 DEF Restart, HandsFull
<1>2. ASSUME NEW w \in Workers, TickStep(w) PROVE HandsFull'
  <2>1. ASSUME NEW k \in Keys, Dispatch(w, k) PROVE HandsFull'
    BY <2>1 DEF TypeOK, Dispatch, HandsFull, Transitions
  <2>2. CASE Begin(w) \/ Evaluate(w) \/ Reconcile(w) \/ Hooked(w)
    BY <2>2 DEF TypeOK, Begin, Evaluate, Reconcile, Hooked, HandsFull
  <2> QED
    BY <1>2, <2>1, <2>2 DEF TickStep
<1>3. ASSUME NEW w \in Triggers, ResetAndTrigger(w) PROVE HandsFull'
  BY <1>3 DEF TypeOK, ResetAndTrigger, HandsFull
<1>4. CASE (\E k \in Keys : Toggle(k)) \/ SaveConfig \/ Deliver \/ FileOther \/ UNCHANGED vars
  BY <1>4 DEF Toggle, SaveConfig, Deliver, FileOther, vars, tickVars, HandsFull
<1> QED
  BY <1>1, <1>2, <1>3, <1>4, LoopStepIsNext DEF Next

LoopTyped == TypeOK /\ IndexInv /\ HandsFull

LEMMA InitLoop == LoopInit => LoopTyped
<1>1. Init => HandsFull
  BY DEF Init, HandsFull
<1> QED
  BY <1>1, InitTypeOK, InitIndex DEF LoopInit, LoopTyped

LEMMA StepLoop == LoopTyped /\ [LoopNext]_loopVars => LoopTyped'
<1> SUFFICES ASSUME LoopTyped, [LoopNext]_loopVars PROVE LoopTyped'
  OBVIOUS
<1>1. TypeOK'
  BY LoopStepIsNext, StepTypeOK, RestartTypeOK DEF LoopTyped
<1>2. IndexInv'
  BY LoopStepIsIncidents, StepIndex DEF LoopTyped, IndexInv
<1> QED
  BY <1>1, <1>2, StepHands DEF LoopTyped

\* Driven by the alert engine, by operators, by pgFlush and by restarts, the incident
\* manager does what it does by itself: all that is proved of it holds in the loop.
THEOREM LoopDrivesIncidents == LoopSpec => IncidentsSpec
<1>1. LoopInit => IncidentsInit
  BY DEF LoopInit
<1>2. LoopTyped /\ [LoopNext]_loopVars => [IncidentsNext]_incidentVars
  BY LoopStepIsIncidents DEF LoopTyped, IndexInv
<1> QED
  BY <1>1, <1>2, InitLoop, StepLoop, PTL DEF LoopSpec, IncidentsSpec

\* In the loop too openByKey is an exact index, whatever ticks, operators, flushes and
\* restarts do between each other's steps.
THEOREM LoopIndexed == LoopSpec => []OpenIndexExact
BY LoopDrivesIncidents, IncidentsIndexed, PTL

LEMMA StepLoopCounters ==
  TypeOK /\ CountersWellFormed /\ [LoopNext]_loopVars => CountersWellFormed'
<1> SUFFICES ASSUME TypeOK, CountersWellFormed, [LoopNext]_loopVars
             PROVE  CountersWellFormed'
  OBVIOUS
<1>1. CASE Restart
  <2>1. 0 < ConfirmTicks
    BY NotifierAssumption
  <2> QED
    BY <1>1, <2>1 DEF Restart, CountersWellFormed
<1>2. CASE [Next]_vars
  BY <1>2, StepCounters
<1> QED
  BY <1>1, <1>2, LoopStepIsNext

\* In the loop too no count outlives the state it was counted in, nor the life of the
\* process: a restart forgets alerts and counts together, at any point of any tick.
THEOREM LoopCounters == LoopSpec => []CountersWellFormed
<1>1. LoopInit => CountersWellFormed
  <2> SUFFICES ASSUME LoopInit, NEW k \in Keys
               PROVE  /\ active = {}
                      /\ missing[k] = 0
                      /\ pending[k] < ConfirmTicks
    BY DEF CountersWellFormed
  <2>1. pending[k] = 0 /\ 0 < ConfirmTicks
    BY NotifierAssumption DEF LoopInit, Init
  <2> QED
    BY <2>1 DEF LoopInit, Init
<1>2. LoopTyped /\ CountersWellFormed /\ [LoopNext]_loopVars => CountersWellFormed'
  BY StepLoopCounters DEF LoopTyped
<1> QED
  BY <1>1, <1>2, InitLoop, StepLoop, PTL DEF LoopSpec

LEMMA StepLoopDebounced ==
  TypeOK /\ CountersWellFormed /\ [LoopNext]_loopVars
    => [Debounce!Next \/ Debounce!StartOver]_(Debounce!vars)
<1> SUFFICES ASSUME TypeOK, CountersWellFormed, [LoopNext]_loopVars
             PROVE  [Debounce!Next \/ Debounce!StartOver]_(Debounce!vars)
  OBVIOUS
<1>1. CASE Restart
  <2>1. Debounce!StartOver
    BY <1>1 DEF Restart, Debounce!StartOver
  <2> QED
    BY <2>1
<1>2. CASE [Next]_vars
  BY <1>2, StepDebounced
<1> QED
  BY <1>1, <1>2, LoopStepIsNext

\* Composed with incidents, operators, flushes and restarts, the alert engine still is
\* the debounce automaton of every key: a restart in the middle of ticks starts the
\* automata over, and no evaluation made before it counts after it.
THEOREM LoopDebounced == LoopSpec => Debounce!LivesSpec
<1>1. LoopInit => Debounce!Init
  BY DEF LoopInit, Init, Debounce!Init
<1>2. TypeOK /\ CountersWellFormed /\ [LoopNext]_loopVars
        => [Debounce!Next \/ Debounce!StartOver]_(Debounce!vars)
  BY StepLoopDebounced
<1>3. LoopSpec => []TypeOK
  BY InitLoop, StepLoop, PTL DEF LoopSpec, LoopTyped
<1> QED
  BY <1>1, <1>2, <1>3, LoopCounters, PTL DEF LoopSpec, Debounce!LivesSpec

-----------------------------------------------------------------------------
(* One ticking loop.                                                        *)

\* Until a configuration save the loop of Run is alone, restarts included: what it has
\* in hand is what it last reconciled, and its key is in neither list any more.
LoopAlone ==
  /\ OneLoop
  /\ saves = 0 /\ pc[Ticker] = "hook" =>
       /\ hand[Ticker].key \notin fires[Ticker] \cup resolves[Ticker]
       /\ hand[Ticker].firing <=> hand[Ticker].key \in active

LEMMA AloneTick ==
  ASSUME TypeOK, LoopAlone, saves = 0, TickStep(Ticker)
  PROVE  LoopAlone'
<1> USE NotifierAssumption DEF Workers
<1>1. ASSUME NEW k \in Keys, Dispatch(Ticker, k) PROVE LoopAlone'
  <2>1. /\ UNCHANGED <<enabled, saves, admin, active, cfgOn>>
        /\ \A w \in Triggers : pc'[w] = pc[w]
        /\ pc'[Ticker] = "hook"
        /\ hand'[Ticker] = [key |-> k, firing |-> fires[Ticker] # {}]
    BY <1>1 DEF TypeOK, Dispatch, configVars, alertVars
  <2>4. hand'[Ticker].key = k
    BY <2>1
  <2>5. hand'[Ticker].firing <=> fires[Ticker] # {}
    <3> DEFINE t == [key |-> k, firing |-> fires[Ticker] # {}]
    <3>1. t.firing <=> fires[Ticker] # {}
      BY Zenon
    <3>2. hand'[Ticker] = t
      BY <2>1
    <3> HIDE DEF t
    <3> QED
      BY <3>1, <3>2
  <2>2. CASE fires[Ticker] # {}
    <3>1. /\ k \in fires[Ticker]
          /\ fires'[Ticker] = fires[Ticker] \ {k}
          /\ resolves'[Ticker] = resolves[Ticker]
      BY <1>1, <2>2 DEF TypeOK, Dispatch
    <3>2. k \in active /\ k \notin resolves[Ticker]
      BY <3>1 DEF LoopAlone, OneLoop
    <3>3. OneLoop'
      BY <2>1, <3>1, <3>2 DEF LoopAlone, OneLoop
    <3> QED
      BY <2>1, <2>4, <2>5, <2>2, <3>1, <3>2, <3>3 DEF LoopAlone
  <2>3. CASE fires[Ticker] = {}
    <3>1. /\ k \in resolves[Ticker]
          /\ fires'[Ticker] = fires[Ticker]
          /\ resolves'[Ticker] = resolves[Ticker] \ {k}
      BY <1>1, <2>3 DEF TypeOK, Dispatch
    <3>2. k \notin active /\ k \notin fires[Ticker]
      BY <2>3, <3>1 DEF LoopAlone, OneLoop
    <3>3. OneLoop'
      BY <2>1, <3>1, <3>2 DEF LoopAlone, OneLoop
    <3> QED
      BY <2>1, <2>4, <2>5, <2>3, <3>1, <3>2, <3>3 DEF LoopAlone
  <2> QED
    BY <2>2, <2>3
<1>2. CASE Reconcile(Ticker)
  <2> DEFINE seen == cur[Ticker]
  <2>1. /\ fires'[Ticker] = Confirmed(seen)
        /\ resolves'[Ticker] = Cleared(seen)
        /\ active' = (active \cup Confirmed(seen)) \ Cleared(seen)
    BY <1>2 DEF TypeOK, Reconcile, Reconciled, LoopAlone, OneLoop
  <2>2. /\ Confirmed(seen) \cap active = {}
        /\ Confirmed(seen) \cap Cleared(seen) = {}
        /\ Cleared(seen) \subseteq active
    BY DEF Confirmed, Cleared
  <2>3. /\ UNCHANGED <<enabled, saves, admin>>
        /\ \A w \in Triggers : pc'[w] = pc[w]
        /\ pc'[Ticker] = IF Confirmed(seen) \cup Cleared(seen) = {} THEN "idle" ELSE "dispatch"
    BY <1>2, <2>1 DEF TypeOK, Reconcile, configVars, LoopAlone, OneLoop
  <2> HIDE DEF seen
  <2> QED
    BY <2>1, <2>2, <2>3 DEF LoopAlone, OneLoop
<1>3. CASE Begin(Ticker)
  BY <1>3 DEF TypeOK, Begin, configVars, alertVars, LoopAlone, OneLoop
<1>4. CASE Evaluate(Ticker)
  BY <1>4 DEF TypeOK, Evaluate, configVars, alertVars, LoopAlone, OneLoop
<1>5. CASE Hooked(Ticker)
  BY <1>5 DEF TypeOK, Hooked, configVars, alertVars, LoopAlone, OneLoop
<1> QED
  BY <1>1, <1>2, <1>3, <1>4, <1>5 DEF TickStep

\* Until then nobody else steps.
LEMMA OnlyTicker ==
  ASSUME TypeOK, LoopAlone, saves = 0
  PROVE  /\ \A w \in Triggers : ~ResetAndTrigger(w)
         /\ \A w \in Workers : TickStep(w) => w = Ticker
<1>1. \A w \in Triggers : ~ResetAndTrigger(w)
  BY DEF ResetAndTrigger, LoopAlone, OneLoop
<1>2. ASSUME NEW w \in Triggers PROVE ~TickStep(w)
  <2>1. pc[w] = "idle" /\ w # Ticker
    BY NotifierAssumption DEF LoopAlone, OneLoop
  <2> QED
    BY <2>1 DEF TickStep, Begin, Evaluate, Reconcile, Dispatch, Hooked
<1> QED
  BY <1>1, <1>2 DEF Workers

LEMMA SavesGrow ==
  ASSUME TypeOK, [LoopNext]_loopVars, saves' = 0
  PROVE  saves = 0 /\ ~SaveConfig
<1>1. saves \in Nat
  BY NotifierAssumption DEF TypeOK
<1>2. ASSUME NEW w \in Workers, TickStep(w) PROVE saves' = saves
  BY <1>2 DEF TickStep, Begin, Evaluate, Reconcile, Dispatch, Hooked, configVars
<1> QED
  BY <1>1, <1>2, LoopStepIsNext
     DEF Next, Toggle, SaveConfig, ResetAndTrigger, Deliver, FileOther, Restart, vars, configVars

LEMMA StepAlone == TypeOK /\ LoopAlone /\ [LoopNext]_loopVars => LoopAlone'
<1> SUFFICES ASSUME TypeOK, LoopAlone, [LoopNext]_loopVars PROVE LoopAlone'
  OBVIOUS
<1>1. CASE saves' # 0
  BY <1>1 DEF LoopAlone, OneLoop
<1>2. CASE saves' = 0
  <2>1. saves = 0 /\ ~SaveConfig
    BY <1>2, SavesGrow
  <2>2. CASE Restart
    BY <2>2, <2>1 DEF Restart, LoopAlone, OneLoop, Workers
  <2>3. CASE (\E k \in Keys : Toggle(k)) \/ Deliver \/ FileOther \/ UNCHANGED vars
    BY <2>3 DEF Toggle, Deliver, FileOther, vars, configVars, alertVars, tickVars, LoopAlone,
                OneLoop
  <2>4. ASSUME NEW w \in Workers, TickStep(w) PROVE LoopAlone'
    BY <2>1, <2>4, OnlyTicker, AloneTick
  <2> QED
    BY <2>1, <2>2, <2>3, <2>4, OnlyTicker, LoopStepIsNext DEF Next
<1> QED
  BY <1>1, <1>2

LEMMA InitAlone == LoopInit => LoopAlone
BY DEF LoopInit, Init, LoopAlone, OneLoop, Workers

\* closed says how an incident was resolved, and only of a resolved one; and a row that
\* is closed is so in memory.
ClosedAgree(rows) ==
  \A i \in DOMAIN rows : rows[i].closed = "no" <=> rows[i].status # "resolved"

RowsBehind ==
  /\ ClosedAgree(incidents)
  /\ ClosedAgree(incidentRows)
  /\ \A i \in DOMAIN incidentRows \cap DOMAIN incidents :
       incidentRows[i].closed # "no" => incidents[i].closed = incidentRows[i].closed

LEMMA StepBehind ==
  IndexInv /\ RowsBehind /\ [IncidentsNext]_incidentVars => RowsBehind'
<1> SUFFICES ASSUME IndexInv, RowsBehind, [IncidentsNext]_incidentVars PROVE RowsBehind'
  OBVIOUS
<1>1. ASSUME NEW key \in IncidentKeys \cup {NoKey}, Raise(key) PROVE RowsBehind'
  <2>1. CASE HasOpen(key)
    BY <1>1, <2>1 DEF Raise, incidentVars, RowsBehind, ClosedAgree
  <2>2. CASE ~HasOpen(key)
    <3>1. incidentRows' = incidentRows
      BY <1>1, <2>2 DEF Raise
    <3> DEFINE id == lastIncident'
    <3>2. /\ id \notin DOMAIN incidents \cup DOMAIN incidentRows
          /\ incidents'[id] = [key |-> key, status |-> "open", closed |-> "no"]
          /\ DOMAIN incidents' \subseteq DOMAIN incidents \cup {id}
          /\ \A i \in DOMAIN incidents' \ {id} : incidents'[i] = incidents[i]
      BY <1>1, <2>2, RaiseAdds
    <3> HIDE DEF id
    <3>3. ClosedAgree(incidents)'
      BY <3>2 DEF RowsBehind, ClosedAgree
    <3> QED
      BY <3>1, <3>2, <3>3 DEF RowsBehind, ClosedAgree
  <2> QED
    BY <2>1, <2>2
<1>2. ASSUME NEW n, NEW by \in {"recovered", "resolved"}, incidentRows' = incidentRows,
             DOMAIN incidents' = DOMAIN incidents,
             \A i \in DOMAIN incidents \ {n} : incidents'[i] = incidents[i],
             n \in DOMAIN incidents =>
               \/ incidents'[n] = incidents[n]
               \/ /\ incidents[n].status # "resolved"
                  /\ incidents'[n] =
                       [incidents[n] EXCEPT !.status = "resolved", !.closed = by]
               \/ /\ incidents[n].status = "open"
                  /\ incidents'[n] = [incidents[n] EXCEPT !.status = "acknowledged"]
      PROVE  RowsBehind'
  <2>1. \A i \in DOMAIN incidents : incidents[i] \in IncidentRecord
    BY DEF IndexInv, IncidentsTypeOK
  <2>2. \A i \in DOMAIN incidents :
          /\ incidents'[i].closed = "no" <=> incidents'[i].status # "resolved"
          /\ incidents[i].closed # "no" => incidents'[i].closed = incidents[i].closed
    <3> TAKE i \in DOMAIN incidents
    <3>1. /\ incidents[i] \in IncidentRecord
          /\ incidents[i].closed = "no" <=> incidents[i].status # "resolved"
      BY <2>1 DEF RowsBehind, ClosedAgree
    <3>2. CASE incidents'[i] = incidents[i]
      BY <3>1, <3>2
    <3>3. CASE /\ incidents[i].status # "resolved"
               /\ incidents'[i] = [incidents[i] EXCEPT !.status = "resolved", !.closed = by]
      BY <3>1, <3>3 DEF IncidentRecord
    <3>4. CASE /\ incidents[i].status = "open"
               /\ incidents'[i] = [incidents[i] EXCEPT !.status = "acknowledged"]
      BY <3>1, <3>4 DEF IncidentRecord
    <3> QED
      BY <1>2, <3>2, <3>3, <3>4
  <2> QED
    BY <1>2, <2>2 DEF RowsBehind, ClosedAgree
<1>3. ASSUME NEW k \in IncidentKeys, ResolveByKey(k) PROVE RowsBehind'
  <2> DEFINE n == openByKey[k]
  <2>1. /\ incidentRows' = incidentRows
        /\ DOMAIN incidents' = DOMAIN incidents
        /\ \A i \in DOMAIN incidents \ {n} : incidents'[i] = incidents[i]
        /\ n \in DOMAIN incidents =>
             \/ incidents'[n] = incidents[n]
             \/ /\ incidents[n].status # "resolved"
                /\ incidents'[n] =
                     [incidents[n] EXCEPT !.status = "resolved", !.closed = "recovered"]
    BY <1>3 DEF ResolveByKey
  <2>2. "recovered" \in {"recovered", "resolved"}
    BY ONLY TRUE
  <2> HIDE DEF n
  <2> QED
    BY ONLY <1>2, <2>1, <2>2
<1>4. ASSUME NEW n \in 1..MaxIncidents, Ack(n) PROVE RowsBehind'
  <2>1. /\ incidentRows' = incidentRows
        /\ DOMAIN incidents' = DOMAIN incidents
        /\ \A i \in DOMAIN incidents \ {n} : incidents'[i] = incidents[i]
        /\ n \in DOMAIN incidents /\ incidents[n].status = "open"
        /\ incidents'[n] = [incidents[n] EXCEPT !.status = "acknowledged"]
    BY <1>4 DEF Ack
  <2>2. "resolved" \in {"recovered", "resolved"}
    BY ONLY TRUE
  <2> QED
    BY ONLY <1>2, <2>1, <2>2
<1>5. ASSUME NEW n \in 1..MaxIncidents, Resolve(n) PROVE RowsBehind'
  <2>1. /\ incidentRows' = incidentRows
        /\ DOMAIN incidents' = DOMAIN incidents
        /\ \A i \in DOMAIN incidents \ {n} : incidents'[i] = incidents[i]
        /\ n \in DOMAIN incidents /\ incidents[n].status # "resolved"
        /\ incidents'[n] = [incidents[n] EXCEPT !.status = "resolved", !.closed = "resolved"]
    BY <1>5 DEF Resolve
  <2>2. "resolved" \in {"recovered", "resolved"}
    BY ONLY TRUE
  <2> QED
    BY ONLY <1>2, <2>1, <2>2
<1>6. CASE Flush
  BY <1>6 DEF Flush, Over, RowsBehind, ClosedAgree
<1>7. CASE Reload
  BY <1>7 DEF Reload, RowsBehind, ClosedAgree
<1>8. CASE UNCHANGED incidentVars
  BY <1>8 DEF incidentVars, RowsBehind, ClosedAgree
<1> QED
  BY <1>1, <1>3, <1>4, <1>5, <1>6, <1>7, <1>8
  DEF IncidentsNext, OnAlertTransition, IncidentOps

LEMMA InitBehind == LoopInit => RowsBehind
BY DEF LoopInit, IncidentsInit, RowsBehind, ClosedAgree

\* As long as only the loop of Run ticks, whatever operators and restarts do between
\* its steps: the engine closes an incident only if its alert has recovered.
THEOREM ResolvedForAReason == LoopSpec => ResolvedOnlyOnRecovery
<1> DEFINE Closes ==
      \A i \in DOMAIN incidents' \cap DOMAIN incidents :
        (saves = 0 /\ incidents'[i].closed = "recovered" /\ incidents[i].closed = "no")
          => incidents[i].key \notin active
<1>1. LoopTyped /\ LoopAlone /\ RowsBehind /\ [LoopNext]_loopVars => [Closes]_loopVars
  <2> SUFFICES ASSUME LoopTyped, LoopAlone, RowsBehind, [LoopNext]_loopVars,
                      NEW i \in DOMAIN incidents' \cap DOMAIN incidents, saves = 0,
                      incidents'[i].closed = "recovered", incidents[i].closed = "no"
               PROVE  incidents[i].key \notin active
    OBVIOUS
  <2>1. OpenIndexExact /\ IncidentsTypeOK /\ TypeOK /\ HandsFull
    BY DEF LoopTyped, IndexInv
  <2>2. \A j \in DOMAIN incidents : incidents[j].closed \in {"no", "recovered", "resolved"}
    BY <2>1 DEF IncidentsTypeOK, IncidentRecord
  <2>3. ASSUME NEW w \in Workers, HookIncident(w) PROVE incidents[i].key \notin active
    <3>1. w = Ticker /\ pc[Ticker] = "hook" /\ hand[Ticker] \in Transitions
      BY <2>1, <2>3, OnlyTicker DEF HookIncident, Hooked, TickStep, HandsFull
    <3>2. CASE hand[Ticker].firing
      <4>1. Raise(hand[Ticker].key)
        BY <2>3, <3>1, <3>2 DEF HookIncident, OnAlertTransition
      <4> QED
        <5>1. CASE HasOpen(hand[Ticker].key)
          BY <4>1, <5>1 DEF Raise, incidentVars
        <5>2. CASE ~HasOpen(hand[Ticker].key)
          <6>1. hand[Ticker].key \in IncidentKeys \cup {NoKey}
            BY <3>1, LoopAssumption DEF Transitions
          <6> QED
            BY <4>1, <5>2, <6>1, RaiseAdds DEF LoopTyped
        <5> QED
          BY <5>1, <5>2
    <3>3. CASE ~hand[Ticker].firing
      <4>1. ResolveByKey(hand[Ticker].key)
        BY <2>3, <3>1, <3>3 DEF HookIncident, OnAlertTransition
      <4>2. i = openByKey[hand[Ticker].key]
        BY <4>1 DEF ResolveByKey
      <4>4. i # 0
        BY DEF LoopTyped, IndexInv, IncidentsTypeOK
      <4>3. incidents[i].key = hand[Ticker].key
        BY <2>1, <3>1, <4>2, <4>4, LoopAssumption DEF OpenIndexExact, OpenOf, Transitions
      <4> QED
        BY <3>1, <3>3, <4>3 DEF LoopAlone
    <3> QED
      BY <3>2, <3>3
  <2>4. CASE incidents' = incidents
    BY <2>4
  <2>5. CASE Operate
    <3>1. PICK n \in DOMAIN incidents : Ack(n) \/ Resolve(n)
      BY <2>5 DEF Operate
    <3>2. incidents[i] \in IncidentRecord
      BY <2>1 DEF IncidentsTypeOK
    <3> QED
      BY <3>1, <3>2 DEF Ack, Resolve, IncidentRecord
  <2>6. CASE Restart
    BY <2>6 DEF Restart, Reload, RowsBehind
  <2> QED
    BY <2>3, <2>4, <2>5, <2>6 DEF LoopNext, loopVars, CrossThreshold, Configure, LoopTickStep,
       Push, FileElsewhere, Persist, Flush, incidentVars
<1>2. LoopTyped /\ RowsBehind /\ [LoopNext]_loopVars => RowsBehind'
  BY StepBehind, LoopStepIsIncidents DEF LoopTyped, IndexInv
<1> QED
  BY <1>1, <1>2, InitLoop, StepLoop, InitAlone, StepAlone, InitBehind, PTL
  DEF LoopTyped, LoopSpec, ResolvedOnlyOnRecovery

-----------------------------------------------------------------------------
(* What incidents say of the alerts, before any configuration save or       *)
(* restart.                                                                 *)

\* What the incident manager was last told about k.
Told(k) == IF pc[Ticker] = "hook" /\ hand[Ticker].key = k THEN k \notin active ELSE Said(k)

\* An alert it was told of has an incident, unless the history was full, and the engine
\* has not closed the latest; of an alert that it was told has recovered nothing is open.
OnTheDesk(k) ==
  /\ OfKey(k) = {} => lastIncident > HistoryCap + 1
  /\ \A i \in OfKey(k) :
       incidents[i].closed = "recovered" => \E j \in OfKey(k) : j > i

MirrorInv ==
  (saves = 0 /\ imports = 0) =>
    \A k \in Keys : IF Told(k) THEN OnTheDesk(k) ELSE OpenOf(k) = {}

\* A step that leaves the incidents alone and tells the manager nothing.
LEMMA NothingTold ==
  ASSUME MirrorInv, UNCHANGED <<saves, incidentVars>>, \A k \in Keys : Told(k)' <=> Told(k)
  PROVE  MirrorInv'
BY DEF MirrorInv, OnTheDesk, OfKey, OpenOf, Unresolved, incidentVars

LEMMA DispatchTellsNothing ==
  ASSUME TypeOK, LoopAlone, saves = 0, NEW x \in Keys, Dispatch(Ticker, x)
  PROVE  \A k \in Keys : Told(k)' <=> Told(k)
<1> USE DEF Workers
<1>1. /\ active' = active
      /\ pc[Ticker] = "dispatch" /\ pc'[Ticker] = "hook"
      /\ hand'[Ticker].key = x
  BY DEF TypeOK, Dispatch, alertVars
<1>2. \A k \in Keys : k # x => Said(k)' = Said(k)
  BY <1>1 DEF TypeOK, Dispatch, Said
<1>3. Said(x) <=> x \notin active
  <2>1. CASE fires[Ticker] # {}
    <3>1. x \in fires[Ticker]
      BY <2>1 DEF Dispatch
    <3> QED
      BY <3>1 DEF LoopAlone, OneLoop, Said
  <2>2. CASE fires[Ticker] = {}
    <3>1. x \in resolves[Ticker]
      BY <2>2 DEF Dispatch
    <3> QED
      BY <3>1 DEF LoopAlone, OneLoop, Said
  <2> QED
    BY <2>1, <2>2
<1> QED
  BY <1>1, <1>2, <1>3 DEF Told

LEMMA ReconcileTellsNothing ==
  ASSUME TypeOK, LoopAlone, saves = 0, Reconcile(Ticker)
  PROVE  \A k \in Keys : Told(k)' <=> Told(k)
<1> DEFINE seen == cur[Ticker]
<1>1. /\ cfgOn[Ticker] = TRUE
      /\ fires[Ticker] = {} /\ resolves[Ticker] = {}
      /\ pc[Ticker] = "reconcile" /\ pc'[Ticker] # "hook"
  BY DEF TypeOK, Reconcile, LoopAlone, OneLoop, Workers
<1>2. /\ fires'[Ticker] = Confirmed(seen)
      /\ resolves'[Ticker] = Cleared(seen)
      /\ active' = (active \cup Confirmed(seen)) \ Cleared(seen)
  BY <1>1 DEF TypeOK, Reconcile, Reconciled, Workers
<1>3. /\ Confirmed(seen) \cap active = {}
      /\ Cleared(seen) \subseteq active
  BY DEF Confirmed, Cleared
<1> QED
  BY <1>1, <1>2, <1>3 DEF Said, Told

\* What a step has to say of the incidents of a key that it is not about: none is opened,
\* the engine closes none, and the history forgets the oldest first.
LEMMA StaysOnTheDesk ==
  ASSUME LoopTyped, RowsBehind, NEW k, OnTheDesk(k),
         lastIncident' >= lastIncident, lastIncident' \in Nat,
         OfKey(k)' \subseteq OfKey(k),
         \A i \in OfKey(k)' :
           incidents'[i].closed = "recovered" => incidents[i].closed = "recovered",
         \A j \in OfKey(k) \ OfKey(k)' :
           /\ lastIncident' > HistoryCap + 1
           /\ \A i \in OfKey(k) : i < j /\ incidents[i].status = "resolved" => i \notin OfKey(k)'
  PROVE  OnTheDesk(k)'
<1>1. lastIncident \in Nat /\ HistoryCap \in Nat
  BY IncidentsAssumption DEF LoopTyped, IndexInv, IncidentsTypeOK
<1>2. OfKey(k)' = {} => lastIncident' > HistoryCap + 1
  <2>1. CASE OfKey(k) = {}
    BY <1>1, <2>1 DEF OnTheDesk
  <2>2. CASE OfKey(k) # {}
    BY <2>2
  <2> QED
    BY <2>1, <2>2
<1>3. ASSUME NEW i \in OfKey(k)', incidents'[i].closed = "recovered"
      PROVE  \E j \in OfKey(k)' : j > i
  <2>1. i \in OfKey(k) /\ incidents[i].closed = "recovered"
    BY <1>3
  <2>2. PICK j \in OfKey(k) : j > i
    BY <2>1 DEF OnTheDesk
  <2>3. incidents[i].status = "resolved"
    BY <2>1 DEF RowsBehind, ClosedAgree, OfKey
  <2>4. i \in Nat /\ j \in Nat
    BY <2>1, <2>2 DEF OfKey, LoopTyped, IndexInv, IncidentsTypeOK
  <2>5. j \in OfKey(k)'
    BY <1>3, <2>1, <2>2, <2>3, <2>4
  <2> QED
    BY <2>2, <2>5
<1> QED
  BY <1>2, <1>3 DEF OnTheDesk

\* raise, for an alert that the manager did not know to be firing.
LEMMA RaiseMirror ==
  ASSUME LoopTyped, RowsBehind, MirrorInv, saves = 0, imports = 0, UNCHANGED saves,
         NEW x \in Keys, Raise(x), ~Told(x), Told(x)',
         \A k \in Keys \ {x} : Told(k)' <=> Told(k)
  PROVE  MirrorInv'
<1>1. OpenOf(x) = {}
  BY DEF MirrorInv
<1>2. ~HasOpen(x) /\ x \in IncidentKeys
  <2>1. openByKey[x] = 0 /\ x \in IncidentKeys
    BY <1>1, LoopAssumption DEF LoopTyped, IndexInv, OpenIndexExact
  <2> QED
    BY <2>1 DEF HasOpen, LoopTyped, IndexInv, IncidentsTypeOK
<1> DEFINE id == lastIncident'
<1>3. /\ id = lastIncident + 1
      /\ id \in DOMAIN incidents' /\ id \notin DOMAIN incidents
      /\ incidents'[id] = [key |-> x, status |-> "open", closed |-> "no"]
      /\ DOMAIN incidents' \subseteq DOMAIN incidents \cup {id}
      /\ \A i \in DOMAIN incidents' \ {id} : incidents'[i] = incidents[i]
      /\ \A j \in DOMAIN incidents \ DOMAIN incidents' :
           \A i \in DOMAIN incidents :
             i < j /\ incidents[i].status = "resolved" => i \notin DOMAIN incidents'
      /\ id <= HistoryCap + 1 => DOMAIN incidents \subseteq DOMAIN incidents'
      /\ \A i \in DOMAIN incidents : i < id
      /\ imports' = imports
  BY <1>2, RaiseAdds DEF Raise, LoopTyped
<1>4. lastIncident \in Nat /\ HistoryCap \in Nat
  BY IncidentsAssumption DEF LoopTyped, IndexInv, IncidentsTypeOK
<1>5. incidents'[id].key = x /\ incidents'[id].status = "open" /\ incidents'[id].closed = "no"
  BY <1>3
<1> HIDE DEF id
<1>6. OnTheDesk(x)'
  <2>1. id \in OfKey(x)'
    BY <1>3, <1>5 DEF OfKey
  <2>2. ASSUME NEW i \in OfKey(x)', incidents'[i].closed = "recovered" PROVE id > i
    <3>1. i # id /\ i \in DOMAIN incidents
      BY <1>3, <1>5, <2>2 DEF OfKey
    <3>2. i < id /\ i \in Nat /\ id \in Nat
      BY <1>3, <1>4, <3>1 DEF LoopTyped, IndexInv, IncidentsTypeOK
    <3> QED
      BY <3>2
  <2> QED
    BY <2>1, <2>2 DEF OnTheDesk
<1>7. ASSUME NEW k \in Keys \ {x}, Told(k) PROVE OnTheDesk(k)'
  <2>1. OnTheDesk(k)
    BY <1>7 DEF MirrorInv
  <2>2. /\ OfKey(k)' \subseteq OfKey(k)
        /\ \A i \in OfKey(k)' : incidents'[i] = incidents[i]
        /\ OfKey(k) \ OfKey(k)' \subseteq DOMAIN incidents \ DOMAIN incidents'
    BY <1>3, <1>5, <1>7 DEF OfKey
  <2>3. ASSUME NEW j \in OfKey(k) \ OfKey(k)'
        PROVE  /\ id > HistoryCap + 1
               /\ \A i \in OfKey(k) : i < j /\ incidents[i].status = "resolved"
                                        => i \notin OfKey(k)'
    <3>1. j \in DOMAIN incidents \ DOMAIN incidents'
      BY <2>2, <2>3
    <3>2. ~(id <= HistoryCap + 1)
      BY <1>3, <3>1
    <3> QED
      BY <1>3, <1>4, <3>1, <3>2 DEF OfKey
  <2>4. id \in Nat /\ id >= lastIncident
    BY <1>3, <1>4
  <2> QED
    BY <2>1, <2>2, <2>3, <2>4, StaysOnTheDesk DEF id
<1>8. ASSUME NEW k \in Keys \ {x}, ~Told(k) PROVE OpenOf(k)' = {}
  <2>1. OpenOf(k) = {}
    BY <1>8 DEF MirrorInv
  <2> QED
    BY <1>3, <1>5, <1>8, <2>1 DEF OpenOf, Unresolved
<1> QED
  BY <1>6, <1>7, <1>8 DEF MirrorInv

\* resolveByKey, for an alert that it knew to be firing.
LEMMA ResolveByKeyMirror ==
  ASSUME LoopTyped, RowsBehind, MirrorInv, saves = 0, imports = 0, UNCHANGED saves,
         NEW x \in Keys, ResolveByKey(x), ~Told(x)',
         \A k \in Keys \ {x} : Told(k)' <=> Told(k)
  PROVE  MirrorInv'
<1> DEFINE n == openByKey[x]
<1>1. /\ DOMAIN incidents' = DOMAIN incidents
      /\ \A i \in DOMAIN incidents \ {n} : incidents'[i] = incidents[i]
      /\ n \in DOMAIN incidents =>
           /\ incidents'[n].key = incidents[n].key
           /\ incidents'[n].status = "resolved"
      /\ UNCHANGED <<lastIncident, imports>>
  BY DEF ResolveByKey, LoopTyped, IndexInv, IncidentsTypeOK, IncidentRecord
<1>2. OpenOf(x) = IF n = 0 THEN {} ELSE {n}
  BY LoopAssumption DEF LoopTyped, IndexInv, OpenIndexExact, NothingComesBack
<1>3. n \in DOMAIN incidents => incidents[n].key = x
  <2>1. n \in DOMAIN incidents => n # 0
    BY DEF LoopTyped, IndexInv, IncidentsTypeOK
  <2> QED
    BY <1>2, <2>1 DEF OpenOf
<1>4. lastIncident \in Nat
  BY DEF LoopTyped, IndexInv, IncidentsTypeOK
<1> HIDE DEF n
<1>5. OpenOf(x)' = {}
  <2>1. ASSUME NEW i \in OpenOf(x)' PROVE FALSE
    <3>1. i \in DOMAIN incidents /\ i # n
      BY <1>1, <2>1 DEF OpenOf, Unresolved
    <3>2. i \in OpenOf(x)
      BY <1>1, <2>1, <3>1 DEF OpenOf, Unresolved
    <3> QED
      BY <1>2, <3>1, <3>2
  <2> QED
    BY <2>1
<1>6. ASSUME NEW k \in Keys \ {x}
      PROVE  /\ OnTheDesk(k) => OnTheDesk(k)'
             /\ OpenOf(k)' = OpenOf(k)
  <2>1. OfKey(k)' = OfKey(k) /\ n \notin OfKey(k)
    BY <1>1, <1>3, <1>6 DEF OfKey
  <2> QED
    BY <1>1, <1>3, <1>6, <2>1 DEF OnTheDesk, OfKey, OpenOf, Unresolved
<1> QED
  BY <1>5, <1>6 DEF MirrorInv

LEMMA HookMirror ==
  ASSUME LoopTyped, LoopAlone, RowsBehind, MirrorInv, saves = 0, imports = 0,
         HookIncident(Ticker)
  PROVE  MirrorInv'
<1>1. /\ pc[Ticker] = "hook" /\ pc'[Ticker] \in {"idle", "dispatch"}
      /\ UNCHANGED <<saves, active, fires, resolves>>
  BY DEF HookIncident, Hooked, configVars, alertVars, LoopTyped, TypeOK, Workers
<1>2. PICK x \in Keys : x = hand[Ticker].key
  BY <1>1 DEF LoopTyped, HandsFull, Transitions, Workers
<1>3. \A k \in Keys \ {x} : Told(k)' <=> Told(k)
  BY <1>1, <1>2 DEF Told, Said
<1>4. Told(x) <=> x \notin active
  BY <1>1, <1>2 DEF Told
<1>5. Told(x)' <=> x \in active
  BY <1>1, <1>2 DEF LoopAlone, Told, Said
<1>6. CASE hand[Ticker].firing
  <2>1. x \in active
    BY <1>1, <1>2, <1>6 DEF LoopAlone
  <2>2. Raise(x)
    BY <1>2, <1>6 DEF HookIncident, OnAlertTransition
  <2> QED
    BY <1>1, <1>3, <1>4, <1>5, <2>1, <2>2, RaiseMirror
<1>7. CASE ~hand[Ticker].firing
  <2>1. x \notin active
    BY <1>1, <1>2, <1>7 DEF LoopAlone
  <2>2. ResolveByKey(x)
    BY <1>2, <1>7 DEF HookIncident, OnAlertTransition
  <2> QED
    BY <1>1, <1>3, <1>5, <2>1, <2>2, ResolveByKeyMirror
<1> QED
  BY <1>6, <1>7

\* Operators close incidents and open none, and what they close is not "recovered".
LEMMA OperateMirror ==
  ASSUME LoopTyped, MirrorInv, Operate
  PROVE  MirrorInv'
<1>1. PICK n \in DOMAIN incidents : Ack(n) \/ Resolve(n)
  BY DEF Operate
<1>2. \A i \in DOMAIN incidents : incidents[i] \in IncidentRecord
  BY DEF LoopTyped, IndexInv, IncidentsTypeOK
<1>3. /\ DOMAIN incidents' = DOMAIN incidents
      /\ \A i \in DOMAIN incidents : incidents'[i].key = incidents[i].key
      /\ \A i \in DOMAIN incidents :
           /\ incidents'[i].closed = "recovered" => incidents[i].closed = "recovered"
           /\ incidents[i].status = "resolved" => incidents'[i].status = "resolved"
      /\ UNCHANGED <<lastIncident, imports>>
  BY <1>1, <1>2 DEF Ack, Resolve, IncidentRecord
<1>4. UNCHANGED saves /\ \A k \in Keys : Told(k)' <=> Told(k)
  BY DEF Operate, vars, configVars, alertVars, tickVars, Told, Said
<1>5. ASSUME NEW k \in Keys
      PROVE  /\ OnTheDesk(k) => OnTheDesk(k)'
             /\ OpenOf(k)' \subseteq OpenOf(k)
  <2>1. OfKey(k)' = OfKey(k)
    BY <1>3 DEF OfKey
  <2> QED
    BY <1>3, <2>1 DEF OnTheDesk, OfKey, OpenOf, Unresolved
<1> QED
  BY <1>3, <1>4, <1>5 DEF MirrorInv

LEMMA ImportsGrow ==
  ASSUME LoopTyped, [LoopNext]_loopVars, imports' = 0
  PROVE  imports = 0 /\ ~Restart
<1>1. imports \in Nat
  BY IncidentsAssumption DEF LoopTyped, IndexInv, IncidentsTypeOK
<1>2. Reload => imports' # 0
  BY <1>1 DEF Reload
<1>3. ASSUME NEW k \in IncidentKeys, NEW firing \in BOOLEAN, OnAlertTransition(k, firing)
      PROVE  imports' = imports
  BY <1>3 DEF OnAlertTransition, Raise, ResolveByKey, incidentVars
<1>4. IncidentOps => imports' = imports
  BY DEF IncidentOps, Raise, Ack, Resolve, Flush, incidentVars
<1>5. [IncidentsNext]_incidentVars
  BY LoopStepIsIncidents DEF LoopTyped, IndexInv
<1> QED
  BY <1>1, <1>2, <1>3, <1>4, <1>5 DEF IncidentsNext, Restart, incidentVars

LEMMA StepMirror ==
  ASSUME LoopTyped, LoopAlone, RowsBehind, MirrorInv, [LoopNext]_loopVars
  PROVE  MirrorInv'
<1> SUFFICES ASSUME saves' = 0, imports' = 0 PROVE MirrorInv'
  BY DEF MirrorInv
<1>1. saves = 0 /\ imports = 0 /\ ~SaveConfig /\ ~Restart /\ UNCHANGED saves
  BY SavesGrow, ImportsGrow DEF LoopTyped
<1>2. /\ \A w \in Triggers : ~ResetAndTrigger(w)
      /\ \A w \in Workers : TickStep(w) => w = Ticker
  BY <1>1, OnlyTicker DEF LoopTyped
<1>3. ASSUME NEW w \in Workers, LoopTickStep(w) PROVE MirrorInv'
  <2>1. w = Ticker
    BY <1>2, <1>3 DEF LoopTickStep, TickStep, HookIncident
  <2>2. CASE HookIncident(Ticker)
    BY <1>1, <2>2, HookMirror
  <2>3. ASSUME NEW k \in Keys, Dispatch(Ticker, k), UNCHANGED incidentVars PROVE MirrorInv'
    BY <1>1, <2>3, DispatchTellsNothing, NothingTold DEF LoopTyped
  <2>4. CASE Reconcile(Ticker) /\ UNCHANGED incidentVars
    BY <1>1, <2>4, ReconcileTellsNothing, NothingTold DEF LoopTyped
  <2>5. CASE (Begin(Ticker) \/ Evaluate(Ticker)) /\ UNCHANGED incidentVars
    <3>1. \A k \in Keys : Told(k)' <=> Told(k)
      BY <2>5 DEF Begin, Evaluate, alertVars, Told, Said, LoopTyped, TypeOK, Workers
    <3> QED
      BY <1>1, <2>5, <3>1, NothingTold
  <2> QED
    BY <1>3, <2>1, <2>2, <2>3, <2>4, <2>5 DEF LoopTickStep
<1>4. CASE Operate
  BY <1>4, OperateMirror
<1>5. CASE Persist
  BY <1>5 DEF Persist, Flush, vars, configVars, alertVars, tickVars, Told, Said, MirrorInv,
              OnTheDesk, OfKey, OpenOf, Unresolved
<1>6. CASE (\E k \in Keys : CrossThreshold(k)) \/ Push \/ FileElsewhere \/ UNCHANGED loopVars
  <2>1. UNCHANGED <<incidentVars, alertVars, tickVars>>
    BY <1>6 DEF CrossThreshold, Toggle, Push, Deliver, FileElsewhere, FileOther, loopVars, vars
  <2>2. \A k \in Keys : Told(k)' <=> Told(k)
    BY <2>1 DEF alertVars, tickVars, Told, Said
  <2> QED
    BY <1>1, <2>1, <2>2, NothingTold
<1> QED
  BY <1>1, <1>2, <1>3, <1>4, <1>5, <1>6 DEF LoopNext, Configure

LEMMA InitMirror == LoopInit => MirrorInv
<1> SUFFICES ASSUME LoopInit PROVE MirrorInv
  OBVIOUS
<1>1. \A k \in Keys : ~Told(k)
  BY DEF LoopInit, Init, Told, Said, Workers
<1>2. DOMAIN incidents = {}
  BY DEF LoopInit, IncidentsInit
<1> QED
  BY <1>1, <1>2 DEF MirrorInv, OpenOf, Unresolved

\* For any keys, thresholds, inhibit rules and length of the history: until a save or a
\* restart makes the engine forget, incidents say at rest what the alerts say.
THEOREM IncidentsMirror == LoopSpec => []IncidentsMirrorAlerts
<1>1. LoopAlone /\ MirrorInv => IncidentsMirrorAlerts
  <2> SUFFICES ASSUME LoopAlone, MirrorInv, saves = 0, imports = 0, Idle, NEW k \in Keys
               PROVE  IF k \in active
                        THEN OnTheDesk(k)
                        ELSE OfKey(k) \cap Unresolved(incidents) = {}
    BY DEF IncidentsMirrorAlerts, OnTheDesk
  <2>1. pc[Ticker] = "idle" /\ fires[Ticker] = {} /\ resolves[Ticker] = {}
    BY DEF Idle, Workers, LoopAlone, OneLoop
  <2>2. Told(k) <=> k \in active
    BY <2>1 DEF Told, Said
  <2> QED
    BY <2>2 DEF MirrorInv, OpenOf, OfKey, Unresolved
<1>2. LoopTyped /\ RowsBehind /\ [LoopNext]_loopVars => RowsBehind'
  BY StepBehind, LoopStepIsIncidents DEF LoopTyped, IndexInv
<1>3. LoopTyped /\ LoopAlone /\ RowsBehind /\ MirrorInv /\ [LoopNext]_loopVars => MirrorInv'
  BY StepMirror
<1>4. LoopTyped /\ LoopAlone /\ [LoopNext]_loopVars => LoopAlone'
  BY StepAlone DEF LoopTyped
<1> QED
  BY <1>1, <1>2, <1>3, <1>4, InitLoop, StepLoop, InitAlone, InitBehind, InitMirror, PTL
  DEF LoopSpec
=============================================================================
