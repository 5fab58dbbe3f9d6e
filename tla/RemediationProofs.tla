--------------------------- MODULE RemediationProofs ---------------------------
(***************************************************************************)
(* Proofs about auto-remediation, for any rules, hosts, cool-down, cap,    *)
(* length of the ring and bounds, through any number of restarts: of its   *)
(* guards in each life of the process, of its launches and its history.    *)
(***************************************************************************)
EXTENDS Remediation, SequenceTheorems, FiniteSetTheorems, TLAPS

-----------------------------------------------------------------------------
(* The ring.                                                                *)

\* Ids identify the runs in the ring and none is above the last one given.
Ring ==
  /\ now \in Nat
  /\ nextID \in Nat
  /\ runs \in Seq(Run)
  /\ \A i \in DOMAIN runs : runs[i].id <= nextID
  /\ \A i, j \in DOMAIN runs : runs[i].id = runs[j].id => i = j

\* Cutting the ring to its capacity keeps its elements apart and makes none up.
LEMMA LastElements ==
  ASSUME NEW S, NEW s \in Seq(S)
  PROVE  /\ LastRuns(s) \in Seq(S)
         /\ \E d \in Nat : \A i \in DOMAIN LastRuns(s) : i + d \in DOMAIN s /\ LastRuns(s)[i] = s[i + d]
<1> DEFINE m == IF Len(s) > RingCap THEN Len(s) - RingCap + 1 ELSE 1
<1>1. RingCap \in Nat \ {0}
  BY RemediationAssumption
<1>2. Len(s) \in Nat /\ DOMAIN s = 1..Len(s)
  OBVIOUS
<1>3. m \in Int /\ m >= 1
  BY <1>1, <1>2
<1>4. \A i \in m..Len(s) : s[i] \in S
  BY <1>2, <1>3
<1>5. /\ SubSeq(s, m, Len(s)) \in Seq(S)
      /\ Len(SubSeq(s, m, Len(s))) = IF m <= Len(s) THEN Len(s) - m + 1 ELSE 0
      /\ \A i \in 1..(Len(s) - m + 1) : SubSeq(s, m, Len(s))[i] = s[m + i - 1]
  <2> HIDE DEF m
  <2>1. m \in Int /\ Len(s) \in Int /\ Len(s) - m + 1 \in Int
    BY <1>2, <1>3
  <2> QED
    BY <1>4, <2>1, SubSeqProperties
<1>6. LastRuns(s) = SubSeq(s, m, Len(s))
  BY DEF LastRuns
<1>7. m - 1 \in Nat
  BY <1>3
<1>8. \A i \in DOMAIN LastRuns(s) : i + (m - 1) \in DOMAIN s /\ LastRuns(s)[i] = s[i + (m - 1)]
  <2> HIDE DEF m
  <2> SUFFICES ASSUME NEW i \in DOMAIN LastRuns(s)
               PROVE  i + (m - 1) \in DOMAIN s /\ LastRuns(s)[i] = s[i + (m - 1)]
    OBVIOUS
  <2>1. i \in 1..Len(LastRuns(s))
    BY <1>5, <1>6
  <2>2. i \in 1..(Len(s) - m + 1)
    BY <1>2, <1>3, <1>5, <1>6, <2>1
  <2>3. m + i - 1 = i + (m - 1)
    BY <1>3, <2>2
  <2> QED
    BY <1>2, <1>3, <1>5, <1>6, <2>2, <2>3
<1> QED
  BY <1>5, <1>6, <1>7, <1>8

\* Recording a run adds it to the ring, and may push old ones out.
LEMMA RecordedRun ==
  ASSUME Ring, NEW run \in Run, run.id = nextID + 1, Record(run), now' = now
  PROVE  /\ Ring'
         /\ \A i \in DOMAIN runs' : runs'[i] = run \/ \E j \in DOMAIN runs : runs'[i] = runs[j]
         /\ nextID' = nextID + 1
<1> DEFINE s == Append(runs, run)
<1>1. /\ s \in Seq(Run)
      /\ Len(s) = Len(runs) + 1
      /\ \A i \in 1..Len(runs) : s[i] = runs[i]
      /\ s[Len(runs) + 1] = run
  BY DEF Ring
<1>2. /\ nextID < MaxID
      /\ nextID' = nextID + 1
      /\ runs' = LastRuns(s)
  BY DEF Record
<1>3. nextID \in Nat /\ MaxID \in Nat /\ now \in Nat
  BY RemediationAssumption DEF Ring
<1>4. nextID' \in Nat
  BY <1>2, <1>3
<1>5. Len(runs) \in Nat /\ DOMAIN runs = 1..Len(runs) /\ DOMAIN s = 1..(Len(runs) + 1)
  BY <1>1 DEF Ring
<1>6. \A i \in DOMAIN s : \/ i \in DOMAIN runs /\ s[i] = runs[i]
                          \/ i = Len(runs) + 1 /\ s[i] = run
  BY <1>1, <1>5
<1>7. \A i \in DOMAIN runs : runs[i] \in Run
  BY <1>5 DEF Ring
<1>8. \A r \in Run : r.id \in Nat /\ r.at \in Nat
  <2>1. \A r \in Run : r.id \in 1..MaxID /\ r.at \in Nat
    BY DEF Run, Ids
  <2> QED
    BY <1>3, <2>1
<1> HIDE DEF s
<1>9. \A i \in DOMAIN s : s[i].id <= nextID + 1
  <2>1. \A i \in DOMAIN runs : runs[i].id <= nextID
    BY DEF Ring
  <2> QED
    BY <1>3, <1>6, <1>7, <1>8, <2>1
<1>10. \A i, j \in DOMAIN s : s[i].id = s[j].id => i = j
  <2>1. \A i \in DOMAIN runs : runs[i].id <= nextID
    BY DEF Ring
  <2>2. \A i, j \in DOMAIN runs : runs[i].id = runs[j].id => i = j
    BY DEF Ring
  <2>3. \A i \in DOMAIN runs : runs[i].id \in Nat /\ runs[i].id # run.id
    BY <1>3, <1>7, <1>8, <2>1
  <2> QED
    BY <1>6, <2>2, <2>3
<1>11. PICK d \in Nat : \A i \in DOMAIN LastRuns(s) : i + d \in DOMAIN s /\ LastRuns(s)[i] = s[i + d]
  BY <1>1, LastElements
<1>12. LastRuns(s) \in Seq(Run)
  BY <1>1, LastElements
<1>13. \A i \in DOMAIN LastRuns(s) : i \in Nat
  BY <1>12
<1>14. \A i, j \in DOMAIN LastRuns(s) : LastRuns(s)[i].id = LastRuns(s)[j].id => i = j
  <2> SUFFICES ASSUME NEW i \in DOMAIN LastRuns(s), NEW j \in DOMAIN LastRuns(s),
                      LastRuns(s)[i].id = LastRuns(s)[j].id
               PROVE  i = j
    OBVIOUS
  <2>1. i + d = j + d
    BY <1>10, <1>11
  <2> QED
    BY <1>13, <2>1
<1>15. \A i \in DOMAIN LastRuns(s) : LastRuns(s)[i].id <= nextID + 1
  BY <1>9, <1>11
<1>16. Ring'
  BY <1>2, <1>3, <1>4, <1>12, <1>14, <1>15 DEF Ring
<1> QED
  BY <1>2, <1>6, <1>11, <1>16

\* A run found by its id is at its position.
LEMMA AtFound ==
  ASSUME NEW id, Found(id)
  PROVE  At(id) \in DOMAIN runs /\ runs[At(id)].id = id
BY DEF Found, At

\* Rewriting a run in place leaves the ring as it is otherwise.
LEMMA RewrittenRun ==
  ASSUME Ring, NEW id, Found(id), NEW run \in Run,
         run.id = id, runs' = [runs EXCEPT ![At(id)] = run], UNCHANGED <<now, nextID>>
  PROVE  /\ Ring'
         /\ DOMAIN runs' = DOMAIN runs
         /\ \A i \in DOMAIN runs : runs'[i] = IF runs[i].id = id THEN run ELSE runs[i]
         /\ runs'[At(id)] = run
<1> DEFINE p == At(id)
<1>1. p \in DOMAIN runs /\ runs[p].id = id
  BY AtFound
<1>2. runs \in Seq(Run) /\ DOMAIN runs = 1..Len(runs)
  BY DEF Ring
<1> HIDE DEF p
<1>3. runs' = [runs EXCEPT ![p] = run]
  BY DEF p
<1>4. /\ runs' \in Seq(Run)
      /\ DOMAIN runs' = DOMAIN runs
      /\ \A i \in DOMAIN runs : runs'[i] = IF i = p THEN run ELSE runs[i]
  <2>1. Len(runs) \in Nat /\ p \in 1..Len(runs)
    BY <1>1, <1>2
  <2>2. runs' \in Seq(Run)
    <3>1. [runs EXCEPT ![p] = run] \in Seq(Run)
      BY <1>2, <2>1, ExceptSeq
    <3> QED
      BY <1>3, <3>1
  <2>3. Len(runs') = Len(runs) /\ \A i \in 1..Len(runs) : runs'[i] = IF i = p THEN run ELSE runs[i]
    <3>1. Len([runs EXCEPT ![p] = run]) = Len(runs)
      BY <1>2, <2>1, ExceptSeq
    <3>2. \A i \in 1..Len(runs) : [runs EXCEPT ![p] = run][i] = IF i = p THEN run ELSE runs[i]
      BY <1>2, <2>1, ExceptSeq
    <3> QED
      BY <1>3, <3>1, <3>2
  <2> QED
    BY <1>2, <2>2, <2>3
<1>5. \A i \in DOMAIN runs : i = p <=> runs[i].id = id
  BY <1>1 DEF Ring
<1>6. \A i \in DOMAIN runs : runs'[i].id = runs[i].id
  BY <1>1, <1>4 DEF p
<1>7. Ring'
  BY <1>4, <1>6 DEF Ring
<1> QED
  BY <1>1, <1>4, <1>5, <1>7 DEF p

-----------------------------------------------------------------------------
(* The inductive invariant.                                                 *)

Active == {"running", "success", "failed", "rolling_back"}
Live == Stages \ {"idle", "gone", "rejected"}

\* No slot was taken in the future.
Guarded ==
  /\ lastRun \in [Rules \X Hosts -> Nat]
  /\ \A c \in Rules \X Hosts : lastRun[c] <= now

\* Of the runs recorded after run m: lastRun is no older than any that took a slot of
\* its rule ...
Slots(m) ==
  \A i \in DOMAIN runs :
    runs[i].id > m /\ Slotted(runs[i])
      => runs[i].at <= lastRun[<<runs[i].rule, runs[i].host>>]

\* ... those of a rule on one host are a cool-down apart ...
CooldownSince(m) ==
  \A i, j \in DOMAIN runs :
    /\ runs[i].id > m /\ SameRule(i, j) /\ runs[i].host = runs[j].host
    /\ Slotted(runs[i]) /\ Slotted(runs[j])
    => runs[i].at + CoolDown <= runs[j].at

\* ... and no hour sees more of a rule than its cap.
RateSince(m) ==
  MaxPerHour > 0 =>
    \A j \in DOMAIN runs : Slotted(runs[j]) =>
      Cardinality({i \in DOMAIN runs :
        /\ runs[i].id > m /\ SameRule(i, j) /\ Slotted(runs[i])
        /\ runs[i].at + Hour >= runs[j].at}) < MaxPerHour

\* A run whose goroutine has work to do is under way.
Busy ==
  /\ DOMAIN worker = Ids
  /\ \A id \in Ids : id > nextID => worker[id].stage = "idle"
  /\ \A i \in DOMAIN runs : worker[runs[i].id].stage \in Live => runs[i].status \in Active

\* What is still to be launched, or never will be, has not been launched in this life
\* of the process.
Started ==
  /\ restarts \in Nat
  /\ launches \in [Ids -> Nat]
  /\ \A id \in Ids : launches[id] <= restarts + 1
  /\ \A id \in Ids : worker[id].stage \in {"approved", "launch"} => launches[id] <= restarts
  /\ \A i \in DOMAIN runs : runs[i].status \notin Active => launches[runs[i].id] <= restarts

\* What holds in every life, and what follows for the runs recorded after m in one.
Calm == Ring /\ Guarded /\ Busy /\ Started
IInv(m) == Calm /\ Slots(m) /\ CooldownSince(m)

LEMMA InitIInv == Init => \A m \in Nat : IInv(m)
<1> SUFFICES ASSUME Init, NEW m \in Nat PROVE IInv(m)
  OBVIOUS
<1>1. runs = <<>> /\ DOMAIN runs = {}
  BY DEF Init
<1>2. {CoolDown, MaxID} \subseteq Nat
  BY RemediationAssumption
<1>3. Ring
  <2>1. CoolDown + 0 \in Nat /\ runs \in Seq(Run)
    BY <1>1, <1>2
  <2>2. now \in Nat
    BY <1>2 DEF Init
  <2> QED
    BY <1>1, <2>1, <2>2 DEF Init, Ring
<1>4. Slots(m) /\ Guarded
  BY <1>1, <1>2 DEF Init, Slots, Guarded
<1>5. CooldownSince(m)
  BY <1>1 DEF CooldownSince
<1>6. Busy
  BY <1>1 DEF Init, Busy, Idle
<1>7. Started
  BY <1>1 DEF Init, Started, Idle
<1> QED
  BY <1>3, <1>4, <1>5, <1>6, <1>7 DEF IInv, Calm

\* A goroutine moves on, or nothing does: the ring stays.
LEMMA MovedOn ==
  ASSUME NEW m \in Nat, IInv(m), NEW id \in Ids,
         UNCHANGED <<runs, nextID, lastRun, restarts>>,
         now' \in Nat, now <= now',
         DOMAIN worker' = Ids,
         \A other \in Ids \ {id} : worker'[other] = worker[other],
         launches' \in [Ids -> Nat], launches'[id] <= restarts + 1,
         \A other \in Ids \ {id} : launches'[other] = launches[other],
         worker[id].stage = "idle" => worker'[id].stage = "idle",
         worker'[id].stage \in Live => worker[id].stage \in Live,
         worker'[id].stage \in {"approved", "launch"} => launches'[id] <= restarts,
         launches'[id] # launches[id] => worker[id].stage \in Live
  PROVE  IInv(m)'
<1>0. \A i \in DOMAIN runs : runs[i].id \in Ids
  <2>1. \A i \in DOMAIN runs : runs[i] \in Run
    BY DEF IInv, Calm, Ring
  <2> QED
    BY <2>1 DEF Run
<1>1. Ring'
  BY <1>0 DEF IInv, Calm, Ring
<1>2. Guarded' /\ Slots(m)' /\ CooldownSince(m)'
  <2>1. \A c \in Rules \X Hosts : lastRun[c] \in Nat /\ lastRun[c] <= now'
    BY DEF IInv, Calm, Ring, Slots, Guarded
  <2> QED
    BY <2>1 DEF IInv, Calm, Slots, Guarded, CooldownSince, SameRule, Slotted
<1>3. Busy'
  BY <1>0 DEF IInv, Calm, Busy
<1>4. Started'
  <2>2. ASSUME NEW i \in DOMAIN runs, runs[i].status \notin Active
        PROVE  launches'[runs[i].id] <= restarts
    <3>1. worker[runs[i].id].stage \notin Live /\ launches[runs[i].id] <= restarts
      BY <2>2 DEF IInv, Calm, Busy, Started
    <3> QED
      BY <1>0, <2>2, <3>1
  <2> QED
    BY <2>2 DEF IInv, Calm, Started
<1> QED
  BY <1>1, <1>2, <1>3, <1>4 DEF IInv, Calm

\* A critical section rewrites one run, and may take the slots of its rule.
LEMMA Rewritten ==
  ASSUME NEW m \in Nat, IInv(m), NEW id \in Ids, Found(id), NEW run \in Run,
         run.id = id, run.rule = runs[At(id)].rule,
         run.host = runs[At(id)].host, run.at = runs[At(id)].at,
         runs' = [runs EXCEPT ![At(id)] = run],
         UNCHANGED <<now, nextID, launches, restarts>>,
         lastRun' \in [Rules \X Hosts -> Nat],
         \A c \in Rules \X Hosts : lastRun[c] <= lastRun'[c] /\ lastRun'[c] <= now,
         DOMAIN worker' = Ids,
         \A other \in Ids \ {id} : worker'[other] = worker[other],
         Slotted(run) => Slotted(runs[At(id)]),
         worker'[id].stage \in Live => run.status \in Active,
         worker'[id].stage \in {"approved", "launch"} => launches[id] <= restarts,
         run.status \notin Active => launches[id] <= restarts
  PROVE  IInv(m)'
<1> DEFINE p == At(id)
<1>1. p \in DOMAIN runs /\ runs[p].id = id
  BY AtFound
<1>2. /\ Ring'
      /\ DOMAIN runs' = DOMAIN runs
      /\ \A i \in DOMAIN runs : runs'[i] = IF runs[i].id = id THEN run ELSE runs[i]
  BY RewrittenRun DEF IInv, Calm
<1>3. \A i \in DOMAIN runs : runs[i].id = id => i = p
  BY <1>1 DEF IInv, Calm, Ring
<1>4. run.rule = runs[p].rule /\ run.host = runs[p].host /\ run.at = runs[p].at
  OBVIOUS
<1>5. Slotted(run) => Slotted(runs[p])
  OBVIOUS
<1> HIDE DEF p
<1>6. \A i \in DOMAIN runs :
        /\ runs'[i].id = runs[i].id /\ runs'[i].rule = runs[i].rule
        /\ runs'[i].host = runs[i].host /\ runs'[i].at = runs[i].at
        /\ Slotted(runs'[i]) => Slotted(runs[i])
  BY <1>1, <1>2, <1>3, <1>4, <1>5
<1>7. \A i \in DOMAIN runs : runs[i] \in Run
  BY DEF IInv, Calm, Ring
<1>8. Slots(m)'
  <2> SUFFICES ASSUME NEW i \in DOMAIN runs', runs'[i].id > m, Slotted(runs'[i])
               PROVE  runs'[i].at <= lastRun'[<<runs'[i].rule, runs'[i].host>>]
    BY DEF Slots
  <2> DEFINE c == <<runs[i].rule, runs[i].host>>
  <2>1. i \in DOMAIN runs /\ Slotted(runs[i]) /\ runs[i].id > m
    BY <1>2, <1>6
  <2>2. c \in Rules \X Hosts
    BY <1>7, <2>1 DEF Slotted, Run
  <2>3. runs[i].at <= lastRun[c] /\ lastRun[c] <= lastRun'[c]
    BY <2>1, <2>2 DEF IInv, Calm, Slots, Guarded
  <2>4. runs[i].at \in Nat /\ lastRun[c] \in Nat /\ lastRun'[c] \in Nat
    BY <1>7, <2>1, <2>2 DEF IInv, Calm, Slots, Guarded, Run
  <2>5. runs[i].at <= lastRun'[c]
    BY <2>3, <2>4
  <2> QED
    BY <1>6, <2>1, <2>5
<1>9. CooldownSince(m)'
  BY <1>2, <1>6 DEF IInv, CooldownSince, SameRule
<1>10. Busy'
  <2>1. \A other \in Ids : other > nextID' => worker'[other].stage = "idle"
    <3>1. id <= nextID /\ id \in Nat /\ nextID \in Nat
      BY <1>1, RemediationAssumption DEF IInv, Calm, Ring, Ids
    <3>2. \A other \in Ids : other > nextID => other # id /\ worker[other].stage = "idle"
      BY <3>1 DEF IInv, Calm, Busy
    <3> QED
      BY <3>2
  <2>2. \A i \in DOMAIN runs : runs[i].id \in Ids
    BY <1>7 DEF Run
  <2> QED
    BY <1>2, <1>6, <2>1, <2>2 DEF IInv, Calm, Busy
<1>11. Started'
  BY <1>2, <1>6, <1>7 DEF IInv, Calm, Started, Run
<1>12. Guarded'
  BY DEF Guarded
<1> QED
  BY <1>2, <1>8, <1>9, <1>10, <1>11, <1>12 DEF IInv, Calm

\* A run is recorded; if it takes a slot, its rule was not cooling down.
LEMMA Recorded ==
  ASSUME NEW m \in Nat, IInv(m), NEW run \in Run, run.id = nextID + 1, run.at = now, Record(run),
         UNCHANGED <<now, restarts>>,
         lastRun' \in [Rules \X Hosts -> Nat],
         \A c \in Rules \X Hosts : lastRun[c] <= lastRun'[c] /\ lastRun'[c] <= now,
         DOMAIN worker' = Ids,
         \A other \in Ids \ {run.id} : worker'[other] = worker[other],
         worker'[run.id].stage \in Live => run.status \in Active,
         Slotted(run) => LET c == <<run.rule, run.host>>
                         IN  now <= lastRun'[c] /\ (CoolDown > 0 => lastRun[c] + CoolDown <= now)
  PROVE  IInv(m)'
<1>1. /\ Ring'
      /\ \A i \in DOMAIN runs' : runs'[i] = run \/ \E j \in DOMAIN runs : runs'[i] = runs[j]
      /\ nextID' = nextID + 1
  BY RecordedRun DEF IInv, Calm
<1>2. \A i \in DOMAIN runs :
        runs[i] \in Run /\ runs[i].id \in Nat /\ runs[i].id <= nextID /\ runs[i].at \in Nat
  <2>1. \A i \in DOMAIN runs : runs[i] \in Run /\ runs[i].id <= nextID
    BY DEF IInv, Calm, Ring
  <2>2. \A r \in Run : r.id \in Ids /\ r.at \in Nat
    BY DEF Run
  <2>3. \A id \in Ids : id \in Nat
    BY RemediationAssumption DEF Ids
  <2> QED
    BY <2>1, <2>2, <2>3
<1>3. now \in Nat /\ nextID \in Nat /\ CoolDown \in Nat
  BY RemediationAssumption DEF IInv, Calm, Ring
<1>4. launches' = [launches EXCEPT ![run.id] = 0]
  BY DEF Record
<1>5. run.id \in Ids /\ \A i \in DOMAIN runs : runs[i].id \in Ids /\ runs[i].id # run.id
  <2>1. \A i \in DOMAIN runs : runs[i].id # run.id
    BY <1>2, <1>3
  <2>2. \A r \in Run : r.id \in Ids
    BY DEF Run
  <2> QED
    BY <1>2, <2>1, <2>2
<1>6. \A r \in Run : Slotted(r) => <<r.rule, r.host>> \in Rules \X Hosts
  BY DEF Slotted, Run
<1>7. Slots(m)'
  <2>1. ASSUME NEW i \in DOMAIN runs, runs[i].id > m, Slotted(runs[i])
        PROVE  runs[i].at <= lastRun'[<<runs[i].rule, runs[i].host>>]
    <3> DEFINE c == <<runs[i].rule, runs[i].host>>
    <3>1. c \in Rules \X Hosts
      BY <1>2, <1>6, <2>1
    <3>2. runs[i].at <= lastRun[c] /\ lastRun[c] <= lastRun'[c]
      BY <2>1, <3>1 DEF IInv, Calm, Slots, Guarded
    <3>3. runs[i].at \in Nat /\ lastRun[c] \in Nat /\ lastRun'[c] \in Nat
      BY <1>2, <3>1 DEF IInv, Calm, Slots, Guarded
    <3> QED
      BY <3>2, <3>3
  <2> QED
    BY <1>1, <2>1 DEF Slots, Guarded
<1>8. CooldownSince(m)'
  <2> SUFFICES ASSUME NEW i \in DOMAIN runs', NEW j \in DOMAIN runs',
                      runs'[i].id > m, runs'[i].id < runs'[j].id,
                      runs'[i].rule = runs'[j].rule, runs'[i].host = runs'[j].host,
                      Slotted(runs'[i]), Slotted(runs'[j])
               PROVE  runs'[i].at + CoolDown <= runs'[j].at
    BY DEF CooldownSince, SameRule
  <2>1. \A k \in DOMAIN runs : runs[k].id < run.id /\ ~(run.id < runs[k].id)
    BY <1>2, <1>3
  <2>2. PICK k \in DOMAIN runs : runs'[i] = runs[k]
    <3>1. ~(run.id < run.id)
      BY <1>3
    <3> QED
      BY <1>1, <2>1, <3>1
  <2>3. CASE runs'[j] = run
    <3> DEFINE c == <<run.rule, run.host>>
    <3>1. runs[k].at <= lastRun[c]
      BY <2>2, <2>3 DEF IInv, Calm, Slots, Guarded
    <3>2. c \in Rules \X Hosts
      BY <1>6, <2>3
    <3>3. lastRun[c] \in Nat /\ runs[k].at \in Nat
      BY <1>2, <3>2 DEF IInv, Calm, Slots, Guarded
    <3>4. CoolDown > 0 => lastRun[c] + CoolDown <= now
      BY <2>3
    <3>5. lastRun[c] <= now
      BY <3>2 DEF IInv, Calm, Guarded
    <3>6. runs[k].at + CoolDown <= now
      BY <1>3, <3>1, <3>3, <3>4, <3>5
    <3> QED
      BY <2>2, <2>3, <3>6
  <2>4. CASE \E l \in DOMAIN runs : runs'[j] = runs[l]
    BY <2>2, <2>4 DEF IInv, Calm, CooldownSince, SameRule
  <2> QED
    BY <1>1, <2>3, <2>4
<1>9. Busy'
  <2>1. \A other \in Ids : other > nextID' => worker'[other].stage = "idle"
    <3>1. \A other \in Ids : other \in Nat
      BY RemediationAssumption DEF Ids
    <3>2. \A other \in Ids : other > nextID' => other # run.id /\ other > nextID
      BY <1>1, <1>3, <3>1
    <3> QED
      BY <3>2 DEF IInv, Calm, Busy
  <2>2. \A i \in DOMAIN runs : worker'[runs[i].id].stage \in Live => runs[i].status \in Active
    BY <1>5 DEF IInv, Calm, Busy
  <2> QED
    BY <1>1, <2>1, <2>2 DEF Busy
<1>10. Started'
  <2>1. /\ launches' \in [Ids -> Nat] /\ launches'[run.id] = 0 /\ restarts \in Nat
        /\ \A id \in Ids : launches'[id] <= restarts + 1
    BY <1>4, <1>5 DEF IInv, Calm, Started
  <2>2. \A id \in Ids : worker'[id].stage \in {"approved", "launch"} => launches'[id] <= restarts
    BY <1>4, <1>5 DEF IInv, Calm, Started
  <2>3. \A i \in DOMAIN runs : launches'[runs[i].id] = launches[runs[i].id]
    BY <1>4, <1>5 DEF IInv, Calm, Started
  <2> QED
    BY <1>1, <2>1, <2>2, <2>3 DEF IInv, Calm, Started
<1>11. Guarded'
  BY DEF Guarded
<1> QED
  BY <1>1, <1>7, <1>8, <1>9, <1>10, <1>11 DEF IInv, Calm

\* What evaluateRule writes down of a rule that is cooling down is not a slot.
LEMMA Fired ==
  ASSUME NEW m \in Nat, IInv(m), NEW r \in Rules, NEW h \in Hosts, NEW plan \in Plans(r),
         EvaluateRule(r, h, plan)
  PROVE  IInv(m)'
<1> DEFINE out == Outcome(r, h, plan)
           run == New(r, h, out)
           c == <<r, h>>
<1>1. /\ Record(run) /\ Reserve(r, h, out)
      /\ UNCHANGED <<now, restarts>>
      /\ worker' = IF out = "running" THEN [worker EXCEPT ![run.id] = [stage |-> "launch", row |-> run]]
                   ELSE worker
  BY DEF EvaluateRule
<1>2. now \in Nat /\ nextID \in Nat /\ nextID + 1 \in Ids
  BY <1>1, RemediationAssumption DEF IInv, Calm, Ring, Record, Ids
<1>3. out \in Skips \cup Reserving
  BY DEF Outcome, Skips, Reserving
<1>4. run \in Run /\ run.id = nextID + 1 /\ run.at = now
      /\ run.rule = r /\ run.host = h /\ run.status = out
  BY <1>2, <1>3 DEF New, Run, Statuses
<1>5. lastRun' = IF out \in Reserving THEN [lastRun EXCEPT ![c] = now] ELSE lastRun
  BY <1>1 DEF Reserve
<1>6. out \in Reserving => ~Cooling(r, h)
  BY DEF Outcome, Reserving
<1>7. lastRun \in [Rules \X Hosts -> Nat]
  BY DEF IInv, Calm, Slots, Guarded
<1>8. ASSUME out \in Reserving PROVE CoolDown > 0 => lastRun[c] + CoolDown <= now
  <2>1. lastRun[c] \in Nat /\ CoolDown \in Nat
    BY <1>7, RemediationAssumption
  <2>2. ~(CoolDown > 0 /\ now < lastRun[c] + CoolDown)
    BY <1>6, <1>8 DEF Cooling
  <2> QED
    BY <1>2, <2>1, <2>2
<1>9. \A d \in Rules \X Hosts : lastRun[d] <= lastRun'[d] /\ lastRun'[d] <= now
  <2>1. \A d \in Rules \X Hosts : lastRun[d] \in Nat /\ lastRun[d] <= now
    BY <1>7 DEF IInv, Calm, Slots, Guarded
  <2> QED
    BY <1>2, <1>5, <1>7, <2>1
<1>10. c \in Rules \X Hosts /\ lastRun' \in [Rules \X Hosts -> Nat]
  BY <1>2, <1>5, <1>7
<1>11. Slotted(run) => out \in Reserving
  BY <1>3, <1>4 DEF Slotted
<1>12. /\ DOMAIN worker' = Ids
       /\ \A other \in Ids \ {run.id} : worker'[other] = worker[other]
       /\ worker'[run.id].stage \in Live => run.status \in Active
  <2>1. run.id \in Ids /\ worker[run.id].stage = "idle"
    BY <1>2, <1>4, RemediationAssumption DEF IInv, Calm, Busy, Ids
  <2>2. "idle" \notin Live
    BY DEF Live
  <2>3. CASE out = "running"
    BY <1>1, <1>4, <2>1, <2>3 DEF IInv, Calm, Busy, Active
  <2>4. CASE out # "running"
    BY <1>1, <2>1, <2>2, <2>4 DEF IInv, Calm, Busy
  <2> QED
    BY <2>3, <2>4
<1>13. Slotted(run) => LET d == <<run.rule, run.host>>
                       IN  now <= lastRun'[d] /\ (CoolDown > 0 => lastRun[d] + CoolDown <= now)
  BY <1>2, <1>4, <1>5, <1>7, <1>8, <1>10, <1>11
<1> HIDE DEF out, run, c
<1> QED
  BY <1>1, <1>4, <1>9, <1>10, <1>12, <1>13, Recorded

LEMMA Proposed ==
  ASSUME NEW m \in Nat, IInv(m), NEW h \in Hosts, ProposeManual(h)
  PROVE  IInv(m)'
<1> DEFINE run == New(Manual, h, "pending_approval")
<1>1. Record(run) /\ UNCHANGED <<now, lastRun, worker, restarts>>
  BY DEF ProposeManual, guards
<1>2. now \in Nat /\ nextID \in Nat /\ nextID + 1 \in Ids
  BY <1>1, RemediationAssumption DEF IInv, Calm, Ring, Record, Ids
<1>3. run \in Run /\ run.id = nextID + 1 /\ run.at = now /\ run.rule = Manual
  BY <1>2 DEF New, Run, Statuses, Reserving
<1>4. ~Slotted(run)
  BY <1>3 DEF Slotted
<1>5. worker'[run.id].stage \notin Live
  <2>1. run.id \in Ids /\ run.id > nextID
    BY <1>2, <1>3
  <2> QED
    BY <1>1, <2>1 DEF IInv, Calm, Busy, Live
<1>6. /\ lastRun \in [Rules \X Hosts -> Nat] /\ DOMAIN worker = Ids
      /\ \A c \in Rules \X Hosts : lastRun[c] <= lastRun[c] /\ lastRun[c] <= now
  BY DEF IInv, Calm, Slots, Guarded, Busy
<1> HIDE DEF run
<1> QED
  BY <1>1, <1>3, <1>4, <1>5, <1>6, Recorded

\* A run in the ring and its goroutine.
LEMMA FoundRun ==
  ASSUME NEW m \in Nat, IInv(m), NEW id \in Ids, Found(id)
  PROVE  /\ At(id) \in DOMAIN runs
         /\ runs[At(id)] \in Run
         /\ runs[At(id)].id = id
         /\ worker[id].stage \in Live => runs[At(id)].status \in Active
         /\ runs[At(id)].status \notin Active => launches[id] <= restarts
<1>1. At(id) \in DOMAIN runs /\ runs[At(id)].id = id
  BY AtFound
<1>2. runs[At(id)] \in Run
  BY <1>1 DEF IInv, Calm, Ring
<1> QED
  BY <1>1, <1>2 DEF IInv, Calm, Busy, Started

\* The shape of most critical sections: a run that is under way is rewritten and
\* stays under way, or one that waits is decided.
LEMMA Stepped ==
  ASSUME NEW m \in Nat, IInv(m), NEW id \in Ids, Found(id), NEW run \in Run, NEW stage \in Stages,
         Step(id, stage, run),
         run.id = id, run.rule = runs[At(id)].rule,
         run.host = runs[At(id)].host, run.at = runs[At(id)].at,
         UNCHANGED <<now, nextID, launches, restarts>>,
         lastRun' \in [Rules \X Hosts -> Nat],
         \A c \in Rules \X Hosts : lastRun[c] <= lastRun'[c] /\ lastRun'[c] <= now,
         runs[At(id)].status \notin Skips,
         stage \in Live => run.status \in Active,
         stage \in {"approved", "launch"} \/ run.status \notin Active => launches[id] <= restarts
  PROVE  IInv(m)'
<1>1. /\ runs' = [runs EXCEPT ![At(id)] = run]
      /\ worker' = [worker EXCEPT ![id] = [stage |-> stage, row |-> run]]
  BY DEF Step
<1>2. DOMAIN worker = Ids
  BY DEF IInv, Calm, Busy
<1>3. /\ DOMAIN worker' = Ids
      /\ worker'[id].stage = stage
      /\ \A other \in Ids \ {id} : worker'[other] = worker[other]
  BY <1>1, <1>2
<1>4. Slotted(run) => Slotted(runs[At(id)])
  BY DEF Slotted
<1>5. /\ IInv(m) /\ id \in Ids /\ Found(id) /\ run \in Run
      /\ run.id = id /\ run.rule = runs[At(id)].rule
      /\ run.host = runs[At(id)].host /\ run.at = runs[At(id)].at
      /\ runs' = [runs EXCEPT ![At(id)] = run]
      /\ UNCHANGED <<now, nextID, launches, restarts>>
  BY <1>1
<1>6. /\ lastRun' \in [Rules \X Hosts -> Nat]
      /\ \A c \in Rules \X Hosts : lastRun[c] <= lastRun'[c] /\ lastRun'[c] <= now
  OBVIOUS
<1>7. /\ Slotted(run) => Slotted(runs[At(id)])
      /\ worker'[id].stage \in Live => run.status \in Active
      /\ worker'[id].stage \in {"approved", "launch"} => launches[id] <= restarts
      /\ run.status \notin Active => launches[id] <= restarts
  BY <1>3, <1>4
<1> QED
  BY ONLY <1>3, <1>5, <1>6, <1>7, Rewritten

\* The guards stay as they are.
LEMMA SameSlots ==
  ASSUME NEW m \in Nat, IInv(m), lastRun' = lastRun
  PROVE  /\ lastRun' \in [Rules \X Hosts -> Nat]
         /\ \A c \in Rules \X Hosts : lastRun[c] <= lastRun'[c] /\ lastRun'[c] <= now
BY DEF IInv, Calm, Slots, Guarded

LEMMA Decided ==
  ASSUME NEW m \in Nat, IInv(m), NEW id \in Ids, Approve(id) \/ ApproveGone(id) \/ Reject(id)
  PROVE  IInv(m)'
<1> DEFINE old == runs[At(id)]
<1>1. Found(id) /\ old.status = "pending_approval"
  BY DEF Approve, ApproveGone, Reject, IsPending
<1>2. old \in Run /\ old.id = id /\ launches[id] <= restarts
  BY <1>1, FoundRun DEF Active
<1>3. old.status \notin Skips
  BY <1>1 DEF Skips
<1>4. now \in Nat
  BY DEF IInv, Calm, Ring
<1>5. UNCHANGED <<now, nextID, launches, restarts>>
  BY DEF Approve, ApproveGone, Reject
<1>6. {"running", "no_playbook", "rejected"} \subseteq Statuses
  BY DEF Statuses, Skips, Reserving
<1>7. {"approved", "gone", "rejected"} \subseteq Stages /\ {"gone", "rejected"} \cap Live = {}
  BY DEF Stages, Persisting, Live
<1>8. CASE Approve(id)
  <2> DEFINE run == [old EXCEPT !.status = "running", !.decided = now]
             c == <<old.rule, old.host>>
  <2>1. Step(id, "approved", run)
    BY <1>8 DEF Approve
  <2>2. /\ run \in Run /\ run.status \in Active
        /\ run.id = id /\ run.rule = old.rule /\ run.host = old.host /\ run.at = old.at
    BY <1>2, <1>4, <1>6 DEF Run, Active
  <2>3. /\ lastRun' \in [Rules \X Hosts -> Nat]
        /\ \A d \in Rules \X Hosts : lastRun[d] <= lastRun'[d] /\ lastRun'[d] <= now
    <3>1. CASE old.rule = Manual
      BY <1>8, <3>1, SameSlots DEF Approve, guards
    <3>2. CASE old.rule # Manual
      <4>1. lastRun' = [lastRun EXCEPT ![c] = now]
        BY <1>8, <3>2 DEF Approve
      <4>2. \A d \in Rules \X Hosts : lastRun[d] \in Nat /\ lastRun[d] <= now
        BY DEF IInv, Calm, Slots, Guarded
      <4>3. lastRun \in [Rules \X Hosts -> Nat]
        BY DEF IInv, Calm, Slots, Guarded
      <4> HIDE DEF c, run
      <4>4. \A d \in Rules \X Hosts : lastRun'[d] = IF d = c THEN now ELSE lastRun[d]
        BY <4>1, <4>3
      <4>5. lastRun' \in [Rules \X Hosts -> Nat]
        BY <1>4, <4>1, <4>3
      <4> QED
        BY <1>4, <4>2, <4>4, <4>5
    <3> QED
      BY <3>1, <3>2
  <2> HIDE DEF run
  <2> QED
    BY <1>1, <1>2, <1>3, <1>5, <1>7, <2>1, <2>2, <2>3, Stepped
<1>9. CASE ApproveGone(id)
  <2> DEFINE run == [old EXCEPT !.status = "no_playbook"]
  <2>1. Step(id, "gone", run) /\ lastRun' = lastRun
    BY <1>9 DEF ApproveGone, guards
  <2>2. /\ run \in Run
        /\ run.id = id /\ run.rule = old.rule /\ run.host = old.host /\ run.at = old.at
    BY <1>2, <1>6 DEF Run
  <2> HIDE DEF run
  <2> QED
    BY <1>1, <1>2, <1>3, <1>5, <1>7, <2>1, <2>2, SameSlots, Stepped
<1>10. CASE Reject(id)
  <2> DEFINE run == [old EXCEPT !.status = "rejected", !.decided = now]
  <2>1. Step(id, "rejected", run) /\ lastRun' = lastRun
    BY <1>10 DEF Reject, guards
  <2>2. /\ run \in Run
        /\ run.id = id /\ run.rule = old.rule /\ run.host = old.host /\ run.at = old.at
    BY <1>2, <1>4, <1>6 DEF Run
  <2> HIDE DEF run
  <2> QED
    BY <1>1, <1>2, <1>3, <1>5, <1>7, <2>1, <2>2, SameSlots, Stepped
<1> QED
  BY <1>8, <1>9, <1>10

\* A goroutine with work to do rewrites its run, which is under way.
LEMMA Worked ==
  ASSUME NEW m \in Nat, IInv(m), NEW id \in Ids, worker[id].stage \in Live, Found(id),
         NEW run \in Run, NEW stage \in Stages, Step(id, stage, run),
         run.id = id, run.rule = runs[At(id)].rule, run.host = runs[At(id)].host,
         run.at = runs[At(id)].at, run.status \in Active, stage \notin {"approved", "launch"},
         UNCHANGED <<now, nextID, launches, restarts>>, lastRun' = lastRun
  PROVE  IInv(m)'
<1>1. runs[At(id)].status \in Active
  BY FoundRun
<1>2. runs[At(id)].status \notin Skips
  BY <1>1 DEF Active, Skips
<1> QED
  BY <1>2, SameSlots, Stepped

\* A goroutine with work to do goes on to something other than a launch.
LEMMA WentOn ==
  ASSUME NEW m \in Nat, IInv(m), NEW id \in Ids, NEW stage \in Stages,
         worker[id].stage \in Live, Goto(id, stage),
         stage = "launch" => worker[id].stage = "approved", stage # "approved",
         UNCHANGED <<now, runs, nextID, lastRun, launches, restarts>>
  PROVE  IInv(m)'
<1>1. DOMAIN worker = Ids
  BY DEF IInv, Calm, Busy
<1>2. /\ DOMAIN worker' = Ids
      /\ worker'[id].stage = stage
      /\ \A other \in Ids \ {id} : worker'[other] = worker[other]
  BY <1>1 DEF Goto, Idle
<1>3. now' \in Nat /\ now <= now'
  BY DEF IInv, Calm, Ring
<1>4. worker[id].stage # "idle"
  BY DEF Live
<1>5. /\ launches' \in [Ids -> Nat] /\ launches'[id] <= restarts + 1
      /\ stage = "launch" => launches'[id] <= restarts
  BY DEF IInv, Calm, Started
<1> QED
  BY <1>2, <1>3, <1>4, <1>5, MovedOn

LEMMA Finished ==
  ASSUME NEW m \in Nat, IInv(m), NEW id \in Ids, NEW ok \in BOOLEAN,
         worker[id].stage \in Live, Finish(id, ok)
  PROVE  IInv(m)'
<1> DEFINE run == [runs[At(id)] EXCEPT !.status = IF ok THEN "success" ELSE "failed"]
           stage == IF ok THEN "succeeded" ELSE "failed"
<1>1. UNCHANGED <<now, nextID, lastRun, launches, restarts>>
  BY DEF Finish, guards
<1>2. CASE Found(id)
  <2>1. Step(id, stage, run)
    BY <1>2 DEF Finish
  <2>2. runs[At(id)] \in Run /\ runs[At(id)].id = id
    BY <1>2, FoundRun
  <2>3. /\ run \in Run /\ run.id = id /\ run.rule = runs[At(id)].rule
        /\ run.host = runs[At(id)].host /\ run.at = runs[At(id)].at /\ run.status \in Active
    BY <2>2 DEF Run, Statuses, Active
  <2>4. stage \in Stages /\ stage \notin {"approved", "launch"}
    BY DEF Stages, Persisting
  <2> HIDE DEF run, stage
  <2> QED
    BY <1>1, <1>2, <2>1, <2>3, <2>4, Worked
<1>3. CASE ~Found(id)
  <2>1. Goto(id, "idle") /\ UNCHANGED runs
    BY <1>3 DEF Finish
  <2> QED
    BY <1>1, <2>1, WentOn DEF Stages
<1> QED
  BY <1>2, <1>3

LEMMA Launched ==
  ASSUME NEW m \in Nat, IInv(m), NEW id \in Ids, Launch(id)
  PROVE  IInv(m)'
<1>1. /\ worker[id].stage = "launch"
      /\ launches' = [launches EXCEPT ![id] = @ + 1]
      /\ worker' = [worker EXCEPT ![id] = [stage |-> "executing", row |-> @.row]]
      /\ UNCHANGED <<now, runs, nextID, lastRun, restarts>>
  BY DEF Launch, Goto, guards
<1>2. /\ DOMAIN worker = Ids /\ launches \in [Ids -> Nat]
      /\ launches[id] <= restarts /\ restarts \in Nat
  BY <1>1 DEF IInv, Calm, Busy, Started
<1>3. /\ DOMAIN worker' = Ids
      /\ worker'[id].stage = "executing"
      /\ \A other \in Ids \ {id} : worker'[other] = worker[other]
  BY <1>1, <1>2
<1>4. /\ launches' \in [Ids -> Nat] /\ launches'[id] <= restarts + 1
      /\ \A other \in Ids \ {id} : launches'[other] = launches[other]
  <2>1. launches[id] + 1 \in Nat /\ launches[id] + 1 <= restarts + 1
    BY <1>2
  <2>2. launches' = [launches EXCEPT ![id] = launches[id] + 1]
    BY <1>1
  <2> QED
    BY <1>2, <2>1, <2>2
<1>5. now' \in Nat /\ now <= now'
  BY <1>1 DEF IInv, Calm, Ring
<1>6. worker[id].stage \in Live
  BY <1>1 DEF Live, Stages
<1> QED
  BY <1>1, <1>3, <1>4, <1>5, <1>6, MovedOn

\* Only an approved run goes from its write to its launch.
LEMMA AfterWriteStage ==
  ASSUME NEW stage \in Persisting, NEW run
  PROVE  /\ AfterWrite(stage, run) \in Stages \ {"approved"}
         /\ AfterWrite(stage, run) = "launch" => stage = "approved"
         /\ stage \notin Live => AfterWrite(stage, run) = "idle"
<1>1. CASE stage = "approved"
  BY <1>1 DEF AfterWrite, Stages, Live, Persisting
<1>2. CASE stage = "succeeded"
  BY <1>2 DEF AfterWrite, Stages, Live, Persisting
<1>3. CASE stage = "scheduled"
  BY <1>3 DEF AfterWrite, Stages, Live, Persisting
<1>4. CASE stage = "failed" /\ RollsBack(run)
  BY <1>4 DEF AfterWrite, Stages, Live, Persisting
<1>5. CASE /\ stage \notin {"approved", "succeeded", "scheduled"}
           /\ ~(stage = "failed" /\ RollsBack(run))
  <2>1. AfterWrite(stage, run) = "idle"
    BY <1>5 DEF AfterWrite
  <2> QED
    BY <2>1 DEF Stages
<1> QED
  BY <1>1, <1>2, <1>3, <1>4, <1>5

LEMMA Persisted ==
  ASSUME NEW m \in Nat, IInv(m), NEW id \in Ids, Persist(id)
  PROVE  IInv(m)'
<1> DEFINE stage == AfterWrite(worker[id].stage, worker[id].row)
<1>1. /\ worker[id].stage \in Persisting
      /\ Goto(id, stage)
      /\ UNCHANGED <<now, runs, nextID, lastRun, launches, restarts>>
  BY DEF Persist, guards
<1>2. /\ stage \in Stages \ {"approved"}
      /\ stage = "launch" => worker[id].stage = "approved"
      /\ worker[id].stage \notin Live => stage = "idle"
  BY <1>1, AfterWriteStage
<1> HIDE DEF stage
<1>3. CASE worker[id].stage \in Live
  BY <1>1, <1>2, <1>3, WentOn
<1>4. CASE worker[id].stage \notin Live
  <2>1. /\ DOMAIN worker = Ids /\ launches \in [Ids -> Nat] /\ now \in Nat
        /\ launches[id] <= restarts + 1
    BY DEF IInv, Calm, Busy, Started, Ring
  <2>2. /\ DOMAIN worker' = Ids
        /\ worker'[id].stage = "idle"
        /\ \A other \in Ids \ {id} : worker'[other] = worker[other]
    BY <1>1, <1>2, <1>4, <2>1 DEF Goto, Idle
  <2>3. "idle" \notin Live
    BY DEF Live
  <2>4. now <= now' /\ now' \in Nat
    BY <1>1, <2>1
  <2> QED
    BY <1>1, <2>1, <2>2, <2>3, <2>4, MovedOn
<1> QED
  BY <1>3, <1>4

LEMMA RollbackDone ==
  ASSUME NEW m \in Nat, IInv(m), NEW id \in Ids, NEW gone \in BOOLEAN, Rollback(id, gone)
  PROVE  IInv(m)'
<1> DEFINE run == [runs[At(id)] EXCEPT !.status = "rolling_back"]
           stage == IF gone THEN "idle" ELSE "rolling"
<1>1. /\ worker[id].stage = "rollback"
      /\ Goto(id, stage)
      /\ UNCHANGED <<now, nextID, lastRun, launches, restarts>>
  BY DEF Rollback, guards
<1>2. worker[id].stage \in Live
  BY <1>1 DEF Live, Stages
<1>3. stage \in Stages /\ stage \notin {"approved", "launch"}
  BY DEF Stages
<1>4. CASE Found(id) /\ ~gone
  <2>1. runs' = [runs EXCEPT ![At(id)] = run]
    BY <1>4 DEF Rollback
  <2>2. runs[At(id)] \in Run /\ runs[At(id)].id = id /\ runs[At(id)].status \in Active
    BY <1>2, <1>4, FoundRun
  <2>3. /\ run \in Run /\ run.id = id /\ run.rule = runs[At(id)].rule
        /\ run.host = runs[At(id)].host /\ run.at = runs[At(id)].at /\ run.status \in Active
    BY <2>2 DEF Run, Statuses, Active
  <2>4. DOMAIN worker = Ids
    BY DEF IInv, Calm, Busy
  <2>5. /\ DOMAIN worker' = Ids
        /\ worker'[id].stage = stage
        /\ \A other \in Ids \ {id} : worker'[other] = worker[other]
    BY <1>1, <1>3, <2>4 DEF Goto, Idle
  <2>6. Slotted(run) => Slotted(runs[At(id)])
    BY <2>2, <2>3 DEF Slotted, Active, Skips
  <2> HIDE DEF run, stage
  <2> QED
    BY <1>1, <1>3, <1>4, <2>1, <2>3, <2>5, <2>6, SameSlots, Rewritten
<1>5. CASE ~(Found(id) /\ ~gone)
  <2>1. UNCHANGED runs
    BY <1>5 DEF Rollback
  <2> HIDE DEF stage
  <2> QED
    BY <1>1, <1>2, <1>3, <2>1, WentOn
<1> QED
  BY <1>4, <1>5

LEMMA Noted ==
  ASSUME NEW m \in Nat, IInv(m), NEW id \in Ids, RolledBack(id) \/ ScheduleVerify(id) \/ Conclude(id)
  PROVE  IInv(m)'
<1> DEFINE old == runs[At(id)]
<1>1. /\ worker[id].stage \in Live
      /\ UNCHANGED <<now, nextID, lastRun, launches, restarts>>
  BY DEF RolledBack, ScheduleVerify, Conclude, guards, Live, Stages, Persisting
<1>2. CASE \E run \in Run, stage \in Stages \ {"approved", "launch"} :
             /\ Found(id) /\ Step(id, stage, run)
             /\ run.id = id /\ run.rule = old.rule /\ run.host = old.host /\ run.at = old.at
             /\ run.status \in Active
  BY <1>1, <1>2, Worked
<1>3. CASE UNCHANGED runs /\ Goto(id, "idle")
  BY <1>1, <1>3, WentOn DEF Stages
<1>4. CASE Found(id)
  <2>1. old \in Run /\ old.id = id /\ old.status \in Active
    BY <1>1, <1>4, FoundRun
  <2>2. {"rolledback", "scheduled", "verified"} \subseteq Stages \ {"approved", "launch"}
    BY DEF Stages, Persisting
  <2>3. "failed" \in Active /\ "failed" \in Statuses
    BY DEF Active, Statuses
  <2>4. CASE RolledBack(id)
    <3> DEFINE run == [old EXCEPT !.status = "failed"]
    <3>1. Step(id, "rolledback", run)
      BY <1>4, <2>4 DEF RolledBack
    <3>2. /\ run \in Run /\ run.id = id /\ run.rule = old.rule
          /\ run.host = old.host /\ run.at = old.at /\ run.status \in Active
      BY <2>1, <2>3 DEF Run
    <3> HIDE DEF run
    <3> QED
      BY <1>2, <1>4, <2>2, <3>1, <3>2
  <2>5. CASE ScheduleVerify(id)
    <3> DEFINE run == [old EXCEPT !.verify = "pending"]
    <3>1. Step(id, "scheduled", run) \/ (UNCHANGED runs /\ Goto(id, "idle"))
      BY <1>4, <2>5 DEF ScheduleVerify
    <3>2. /\ run \in Run /\ run.id = id /\ run.rule = old.rule
          /\ run.host = old.host /\ run.at = old.at /\ run.status \in Active
      BY <2>1 DEF Run
    <3> HIDE DEF run
    <3> QED
      BY <1>2, <1>3, <1>4, <2>2, <3>1, <3>2
  <2>6. CASE Conclude(id)
    <3> DEFINE run == [old EXCEPT !.verify = IF worker[id].stage = "saw_firing"
                                               THEN "still_firing" ELSE "cleared"]
    <3>1. Step(id, "verified", run) \/ (UNCHANGED runs /\ Goto(id, "idle"))
      BY <1>4, <2>6 DEF Conclude
    <3>2. /\ run \in Run /\ run.id = id /\ run.rule = old.rule
          /\ run.host = old.host /\ run.at = old.at /\ run.status \in Active
      BY <2>1 DEF Run
    <3> HIDE DEF run
    <3> QED
      BY <1>2, <1>3, <1>4, <2>2, <3>1, <3>2
  <2> QED
    BY <2>4, <2>5, <2>6
<1>5. CASE ~Found(id)
  BY <1>3, <1>5 DEF RolledBack, ScheduleVerify, Conclude, AwaitsVerdict
<1> QED
  BY <1>4, <1>5

LEMMA Looked ==
  ASSUME NEW m \in Nat, IInv(m), NEW id \in Ids, NEW firing \in BOOLEAN, Look(id, firing)
  PROVE  IInv(m)'
<1> DEFINE stage == IF ~AwaitsVerdict(id) THEN "idle" ELSE IF firing THEN "saw_firing" ELSE "saw_clear"
<1>1. /\ worker[id].stage = "sleeping"
      /\ Goto(id, stage)
      /\ UNCHANGED <<now, runs, nextID, lastRun, launches, restarts>>
  BY DEF Look, guards
<1>2. stage \in Stages /\ stage \notin {"approved", "launch"} /\ worker[id].stage \in Live
  BY <1>1 DEF Stages, Live
<1> HIDE DEF stage
<1> QED
  BY <1>1, <1>2, WentOn

\* The clock and the database.
LEMMA Still ==
  ASSUME NEW m \in Nat, IInv(m), UNCHANGED <<runs, nextID, lastRun, worker, launches, restarts>>,
         now' \in Nat, now <= now'
  PROVE  IInv(m)'
<1>1. Ring'
  BY DEF IInv, Calm, Ring
<1>2. Guarded' /\ Slots(m)'
  <2>1. \A c \in Rules \X Hosts : lastRun[c] \in Nat /\ lastRun[c] <= now'
    BY DEF IInv, Calm, Slots, Guarded, Ring
  <2> QED
    BY <2>1 DEF IInv, Calm, Slots, Guarded, Slotted
<1>3. CooldownSince(m)' /\ Busy' /\ Started'
  BY DEF IInv, Calm, CooldownSince, SameRule, Slotted, Busy, Started
<1> QED
  BY <1>1, <1>2, <1>3 DEF IInv, Calm

LEMMA NextIInv ==
  ASSUME NEW m \in Nat, IInv(m), [Next]_vars, restarts' = restarts
  PROVE  IInv(m)'
<1>0. now \in Nat /\ now <= now
  BY DEF IInv, Calm, Ring
<1>1. CASE Fire
  BY <1>1, Fired DEF Fire
<1>2. CASE Propose
  BY <1>2, Proposed DEF Propose
<1>3. CASE Decide
  BY <1>3, Decided DEF Decide
<1>4. ASSUME NEW id \in Ids, Work(id) PROVE IInv(m)'
  <2>1. CASE Launch(id)
    BY <2>1, Launched
  <2>2. CASE HostGone(id)
    BY <2>2, Finished DEF HostGone, Live, Stages
  <2>3. CASE Persist(id)
    BY <2>3, Persisted
  <2>4. CASE RolledBack(id) \/ ScheduleVerify(id) \/ Conclude(id)
    BY <2>4, Noted
  <2>5. ASSUME NEW ok \in BOOLEAN, Done(id, ok) PROVE IInv(m)'
    BY <2>5, Finished DEF Done, Live, Stages
  <2>6. ASSUME NEW gone \in BOOLEAN, Rollback(id, gone) PROVE IInv(m)'
    BY <2>6, RollbackDone
  <2>7. ASSUME NEW firing \in BOOLEAN, Look(id, firing) PROVE IInv(m)'
    BY <2>7, Looked
  <2> QED
    BY <1>4, <2>1, <2>2, <2>3, <2>4, <2>5, <2>6, <2>7 DEF Work
<1>5. CASE \E run \in unwritten : WriteInitial(run)
  BY <1>0, <1>5, Still DEF WriteInitial, memory, guards
<1>6. CASE FlushRuns \/ FlushGuards
  BY <1>0, <1>6, Still DEF FlushRuns, FlushGuards, memory, guards
<1>7. CASE Restart
  <2>1. restarts \in Nat /\ restarts' = restarts + 1
    BY <1>7 DEF Restart, IInv, Calm, Started
  <2> QED
    BY <2>1
<1>8. CASE Tick
  <2>1. now \in Nat /\ now' \in Nat /\ now <= now'
    BY <1>8 DEF Tick, IInv, Calm, Ring
  <2> QED
    BY <1>8, <2>1, Still DEF Tick, memory, guards
<1>9. CASE UNCHANGED vars
  BY <1>0, <1>9, Still DEF vars, memory, guards
<1> QED
  BY <1>1, <1>2, <1>3, <1>4, <1>5, <1>6, <1>7, <1>8, <1>9 DEF Next

-----------------------------------------------------------------------------
(* The hourly cap.                                                          *)

\* What has been written down of a rule since some time: slots taken, and runs that
\* took one.
Entries(s, t) == {k \in DOMAIN s : s[k] >= t}
Taken(m, r, t) ==
  {i \in DOMAIN runs :
     runs[i].id > m /\ runs[i].rule = r /\ Slotted(runs[i]) /\ runs[i].at >= t}

\* In the last hour no run has a slot that is not on the list of its rule.
Counted(m) ==
  \A r \in Rules, t \in Nat :
    t + Hour >= now => Cardinality(Taken(m, r, t)) <= Cardinality(Entries(hourly[r], t))

RateInv(m) == hourly \in [Rules -> Seq(Nat)] /\ Counted(m) /\ RateSince(m)

\* The elements of a finite set of numbers, by how many are not above them.
LEMMA Ranks ==
  ASSUME NEW S \in SUBSET Nat, IsFiniteSet(S)
  PROVE  [i \in S |-> Cardinality({j \in S : j <= i})] \in Bijection(S, 1..Cardinality(S))
<1> DEFINE UpTo(i) == {j \in S : j <= i}
           rank == [i \in S |-> Cardinality(UpTo(i))]
<1>1. ASSUME NEW i \in S
      PROVE  /\ IsFiniteSet(UpTo(i)) /\ Cardinality(UpTo(i)) \in Nat
             /\ Cardinality(UpTo(i)) <= Cardinality(S) /\ Cardinality(UpTo(i)) # 0
  <2>1. UpTo(i) \in SUBSET S /\ i \in UpTo(i)
    OBVIOUS
  <2>2. IsFiniteSet(UpTo(i)) /\ Cardinality(UpTo(i)) <= Cardinality(S)
    BY <2>1, FS_Subset
  <2>3. Cardinality(UpTo(i)) \in Nat /\ Cardinality(UpTo(i)) # 0
    BY <2>1, <2>2, FS_CardinalityType, FS_EmptySet
  <2> QED
    BY <2>2, <2>3
<1>2. ASSUME NEW i \in S, NEW k \in S, i < k
      PROVE  Cardinality(UpTo(i)) # Cardinality(UpTo(k))
  <2>1. UpTo(i) \in SUBSET UpTo(k)
    <3>1. \A j \in S : j <= i => j <= k
      BY <1>2
    <3> QED
      BY <3>1
  <2>2. k \in UpTo(k) /\ k \notin UpTo(i)
    BY <1>2
  <2> QED
    BY <1>1, <2>1, <2>2, FS_Subset
<1>3. Cardinality(S) \in Nat
  BY FS_CardinalityType
<1> HIDE DEF UpTo
<1>4. rank \in [S -> 1..Cardinality(S)]
  BY <1>1, <1>3
<1>5. \A i, k \in S : rank[i] = rank[k] => i = k
  <2> SUFFICES ASSUME NEW i \in S, NEW k \in S, rank[i] = rank[k] PROVE i = k
    OBVIOUS
  <2>1. ~(i < k) /\ ~(k < i)
    BY <1>2
  <2> QED
    BY <2>1
<1>6. rank \in Injection(S, 1..Cardinality(S))
  BY <1>4, <1>5 DEF Injection, IsInjective
<1>7. IsFiniteSet(1..Cardinality(S)) /\ Cardinality(1..Cardinality(S)) = Cardinality(S)
  BY <1>3, FS_Interval
<1>8. rank \in Surjection(S, 1..Cardinality(S))
  <2> HIDE DEF rank
  <2> QED
    BY <1>6, <1>7, FS_Injection
<1> QED
  BY <1>6, <1>8 DEF Bijection, UpTo

\* A set whose elements lie in another one, all moved by as much, is not larger.
LEMMA Shifted ==
  ASSUME NEW S \in SUBSET Nat, NEW T, IsFiniteSet(T), NEW d \in Nat, \A i \in S : i + d \in T
  PROVE  Cardinality(S) <= Cardinality(T) /\ Cardinality(S) \in Nat
<1> DEFINE f == [i \in S |-> i + d]
<1>1. f \in [S -> T]
  OBVIOUS
<1>2. \A i, k \in S : f[i] = f[k] => i = k
  <2>1. \A i, k \in S : i + d = k + d => i = k
    OBVIOUS
  <2> QED
    BY <2>1
<1>3. f \in Injection(S, T)
  BY <1>1, <1>2 DEF Injection, IsInjective
<1> HIDE DEF f
<1> QED
  BY <1>3, FS_Injection, FS_CardinalityType

\* The sets that are counted are finite.
LEMMA SetsFinite ==
  /\ \A S, t : \A s \in Seq(S) :
       /\ IsFiniteSet(DOMAIN s) /\ DOMAIN s \in SUBSET Nat
       /\ IsFiniteSet(Entries(s, t)) /\ Cardinality(Entries(s, t)) \in Nat
  /\ Ring => \A m, r, t : /\ IsFiniteSet(Taken(m, r, t)) /\ Taken(m, r, t) \in SUBSET Nat
                          /\ Cardinality(Taken(m, r, t)) \in Nat
<1>1. ASSUME NEW S, NEW s \in Seq(S) PROVE IsFiniteSet(DOMAIN s) /\ DOMAIN s \in SUBSET Nat
  <2>1. DOMAIN s = 1..Len(s) /\ Len(s) \in Int
    OBVIOUS
  <2> QED
    BY <2>1, FS_Interval
<1>2. ASSUME NEW S, NEW s \in Seq(S), NEW t
      PROVE  IsFiniteSet(Entries(s, t)) /\ Cardinality(Entries(s, t)) \in Nat
  <2>1. Entries(s, t) \in SUBSET DOMAIN s
    BY DEF Entries
  <2> QED
    BY <1>1, <2>1, FS_Subset, FS_CardinalityType
<1>3. ASSUME Ring, NEW m, NEW r, NEW t
      PROVE  /\ IsFiniteSet(Taken(m, r, t)) /\ Taken(m, r, t) \in SUBSET Nat
             /\ Cardinality(Taken(m, r, t)) \in Nat
  <2>1. Taken(m, r, t) \in SUBSET DOMAIN runs
    BY DEF Taken
  <2>2. IsFiniteSet(DOMAIN runs) /\ DOMAIN runs \in SUBSET Nat
    BY <1>1, <1>3 DEF Ring
  <2> QED
    BY <2>1, <2>2, FS_Subset, FS_CardinalityType
<1> QED
  BY <1>1, <1>2, <1>3

\* Pruning keeps what has been entered in the last hour.
LEMMA Pruned ==
  ASSUME NEW r \in Rules, hourly \in [Rules -> Seq(Nat)], now \in Nat
  PROVE  /\ Recent(r) \in Seq(Nat)
         /\ \A t \in Nat : t + Hour >= now =>
              Cardinality(Entries(hourly[r], t)) <= Cardinality(Entries(Recent(r), t))
         /\ MaxPerHour > 0 =>
              Len(Recent(r)) = Cardinality({i \in DOMAIN hourly[r] : hourly[r][i] + Hour >= now})
<1> DEFINE s == hourly[r]
           kept == {i \in DOMAIN s : s[i] + Hour >= now}
           n == Cardinality(kept)
           rank == [i \in kept |-> Cardinality({j \in kept : j <= i})]
           Nth(k) == CHOOSE i \in kept : Cardinality({j \in kept : j <= i}) = k
<1>1. s \in Seq(Nat) /\ MaxPerHour \in Nat /\ Hour \in Nat
  BY RemediationAssumption
<1>2. CASE MaxPerHour = 0
  <2>1. Recent(r) = s
    BY <1>2 DEF Recent
  <2>2. \A t \in Nat : Cardinality(Entries(s, t)) \in Nat
    BY <1>1, SetsFinite
  <2> HIDE DEF s
  <2> QED
    BY <1>1, <1>2, <2>1, <2>2 DEF s
<1>3. CASE MaxPerHour > 0
  <2>1. IsFiniteSet(kept) /\ kept \in SUBSET Nat
    <3>1. IsFiniteSet(DOMAIN s) /\ DOMAIN s \in SUBSET Nat
      BY <1>1, SetsFinite
    <3> QED
      BY <3>1, FS_Subset
  <2>2. n \in Nat
    BY <2>1, FS_CardinalityType
  <2>3. rank \in Bijection(kept, 1..n)
    BY <2>1, Ranks
  <2>4. \A i \in kept : rank[i] = Cardinality({j \in kept : j <= i})
    OBVIOUS
  <2>5. Recent(r) = [k \in 1..n |-> s[Nth(k)]]
    BY <1>3 DEF Recent
  <2> HIDE DEF rank, n
  <2>6. /\ rank \in [kept -> 1..n]
        /\ \A i, k \in kept : rank[i] = rank[k] => i = k
        /\ \A k \in 1..n : \E i \in kept : rank[i] = k
    BY <2>3 DEF Bijection, Injection, Surjection, IsInjective
  <2>7. \A k \in 1..n : Nth(k) \in kept /\ rank[Nth(k)] = k
    <3> SUFFICES ASSUME NEW k \in 1..n PROVE Nth(k) \in kept /\ rank[Nth(k)] = k
      OBVIOUS
    <3>1. \E i \in kept : Cardinality({j \in kept : j <= i}) = k
      BY <2>4, <2>6
    <3>2. Nth(k) \in kept /\ Cardinality({j \in kept : j <= Nth(k)}) = k
      BY <3>1
    <3> QED
      BY <2>4, <3>2
  <2> HIDE DEF Nth
  <2>8. Recent(r) \in Seq(Nat) /\ Len(Recent(r)) = n /\ DOMAIN Recent(r) = 1..n
    <3>1. \A k \in 1..n : s[Nth(k)] \in Nat
      BY <1>1, <2>7
    <3> QED
      BY <2>2, <2>5, <3>1, IsASeq, LenProperties
  <2>9. ASSUME NEW t \in Nat, t + Hour >= now
        PROVE  Cardinality(Entries(s, t)) <= Cardinality(Entries(Recent(r), t))
    <3> DEFINE f == [i \in Entries(s, t) |-> rank[i]]
    <3>1. \A i \in Entries(s, t) : i \in kept
      BY <1>1, <2>9 DEF Entries
    <3>2. ASSUME NEW i \in Entries(s, t) PROVE rank[i] \in Entries(Recent(r), t)
      <4>1. i \in kept /\ rank[i] \in 1..n
        BY <2>6, <3>1
      <4>2. Nth(rank[i]) = i
        BY <2>6, <2>7, <4>1
      <4>3. Recent(r)[rank[i]] = s[i]
        BY <2>5, <4>1, <4>2
      <4> QED
        BY <2>8, <4>1, <4>3 DEF Entries
    <3>3. f \in Injection(Entries(s, t), Entries(Recent(r), t))
      BY <2>6, <3>1, <3>2 DEF Injection, IsInjective
    <3>4. IsFiniteSet(Entries(Recent(r), t))
      BY <2>8, SetsFinite
    <3> HIDE DEF f
    <3> QED
      BY <3>3, <3>4, FS_Injection
  <2> QED
    BY <2>8, <2>9 DEF n
<1> QED
  BY <1>1, <1>2, <1>3

\* Where recording a run puts it: behind all others, of which the oldest may go.
LEMMA RecordedLast ==
  ASSUME Ring, NEW run \in Run, Record(run)
  PROVE  \E d \in Nat :
           \A i \in DOMAIN runs' :
             \/ i + d \in DOMAIN runs /\ runs'[i] = runs[i + d]
             \/ i + d = Len(runs) + 1 /\ runs'[i] = run
<1> DEFINE s == Append(runs, run)
<1>1. runs' = LastRuns(s) /\ runs \in Seq(Run)
  BY DEF Record, Ring
<1>2. /\ s \in Seq(Run) /\ DOMAIN s = 1..(Len(runs) + 1) /\ Len(runs) \in Nat
      /\ DOMAIN runs = 1..Len(runs)
      /\ \A i \in 1..Len(runs) : s[i] = runs[i]
      /\ s[Len(runs) + 1] = run
  BY <1>1
<1> HIDE DEF s
<1>3. PICK d \in Nat : \A i \in DOMAIN LastRuns(s) : i + d \in DOMAIN s /\ LastRuns(s)[i] = s[i + d]
  BY <1>2, LastElements
<1>4. ASSUME NEW i \in DOMAIN runs'
      PROVE  \/ i + d \in DOMAIN runs /\ runs'[i] = runs[i + d]
             \/ i + d = Len(runs) + 1 /\ runs'[i] = run
  <2>1. i + d \in DOMAIN s /\ runs'[i] = s[i + d]
    BY <1>1, <1>3
  <2>2. CASE i + d = Len(runs) + 1
    BY <1>2, <2>1, <2>2
  <2>3. CASE i + d # Len(runs) + 1
    <3>1. i + d \in 1..Len(runs)
      BY <1>2, <2>1, <2>3
    <3> QED
      BY <1>2, <2>1, <3>1
  <2> QED
    BY <2>2, <2>3
<1> QED
  BY <1>4

\* What is counted stays so when nothing takes a slot: runs may leave the ring, or no
\* longer have taken one, and slots may be added to the list.
LEMMA NothingTaken ==
  ASSUME NEW m \in Nat, IInv(m), IInv(m)', RateInv(m), now <= now', NEW d \in Nat,
         \A i \in DOMAIN runs' : Slotted(runs'[i]) =>
           /\ i + d \in DOMAIN runs /\ Slotted(runs[i + d])
           /\ runs'[i].id = runs[i + d].id /\ runs'[i].rule = runs[i + d].rule
           /\ runs'[i].at = runs[i + d].at,
         hourly' \in [Rules -> Seq(Nat)],
         \A r \in Rules, t \in Nat :
           t + Hour >= now' => Cardinality(Entries(hourly[r], t)) <= Cardinality(Entries(hourly'[r], t))
  PROVE  RateInv(m)'
<1>1. /\ Hour \in Nat /\ now \in Nat /\ now' \in Nat
      /\ runs \in Seq(Run) /\ runs' \in Seq(Run) /\ Ring /\ Ring'
      /\ hourly \in [Rules -> Seq(Nat)]
  BY RemediationAssumption DEF IInv, Calm, Ring, RateInv
<1>2. IsFiniteSet(DOMAIN runs) /\ DOMAIN runs' \in SUBSET Nat /\ DOMAIN runs \in SUBSET Nat
  BY <1>1, SetsFinite
<1>3. Counted(m)'
  <2> SUFFICES ASSUME NEW r \in Rules, NEW t \in Nat, t + Hour >= now'
               PROVE  Cardinality(Taken(m, r, t)') <= Cardinality(Entries(hourly'[r], t))
    BY DEF Counted, Entries
  <2>1. Taken(m, r, t)' \in SUBSET Nat /\ \A i \in Taken(m, r, t)' : i + d \in Taken(m, r, t)
    <3>1. Taken(m, r, t)' = {i \in DOMAIN runs' :
                               /\ runs'[i].id > m /\ runs'[i].rule = r
                               /\ Slotted(runs'[i]) /\ runs'[i].at >= t}
      BY DEF Taken, Slotted
    <3> QED
      BY <1>2, <3>1 DEF Taken
  <2>2. IsFiniteSet(Taken(m, r, t))
    BY <1>1, SetsFinite
  <2>3. Cardinality(Taken(m, r, t)') <= Cardinality(Taken(m, r, t)) /\ Cardinality(Taken(m, r, t)') \in Nat
    BY <2>1, <2>2, Shifted
  <2>4. t + Hour >= now
    BY <1>1
  <2>5. Cardinality(Taken(m, r, t)) <= Cardinality(Entries(hourly[r], t))
    BY <2>4 DEF RateInv, Counted
  <2>6. Cardinality(Entries(hourly[r], t)) <= Cardinality(Entries(hourly'[r], t))
    OBVIOUS
  <2>7. /\ Cardinality(Taken(m, r, t)) \in Nat /\ Cardinality(Entries(hourly[r], t)) \in Nat
        /\ Cardinality(Entries(hourly'[r], t)) \in Nat
    BY <1>1, SetsFinite
  <2> QED
    BY <2>3, <2>5, <2>6, <2>7
<1>4. RateSince(m)'
  <2> SUFFICES ASSUME MaxPerHour > 0, NEW j \in DOMAIN runs', Slotted(runs'[j])
               PROVE  Cardinality({i \in DOMAIN runs' :
                        /\ runs'[i].id > m
                        /\ runs'[i].id < runs'[j].id /\ runs'[i].rule = runs'[j].rule
                        /\ Slotted(runs'[i])
                        /\ runs'[i].at + Hour >= runs'[j].at}) < MaxPerHour
    BY DEF RateSince, SameRule, Slotted
  <2> DEFINE k == j + d
             Then == {i \in DOMAIN runs :
                        /\ runs[i].id > m /\ SameRule(i, k) /\ Slotted(runs[i])
                        /\ runs[i].at + Hour >= runs[k].at}
             Now == {i \in DOMAIN runs' :
                        /\ runs'[i].id > m
                        /\ runs'[i].id < runs'[j].id /\ runs'[i].rule = runs'[j].rule
                        /\ Slotted(runs'[i])
                        /\ runs'[i].at + Hour >= runs'[j].at}
  <2>1. k \in DOMAIN runs /\ Slotted(runs[k])
    OBVIOUS
  <2>2. Cardinality(Then) < MaxPerHour
    BY <2>1 DEF RateInv, RateSince
  <2>3. Then \in SUBSET DOMAIN runs
    OBVIOUS
  <2>4. IsFiniteSet(Then) /\ Cardinality(Then) \in Nat
    BY <1>2, <2>3, FS_Subset, FS_CardinalityType
  <2>5. Now \in SUBSET Nat /\ \A i \in Now : i + d \in Then
    BY <1>2 DEF SameRule
  <2> HIDE DEF Now, Then
  <2>6. Cardinality(Now) <= Cardinality(Then) /\ Cardinality(Now) \in Nat
    BY <2>4, <2>5, Shifted
  <2>7. MaxPerHour \in Nat
    BY RemediationAssumption
  <2>8. Cardinality(Now) < MaxPerHour
    BY <2>2, <2>4, <2>6, <2>7
  <2> QED
    BY <2>8 DEF Now
<1> QED
  BY <1>3, <1>4 DEF RateInv

\* A run takes a slot: it is on the list, and the last hour had room for it.
LEMMA SlotTaken ==
  ASSUME NEW m \in Nat, IInv(m), IInv(m)', RateInv(m), NEW r \in Rules, NEW run \in Run,
         Record(run), now' = now,
         run.rule = r, run.at = now, Slotted(run), ~Capped(r),
         \A i \in DOMAIN runs : runs[i].id < run.id,
         hourly' = [hourly EXCEPT ![r] = Append(Recent(r), now)]
  PROVE  RateInv(m)'
<1>1. /\ Hour \in Nat /\ now \in Nat /\ MaxPerHour \in Nat
      /\ runs \in Seq(Run) /\ runs' \in Seq(Run) /\ Ring /\ Ring'
      /\ hourly \in [Rules -> Seq(Nat)]
  BY RemediationAssumption DEF IInv, Calm, Ring, RateInv
<1>2. /\ IsFiniteSet(DOMAIN runs) /\ DOMAIN runs' \in SUBSET Nat /\ DOMAIN runs \in SUBSET Nat
      /\ DOMAIN runs = 1..Len(runs) /\ Len(runs) \in Nat
  <2>1. IsFiniteSet(DOMAIN runs) /\ DOMAIN runs' \in SUBSET Nat /\ DOMAIN runs \in SUBSET Nat
    BY <1>1, SetsFinite
  <2>2. DOMAIN runs = 1..Len(runs) /\ Len(runs) \in Nat
    BY <1>1
  <2> QED
    BY <2>1, <2>2
<1>3. PICK d \in Nat :
        \A i \in DOMAIN runs' :
          \/ i + d \in DOMAIN runs /\ runs'[i] = runs[i + d]
          \/ i + d = Len(runs) + 1 /\ runs'[i] = run
  BY <1>1, RecordedLast
<1>4. /\ Recent(r) \in Seq(Nat)
      /\ \A t \in Nat : t + Hour >= now =>
           Cardinality(Entries(hourly[r], t)) <= Cardinality(Entries(Recent(r), t))
      /\ MaxPerHour > 0 =>
           Len(Recent(r)) = Cardinality({i \in DOMAIN hourly[r] : hourly[r][i] + Hour >= now})
  BY <1>1, Pruned
<1>5. /\ Append(Recent(r), now) \in Seq(Nat)
      /\ Len(Append(Recent(r), now)) = Len(Recent(r)) + 1
      /\ \A i \in 1..Len(Recent(r)) : Append(Recent(r), now)[i] = Recent(r)[i]
      /\ Append(Recent(r), now)[Len(Recent(r)) + 1] = now
      /\ Len(Recent(r)) \in Nat /\ DOMAIN Recent(r) = 1..Len(Recent(r))
      /\ DOMAIN Append(Recent(r), now) = 1..(Len(Recent(r)) + 1)
  BY <1>1, <1>4
<1>6. hourly' \in [Rules -> Seq(Nat)]
      /\ \A q \in Rules : hourly'[q] = IF q = r THEN Append(Recent(r), now) ELSE hourly[q]
  BY <1>1, <1>5
<1>7. Counted(m)'
  <2> SUFFICES ASSUME NEW q \in Rules, NEW t \in Nat, t + Hour >= now
               PROVE  Cardinality(Taken(m, q, t)') <= Cardinality(Entries(hourly'[q], t))
    BY DEF Counted, Entries
  <2>1. Taken(m, q, t)' = {i \in DOMAIN runs' :
                             /\ runs'[i].id > m /\ runs'[i].rule = q
                             /\ Slotted(runs'[i]) /\ runs'[i].at >= t}
    BY DEF Taken, Slotted
  <2>2. /\ Cardinality(Taken(m, q, t)) <= Cardinality(Entries(hourly[q], t))
        /\ Cardinality(Taken(m, q, t)) \in Nat /\ Cardinality(Entries(hourly[q], t)) \in Nat
        /\ Cardinality(Entries(hourly'[q], t)) \in Nat /\ IsFiniteSet(Taken(m, q, t))
    BY <1>1, <1>6, SetsFinite DEF RateInv, Counted
  <2>3. Taken(m, q, t)' \in SUBSET Nat
    BY <1>2, <2>1
  <2>4. CASE q # r
    <3>1. \A i \in Taken(m, q, t)' : i + d \in Taken(m, q, t)
      BY <1>3, <2>1, <2>4 DEF Taken
    <3>2. Cardinality(Taken(m, q, t)') <= Cardinality(Taken(m, q, t)) /\ Cardinality(Taken(m, q, t)') \in Nat
      BY <2>2, <2>3, <3>1, Shifted
    <3>3. hourly'[q] = hourly[q]
      BY <1>6, <2>4
    <3> QED
      BY <2>2, <3>2, <3>3
  <2>5. CASE q = r /\ t > now
    <3>1. \A i \in DOMAIN runs' : runs'[i].id > m /\ Slotted(runs'[i])
                                   => runs'[i].at \in Nat /\ runs'[i].at <= now
      <4> SUFFICES ASSUME NEW i \in DOMAIN runs', runs'[i].id > m, Slotted(runs'[i])
                   PROVE  runs'[i].at \in Nat /\ runs'[i].at <= now
        OBVIOUS
      <4> DEFINE c == <<runs'[i].rule, runs'[i].host>>
      <4>1. c \in Rules \X Hosts /\ runs'[i].at \in Nat
        <5>1. runs'[i] \in Run
          BY <1>1
        <5> QED
          BY <5>1 DEF Slotted, Run
      <4>2. lastRun'[c] \in Nat /\ lastRun'[c] <= now'
        BY <4>1 DEF IInv, Calm, Guarded
      <4>3. runs'[i].at <= lastRun'[c]
        BY DEF IInv, Slots
      <4> HIDE DEF c
      <4> QED
        BY <1>1, <4>1, <4>2, <4>3
    <3>2. Taken(m, q, t)' = {}
      BY <1>1, <2>1, <2>5, <3>1
    <3>3. Cardinality(Taken(m, q, t)') = 0
      BY <3>2, FS_EmptySet
    <3> QED
      BY <2>2, <3>3
  <2>6. CASE q = r /\ t <= now
    <3> DEFINE Last == Len(runs) + 1
               End == Len(Recent(r)) + 1
    <3>1. \A i \in Taken(m, q, t)' : i + d \in Taken(m, q, t) \cup {Last}
      BY <1>3, <2>1 DEF Taken
    <3>2. IsFiniteSet(Taken(m, q, t) \cup {Last})
          /\ Cardinality(Taken(m, q, t) \cup {Last}) <= Cardinality(Taken(m, q, t)) + 1
      <4> HIDE DEF Last
      <4>1. /\ IsFiniteSet(Taken(m, q, t) \cup {Last})
            /\ Cardinality(Taken(m, q, t) \cup {Last}) =
                 IF Last \in Taken(m, q, t) THEN Cardinality(Taken(m, q, t)) ELSE Cardinality(Taken(m, q, t)) + 1
        BY <2>2, FS_AddElement
      <4> QED
        BY <2>2, <4>1
    <3>3. Cardinality(Taken(m, q, t)') <= Cardinality(Taken(m, q, t) \cup {Last})
          /\ Cardinality(Taken(m, q, t)') \in Nat
      BY <2>3, <3>1, <3>2, Shifted
    <3>4. /\ IsFiniteSet(Entries(Recent(r), t)) /\ Cardinality(Entries(Recent(r), t)) \in Nat
          /\ Cardinality(Entries(hourly[r], t)) <= Cardinality(Entries(Recent(r), t))
      BY <1>4, <2>6, SetsFinite
    <3>5. Entries(hourly'[q], t) = Entries(Recent(r), t) \cup {End} /\ End \notin Entries(Recent(r), t)
      BY <1>1, <1>5, <1>6, <2>6 DEF Entries
    <3>6. Cardinality(Entries(hourly'[q], t)) = Cardinality(Entries(Recent(r), t)) + 1
      BY <3>4, <3>5, FS_AddElement
    <3>7. Cardinality(Taken(m, q, t) \cup {Last}) \in Nat
      BY <3>2, FS_CardinalityType
    <3> HIDE DEF Last
    <3> QED
      BY <2>2, <2>6, <3>2, <3>3, <3>4, <3>6, <3>7
  <2> QED
    BY <1>1, <2>4, <2>5, <2>6
<1>8. RateSince(m)'
  <2> SUFFICES ASSUME MaxPerHour > 0, NEW j \in DOMAIN runs', Slotted(runs'[j])
               PROVE  Cardinality({i \in DOMAIN runs' :
                        /\ runs'[i].id > m
                        /\ runs'[i].id < runs'[j].id /\ runs'[i].rule = runs'[j].rule
                        /\ Slotted(runs'[i])
                        /\ runs'[i].at + Hour >= runs'[j].at}) < MaxPerHour
    BY DEF RateSince, SameRule, Slotted
  <2> DEFINE Now == {i \in DOMAIN runs' :
                        /\ runs'[i].id > m
                        /\ runs'[i].id < runs'[j].id /\ runs'[i].rule = runs'[j].rule
                        /\ Slotted(runs'[i])
                        /\ runs'[i].at + Hour >= runs'[j].at}
  <2>1. \A i \in DOMAIN runs : runs[i].id \in Nat /\ runs[i].at \in Nat
    <3>1. \A i \in DOMAIN runs : runs[i] \in Run
      BY <1>1
    <3>2. Ids \in SUBSET Nat
      BY RemediationAssumption DEF Ids
    <3> QED
      BY <3>1, <3>2 DEF Run
  <2>2. run.id \in Nat
    <3>1. run.id \in Ids
      BY DEF Run
    <3> QED
      BY <3>1, RemediationAssumption DEF Ids
  <2>3. ASSUME NEW i \in Now PROVE i + d \in DOMAIN runs /\ runs'[i] = runs[i + d]
    <3>1. runs'[i].id < runs'[j].id
      OBVIOUS
    <3>2. runs'[i] # run
      BY <1>3, <2>1, <2>2, <3>1
    <3> QED
      BY <1>3, <3>2
  <2>4. Now \in SUBSET Nat
    BY <1>2
  <2>5. CASE j + d \in DOMAIN runs /\ runs'[j] = runs[j + d]
    <3> DEFINE Then == {i \in DOMAIN runs :
                          /\ runs[i].id > m /\ SameRule(i, j + d) /\ Slotted(runs[i])
                          /\ runs[i].at + Hour >= runs[j + d].at}
    <3>1. Cardinality(Then) < MaxPerHour
      BY <2>5 DEF RateInv, RateSince
    <3>2. Then \in SUBSET DOMAIN runs
      OBVIOUS
    <3>3. IsFiniteSet(Then) /\ Cardinality(Then) \in Nat
      BY <1>2, <3>2, FS_Subset, FS_CardinalityType
    <3>4. \A i \in Now : i + d \in Then
      BY <2>3, <2>5 DEF SameRule
    <3> HIDE DEF Now, Then
    <3>5. Cardinality(Now) <= Cardinality(Then) /\ Cardinality(Now) \in Nat
      BY <2>4, <3>3, <3>4, Shifted
    <3>6. Cardinality(Now) < MaxPerHour
      BY <1>1, <3>1, <3>3, <3>5
    <3> QED
      BY <3>6 DEF Now
  <2>6. CASE runs'[j] = run
    <3> DEFINE cut == IF now >= Hour THEN now - Hour ELSE 0
               s == hourly[r]
               kept == {i \in DOMAIN s : s[i] + Hour >= now}
    <3>1. cut \in Nat /\ cut + Hour >= now /\ \A t \in Nat : t + Hour >= now <=> t >= cut
      BY <1>1
    <3>2. \A i \in Now : i + d \in Taken(m, r, cut)
      BY <2>1, <2>3, <2>6, <3>1 DEF Taken
    <3>3. IsFiniteSet(Taken(m, r, cut)) /\ Cardinality(Taken(m, r, cut)) \in Nat
      BY <1>1, SetsFinite
    <3>4. Cardinality(Now) <= Cardinality(Taken(m, r, cut)) /\ Cardinality(Now) \in Nat
      <4> HIDE DEF Now, cut
      <4> QED
        BY <2>4, <3>2, <3>3, Shifted
    <3>5. Cardinality(Taken(m, r, cut)) <= Cardinality(Entries(s, cut))
      BY <3>1 DEF RateInv, Counted
    <3>6. Entries(s, cut) = kept
      <4>1. \A i \in DOMAIN s : s[i] \in Nat
        BY <1>1
      <4> HIDE DEF cut
      <4> QED
        BY <3>1, <4>1 DEF Entries
    <3>7. Cardinality(kept) < MaxPerHour /\ Cardinality(kept) \in Nat
      BY <1>1, <1>4, <1>5 DEF Capped
    <3> HIDE DEF Now, cut, kept
    <3>8. Cardinality(Now) < MaxPerHour
      BY <1>1, <3>3, <3>4, <3>5, <3>6, <3>7
    <3> QED
      BY <3>8 DEF Now
  <2> QED
    BY <1>3, <2>5, <2>6
<1> QED
  BY <1>6, <1>7, <1>8 DEF RateInv

\* What has been counted stays so when runs are rewritten in place and the lists stay.
RunsStay ==
  /\ DOMAIN runs' = DOMAIN runs
  /\ \A i \in DOMAIN runs : Slotted(runs'[i]) =>
       /\ Slotted(runs[i])
       /\ runs'[i].id = runs[i].id /\ runs'[i].rule = runs[i].rule /\ runs'[i].at = runs[i].at

LEMMA StaysCounted ==
  ASSUME NEW m \in Nat, IInv(m), IInv(m)', RateInv(m), RunsStay, now <= now',
         hourly' \in [Rules -> Seq(Nat)],
         \A r \in Rules, t \in Nat :
           Cardinality(Entries(hourly[r], t)) <= Cardinality(Entries(hourly'[r], t))
  PROVE  RateInv(m)'
<1>1. \A i \in DOMAIN runs : i + 0 = i
  <2>1. DOMAIN runs = 1..Len(runs)
    BY DEF IInv, Calm, Ring
  <2> QED
    BY <2>1
<1>2. 0 \in Nat
  OBVIOUS
<1>3. \A i \in DOMAIN runs' : Slotted(runs'[i]) =>
        /\ i + 0 \in DOMAIN runs /\ Slotted(runs[i + 0])
        /\ runs'[i].id = runs[i + 0].id /\ runs'[i].rule = runs[i + 0].rule
        /\ runs'[i].at = runs[i + 0].at
  BY <1>1 DEF RunsStay
<1> QED
  BY <1>2, <1>3, NothingTaken

\* The clock and all that leaves runs and lists alone.
LEMMA LeftAlone ==
  ASSUME NEW m \in Nat, IInv(m), IInv(m)', RateInv(m), RunsStay, now <= now', hourly' = hourly
  PROVE  RateInv(m)'
<1>1. \A r \in Rules, t \in Nat : Cardinality(Entries(hourly[r], t)) \in Nat
  BY SetsFinite DEF RateInv
<1>2. \A r \in Rules, t \in Nat :
        Cardinality(Entries(hourly[r], t)) <= Cardinality(Entries(hourly'[r], t))
  BY <1>1
<1>3. hourly' \in [Rules -> Seq(Nat)]
  BY DEF RateInv
<1> QED
  BY <1>2, <1>3, StaysCounted

\* A run that has taken a slot, or still has, is rewritten.
LEMMA RewriteStays ==
  ASSUME NEW m \in Nat, IInv(m), NEW id \in Ids, Found(id), NEW run, runs' = [runs EXCEPT ![At(id)] = run],
         Slotted(run) => Slotted(runs[At(id)]),
         run.id = runs[At(id)].id, run.rule = runs[At(id)].rule, run.at = runs[At(id)].at
  PROVE  RunsStay
<1> DEFINE p == At(id)
<1>1. p \in DOMAIN runs
  BY AtFound
<1>2. DOMAIN runs' = DOMAIN runs /\ \A i \in DOMAIN runs : runs'[i] = IF i = p THEN run ELSE runs[i]
  BY <1>1
<1>3. \A i \in DOMAIN runs : i # p => runs'[i] = runs[i]
  BY <1>2
<1>4. runs'[p] = run
  BY <1>1, <1>2
<1> HIDE DEF p
<1>5. /\ Slotted(run) => Slotted(runs[p])
      /\ run.id = runs[p].id /\ run.rule = runs[p].rule /\ run.at = runs[p].at
  BY DEF p
<1> QED
  BY <1>2, <1>3, <1>4, <1>5 DEF RunsStay

\* evaluateRule.
LEMMA FiredCounts ==
  ASSUME NEW m \in Nat, IInv(m), IInv(m)', RateInv(m), NEW r \in Rules, NEW h \in Hosts, NEW plan \in Plans(r),
         EvaluateRule(r, h, plan)
  PROVE  RateInv(m)'
<1> DEFINE out == Outcome(r, h, plan)
           run == New(r, h, out)
<1>1. Record(run) /\ Reserve(r, h, out) /\ now' = now
  BY DEF EvaluateRule
<1>2. now \in Nat /\ nextID \in Nat /\ nextID + 1 \in Ids /\ hourly \in [Rules -> Seq(Nat)]
  BY <1>1, RemediationAssumption DEF IInv, Calm, Ring, Record, Ids, RateInv
<1>3. out \in Skips \cup Reserving
  BY DEF Outcome, Skips, Reserving
<1>4. run \in Run /\ run.id = nextID + 1 /\ run.at = now /\ run.rule = r /\ run.status = out
  BY <1>2, <1>3 DEF New, Run, Statuses
<1>5. Slotted(run) <=> out \in Reserving
  BY <1>3, <1>4, RemediationAssumption DEF Slotted, Skips, Reserving
<1>6. /\ hourly' = [hourly EXCEPT ![r] = IF out \in {"skipped_policy", "skipped_cooldown"} THEN @
                                         ELSE IF out \in Reserving THEN Append(Recent(r), now)
                                         ELSE Recent(r)]
      /\ out \in Reserving => ~Capped(r) /\ out \notin {"skipped_policy", "skipped_cooldown"}
  BY <1>1 DEF Reserve, Outcome, Reserving
<1>7. \A i \in DOMAIN runs : runs[i].id < run.id
  <2>1. \A i \in DOMAIN runs : runs[i].id \in Nat /\ runs[i].id <= nextID
    <3>1. \A i \in DOMAIN runs : runs[i] \in Run /\ runs[i].id <= nextID
      BY DEF IInv, Calm, Ring
    <3>2. \A other \in Run : other.id \in Ids
      BY DEF Run
    <3>3. Ids \in SUBSET Nat
      BY RemediationAssumption DEF Ids
    <3> QED
      BY <3>1, <3>2, <3>3
  <2> QED
    BY <1>2, <1>4, <2>1
<1>8. Recent(r) \in Seq(Nat)
      /\ \A t \in Nat : t + Hour >= now =>
           Cardinality(Entries(hourly[r], t)) <= Cardinality(Entries(Recent(r), t))
  BY <1>2, Pruned
<1> HIDE DEF out, run
<1>9. CASE out \in Reserving
  <2>1. hourly' = [hourly EXCEPT ![r] = Append(Recent(r), now)] /\ Slotted(run) /\ ~Capped(r)
    BY <1>5, <1>6, <1>9
  <2> QED
    BY <1>1, <1>4, <1>7, <2>1, SlotTaken
<1>10. CASE out \notin Reserving
  <2>1. /\ hourly' \in [Rules -> Seq(Nat)]
        /\ \A q \in Rules : hourly'[q] = hourly[q] \/ (q = r /\ hourly'[q] = Recent(r))
    BY <1>2, <1>6, <1>8, <1>10
  <2>2. ASSUME NEW q \in Rules, NEW t \in Nat, t + Hour >= now
        PROVE  Cardinality(Entries(hourly[q], t)) <= Cardinality(Entries(hourly'[q], t))
    <3>1. Cardinality(Entries(hourly[q], t)) \in Nat
      BY <1>2, SetsFinite
    <3>2. CASE hourly'[q] = hourly[q]
      BY <3>1, <3>2
    <3>3. CASE q = r /\ hourly'[q] = Recent(r)
      BY <1>8, <2>2, <3>3
    <3> QED
      BY <2>1, <3>2, <3>3
  <2>3. PICK d \in Nat :
          \A i \in DOMAIN runs' :
            \/ i + d \in DOMAIN runs /\ runs'[i] = runs[i + d]
            \/ i + d = Len(runs) + 1 /\ runs'[i] = run
    BY <1>1, <1>4, RecordedLast DEF IInv, Calm
  <2>4. ~Slotted(run)
    BY <1>5, <1>10
  <2>5. \A i \in DOMAIN runs' : Slotted(runs'[i]) =>
          /\ i + d \in DOMAIN runs /\ Slotted(runs[i + d])
          /\ runs'[i].id = runs[i + d].id /\ runs'[i].rule = runs[i + d].rule
          /\ runs'[i].at = runs[i + d].at
    BY <2>3, <2>4
  <2>6. now <= now'
    BY <1>1, <1>2
  <2> QED
    BY <1>1, <2>1, <2>2, <2>5, <2>6, NothingTaken
<1> QED
  BY <1>9, <1>10

\* A manual proposal takes no slot.
LEMMA ProposedCounts ==
  ASSUME NEW m \in Nat, IInv(m), IInv(m)', RateInv(m), NEW h \in Hosts, ProposeManual(h)
  PROVE  RateInv(m)'
<1> DEFINE run == New(Manual, h, "pending_approval")
<1>1. Record(run) /\ UNCHANGED <<now, hourly>>
  BY DEF ProposeManual, guards
<1>2. now \in Nat /\ nextID \in Nat /\ nextID + 1 \in Ids /\ hourly \in [Rules -> Seq(Nat)]
  BY <1>1, RemediationAssumption DEF IInv, Calm, Ring, Record, Ids, RateInv
<1>3. run \in Run /\ ~Slotted(run)
  BY <1>2 DEF New, Run, Statuses, Reserving, Slotted
<1> HIDE DEF run
<1>4. PICK d \in Nat :
        \A i \in DOMAIN runs' :
          \/ i + d \in DOMAIN runs /\ runs'[i] = runs[i + d]
          \/ i + d = Len(runs) + 1 /\ runs'[i] = run
  BY <1>1, <1>3, RecordedLast DEF IInv, Calm
<1>5. \A i \in DOMAIN runs' : Slotted(runs'[i]) =>
        /\ i + d \in DOMAIN runs /\ Slotted(runs[i + d])
        /\ runs'[i].id = runs[i + d].id /\ runs'[i].rule = runs[i + d].rule
        /\ runs'[i].at = runs[i + d].at
  BY <1>3, <1>4
<1>6. \A r \in Rules, t \in Nat : Cardinality(Entries(hourly[r], t)) \in Nat
  BY <1>2, SetsFinite
<1>7. \A r \in Rules, t \in Nat :
        t + Hour >= now' => Cardinality(Entries(hourly[r], t)) <= Cardinality(Entries(hourly'[r], t))
  BY <1>1, <1>6
<1>8. now <= now' /\ hourly' \in [Rules -> Seq(Nat)]
  BY <1>1, <1>2
<1> QED
  BY <1>5, <1>7, <1>8, NothingTaken

\* An approval adds a slot to the list without looking at the cap; the run has one.
LEMMA DecidedCounts ==
  ASSUME NEW m \in Nat, IInv(m), IInv(m)', RateInv(m), NEW id \in Ids, Approve(id) \/ ApproveGone(id) \/ Reject(id)
  PROVE  RateInv(m)'
<1> DEFINE old == runs[At(id)]
<1>1. Found(id) /\ old.status = "pending_approval" /\ now' = now
  BY DEF Approve, ApproveGone, Reject, IsPending
<1>2. /\ old \in Run /\ old.id = id /\ now \in Nat
      /\ hourly \in [Rules -> Seq(Nat)]
  BY <1>1, FoundRun DEF IInv, Calm, Ring, RateInv
<1>3. "pending_approval" \notin Skips
  BY DEF Skips
<1>4. \E run : /\ runs' = [runs EXCEPT ![At(id)] = run]
               /\ run.id = old.id /\ run.rule = old.rule /\ run.at = old.at
  <2>1. CASE Approve(id)
    <3> DEFINE run == [old EXCEPT !.status = "running", !.decided = now]
    <3>1. run.id = old.id /\ run.rule = old.rule /\ run.at = old.at
      BY <1>2 DEF Run
    <3>2. runs' = [runs EXCEPT ![At(id)] = run]
      BY <2>1 DEF Approve, Step
    <3> QED
      BY <3>1, <3>2
  <2>2. CASE ApproveGone(id)
    <3> DEFINE run == [old EXCEPT !.status = "no_playbook"]
    <3>1. run.id = old.id /\ run.rule = old.rule /\ run.at = old.at
      BY <1>2 DEF Run
    <3>2. runs' = [runs EXCEPT ![At(id)] = run]
      BY <2>2 DEF ApproveGone, Step
    <3> QED
      BY <3>1, <3>2
  <2>3. CASE Reject(id)
    <3> DEFINE run == [old EXCEPT !.status = "rejected", !.decided = now]
    <3>1. run.id = old.id /\ run.rule = old.rule /\ run.at = old.at
      BY <1>2 DEF Run
    <3>2. runs' = [runs EXCEPT ![At(id)] = run]
      BY <2>3 DEF Reject, Step
    <3> QED
      BY <3>1, <3>2
  <2> QED
    BY <2>1, <2>2, <2>3
<1>5. RunsStay
  <2>1. PICK run : /\ runs' = [runs EXCEPT ![At(id)] = run]
                   /\ run.id = old.id /\ run.rule = old.rule /\ run.at = old.at
    BY <1>4
  <2>2. Slotted(run) => Slotted(old)
    BY <1>1, <1>3, <2>1 DEF Slotted
  <2> QED
    BY <1>1, <2>1, <2>2, RewriteStays
<1>6. CASE hourly' = hourly
  BY <1>1, <1>2, <1>5, <1>6, LeftAlone
<1>7. CASE hourly' # hourly
  <2> DEFINE r == old.rule
  <2>1. r \in Rules /\ hourly' = [hourly EXCEPT ![r] = Append(@, now)]
    BY <1>2, <1>7 DEF Approve, ApproveGone, Reject, guards, Run
  <2>2. hourly' \in [Rules -> Seq(Nat)]
    BY <1>2, <2>1
  <2>3. ASSUME NEW q \in Rules, NEW t \in Nat
        PROVE  Cardinality(Entries(hourly[q], t)) <= Cardinality(Entries(hourly'[q], t))
    <3>1. hourly'[q] = hourly[q] \/ hourly'[q] = Append(hourly[q], now)
      BY <1>2, <2>1
    <3>2. \A s \in Seq(Nat) : Entries(s, t) \in SUBSET Entries(Append(s, now), t)
      BY <1>2 DEF Entries
    <3>3. Entries(hourly[q], t) \in SUBSET Entries(hourly'[q], t)
      BY <1>2, <3>1, <3>2
    <3>4. IsFiniteSet(Entries(hourly'[q], t))
      BY <2>2, SetsFinite
    <3> QED
      BY <3>3, <3>4, FS_Subset
  <2>4. now <= now'
    BY <1>1, <1>2
  <2> QED
    BY <1>5, <2>2, <2>3, <2>4, StaysCounted
<1> QED
  BY <1>6, <1>7

\* The goroutine of a run: what it rewrites is under way, and stays of its rule.
LEMMA WorkCounts ==
  ASSUME NEW m \in Nat, IInv(m), IInv(m)', RateInv(m), NEW id \in Ids, Work(id)
  PROVE  RateInv(m)'
<1>1. now' = now /\ hourly' = hourly /\ now \in Nat
  BY DEF IInv, Calm, Ring, Work, Launch, HostGone, Done, Finish, Persist, Rollback, RolledBack,
         ScheduleVerify, Look, Conclude, guards
<1>2. UNCHANGED runs \/ (Found(id) /\ worker[id].stage \in Live)
  BY DEF Work, Launch, HostGone, Done, Finish, Persist, Rollback, RolledBack,
         ScheduleVerify, Look, Conclude, AwaitsVerdict, Live, Stages
<1>3. CASE UNCHANGED runs
  <2>1. RunsStay
    BY <1>3 DEF RunsStay
  <2> QED
    BY <1>1, <2>1, LeftAlone
<1>4. CASE runs' # runs
  <2> DEFINE old == runs[At(id)]
  <2>1. old \in Run /\ Found(id) /\ old.status \in Active
    BY <1>2, <1>4, FoundRun
  <2>2. old.status \notin Skips
    BY <2>1 DEF Active, Skips
  <2>3. \E run : /\ runs' = [runs EXCEPT ![At(id)] = run]
                 /\ run.id = old.id /\ run.rule = old.rule /\ run.at = old.at
    <3>1. \E v : \E f \in {"status", "verify"} : runs' = [runs EXCEPT ![At(id)] = [old EXCEPT ![f] = v]]
      BY <1>4 DEF Work, Launch, HostGone, Done, Finish, Persist, Rollback, RolledBack,
                  ScheduleVerify, Look, Conclude, Step
    <3>2. PICK v : \E f \in {"status", "verify"} : runs' = [runs EXCEPT ![At(id)] = [old EXCEPT ![f] = v]]
      BY <3>1
    <3>3. \A f \in {"status", "verify"}, g \in {"id", "rule", "at"} : [old EXCEPT ![f] = v][g] = old[g]
      BY <2>1 DEF Run
    <3> QED
      BY <3>2, <3>3
  <2>4. PICK run : /\ runs' = [runs EXCEPT ![At(id)] = run]
                   /\ run.id = old.id /\ run.rule = old.rule /\ run.at = old.at
    BY <2>3
  <2>5. Slotted(run) => Slotted(old)
    BY <2>2, <2>4 DEF Slotted
  <2>6. RunsStay
    BY <2>1, <2>4, <2>5, RewriteStays
  <2> QED
    BY <1>1, <2>6, LeftAlone
<1> QED
  BY <1>3, <1>4

LEMMA NextRate ==
  ASSUME NEW m \in Nat, IInv(m), IInv(m)', RateInv(m), [Next]_vars, restarts' = restarts
  PROVE  RateInv(m)'
<1>0. restarts \in Nat /\ now \in Nat
  BY DEF IInv, Calm, Ring, Started
<1>1. CASE Fire
  BY <1>1, FiredCounts DEF Fire
<1>2. CASE Propose
  BY <1>2, ProposedCounts DEF Propose
<1>3. CASE Decide
  BY <1>3, DecidedCounts DEF Decide
<1>4. CASE \E id \in Ids : Work(id)
  BY <1>4, WorkCounts
<1>5. CASE Restart
  BY <1>0, <1>5 DEF Restart
<1>6. CASE UNCHANGED <<runs, hourly>> /\ (now' = now \/ now' = now + 1)
  <2>1. RunsStay /\ now <= now'
    BY <1>0, <1>6 DEF RunsStay
  <2> QED
    BY <1>6, <2>1, LeftAlone
<1>7. CASE \E run \in unwritten : WriteInitial(run)
  BY <1>6, <1>7 DEF WriteInitial, memory, guards
<1>8. CASE FlushRuns \/ FlushGuards \/ Tick \/ UNCHANGED vars
  BY <1>6, <1>8 DEF FlushRuns, FlushGuards, Tick, vars, memory, guards
<1> QED
  BY <1>1, <1>2, <1>3, <1>4, <1>5, <1>7, <1>8 DEF Next

-----------------------------------------------------------------------------
(* The history, through restarts: every copy of a run tells the same story. *)

Alike(a, b) == a.id = b.id /\ a.rule = b.rule /\ a.host = b.host /\ a.at = b.at

\* Where copies of runs are: the ring, the hands of goroutines, the writes that have not
\* begun, the table and the blob of the last flush.
InHand == {worker[id].row : id \in {i \in Ids : worker[i].stage # "idle"}}
Blob == UNION {{list[i] : i \in DOMAIN list} : list \in kvRuns}
Copies ==
  {runs[i] : i \in DOMAIN runs} \cup InHand \cup unwritten
    \cup {stored[id] : id \in DOMAIN stored} \cup Blob

\* The table is indexed by the ids of its runs, and so are the goroutines.
Filed ==
  /\ runs \in Seq(Run)
  /\ DOMAIN worker = Ids
  /\ \A id \in Ids : worker[id].stage # "idle" => worker[id].row \in Run /\ worker[id].row.id = id
  /\ DOMAIN stored \subseteq Ids
  /\ \A id \in DOMAIN stored : stored[id] \in Run /\ stored[id].id = id
  /\ unwritten \cup Blob \subseteq Run

\* Copies with one id are of one run, and the next id has none.
HistoryInv ==
  /\ now \in Nat /\ nextID \in Nat
  /\ Filed
  /\ \A c \in Copies : c.id <= nextID
  /\ \A c, d \in Copies : c.id = d.id => Alike(c, d)

Kept ==
  \A id \in DOMAIN stored :
    /\ id \in DOMAIN stored'
    /\ \A f \in {"rule", "host", "at"} : stored'[id][f] = stored[id][f]

LEMMA CopiesAreRuns == Filed => Copies \subseteq Run
<1> SUFFICES ASSUME Filed, NEW c \in Copies PROVE c \in Run
  OBVIOUS
<1>1. ASSUME NEW i \in DOMAIN runs PROVE runs[i] \in Run
  BY <1>1 DEF Filed
<1> QED
  BY <1>1 DEF Filed, Copies, InHand

\* A step after which every copy is of a run that had one before, or of the one run
\* that it records.
LEMMA Descends ==
  ASSUME HistoryInv, Filed', now' \in Nat, nextID' \in Nat, DOMAIN stored \subseteq DOMAIN stored',
         \A c \in Copies' : c.id <= nextID', NEW new,
         \A c \in Copies' : \/ \E d \in Copies : Alike(c, d)
                            \/ c = new /\ nextID < c.id
  PROVE  HistoryInv' /\ Kept
<1>1. nextID \in Nat /\ Filed /\ (\A c \in Copies : c.id <= nextID)
  BY DEF HistoryInv
<1>2. \A c, d \in Copies : c.id = d.id => Alike(c, d)
  BY DEF HistoryInv
<1>3. \A c \in Copies : c.id \in Nat
  <2>1. \A run \in Run : run.id \in Ids
    BY DEF Run
  <2>2. Ids \subseteq Nat
    BY RemediationAssumption DEF Ids
  <2> QED
    BY <1>1, <2>1, <2>2, CopiesAreRuns
<1>4. \A c \in Copies' : nextID < c.id => c = new
  <2> SUFFICES ASSUME NEW c \in Copies', nextID < c.id, NEW d \in Copies, c.id = d.id
               PROVE  FALSE
    BY DEF Alike
  <2>1. d.id \in Nat /\ d.id <= nextID
    BY <1>1, <1>3
  <2> QED
    BY <1>1, <2>1
<1>5. \A c \in Copies' : ~(nextID < c.id) => \E d \in Copies : Alike(c, d)
  OBVIOUS
<1>6. \A c, d \in Copies' : c.id = d.id => Alike(c, d)
  <2> SUFFICES ASSUME NEW c \in Copies', NEW d \in Copies', c.id = d.id PROVE Alike(c, d)
    OBVIOUS
  <2>1. CASE nextID < c.id
    <3>1. c = new /\ d = new
      BY <1>4, <2>1
    <3> QED
      BY <3>1 DEF Alike
  <2>2. CASE ~(nextID < c.id)
    <3>1. PICK a \in Copies : Alike(c, a)
      BY <1>5, <2>2
    <3>2. PICK b \in Copies : Alike(d, b)
      BY <1>5, <2>2
    <3>3. a.id = b.id
      BY <3>1, <3>2 DEF Alike
    <3>4. Alike(a, b)
      BY <1>2, <3>3
    <3> QED
      BY <3>1, <3>2, <3>4 DEF Alike
  <2> QED
    BY <2>1, <2>2
<1>7. Kept
  <2> SUFFICES ASSUME NEW id \in DOMAIN stored
               PROVE  /\ id \in DOMAIN stored'
                      /\ \A f \in {"rule", "host", "at"} : stored'[id][f] = stored[id][f]
    BY DEF Kept
  <2>1. id \in DOMAIN stored' /\ stored'[id] \in Copies' /\ stored'[id].id = id
    BY DEF Filed, Copies
  <2>2. stored[id] \in Copies /\ stored[id].id = id
    BY <1>1 DEF Filed, Copies
  <2>3. ~(nextID < stored'[id].id)
    <3>1. id \in Nat /\ id <= nextID
      BY <1>1, <1>3, <2>2
    <3> QED
      BY <1>1, <2>1, <3>1
  <2>4. PICK d \in Copies : Alike(stored'[id], d)
    BY <1>5, <2>1, <2>3
  <2>5. stored[id].id = d.id
    BY <2>1, <2>2, <2>4 DEF Alike
  <2>6. Alike(stored[id], d)
    BY <1>2, <2>2, <2>5
  <2> QED
    BY <2>1, <2>4, <2>6 DEF Alike
<1> QED
  BY <1>6, <1>7 DEF HistoryInv

\* A row is written over with a copy of its own run, or written for the first time.
LEMMA RowPut ==
  ASSUME Filed, NEW row \in Run, stored' = Put(stored, row.id, row)
  PROVE  /\ DOMAIN stored \subseteq DOMAIN stored' /\ DOMAIN stored' \subseteq Ids
         /\ \A id \in DOMAIN stored' : stored'[id] \in Run /\ stored'[id].id = id
         /\ \A id \in DOMAIN stored' : stored'[id] # row =>
              id \in DOMAIN stored /\ stored'[id] = stored[id]
<1>1. row.id \in Ids
  BY DEF Run
<1> QED
  BY <1>1 DEF Put, Filed

\* Where the copies are after a step that records no run.
LEMMA Moves ==
  ASSUME HistoryInv, UNCHANGED <<nextID, kvRuns>>, now' \in Nat, runs' \in Seq(Run),
         \A i \in DOMAIN runs' : \E d \in Copies : Alike(runs'[i], d),
         DOMAIN worker' = Ids,
         \A id \in Ids : worker'[id].stage # "idle" =>
           /\ worker'[id].row \in Run /\ worker'[id].row.id = id
           /\ \E d \in Copies : Alike(worker'[id].row, d),
         unwritten' \subseteq unwritten,
         \/ stored' = stored
         \/ \E row \in Copies : stored' = Put(stored, row.id, row)
  PROVE  HistoryInv' /\ Kept
<1>0. MaxID \in Nat
  BY RemediationAssumption
<1> DEFINE RowsFine == /\ DOMAIN stored \subseteq DOMAIN stored' /\ DOMAIN stored' \subseteq Ids
                       /\ \A id \in DOMAIN stored' :
                            stored'[id] \in Run /\ stored'[id].id = id /\ stored'[id] \in Copies
<1>1. RowsFine
  <2>1. CASE stored' = stored
    BY <2>1 DEF HistoryInv, Filed, Copies
  <2>2. ASSUME NEW row \in Copies, stored' = Put(stored, row.id, row)
        PROVE  RowsFine
    <3>1. row \in Run
      BY CopiesAreRuns DEF HistoryInv
    <3> QED
      BY <2>2, <3>1, RowPut DEF HistoryInv, Copies
  <2> QED
    BY <2>1, <2>2
<1>2. Blob' = Blob
  BY DEF Blob
<1>3. Filed'
  BY <1>1, <1>2 DEF HistoryInv, Filed
<1>4. ASSUME NEW c \in Copies' PROVE \E d \in Copies : Alike(c, d)
  <2>1. CASE c \in Copies
    BY <2>1 DEF Alike
  <2>2. CASE c \notin Copies
    <3>1. c \in unwritten' \cup Blob' => c \in Copies
      BY <1>2 DEF Copies
    <3>2. c \in {runs'[i] : i \in DOMAIN runs'} \cup InHand'
      BY <1>1, <2>2, <3>1 DEF Copies
    <3> QED
      BY <3>2 DEF InHand
  <2> QED
    BY <2>1, <2>2
<1>5. \A c \in Copies' : c.id <= nextID'
  BY <1>4 DEF HistoryInv, Alike
<1> QED
  BY <1>1, <1>3, <1>4, <1>5, Descends DEF HistoryInv

\* A run in the ring is replaced by a later version of itself.
LEMMA Replaced ==
  ASSUME runs \in Seq(Run), NEW p \in DOMAIN runs, NEW run \in Run, Alike(run, runs[p]),
         runs' = [runs EXCEPT ![p] = run]
  PROVE  /\ runs' \in Seq(Run)
         /\ \A i \in DOMAIN runs' : \E j \in DOMAIN runs : Alike(runs'[i], runs[j])
<1>1. /\ runs' \in Seq(Run) /\ Len(runs') = Len(runs)
      /\ \A i \in 1..Len(runs) : runs'[i] = IF i = p THEN run ELSE runs[i]
  <2>1. p \in 1..Len(runs)
    OBVIOUS
  <2>2. [runs EXCEPT ![p] = run] \in Seq(Run)
    BY <2>1, ExceptSeq
  <2>3. /\ Len([runs EXCEPT ![p] = run]) = Len(runs)
        /\ \A i \in 1..Len(runs) : [runs EXCEPT ![p] = run][i] = IF i = p THEN run ELSE runs[i]
    BY <2>1, ExceptSeq
  <2> QED
    BY <2>2, <2>3
<1>2. DOMAIN runs' = DOMAIN runs /\ DOMAIN runs = 1..Len(runs)
  BY <1>1
<1>3. \A i \in DOMAIN runs' : runs'[i] = run \/ runs'[i] = runs[i]
  BY <1>1, <1>2
<1> QED
  BY <1>1, <1>2, <1>3 DEF Alike

\* A critical section that rewrites a run and leaves a copy, and one without a copy.
LEMMA StepMoves ==
  ASSUME HistoryInv, NEW id \in Ids, Found(id), NEW run \in Run, NEW stage,
         Alike(run, runs[At(id)]), Step(id, stage, run),
         UNCHANGED <<now, nextID, unwritten, stored, kvRuns>>
  PROVE  HistoryInv' /\ Kept
<1>1. At(id) \in DOMAIN runs /\ runs[At(id)].id = id
  BY AtFound
<1>2. runs[At(id)] \in Copies
  BY <1>1 DEF Copies
<1>3. /\ runs' \in Seq(Run)
      /\ \A i \in DOMAIN runs' : \E j \in DOMAIN runs : Alike(runs'[i], runs[j])
  BY <1>1, Replaced DEF Step, HistoryInv, Filed
<1>4. /\ DOMAIN worker' = Ids /\ worker'[id].row = run
      /\ \A other \in Ids \ {id} : worker'[other] = worker[other]
  BY DEF Step, HistoryInv, Filed
<1>5. \A i \in DOMAIN runs' : \E d \in Copies : Alike(runs'[i], d)
  BY <1>3 DEF Copies
<1>6. \A other \in Ids : worker'[other].stage # "idle" =>
        /\ worker'[other].row \in Run /\ worker'[other].row.id = other
        /\ \E d \in Copies : Alike(worker'[other].row, d)
  <2> SUFFICES ASSUME NEW other \in Ids, worker'[other].stage # "idle"
               PROVE  /\ worker'[other].row \in Run /\ worker'[other].row.id = other
                      /\ \E d \in Copies : Alike(worker'[other].row, d)
    OBVIOUS
  <2>1. CASE other = id
    BY <1>1, <1>2, <1>4, <2>1 DEF Alike
  <2>2. CASE other # id
    <3>1. worker[other].row \in Run /\ worker[other].row.id = other /\ worker[other].row \in Copies
      BY <1>4, <2>2 DEF HistoryInv, Filed, Copies, InHand
    <3> QED
      BY <1>4, <2>2, <3>1 DEF Alike
  <2> QED
    BY <2>1, <2>2
<1>7. now' \in Nat
  BY DEF HistoryInv
<1> QED
  BY <1>3, <1>4, <1>5, <1>6, <1>7, Moves

\* A goroutine that only goes on keeps the copy it has, or drops it.
LEMMA GotoMoves ==
  ASSUME HistoryInv, NEW id \in Ids, NEW stage, worker[id].stage # "idle", Goto(id, stage),
         UNCHANGED <<now, nextID, unwritten, kvRuns>>, runs' \in Seq(Run),
         \A i \in DOMAIN runs' : \E d \in Copies : Alike(runs'[i], d),
         \/ stored' = stored
         \/ stored' = Put(stored, id, worker[id].row)
  PROVE  HistoryInv' /\ Kept
<1>1. worker[id].row \in Run /\ worker[id].row.id = id /\ worker[id].row \in Copies
  BY DEF HistoryInv, Filed, Copies, InHand
<1>2. DOMAIN worker' = Ids /\ \A other \in Ids \ {id} : worker'[other] = worker[other]
  BY DEF HistoryInv, Filed, Goto
<1>3. worker'[id].stage = "idle" \/ worker'[id].row = worker[id].row
  BY DEF HistoryInv, Filed, Goto, Idle
<1>4. \A other \in Ids : worker'[other].stage # "idle" =>
        /\ worker'[other].row \in Run /\ worker'[other].row.id = other
        /\ \E d \in Copies : Alike(worker'[other].row, d)
  <2> SUFFICES ASSUME NEW other \in Ids, worker'[other].stage # "idle"
               PROVE  /\ worker'[other].row \in Run /\ worker'[other].row.id = other
                      /\ \E d \in Copies : Alike(worker'[other].row, d)
    OBVIOUS
  <2>1. CASE other = id
    BY <1>1, <1>3, <2>1 DEF Alike
  <2>2. CASE other # id
    <3>1. worker[other].row \in Run /\ worker[other].row.id = other /\ worker[other].row \in Copies
      BY <1>2, <2>2 DEF HistoryInv, Filed, Copies, InHand
    <3> QED
      BY <1>2, <2>2, <3>1 DEF Alike
  <2> QED
    BY <2>1, <2>2
<1>5. stored' = stored \/ \E row \in Copies : stored' = Put(stored, row.id, row)
  BY <1>1
<1>6. now' \in Nat /\ unwritten' \subseteq unwritten
  BY DEF HistoryInv
<1> QED
  BY <1>2, <1>4, <1>5, <1>6, Moves

\* The ring as it is.
LEMMA SameRing ==
  ASSUME HistoryInv, runs' = runs
  PROVE  runs' \in Seq(Run) /\ \A i \in DOMAIN runs' : \E d \in Copies : Alike(runs'[i], d)
BY DEF HistoryInv, Filed, Copies, Alike

\* A new run has the next id, which no copy has.
LEMMA RecordKeeps ==
  ASSUME HistoryInv, NEW run \in Run, run.id = nextID + 1, Record(run),
         UNCHANGED <<now, kvRuns>>, unwritten' \subseteq unwritten \cup {run},
         worker' = worker \/ \E stage : worker' = [worker EXCEPT ![run.id] = [stage |-> stage, row |-> run]],
         stored' = stored \/ stored' = Put(stored, run.id, run)
  PROVE  HistoryInv' /\ Kept
<1>0. run.id \in Ids /\ MaxID \in Nat /\ nextID \in Nat /\ nextID' = nextID + 1 /\ nextID < run.id
  <2>1. run.id \in Ids
    BY DEF Run
  <2>2. MaxID \in Nat /\ nextID \in Nat /\ nextID' = nextID + 1
    BY RemediationAssumption DEF Record, HistoryInv
  <2> QED
    BY <2>1, <2>2
<1>1. runs \in Seq(Run) /\ Append(runs, run) \in Seq(Run) /\ runs' = LastRuns(Append(runs, run))
  BY DEF HistoryInv, Filed, Record
<1>2. \A i \in DOMAIN Append(runs, run) : Append(runs, run)[i] \in {runs[j] : j \in DOMAIN runs} \cup {run}
  BY <1>1
<1>3. runs' \in Seq(Run) /\ \A i \in DOMAIN runs' : runs'[i] \in Copies \cup {run}
  <2> DEFINE s == Append(runs, run)
  <2>1. s \in Seq(Run) /\ runs' = LastRuns(s)
    BY <1>1
  <2>2. \A i \in DOMAIN s : s[i] \in Copies \cup {run}
    BY <1>2 DEF Copies
  <2> HIDE DEF s
  <2>3. PICK d \in Nat : \A i \in DOMAIN LastRuns(s) : i + d \in DOMAIN s /\ LastRuns(s)[i] = s[i + d]
    BY <2>1, LastElements
  <2>4. LastRuns(s) \in Seq(Run)
    BY <2>1, LastElements
  <2> QED
    BY <2>1, <2>2, <2>3, <2>4
<1>4. /\ DOMAIN worker' = Ids
      /\ \A id \in Ids : worker'[id] # worker[id] => id = run.id /\ worker'[id].row = run
  <2>1. DOMAIN worker = Ids
    BY DEF HistoryInv, Filed
  <2>2. CASE worker' = worker
    BY <2>1, <2>2
  <2>3. ASSUME NEW stage, worker' = [worker EXCEPT ![run.id] = [stage |-> stage, row |-> run]]
        PROVE  /\ DOMAIN worker' = Ids /\ worker'[run.id].row = run
               /\ \A id \in Ids \ {run.id} : worker'[id] = worker[id]
    BY <1>0, <2>1, <2>3
  <2> QED
    BY <2>2, <2>3
<1>5. \A id \in Ids : worker'[id].stage # "idle" =>
        /\ worker'[id].row \in Run /\ worker'[id].row.id = id
        /\ worker'[id].row \in Copies \cup {run}
  BY <1>4 DEF HistoryInv, Filed, Copies, InHand
<1>6. /\ DOMAIN stored \subseteq DOMAIN stored' /\ DOMAIN stored' \subseteq Ids
      /\ \A id \in DOMAIN stored' : /\ stored'[id] \in Run /\ stored'[id].id = id
                                    /\ stored'[id] \in Copies \cup {run}
  <2>1. CASE stored' = stored
    BY <2>1 DEF HistoryInv, Filed, Copies
  <2>2. CASE stored' = Put(stored, run.id, run)
    BY <2>2, RowPut DEF HistoryInv, Copies
  <2> QED
    BY <2>1, <2>2
<1>7. Blob' = Blob
  BY DEF Blob
<1>8. Filed'
  BY <1>3, <1>4, <1>5, <1>6, <1>7 DEF HistoryInv, Filed
<1>9. \A c \in Copies' : c \in Copies \cup {run}
  <2>1. Copies' = {runs'[i] : i \in DOMAIN runs'} \cup InHand' \cup unwritten'
                    \cup {stored'[id] : id \in DOMAIN stored'} \cup Blob'
    BY DEF Copies
  <2>2. InHand' \subseteq Copies \cup {run}
    BY <1>5 DEF InHand
  <2>3. unwritten' \cup Blob' \subseteq Copies \cup {run}
    BY <1>7 DEF Copies
  <2> QED
    BY <1>3, <1>6, <2>1, <2>2, <2>3
<1>10. \A c \in Copies : c.id <= nextID /\ c.id \in Nat
  <2>1. \A c \in Run : c.id \in Nat
    <3>1. \A c \in Run : c.id \in 1..MaxID
      BY DEF Run, Ids
    <3> QED
      BY <1>0, <3>1
  <2>2. Copies \subseteq Run
    BY CopiesAreRuns DEF HistoryInv
  <2> QED
    BY <2>1, <2>2 DEF HistoryInv
<1>11. \A c \in Copies' : c.id <= nextID'
  BY <1>0, <1>9, <1>10
<1>12. \A c \in Copies' : (\E d \in Copies : Alike(c, d)) \/ (c = run /\ nextID < c.id)
  BY <1>0, <1>9 DEF Alike
<1>13. now' \in Nat /\ nextID' \in Nat
  BY <1>0 DEF HistoryInv
<1> QED
  BY <1>6, <1>8, <1>11, <1>12, <1>13, Descends

\* The elements of a finite set of numbers, by how many are not below them.
LEMMA RanksDown ==
  ASSUME NEW S \in SUBSET Nat, IsFiniteSet(S), NEW k \in 1..Cardinality(S)
  PROVE  \E i \in S : Cardinality({j \in S : j >= i}) = k
<1> DEFINE n == Cardinality(S)
           rank == [i \in S |-> Cardinality({j \in S : j <= i})]
<1>1. n \in Nat
  BY FS_CardinalityType
<1>2. rank \in Bijection(S, 1..n)
  BY Ranks
<1>3. n - k + 1 \in 1..n
  BY <1>1
<1>4. PICK i \in S : rank[i] = n - k + 1
  <2> HIDE DEF rank, n
  <2> QED
    BY <1>2, <1>3 DEF Bijection, Surjection
<1> DEFINE Below == {j \in S : j <= i} \ {i}
<1>5. Cardinality({j \in S : j <= i}) = n - k + 1
  BY <1>4
<1>6. {j \in S : j >= i} = S \ Below
  <2>1. \A j \in S : j >= i <=> ~(j <= i /\ j # i)
    OBVIOUS
  <2> QED
    BY <2>1
<1>7. IsFiniteSet({j \in S : j <= i}) /\ {j \in S : j <= i} \in SUBSET S
  BY FS_Subset
<1>8. Cardinality(Below) = n - k
  <2>1. i \in {j \in S : j <= i}
    OBVIOUS
  <2>2. Cardinality(Below) = Cardinality({j \in S : j <= i}) - 1
    BY <1>7, <2>1, FS_RemoveElement
  <2> HIDE DEF n, Below
  <2> QED
    BY <1>1, <1>5, <2>2
<1>9. S \cap Below = Below
  OBVIOUS
<1>10. Cardinality(S \ Below) = n - Cardinality(Below)
  <2>1. Cardinality(S \ Below) = Cardinality(S) - Cardinality(S \cap Below)
    BY FS_Difference
  <2> QED
    BY <1>9, <2>1
<1> HIDE DEF n, Below
<1>11. Cardinality({j \in S : j >= i}) = k
  BY <1>1, <1>6, <1>8, <1>10
<1> QED
  BY <1>11

\* The rows are listed whole, the newest first.
LEMMA Listed ==
  ASSUME NEW rows, DOMAIN rows \subseteq Ids,
         \A id \in DOMAIN rows : rows[id] \in Run /\ rows[id].id = id
  PROVE  /\ NewestFirst(rows) \in Seq(Run)
         /\ \A i \in DOMAIN NewestFirst(rows) : \E id \in DOMAIN rows : NewestFirst(rows)[i] = rows[id]
         /\ \A i, j \in DOMAIN NewestFirst(rows) :
              NewestFirst(rows)[i].id = NewestFirst(rows)[j].id => i = j
         /\ DOMAIN rows # {} => /\ NewestFirst(rows) # <<>>
                                /\ NewestFirst(rows)[1].id \in DOMAIN rows
                                /\ \A id \in DOMAIN rows : id <= NewestFirst(rows)[1].id
         /\ DOMAIN rows = {} => NewestFirst(rows) = <<>>
<1> DEFINE D == DOMAIN rows
           n == Cardinality(D)
           From(id) == {other \in D : other >= id}
           Nth(k) == CHOOSE id \in D : Cardinality(From(id)) = k
           list == NewestFirst(rows)
<1>1. D \in SUBSET Nat /\ IsFiniteSet(D) /\ n \in Nat
  <2>1. MaxID \in Nat
    BY RemediationAssumption
  <2>2. D \in SUBSET (1..MaxID) /\ IsFiniteSet(1..MaxID)
    BY <2>1, FS_Interval DEF Ids
  <2>3. IsFiniteSet(D) /\ n \in Nat
    BY <2>2, FS_Subset, FS_CardinalityType
  <2> QED
    BY <2>1, <2>2, <2>3
<1>2. list = [k \in 1..n |-> rows[Nth(k)]]
  BY DEF NewestFirst
<1>3. ASSUME NEW k \in 1..n PROVE Nth(k) \in D /\ Cardinality(From(Nth(k))) = k
  <2>1. \E id \in D : Cardinality(From(id)) = k
    BY <1>1, RanksDown
  <2> HIDE DEF From, D
  <2> QED
    BY <2>1
<1> HIDE DEF Nth, list, n
<1>4. list \in Seq(Run) /\ Len(list) = n /\ DOMAIN list = 1..n
  <2>1. \A k \in 1..n : rows[Nth(k)] \in Run
    BY <1>3
  <2> QED
    BY <1>1, <1>2, <2>1, IsASeq, LenProperties
<1>5. ASSUME D # {}
      PROVE  /\ list # <<>> /\ list[1].id \in D
             /\ \A id \in D : id <= list[1].id
  <2>1. n # 0
    BY <1>1, <1>5, FS_EmptySet DEF n
  <2>2. 1 \in 1..n
    BY <1>1, <2>1
  <2> DEFINE top == Nth(1)
  <2>3. top \in D /\ Cardinality(From(top)) = 1
    BY <1>3, <2>2
  <2>4. list[1] = rows[top] /\ rows[top].id = top
    BY <1>2, <2>2, <2>3
  <2>5. IsFiniteSet(From(top)) /\ top \in From(top)
    BY <1>1, <2>3, FS_Subset
  <2> HIDE DEF top
  <2>6. From(top) = {top}
    <3> HIDE DEF From
    <3> QED
      BY <2>3, <2>5, FS_Singleton
  <2>7. \A id \in D : id <= top
    <3>1. \A id \in D : id >= top => id = top
      BY <2>6
    <3> QED
      BY <1>1, <2>3, <3>1
  <2>8. list # <<>>
    BY <1>1, <1>4, <2>2
  <2> QED
    BY <2>3, <2>4, <2>7, <2>8
<1>6. ASSUME D = {} PROVE list = <<>>
  <2>1. n = 0
    BY <1>6, FS_EmptySet DEF n
  <2> QED
    BY <1>4, <2>1
<1>7. \A i \in DOMAIN list : \E id \in D : list[i] = rows[id]
  BY <1>2, <1>3, <1>4
<1>8. \A i, j \in DOMAIN list : list[i].id = list[j].id => i = j
  <2>1. \A i \in DOMAIN list : list[i].id = Nth(i)
    BY <1>2, <1>3, <1>4
  <2>2. \A i \in DOMAIN list : Cardinality(From(Nth(i))) = i
    BY <1>3, <1>4
  <2> HIDE DEF From
  <2> QED
    BY <2>1, <2>2
<1> QED
  BY <1>4, <1>5, <1>6, <1>7, <1>8 DEF list

\* The table and the blob together: each run under its id.
LEMMA RowsFiled ==
  ASSUME HistoryInv
  PROVE  /\ DOMAIN stored \subseteq DOMAIN Rows /\ DOMAIN Rows \subseteq Ids
         /\ \A id \in DOMAIN Rows : Rows[id] \in Run /\ Rows[id].id = id /\ Rows[id] \in Copies
         /\ \A run \in Blob : run.id \in DOMAIN Rows
<1> DEFINE ids == {run.id : run \in Blob}
<1>1. Copies \subseteq Run /\ Blob \subseteq Copies /\ DOMAIN stored \subseteq Ids
  BY CopiesAreRuns DEF HistoryInv, Copies, Filed
<1>2. Rows = [id \in DOMAIN stored \cup ids |->
                IF id \in ids THEN CHOOSE run \in Blob : run.id = id ELSE stored[id]]
  BY DEF Rows, Blob
<1>3. ids \subseteq Ids
  BY <1>1 DEF Run
<1>4. ASSUME NEW id \in ids PROVE Rows[id] \in Blob /\ Rows[id].id = id
  BY <1>2, <1>4
<1>5. \A id \in DOMAIN stored \ ids : Rows[id] = stored[id]
  BY <1>2
<1>6. \A id \in DOMAIN stored : stored[id].id = id /\ stored[id] \in Copies
  BY DEF HistoryInv, Filed, Copies
<1>7. DOMAIN Rows = DOMAIN stored \cup ids
  BY <1>2
<1>8. \A run \in Blob : run.id \in ids
  OBVIOUS
<1> HIDE DEF ids
<1> QED
  BY <1>1, <1>3, <1>4, <1>5, <1>6, <1>7, <1>8

\* A restart forgets copies and makes none up; the next id is above all that it finds.
LEMMA RestartKeeps ==
  ASSUME HistoryInv, Restart
  PROVE  HistoryInv' /\ Kept
<1>0. MaxID \in Nat /\ Copies \subseteq Run /\ Blob \subseteq Run
  BY RemediationAssumption, CopiesAreRuns DEF HistoryInv, Copies
<1>2. /\ DOMAIN stored \subseteq DOMAIN Rows /\ DOMAIN Rows \subseteq Ids
      /\ \A id \in DOMAIN Rows : Rows[id] \in Run /\ Rows[id].id = id /\ Rows[id] \in Copies
      /\ \A run \in Blob : run.id \in DOMAIN Rows
  BY RowsFiled
<1>3. /\ stored' = Rows /\ runs' = NewestFirst(Rows) /\ nextID' = LastID(NewestFirst(Rows))
      /\ worker' = [id \in Ids |-> Idle] /\ unwritten' = {} /\ kvRuns' = kvRuns /\ now' = now
  BY DEF Restart
<1> DEFINE list == NewestFirst(Rows)
<1>4. /\ list \in Seq(Run)
      /\ \A i \in DOMAIN list : \E id \in DOMAIN Rows : list[i] = Rows[id]
      /\ DOMAIN Rows # {} => /\ list # <<>> /\ list[1].id \in DOMAIN Rows
                             /\ \A id \in DOMAIN Rows : id <= list[1].id
      /\ DOMAIN Rows = {} => list = <<>>
  BY <1>2, Listed
<1>5. Blob' = Blob /\ InHand' = {}
  <2>1. \A id \in Ids : worker'[id].stage = "idle"
    BY <1>3 DEF Idle
  <2> QED
    BY <1>3, <2>1 DEF Blob, InHand
<1>6. Filed'
  <2>1. \A id \in Ids : worker'[id].stage = "idle"
    BY <1>3 DEF Idle
  <2> QED
    BY <1>0, <1>2, <1>3, <1>4, <1>5, <2>1 DEF Filed
<1>7. \A c \in Copies' : c \in Copies /\ c.id \in DOMAIN Rows
  <2>1. Copies' = {runs'[i] : i \in DOMAIN runs'} \cup InHand' \cup unwritten'
                    \cup {stored'[id] : id \in DOMAIN stored'} \cup Blob'
    BY DEF Copies
  <2>2. \A c \in Blob : c \in Copies /\ c.id \in DOMAIN Rows
    BY <1>2 DEF Copies
  <2>3. \A i \in DOMAIN runs' : runs'[i] \in Copies /\ runs'[i].id \in DOMAIN Rows
    BY <1>2, <1>3, <1>4
  <2> HIDE DEF list
  <2> QED
    BY <1>2, <1>3, <1>5, <2>1, <2>2, <2>3
<1>8. nextID' \in Nat /\ \A id \in DOMAIN Rows : id <= nextID'
  <2>1. \A id \in DOMAIN Rows : id \in Nat
    BY <1>0, <1>2 DEF Ids
  <2>2. CASE DOMAIN Rows = {}
    BY <1>3, <1>4, <2>2 DEF LastID
  <2>3. CASE DOMAIN Rows # {}
    BY <1>3, <1>4, <2>1, <2>3 DEF LastID
  <2> QED
    BY <2>2, <2>3
<1>9. \A c \in Copies' : c.id <= nextID' /\ \E d \in Copies : Alike(c, d)
  BY <1>7, <1>8 DEF Alike
<1>10. now' \in Nat /\ DOMAIN stored \subseteq DOMAIN stored'
  BY <1>2, <1>3 DEF HistoryInv
<1> HIDE DEF list
<1> QED
  BY <1>6, <1>8, <1>9, <1>10, Descends

\* Versions of a run differ in status, verdict and decision only.
LEMMA Versions ==
  ASSUME HistoryInv, NEW id \in Ids, Found(id)
  PROVE  /\ \A v \in Statuses : LET run == [runs[At(id)] EXCEPT !.status = v]
                                IN  run \in Run /\ Alike(run, runs[At(id)])
         /\ \A v \in Statuses : LET run == [runs[At(id)] EXCEPT !.status = v, !.decided = now]
                                IN  run \in Run /\ Alike(run, runs[At(id)])
         /\ \A v \in {"pending", "cleared", "still_firing"} :
                                LET run == [runs[At(id)] EXCEPT !.verify = v]
                                IN  run \in Run /\ Alike(run, runs[At(id)])
<1>1. runs[At(id)] \in Run
  BY AtFound DEF HistoryInv, Filed
<1>2. now \in Nat
  BY DEF HistoryInv
<1> QED
  BY <1>1, <1>2 DEF Run, Alike

LEMMA DecisionKeeps ==
  ASSUME HistoryInv, NEW id \in Ids, Approve(id) \/ ApproveGone(id) \/ Reject(id)
  PROVE  HistoryInv' /\ Kept
<1> DEFINE old == runs[At(id)]
<1>1. Found(id) /\ UNCHANGED <<now, nextID, unwritten, stored, kvRuns>>
  BY DEF Approve, ApproveGone, Reject, IsPending, database
<1>2. {"running", "no_playbook", "rejected"} \subseteq Statuses
  BY DEF Statuses, Skips, Reserving
<1>3. \E stage, run : run \in Run /\ Alike(run, old) /\ Step(id, stage, run)
  <2>1. CASE Approve(id)
    <3> DEFINE run == [old EXCEPT !.status = "running", !.decided = now]
    <3>1. run \in Run /\ Alike(run, old)
      BY <1>1, <1>2, Versions
    <3>2. Step(id, "approved", run)
      BY <2>1 DEF Approve
    <3> QED
      BY <3>1, <3>2
  <2>2. CASE ApproveGone(id)
    <3> DEFINE run == [old EXCEPT !.status = "no_playbook"]
    <3>1. run \in Run /\ Alike(run, old)
      BY <1>1, <1>2, Versions
    <3>2. Step(id, "gone", run)
      BY <2>2 DEF ApproveGone
    <3> QED
      BY <3>1, <3>2
  <2>3. CASE Reject(id)
    <3> DEFINE run == [old EXCEPT !.status = "rejected", !.decided = now]
    <3>1. run \in Run /\ Alike(run, old)
      BY <1>1, <1>2, Versions
    <3>2. Step(id, "rejected", run)
      BY <2>3 DEF Reject
    <3> QED
      BY <3>1, <3>2
  <2> QED
    BY <2>1, <2>2, <2>3
<1> QED
  BY <1>1, <1>3, StepMoves

LEMMA WorkKeeps ==
  ASSUME HistoryInv, NEW id \in Ids, Work(id)
  PROVE  HistoryInv' /\ Kept
<1>0. worker[id].stage # "idle" /\ UNCHANGED <<now, nextID, unwritten, kvRuns>>
  BY DEF Work, Launch, HostGone, Done, Finish, Persist, Rollback, RolledBack, ScheduleVerify,
         Look, Conclude, Persisting, database
<1>1. ASSUME NEW stage, Goto(id, stage), UNCHANGED <<runs, stored>> PROVE HistoryInv' /\ Kept
  BY <1>0, <1>1, GotoMoves, SameRing
<1>2. ASSUME NEW stage, NEW v \in Statuses, Found(id),
             Step(id, stage, [runs[At(id)] EXCEPT !.status = v]), UNCHANGED stored
      PROVE  HistoryInv' /\ Kept
  <2> DEFINE run == [runs[At(id)] EXCEPT !.status = v]
  <2>1. run \in Run /\ Alike(run, runs[At(id)]) /\ Step(id, stage, run)
    BY <1>2, Versions
  <2> HIDE DEF run
  <2> QED
    BY <1>0, <1>2, <2>1, StepMoves
<1>3. ASSUME NEW stage, NEW v \in {"pending", "cleared", "still_firing"}, Found(id),
             Step(id, stage, [runs[At(id)] EXCEPT !.verify = v]), UNCHANGED stored
      PROVE  HistoryInv' /\ Kept
  <2> DEFINE run == [runs[At(id)] EXCEPT !.verify = v]
  <2>1. run \in Run /\ Alike(run, runs[At(id)]) /\ Step(id, stage, run)
    BY <1>3, Versions
  <2> HIDE DEF run
  <2> QED
    BY <1>0, <1>3, <2>1, StepMoves
<1>4. {"success", "failed", "rolling_back"} \subseteq Statuses
  BY DEF Statuses
<1>5. CASE HostGone(id) \/ \E ok \in BOOLEAN : Done(id, ok)
  <2>1. PICK ok \in BOOLEAN : Finish(id, ok)
    BY <1>5 DEF HostGone, Done
  <2>2. (IF ok THEN "success" ELSE "failed") \in Statuses
    BY <1>4
  <2> QED
    BY <1>1, <1>2, <2>1, <2>2 DEF Finish, database
<1>6. CASE Launch(id) \/ \E firing \in BOOLEAN : Look(id, firing)
  BY <1>1, <1>6 DEF Launch, Look, database
<1>7. CASE Persist(id)
  <2>1. /\ Goto(id, AfterWrite(worker[id].stage, worker[id].row)) /\ runs' = runs
        /\ stored' = stored \/ stored' = Put(stored, id, worker[id].row)
    BY <1>7 DEF Persist
  <2> QED
    BY <1>0, <2>1, GotoMoves, SameRing
<1>8. CASE RolledBack(id)
  BY <1>1, <1>2, <1>4, <1>8 DEF RolledBack, database
<1>9. CASE ScheduleVerify(id)
  BY <1>1, <1>3, <1>9 DEF ScheduleVerify, database
<1>10. CASE Conclude(id)
  BY <1>1, <1>3, <1>10 DEF Conclude, AwaitsVerdict, database
<1>11. ASSUME NEW gone \in BOOLEAN, Rollback(id, gone) PROVE HistoryInv' /\ Kept
  <2>1. Goto(id, IF gone THEN "idle" ELSE "rolling") /\ stored' = stored
    BY <1>11 DEF Rollback, database
  <2>2. CASE runs' = runs
    BY <1>1, <2>1, <2>2
  <2>3. CASE Found(id) /\ runs' = [runs EXCEPT ![At(id)].status = "rolling_back"]
    <3> DEFINE run == [runs[At(id)] EXCEPT !.status = "rolling_back"]
    <3>1. run \in Run /\ Alike(run, runs[At(id)])
      BY <1>4, <2>3, Versions
    <3>2. runs' = [runs EXCEPT ![At(id)] = run]
      BY <2>3
    <3>3. At(id) \in DOMAIN runs /\ runs \in Seq(Run)
      BY <2>3, AtFound DEF HistoryInv, Filed
    <3> HIDE DEF run
    <3>4. runs' \in Seq(Run) /\ \A i \in DOMAIN runs' : \E j \in DOMAIN runs : Alike(runs'[i], runs[j])
      BY <3>1, <3>2, <3>3, Replaced
    <3>5. \A i \in DOMAIN runs' : \E d \in Copies : Alike(runs'[i], d)
      BY <3>4 DEF Copies
    <3> QED
      BY <1>0, <2>1, <3>4, <3>5, GotoMoves
  <2> QED
    BY <1>11, <2>2, <2>3 DEF Rollback
<1> QED
  BY <1>5, <1>6, <1>7, <1>8, <1>9, <1>10, <1>11 DEF Work

LEMMA FireKeeps ==
  ASSUME HistoryInv, NEW r \in Rules, NEW h \in Hosts, NEW plan, EvaluateRule(r, h, plan)
  PROVE  HistoryInv' /\ Kept
<1> DEFINE out == Outcome(r, h, plan)
           run == New(r, h, out)
<1>1. /\ Record(run) /\ UNCHANGED <<now, stored, kvRuns>>
      /\ unwritten' \subseteq unwritten \cup {run}
      /\ worker' = worker \/ \E stage : worker' = [worker EXCEPT ![run.id] = [stage |-> stage, row |-> run]]
  BY DEF EvaluateRule, database
<1>2. out \in Statuses
  BY DEF Outcome, Statuses, Skips, Reserving
<1>3. nextID + 1 \in Ids /\ now \in Nat
  BY <1>1, RemediationAssumption DEF Record, HistoryInv, Ids
<1> HIDE DEF out
<1>4. run \in Run /\ run.id = nextID + 1
  BY <1>2, <1>3 DEF New, Run
<1> HIDE DEF run
<1> QED
  BY <1>1, <1>4, RecordKeeps

LEMMA ProposeKeeps ==
  ASSUME HistoryInv, NEW h \in Hosts, ProposeManual(h)
  PROVE  HistoryInv' /\ Kept
<1> DEFINE run == New(Manual, h, "pending_approval")
<1>1. /\ Record(run) /\ UNCHANGED <<now, worker, stored, kvRuns>>
      /\ unwritten' \subseteq unwritten \cup {run}
  BY DEF ProposeManual, database
<1>2. nextID + 1 \in Ids /\ now \in Nat
  BY <1>1, RemediationAssumption DEF Record, HistoryInv, Ids
<1>3. run \in Run /\ run.id = nextID + 1
  BY <1>2 DEF New, Run, Statuses, Reserving
<1> HIDE DEF run
<1> QED
  BY <1>1, <1>3, RecordKeeps

\* What is written to the tables is what there was.
LEMMA DatabaseKeeps ==
  ASSUME HistoryInv,
         (\E run \in unwritten : WriteInitial(run)) \/ FlushRuns \/ FlushGuards \/ Tick \/ UNCHANGED vars
  PROVE  HistoryInv' /\ Kept
<1>1. UNCHANGED <<runs, nextID, worker>>
  BY DEF WriteInitial, FlushRuns, FlushGuards, Tick, vars, memory
<1>2. now' \in Nat
  BY DEF HistoryInv, WriteInitial, FlushRuns, FlushGuards, Tick, vars
<1>3. /\ runs' \in Seq(Run) /\ \A i \in DOMAIN runs' : \E d \in Copies : Alike(runs'[i], d)
      /\ DOMAIN worker' = Ids
      /\ \A id \in Ids : worker'[id].stage # "idle" =>
           /\ worker'[id].row \in Run /\ worker'[id].row.id = id
           /\ \E d \in Copies : Alike(worker'[id].row, d)
  <2>1. \A id \in Ids : worker[id].stage # "idle" => worker[id].row \in Copies
    BY DEF Copies, InHand
  <2> QED
    BY <1>1, <2>1, SameRing DEF HistoryInv, Filed, Alike
<1>4. CASE FlushRuns
  <2>1. UNCHANGED <<unwritten, stored>> /\ kvRuns' = {runs}
    BY <1>4 DEF FlushRuns
  <2>2. Blob' = {runs[i] : i \in DOMAIN runs} /\ InHand' = InHand
    BY <1>1, <2>1 DEF Blob, InHand
  <2>3. Copies' \subseteq Copies
    BY <1>1, <2>1, <2>2 DEF Copies
  <2>4. Filed'
    BY <1>1, <2>1, <2>2 DEF HistoryInv, Filed
  <2>5. \A c \in Copies' : c.id <= nextID' /\ \E d \in Copies : Alike(c, d)
    BY <1>1, <2>3 DEF HistoryInv, Alike
  <2>6. nextID' \in Nat
    BY <1>1 DEF HistoryInv
  <2> QED
    BY <1>2, <2>1, <2>4, <2>5, <2>6, Descends
<1>5. ASSUME NEW run \in unwritten, WriteInitial(run) PROVE HistoryInv' /\ Kept
  <2>1. run \in Copies
    BY DEF Copies
  <2>2. unwritten' \subseteq unwritten /\ kvRuns' = kvRuns /\ stored' = Put(stored, run.id, run)
    BY <1>5 DEF WriteInitial
  <2> QED
    BY <1>1, <1>2, <1>3, <2>1, <2>2, Moves
<1>6. CASE FlushGuards \/ Tick \/ UNCHANGED vars
  <2>1. UNCHANGED <<unwritten, kvRuns, stored>>
    BY <1>6 DEF FlushGuards, Tick, vars, database
  <2> QED
    BY <1>1, <1>2, <1>3, <2>1, Moves
<1> QED
  BY <1>4, <1>5, <1>6

LEMMA InitHistory == Init => HistoryInv
<1> SUFFICES ASSUME Init PROVE HistoryInv
  OBVIOUS
<1>1. runs = <<>> /\ runs \in Seq(Run) /\ DOMAIN runs = {} /\ DOMAIN stored = {}
      /\ unwritten = {} /\ kvRuns = {} /\ nextID = 1
  BY DEF Init
<1>2. DOMAIN worker = Ids /\ \A id \in Ids : worker[id].stage = "idle"
  BY DEF Init, Idle
<1>3. Blob = {} /\ InHand = {}
  BY <1>1, <1>2 DEF Blob, InHand
<1>4. Copies = {}
  BY <1>1, <1>3 DEF Copies
<1>5. now \in Nat
  BY RemediationAssumption DEF Init
<1> QED
  BY <1>1, <1>2, <1>3, <1>4, <1>5 DEF HistoryInv, Filed

LEMMA NextHistory == HistoryInv /\ [Next]_vars => HistoryInv' /\ Kept
<1> SUFFICES ASSUME HistoryInv, [Next]_vars PROVE HistoryInv' /\ Kept
  OBVIOUS
<1>1. CASE Fire
  BY <1>1, FireKeeps DEF Fire
<1>2. CASE Propose
  BY <1>2, ProposeKeeps DEF Propose
<1>3. CASE Decide
  BY <1>3, DecisionKeeps DEF Decide
<1>4. CASE \E id \in Ids : Work(id)
  BY <1>4, WorkKeeps
<1>5. CASE Restart
  BY <1>5, RestartKeeps
<1>6. CASE (\E run \in unwritten : WriteInitial(run)) \/ FlushRuns \/ FlushGuards \/ Tick
           \/ UNCHANGED vars
  BY <1>6, DatabaseKeeps
<1> QED
  BY <1>1, <1>2, <1>3, <1>4, <1>5, <1>6 DEF Next

\* The table of runs is a history, for any number of restarts and any length of the ring:
\* a row stays and is about the same run, though first writes are lost or come late, a
\* restart writes the blob of an older flush over the rows, and the next id is guessed
\* from the newest row (remediation.go, bindPG in pgstore.go).
THEOREM HistoryIsKept == Spec => HistoryKept
<1>1. HistoryInv /\ [Next]_vars => [Kept]_vars
  BY NextHistory
<1> QED
  BY <1>1, InitHistory, NextHistory, PTL DEF Spec, HistoryKept, Kept

-----------------------------------------------------------------------------
(* Every life of the process.                                               *)

\* Only a restart is counted as one.
LEMMA RestartsCount == [Next]_vars => restarts' = restarts \/ Restart
<1> SUFFICES ASSUME [Next]_vars PROVE restarts' = restarts \/ Restart
  OBVIOUS
<1>1. Fire => restarts' = restarts
  BY DEF Fire, EvaluateRule
<1>2. Propose => restarts' = restarts
  BY DEF Propose, ProposeManual
<1>3. ASSUME NEW id \in Ids, Approve(id) \/ ApproveGone(id) \/ Reject(id)
      PROVE  restarts' = restarts
  BY <1>3 DEF Approve, ApproveGone, Reject
<1>4. ASSUME NEW id \in Ids, Work(id) PROVE restarts' = restarts
  <2>1. Launch(id) => restarts' = restarts
    BY DEF Launch
  <2>2. HostGone(id) => restarts' = restarts
    BY DEF HostGone, Finish
  <2>3. Persist(id) => restarts' = restarts
    BY DEF Persist
  <2>4. RolledBack(id) => restarts' = restarts
    BY DEF RolledBack
  <2>5. ScheduleVerify(id) => restarts' = restarts
    BY DEF ScheduleVerify
  <2>6. Conclude(id) => restarts' = restarts
    BY DEF Conclude
  <2>7. ASSUME NEW ok \in BOOLEAN, Done(id, ok) PROVE restarts' = restarts
    BY <2>7 DEF Done, Finish
  <2>8. ASSUME NEW ok \in BOOLEAN, Rollback(id, ok) PROVE restarts' = restarts
    BY <2>8 DEF Rollback
  <2>9. ASSUME NEW ok \in BOOLEAN, Look(id, ok) PROVE restarts' = restarts
    BY <2>9 DEF Look
  <2> QED
    BY <1>4, <2>1, <2>2, <2>3, <2>4, <2>5, <2>6, <2>7, <2>8, <2>9 DEF Work
<1>5. \A run \in unwritten : WriteInitial(run) => restarts' = restarts
  BY DEF WriteInitial
<1>6. FlushRuns \/ FlushGuards \/ Tick => restarts' = restarts
  BY DEF FlushRuns, FlushGuards, Tick
<1>7. UNCHANGED vars => restarts' = restarts
  BY DEF vars
<1> QED
  BY <1>1, <1>2, <1>3, <1>4, <1>5, <1>6, <1>7 DEF Next, Decide

\* The clock goes forward, and the blob of the guards is what they were at some time.
LEMMA GuardsSaved ==
  ASSUME now \in Nat, [Next]_vars
  PROVE  /\ now' \in Nat /\ now <= now'
         /\ \/ kvGuards' = kvGuards
            \/ kvGuards' = [lastRun |-> lastRun, hourly |-> hourly]
<1>0. now <= now
  OBVIOUS
<1>1. CASE Fire
  BY <1>0, <1>1 DEF Fire, EvaluateRule, database
<1>2. CASE Propose
  BY <1>0, <1>2 DEF Propose, ProposeManual, database
<1>3. ASSUME NEW id \in Ids, Approve(id) \/ ApproveGone(id) \/ Reject(id)
      PROVE  UNCHANGED <<now, kvGuards>>
  BY <1>3 DEF Approve, ApproveGone, Reject, database
<1>4. ASSUME NEW id \in Ids, Work(id) PROVE UNCHANGED <<now, kvGuards>>
  BY <1>4 DEF Work, Launch, HostGone, Done, Finish, Persist, Rollback, RolledBack,
              ScheduleVerify, Look, Conclude, database
<1>5. \A run \in unwritten : WriteInitial(run) => UNCHANGED <<now, kvGuards>>
  BY DEF WriteInitial
<1>6. CASE FlushRuns \/ FlushGuards \/ Restart \/ UNCHANGED vars
  BY <1>0, <1>6 DEF FlushRuns, FlushGuards, Restart, vars, database
<1>7. CASE Tick
  <2>1. now' = now + 1 /\ kvGuards' = kvGuards
    BY <1>7 DEF Tick, database
  <2> QED
    BY <2>1
<1> QED
  BY <1>0, <1>1, <1>2, <1>3, <1>4, <1>5, <1>6, <1>7 DEF Next, Decide

\* The clocks that a restart finds are none of the future.
GuardsFit ==
  /\ hourly \in [Rules -> Seq(Nat)]
  /\ kvGuards.lastRun \in [Rules \X Hosts -> Nat]
  /\ \A c \in Rules \X Hosts : kvGuards.lastRun[c] <= now
  /\ kvGuards.hourly \in [Rules -> Seq(Nat)]

Whole == HistoryInv /\ Calm /\ GuardsFit

\* Ids are numbers above zero.
LEMMA IdsPositive ==
  /\ \A run \in Run : run.id \in Ids
  /\ \A id \in Ids : id \in Nat /\ id > 0
<1>1. \A run \in Run : run.id \in Ids
  BY DEF Run
<1>2. \A id \in Ids : id \in Nat /\ id > 0
  BY RemediationAssumption DEF Ids
<1> QED
  BY <1>1, <1>2

\* While no run has been recorded after m, there is nothing to keep of those that were.
LEMMA Fresh ==
  ASSUME Calm, hourly \in [Rules -> Seq(Nat)], NEW m \in Nat, nextID <= m
  PROVE  IInv(m) /\ RateInv(m)
<1>1. \A i \in DOMAIN runs : ~(runs[i].id > m)
  <2>1. \A i \in DOMAIN runs : runs[i] \in Run /\ runs[i].id <= nextID /\ nextID \in Nat
    BY DEF Calm, Ring
  <2> QED
    BY <2>1, IdsPositive
<1>2. Slots(m) /\ CooldownSince(m)
  BY <1>1 DEF Slots, CooldownSince
<1>3. Counted(m)
  <2>1. \A r \in Rules, t \in Nat : Taken(m, r, t) = {}
    BY <1>1 DEF Taken
  <2>2. \A r \in Rules, t \in Nat : Cardinality(Entries(hourly[r], t)) >= 0
    BY SetsFinite
  <2>3. Cardinality({}) = 0
    BY FS_EmptySet
  <2>4. \A r \in Rules, t \in Nat : Cardinality(Taken(m, r, t)) <= Cardinality(Entries(hourly[r], t))
    BY <2>1, <2>2, <2>3
  <2> QED
    BY <2>4 DEF Counted
<1>4. RateSince(m)
  <2> SUFFICES ASSUME MaxPerHour > 0, NEW j \in DOMAIN runs
               PROVE  Cardinality({i \in DOMAIN runs :
                        /\ runs[i].id > m /\ SameRule(i, j) /\ Slotted(runs[i])
                        /\ runs[i].at + Hour >= runs[j].at}) < MaxPerHour
    BY DEF RateSince
  <2>1. {i \in DOMAIN runs :
           /\ runs[i].id > m /\ SameRule(i, j) /\ Slotted(runs[i])
           /\ runs[i].at + Hour >= runs[j].at} = {}
    BY <1>1
  <2>2. Cardinality({}) = 0 /\ MaxPerHour \in Nat
    BY FS_EmptySet, RemediationAssumption
  <2> QED
    BY <2>1, <2>2
<1> QED
  BY <1>2, <1>3, <1>4 DEF IInv, RateInv

\* A restart finds runs that differ in their ids, none above the one it goes on from,
\* has no goroutine, and gives every run one more launch.
LEMMA RestartCalms ==
  ASSUME Whole, HistoryInv', Restart
  PROVE  Calm'
<1>1. /\ runs' = NewestFirst(Rows)
      /\ worker' = [id \in Ids |-> Idle]
      /\ lastRun' = kvGuards.lastRun
      /\ UNCHANGED <<now, launches>> /\ restarts' = restarts + 1
  BY DEF Restart
<1>2. Ring'
  <2>1. now' \in Nat /\ nextID' \in Nat /\ runs' \in Seq(Run)
    BY DEF HistoryInv, Filed
  <2>2. \A i \in DOMAIN runs' : runs'[i].id <= nextID'
    BY DEF HistoryInv, Copies
  <2>3. \A i, j \in DOMAIN runs' : runs'[i].id = runs'[j].id => i = j
    BY <1>1, RowsFiled, Listed DEF Whole
  <2> QED
    BY <2>1, <2>2, <2>3 DEF Ring
<1>3. Guarded'
  BY <1>1 DEF Whole, GuardsFit, Guarded
<1>4. \A id \in Ids : worker'[id].stage = "idle"
  BY <1>1 DEF Idle
<1>5. Busy'
  <2>1. \A i \in DOMAIN runs' : runs'[i].id \in Ids
    BY <1>2, IdsPositive DEF Ring
  <2> QED
    BY <1>1, <1>4, <2>1 DEF Busy, Live
<1>6. Started'
  <2>1. restarts \in Nat /\ launches \in [Ids -> Nat] /\ \A id \in Ids : launches[id] <= restarts + 1
    BY DEF Whole, Calm, Started
  <2>2. \A i \in DOMAIN runs' : runs'[i].id \in Ids
    BY <1>2, IdsPositive DEF Ring
  <2>3. restarts' \in Nat /\ \A id \in Ids : launches'[id] <= restarts' /\ launches'[id] <= restarts' + 1
    BY <1>1, <2>1
  <2> QED
    BY <1>1, <2>1, <2>2, <2>3 DEF Started
<1> QED
  BY <1>2, <1>3, <1>5, <1>6 DEF Calm

LEMMA InitWhole == Init => Whole
<1> SUFFICES ASSUME Init PROVE Whole
  OBVIOUS
<1>1. Calm
  <2>1. 0 \in Nat
    OBVIOUS
  <2> QED
    BY <2>1, InitIInv DEF IInv
<1>2. CoolDown \in Nat /\ now = CoolDown
  BY RemediationAssumption DEF Init
<1>3. GuardsFit
  BY <1>2 DEF Init, GuardsFit
<1> QED
  BY <1>1, <1>3, InitHistory DEF Whole

LEMMA NextWhole == Whole /\ [Next]_vars => Whole'
<1> SUFFICES ASSUME Whole, [Next]_vars PROVE Whole'
  OBVIOUS
<1>1. HistoryInv'
  BY NextHistory DEF Whole
<1>2. nextID \in Nat /\ now \in Nat
  BY DEF Whole, HistoryInv
<1>3. PICK m \in Nat : m = nextID
  BY <1>2
<1>4. IInv(m) /\ RateInv(m)
  <2>1. nextID <= m
    BY <1>2, <1>3
  <2> QED
    BY <2>1, Fresh DEF Whole, GuardsFit
<1>5. Calm' /\ hourly' \in [Rules -> Seq(Nat)]
  <2>1. CASE restarts' = restarts
    <3>1. IInv(m)'
      BY <1>4, <2>1, NextIInv
    <3>2. RateInv(m)'
      BY <1>4, <2>1, <3>1, NextRate
    <3> QED
      BY <3>1, <3>2 DEF IInv, RateInv
  <2>2. CASE Restart
    <3>1. hourly' = kvGuards.hourly
      BY <2>2 DEF Restart
    <3> QED
      BY <1>1, <2>2, <3>1, RestartCalms DEF Whole, GuardsFit
  <2> QED
    BY <2>1, <2>2, RestartsCount
<1>6. GuardsFit'
  <2>1. /\ now' \in Nat /\ now <= now'
        /\ \/ kvGuards' = kvGuards
           \/ kvGuards' = [lastRun |-> lastRun, hourly |-> hourly]
    BY <1>2, GuardsSaved
  <2>2. CASE kvGuards' = kvGuards
    <3>1. \A c \in Rules \X Hosts : kvGuards.lastRun[c] \in Nat /\ kvGuards.lastRun[c] <= now
      BY DEF Whole, GuardsFit
    <3>2. \A c \in Rules \X Hosts : kvGuards.lastRun[c] <= now'
      BY <1>2, <2>1, <3>1
    <3> QED
      BY <1>5, <2>2, <3>2 DEF Whole, GuardsFit
  <2>3. CASE kvGuards' = [lastRun |-> lastRun, hourly |-> hourly]
    <3>1. /\ lastRun \in [Rules \X Hosts -> Nat] /\ hourly \in [Rules -> Seq(Nat)]
          /\ \A c \in Rules \X Hosts : lastRun[c] \in Nat /\ lastRun[c] <= now
      BY DEF Whole, Calm, Guarded, GuardsFit
    <3>2. \A c \in Rules \X Hosts : lastRun[c] <= now'
      BY <1>2, <2>1, <3>1
    <3>3. kvGuards'.lastRun = lastRun /\ kvGuards'.hourly = hourly
      BY <2>3
    <3> QED
      BY <1>5, <3>1, <3>2, <3>3 DEF GuardsFit
  <2> QED
    BY <2>1, <2>2, <2>3
<1> QED
  BY <1>1, <1>5, <1>6 DEF Whole

LEMMA WholeHolds == Spec => []Whole
BY InitWhole, NextWhole, PTL DEF Spec

\* The runs recorded after run m, while the process lives its life r.
Life(m, r) == restarts \in Nat /\ r <= restarts /\ (restarts = r => IInv(m) /\ RateInv(m))

LEMMA NextLife ==
  ASSUME NEW m \in Nat, NEW r \in Nat, Life(m, r), [Next]_vars
  PROVE  Life(m, r)'
<1>1. restarts \in Nat /\ r <= restarts
  BY DEF Life
<1>2. CASE restarts' = restarts
  <2>1. ASSUME restarts = r PROVE IInv(m)' /\ RateInv(m)'
    <3>1. IInv(m) /\ RateInv(m)
      BY <2>1 DEF Life
    <3>2. IInv(m)'
      BY <1>2, <3>1, NextIInv
    <3> QED
      BY <1>2, <3>1, <3>2, NextRate
  <2> QED
    BY <1>1, <1>2, <2>1 DEF Life
<1>3. CASE Restart
  <2>1. restarts' = restarts + 1
    BY <1>3 DEF Restart
  <2>2. restarts' \in Nat /\ r <= restarts' /\ restarts' # r
    BY <1>1, <2>1
  <2> QED
    BY <2>2 DEF Life
<1> QED
  BY <1>2, <1>3, RestartsCount

\* From any moment of any life ...
LEMMA Lives ==
  ASSUME NEW m \in Nat, NEW r \in Nat
  PROVE  Spec => []((restarts = r /\ nextID = m) => []Life(m, r))
<1>1. Whole /\ restarts = r /\ nextID = m => Life(m, r)
  <2> SUFFICES ASSUME Whole, restarts = r, nextID = m PROVE Life(m, r)
    OBVIOUS
  <2>1. nextID <= m /\ r <= restarts
    OBVIOUS
  <2> QED
    BY <2>1, Fresh DEF Whole, GuardsFit, Life
<1>2. Life(m, r) /\ [Next]_vars => Life(m, r)'
  BY NextLife
<1> QED
  BY <1>1, <1>2, WholeHolds, PTL DEF Spec

\* ... and from the beginning, where there are no runs at all.
LEMMA FirstLife == Spec => []Life(0, 0)
<1>1. 0 \in Nat
  OBVIOUS
<1>2. Init => Life(0, 0)
  <2> SUFFICES ASSUME Init PROVE Life(0, 0)
    OBVIOUS
  <2>1. runs = <<>> /\ DOMAIN runs = {} /\ restarts = 0 /\ hourly \in [Rules -> Seq(Nat)]
    BY DEF Init
  <2>2. IInv(0)
    BY <1>1, InitIInv
  <2>3. \A r \in Rules, t \in Nat : Cardinality(Taken(0, r, t)) <= Cardinality(Entries(hourly[r], t))
    <3>1. \A r \in Rules, t \in Nat : Taken(0, r, t) = {} /\ Cardinality(Entries(hourly[r], t)) >= 0
      BY <2>1, SetsFinite DEF Taken
    <3>2. Cardinality({}) = 0
      BY FS_EmptySet
    <3> QED
      BY <3>1, <3>2
  <2>4. Counted(0)
    BY <2>3 DEF Counted
  <2>5. RateSince(0)
    BY <2>1 DEF RateSince
  <2> QED
    BY <2>1, <2>2, <2>4, <2>5 DEF Life, RateInv
<1>3. Life(0, 0) /\ [Next]_vars => Life(0, 0)'
  BY <1>1, NextLife
<1> QED
  BY <1>2, <1>3, PTL DEF Spec

\* From any moment of any life of the process and until it ends, for any rules, hosts,
\* cool-down, cap, length of the ring and plans, and whatever the goroutines of the runs,
\* the operators and the writes to PostgreSQL do in between: of the runs recorded since,
\* two of a rule that took its slot for one host are a cool-down apart (evaluateRule
\* checks and reserves in one critical section).
THEOREM CooldownPerLife ==
  ASSUME NEW m \in Nat, NEW r \in Nat
  PROVE  Spec => []((restarts = r /\ nextID = m) => [](restarts = r => CooldownSince(m)))
<1>1. Life(m, r) => (restarts = r => CooldownSince(m))
  BY DEF Life, IInv
<1> QED
  BY <1>1, Lives, PTL

\* From any moment of any life and until it ends, no hour sees more of the runs of a rule
\* recorded since than its cap, those that wait for approval included, though approvals
\* add to the list of the hour without looking at it, every firing prunes it, and a
\* restart finds the list of the last flush.
THEOREM HourlyCapPerLife ==
  ASSUME NEW m \in Nat, NEW r \in Nat
  PROVE  Spec => []((restarts = r /\ nextID = m) => [](restarts = r => RateSince(m)))
<1>1. Life(m, r) => (restarts = r => RateSince(m))
  BY DEF Life, RateInv
<1> QED
  BY <1>1, Lives, PTL

\* Every run has been recorded after run 0.
LEMMA AfterZero == Ring => \A i \in DOMAIN runs : runs[i].id > 0
BY IdsPositive DEF Ring

\* Until the first restart these are all runs: two that took the slot of a rule for one
\* host are a cool-down apart ...
THEOREM Cooldown == Spec => [](restarts = 0 => CooldownKept)
<1>1. Life(0, 0) => (restarts = 0 => CooldownKept)
  BY AfterZero DEF Life, IInv, Calm, CooldownSince, CooldownKept
<1> QED
  BY <1>1, FirstLife, PTL

\* ... and no hour sees more of a rule than its cap.
THEOREM HourlyCap == Spec => [](restarts = 0 => RateKept)
<1>1. ASSUME Ring, RateSince(0) PROVE RateKept
  <2> SUFFICES ASSUME MaxPerHour > 0, NEW j \in DOMAIN runs, Slotted(runs[j])
               PROVE  Cardinality({i \in DOMAIN runs :
                        /\ SameRule(i, j) /\ Slotted(runs[i])
                        /\ runs[i].at + Hour >= runs[j].at}) < MaxPerHour
    BY DEF RateKept
  <2>1. {i \in DOMAIN runs :
           /\ SameRule(i, j) /\ Slotted(runs[i])
           /\ runs[i].at + Hour >= runs[j].at}
        = {i \in DOMAIN runs :
             /\ runs[i].id > 0 /\ SameRule(i, j) /\ Slotted(runs[i])
             /\ runs[i].at + Hour >= runs[j].at}
    BY <1>1, AfterZero
  <2> QED
    BY <1>1, <2>1 DEF RateSince
<1>2. Life(0, 0) => (restarts = 0 => RateKept)
  BY <1>1 DEF Life, IInv, Calm, RateInv
<1> QED
  BY <1>2, FirstLife, PTL

\* A restart gives a run at most one more launch.
LaunchedPerLife ==
  \A id \in Ids :
    /\ launches[id] <= restarts + 1
    /\ Found(id) /\ runs[At(id)].status \in {"pending_approval", "rejected"} \cup Skips
         => launches[id] <= restarts

\* A life of the process launches the playbook of a run at most once, and not at all while
\* the run waits, is skipped or has been rejected, however decisions and goroutines
\* interleave, even after the run has left the ring, and though a restart may find that
\* a launched run still waits for its approval.
THEOREM LaunchesPerLife == Spec => []LaunchedPerLife
<1>1. ASSUME Whole PROVE LaunchedPerLife
  <2> SUFFICES ASSUME NEW id \in Ids
               PROVE  /\ launches[id] <= restarts + 1
                      /\ Found(id) /\ runs[At(id)].status \in {"pending_approval", "rejected"} \cup Skips
                           => launches[id] <= restarts
    BY DEF LaunchedPerLife
  <2>1. launches[id] <= restarts + 1
    BY <1>1 DEF Whole, Calm, Started
  <2>2. ({"pending_approval", "rejected"} \cup Skips) \cap Active = {}
    BY DEF Skips, Active
  <2>3. Found(id) /\ runs[At(id)].status \notin Active => launches[id] <= restarts
    BY <1>1, AtFound DEF Whole, Calm, Started
  <2> QED
    BY <2>1, <2>2, <2>3
<1> QED
  BY <1>1, WholeHolds, PTL

\* Until the first restart the playbook of a run is launched at most once, and not at all
\* while the run waits, is skipped or has been rejected.
THEOREM Launches == Spec => [](restarts = 0 => LaunchedOnce)
<1>1. ASSUME Whole, restarts = 0, LaunchedPerLife PROVE LaunchedOnce
  <2>1. \A id \in Ids : launches[id] \in Nat
    BY <1>1 DEF Whole, Calm, Started
  <2>2. \A id \in Ids : launches[id] <= restarts => launches[id] = 0
    BY <1>1, <2>1
  <2>3. \A id \in Ids : launches[id] <= restarts + 1 => launches[id] <= 1
    BY <1>1, <2>1
  <2> QED
    BY <1>1, <2>2, <2>3 DEF LaunchedOnce, LaunchedPerLife
<1>2. Whole /\ LaunchedPerLife => (restarts = 0 => LaunchedOnce)
  BY <1>1
<1> QED
  BY <1>2, WholeHolds, LaunchesPerLife, PTL

-----------------------------------------------------------------------------
(* The copies that the goroutines hold.                                     *)

RowsFit ==
  /\ DOMAIN worker = Ids
  /\ \A id \in Ids : worker[id].stage # "idle" => worker[id].row.host \in Hosts

LEMMA RowTaken ==
  ASSUME RowsFit, NEW id \in Ids, NEW stage, NEW run, run.host \in Hosts,
         worker' = [worker EXCEPT ![id] = [stage |-> stage, row |-> run]]
  PROVE  RowsFit'
<1>1. worker'[id].row = run /\ DOMAIN worker' = Ids
      /\ \A other \in Ids \ {id} : worker'[other] = worker[other]
  BY DEF RowsFit
<1> QED
  BY <1>1 DEF RowsFit

LEMMA RowMoved ==
  ASSUME RowsFit, NEW id \in Ids, NEW stage, worker[id].stage # "idle", Goto(id, stage)
  PROVE  RowsFit'
<1>1. DOMAIN worker' = Ids /\ \A other \in Ids \ {id} : worker'[other] = worker[other]
  BY DEF RowsFit, Goto
<1>2. CASE stage = "idle"
  <2>1. worker'[id].stage = "idle"
    BY <1>2 DEF RowsFit, Goto, Idle
  <2> QED
    BY <1>1, <2>1 DEF RowsFit
<1>3. CASE stage # "idle"
  <2>1. worker'[id].row = worker[id].row
    BY <1>3 DEF RowsFit, Goto
  <2> QED
    BY <1>1, <2>1 DEF RowsFit
<1> QED
  BY <1>2, <1>3

LEMMA NextRows ==
  ASSUME NEW m \in Nat, IInv(m), RowsFit, [Next]_vars
  PROVE  RowsFit'
<1>0. CASE UNCHANGED worker
  BY <1>0 DEF RowsFit
<1>1. ASSUME NEW r \in Rules, NEW h \in Hosts, NEW plan \in Plans(r), EvaluateRule(r, h, plan)
      PROVE  RowsFit'
  <2> DEFINE run == New(r, h, Outcome(r, h, plan))
  <2>1. run.host = h /\ run.id = nextID + 1
    BY DEF New
  <2>2. run.id \in Ids
    <3>1. nextID < MaxID
      BY <1>1 DEF EvaluateRule, Record
    <3>2. nextID \in Nat /\ MaxID \in Nat
      BY RemediationAssumption DEF IInv, Calm, Ring
    <3> QED
      BY <2>1, <3>1, <3>2 DEF Ids
  <2>3. UNCHANGED worker \/ worker' = [worker EXCEPT ![run.id] = [stage |-> "launch", row |-> run]]
    BY <1>1 DEF EvaluateRule
  <2> HIDE DEF run
  <2> QED
    BY <1>0, <2>1, <2>2, <2>3, RowTaken
<1>2. ASSUME NEW id \in Ids, Found(id), NEW stage, NEW run,
             Step(id, stage, run), run.host = runs[At(id)].host
      PROVE  RowsFit'
  <2>1. runs[At(id)].host \in Hosts
    BY <1>2, FoundRun DEF Run
  <2> QED
    BY <1>2, <2>1, RowTaken DEF Step
<1>3. ASSUME NEW id \in Ids, Approve(id) \/ ApproveGone(id) \/ Reject(id) PROVE RowsFit'
  <2>1. Found(id) /\ runs[At(id)] \in Run
    BY <1>3, FoundRun DEF Approve, ApproveGone, Reject, IsPending
  <2> DEFINE old == runs[At(id)]
  <2>2. CASE Approve(id)
    <3> DEFINE run == [old EXCEPT !.status = "running", !.decided = now]
    <3>1. Step(id, "approved", run) /\ run.host = old.host
      BY <2>1, <2>2 DEF Approve, Run
    <3> HIDE DEF run
    <3> QED
      BY <1>2, <2>1, <3>1
  <2>3. CASE ApproveGone(id)
    <3> DEFINE run == [old EXCEPT !.status = "no_playbook"]
    <3>1. Step(id, "gone", run) /\ run.host = old.host
      BY <2>1, <2>3 DEF ApproveGone, Run
    <3> HIDE DEF run
    <3> QED
      BY <1>2, <2>1, <3>1
  <2>4. CASE Reject(id)
    <3> DEFINE run == [old EXCEPT !.status = "rejected", !.decided = now]
    <3>1. Step(id, "rejected", run) /\ run.host = old.host
      BY <2>1, <2>4 DEF Reject, Run
    <3> HIDE DEF run
    <3> QED
      BY <1>2, <2>1, <3>1
  <2> QED
    BY <1>3, <2>2, <2>3, <2>4
<1>4. ASSUME NEW id \in Ids, Work(id) PROVE RowsFit'
  <2>1. worker[id].stage # "idle"
    BY <1>4 DEF Work, Launch, HostGone, Done, Persist, Rollback, RolledBack, ScheduleVerify,
                Look, Conclude, Persisting
  <2>2. CASE \E stage : Goto(id, stage)
    BY <2>1, <2>2, RowMoved
  <2>3. CASE ~\E stage : Goto(id, stage)
    <3>1. Found(id)
      BY <1>4, <2>3 DEF Work, Launch, HostGone, Done, Finish, Persist, Rollback, RolledBack,
                        ScheduleVerify, Look, Conclude, AwaitsVerdict
    <3>2. runs[At(id)] \in Run
      BY <3>1, FoundRun
    <3>3. \E stage, v : \/ Step(id, stage, [runs[At(id)] EXCEPT !.status = v])
                        \/ Step(id, stage, [runs[At(id)] EXCEPT !.verify = v])
      BY <1>4, <2>3 DEF Work, Launch, HostGone, Done, Finish, Persist, Rollback, RolledBack,
                        ScheduleVerify, Look, Conclude
    <3>4. \A v : /\ [runs[At(id)] EXCEPT !.status = v].host = runs[At(id)].host
                 /\ [runs[At(id)] EXCEPT !.verify = v].host = runs[At(id)].host
      BY <3>2 DEF Run
    <3> QED
      BY <1>2, <3>1, <3>3, <3>4
  <2> QED
    BY <2>2, <2>3
<1>5. CASE Propose
  BY <1>0, <1>5 DEF Propose, ProposeManual
<1>6. CASE Restart
  <2>1. worker' = [id \in Ids |-> Idle]
    BY <1>6 DEF Restart
  <2> QED
    BY <2>1 DEF RowsFit, Idle
<1>7. CASE (\E run \in unwritten : WriteInitial(run)) \/ FlushRuns \/ FlushGuards \/ Tick
           \/ UNCHANGED vars
  BY <1>0, <1>7 DEF WriteInitial, FlushRuns, FlushGuards, Tick, vars, memory
<1> QED
  BY <1>1, <1>3, <1>4, <1>5, <1>6, <1>7 DEF Next, Fire, Decide

\* The copy of a run is of a host that exists.
LEMMA RowsKnown == Spec => []RowsFit
<1>1. Init => RowsFit
  BY DEF Init, RowsFit, Idle
<1>2. Whole /\ RowsFit /\ [Next]_vars => RowsFit'
  <2> SUFFICES ASSUME Whole, RowsFit, [Next]_vars PROVE RowsFit'
    OBVIOUS
  <2>1. PICK m \in Nat : m = nextID
    BY DEF Whole, HistoryInv
  <2>2. nextID <= m
    BY <2>1
  <2>3. IInv(m)
    BY <2>2, Fresh DEF Whole, GuardsFit
  <2> QED
    BY <2>3, NextRows
<1> QED
  BY <1>1, <1>2, WholeHolds, PTL DEF Spec
=============================================================================
