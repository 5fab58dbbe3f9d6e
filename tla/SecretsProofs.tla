----------------------------- MODULE SecretsProofs -----------------------------
(***************************************************************************)
(* Proofs about the rotation of keys and the audit chain, for any number of *)
(* previous keys, rotations, savers, appenders, failed writes and restarts. *)
(***************************************************************************)
EXTENDS AuditChain, FiniteSetTheorems, TLAPS

-----------------------------------------------------------------------------
(* The inductive invariant of the keys.                                     *)

\* A key is in the place of its passphrase.
Issued(key) == key.pass \in DOMAIN issued /\ issued[key.pass] = key

\* The keys of a store, the latest first, of which top is the latest there may be.
OrderedStore(store, top) ==
  /\ Issued(store.current)
  /\ store.current.pass <= top
  /\ Len(store.previous) <= MaxPrevious
  /\ \A i \in DOMAIN store.previous :
       /\ Issued(store.previous[i])
       /\ store.previous[i].pass < store.current.pass
       /\ store.previous[i].pass <= top - i
  /\ \A i, j \in DOMAIN store.previous :
       i < j => store.previous[j].pass < store.previous[i].pass

UnderWay == rotation.at \in {"key", "id", "prev", "store"}
\* The key that is in the environment and on its way into the store.
Pending ==
  IF rotation.at \in {"id", "prev", "store"} THEN {rotation.store.current.pass} ELSE {}

Places ==
  /\ Len(issued) \in 1..MaxKeys
  /\ issued[1] = FirstKey
  /\ \A i \in DOMAIN issued : issued[i].pass = i
  /\ strays \subseteq DOMAIN issued

StoresOrdered ==
  /\ HasStore(keyFile) =>
       OrderedStore(keyFile, IF UnderWay THEN Len(issued) - 1 ELSE Len(issued))
  /\ keyFile = NoStore \/ HasStore(keyFile)
  /\ UnderWay => /\ OrderedStore(rotation.store, Len(issued))
                 /\ rotation.store.current.pass = Len(issued)
                 /\ rotation.store.previous # << >>
  /\ rotation.at = "key" => rotation.store.current.pass \notin strays
  /\ Pending # {} => env.key = rotation.store.current.pass
  /\ Pending \subseteq strays

EnvIssued ==
  /\ rotation.at # "id" => Issued([id |-> env.id, pass |-> env.key])
  /\ \A i \in DOMAIN env.prev : Issued(env.prev[i])

\* While every key that was used is in the store, the rotation under way keeps what the
\* store holds, and between rotations the environment is what a restart would make it.
EnvFollows ==
  strays \subseteq Pending =>
    /\ UnderWay => rotation.store.previous =
         IF HasStore(keyFile) THEN Previous(keyFile) ELSE <<FirstKey>>
    /\ rotation.at \notin {"id", "prev", "store"} => env = StartedEnv(keyFile)
    /\ rotation.at = "store" => env = Applied(rotation.store, OperatorsEnv)

StorePasses(store) ==
  {store.current.pass} \cup {store.previous[i].pass : i \in DOMAIN store.previous}
InStore == IF HasStore(keyFile) THEN StorePasses(keyFile) ELSE {FirstKey.pass}

\* What something may be sealed with: a key in the store or on its way there, or one
\* that more than MaxPrevious have come after.
Openable ==
  {NotSealed} \cup
    {p \in DOMAIN issued : p \in Pending \/ p \in InStore \/ Len(issued) - p > MaxPrevious}

RowPasses(row) == {row.password, row.token}
InUse ==
  {env.key, config.token} \cup RowPasses(configRow) \cup RowPasses(rotation.row)
    \cup UNION {RowPasses(saving[s].row) : s \in Savers}

Covered == strays \subseteq Pending => InUse \subseteq Openable

\* A step after which every key is in the store began so, and keeps what can be opened.
Carries ==
  strays' \subseteq Pending' =>
    strays \subseteq Pending /\ Openable \subseteq Openable'

KeysInv == KeysTypeOK /\ Places /\ StoresOrdered /\ EnvIssued /\ EnvFollows /\ Covered

-----------------------------------------------------------------------------
(* The inductive invariant of the chain.                                    *)

ChainLinked ==
  /\ \A i \in DOMAIN chain : chain[i].seq = i /\ chain[i].prev = i - 1
  /\ \A a \in Appenders : appending[a].at # "idle" =>
       /\ appending[a].tip = Len(chain)
       /\ \A b \in Appenders \ {a} : appending[b].at = "idle"
       /\ appending[a].at = "id" => appending[a].pass \in Passes

Signed ==
  {chain[i].pass : i \in DOMAIN chain}
    \cup {appending[a].pass : a \in {b \in Appenders : appending[b].at = "id"}}
EntriesFine == strays \subseteq Pending => Signed \subseteq Openable

ChainInv == KeysInv /\ ChainTypeOK /\ ChainLinked /\ EntriesFine

-----------------------------------------------------------------------------
(* The types.                                                               *)

\* The values of the keys' own constants.
LEMMA KeySetTypes ==
  /\ FirstKey \in SecretKeySet
  /\ NoStore \in StoreType
  /\ \A store \in StoreType : HasStore(store) => store.current \in SecretKeySet
  /\ NothingSealed \in RowType
  /\ OperatorsEnv \in [key : Passes, id : KeyIDs, prev : Seq(SecretKeySet)]
<1>1. 0 \in 0..LastDay /\ 1 \in Passes
  BY KeysAssumption DEF Passes
<1> QED
  BY <1>1 DEF FirstKey, SecretKeySet, KeyIDs, NoStore, StoreType, NoCurrent, HasStore,
    NothingSealed, RowType, NotSealed, OperatorsEnv

\* What a rotation and a restart make of typed stores.
LEMMA StoresTyped ==
  ASSUME KeysTypeOK
  PROVE  /\ BaseStore \in StoreType /\ HasStore(BaseStore)
         /\ \A store \in StoreType : HasStore(store) => Previous(store) \in Seq(SecretKeySet)
         /\ StartedEnv(keyFile) \in [key : Passes, id : KeyIDs, prev : Seq(SecretKeySet)]
         /\ StartedStores(keyFile) \subseteq StoreType
<1>1. BaseStore \in StoreType /\ HasStore(BaseStore)
  <2>1. CASE HasStore(keyFile)
    BY <2>1 DEF BaseStore, KeysTypeOK
  <2>2. CASE ~HasStore(keyFile)
    <3> DEFINE key == [id |-> env.id, pass |-> env.key]
    <3>1. key \in SecretKeySet /\ key.pass # 0
      BY DEF KeysTypeOK, SecretKeySet, Passes
    <3>2. key # NoCurrent
      BY <3>1 DEF NoCurrent
    <3>3. BaseStore = [current |-> key, previous |-> << >>]
      BY <2>2 DEF BaseStore
    <3> HIDE DEF key
    <3> QED
      BY <3>1, <3>2, <3>3 DEF StoreType, HasStore
  <2> QED
    BY <2>1, <2>2
<1>2. ASSUME NEW store \in StoreType, HasStore(store)
      PROVE  Previous(store) \in Seq(SecretKeySet)
  <2>1. <<store.current>> \in Seq(SecretKeySet) /\ store.previous \in Seq(SecretKeySet)
    BY <1>2, KeySetTypes DEF StoreType
  <2>2. <<store.current>> \o store.previous \in Seq(SecretKeySet)
    BY <2>1
  <2> QED
    BY <2>2, KeysAssumption DEF Previous
<1>3. StartedEnv(keyFile) \in [key : Passes, id : KeyIDs, prev : Seq(SecretKeySet)]
  BY KeySetTypes DEF KeysTypeOK, StartedEnv, Applied, StoreType, SecretKeySet
<1>4. StartedStores(keyFile) \subseteq StoreType
  <2>1. [current |-> FirstKey, previous |-> << >>] \in StoreType
    BY KeySetTypes DEF StoreType
  <2>2. keyFile \in StoreType
    BY DEF KeysTypeOK
  <2> QED
    BY <2>1, <2>2, KeySetTypes DEF StartedStores
<1> QED
  BY <1>1, <1>2, <1>3, <1>4

\* The store that a rotation under way is about to write.
LEMMA UnderWayTyped ==
  ASSUME KeysTypeOK, StoresOrdered, UnderWay
  PROVE  /\ rotation.store \in StoreType
         /\ rotation.store.current \in SecretKeySet
         /\ rotation.store.previous \in Seq(SecretKeySet)
BY DEF KeysTypeOK, StoresOrdered, OrderedStore, Issued, StoreType

\* The steps of a rotation keep the types.
LEMMA RotationTyped ==
  ASSUME KeysTypeOK, StoresOrdered, Rotate
  PROVE  KeysTypeOK'
<1>1. ASSUME BeginRotation PROVE KeysTypeOK'
  <2>1. PICK id \in NewIDs(BaseStore.current) :
          LET new == [id |-> id, pass |-> Len(issued) + 1]
          IN  /\ issued' = Append(issued, new)
              /\ rotation' = [at |-> "key", row |-> NothingSealed,
                   store |-> [current |-> new, previous |-> Previous(BaseStore)]]
    BY <1>1 DEF BeginRotation
  <2>2. id \in KeyIDs
    <3>1. today \in 0..LastDay
      BY KeysAssumption DEF KeysTypeOK
    <3>2. \A n \in {0} \cup Seconds : [day |-> today, suffix |-> n] \in KeyIDs
      BY <3>1 DEF KeyIDs
    <3> QED
      BY <2>1, <3>2 DEF NewIDs
  <2>3. Len(issued) + 1 \in Passes
    BY <1>1, KeysAssumption DEF BeginRotation, Passes, KeysTypeOK
  <2>4. [id |-> id, pass |-> Len(issued) + 1] \in SecretKeySet
    BY <2>2, <2>3 DEF SecretKeySet
  <2>5. issued' \in Seq(SecretKeySet)
    BY <2>1, <2>4 DEF KeysTypeOK
  <2>6. rotation' \in [at : {"idle", "key", "id", "prev", "store", "seal", "write"},
                       store : StoreType, row : RowType]
    BY <2>1, <2>4, StoresTyped, KeySetTypes DEF StoreType
  <2> QED
    BY <1>1, <2>5, <2>6 DEF BeginRotation, KeysTypeOK
<1>2. ASSUME SetKey PROVE KeysTypeOK'
  <2>1. rotation.store.current \in SecretKeySet
    BY <1>2, UnderWayTyped DEF SetKey, UnderWay
  <2> QED
    BY <1>2, <2>1 DEF SetKey, KeysTypeOK, SecretKeySet
<1>3. ASSUME SetID PROVE KeysTypeOK'
  <2>1. rotation.store.current \in SecretKeySet
    BY <1>3, UnderWayTyped DEF SetID, UnderWay
  <2> QED
    BY <1>3, <2>1 DEF SetID, KeysTypeOK, SecretKeySet
<1>4. ASSUME SetPrevious PROVE KeysTypeOK'
  <2>1. /\ rotation.store.current \in SecretKeySet
        /\ rotation.store.previous \in Seq(SecretKeySet)
    BY <1>4, UnderWayTyped DEF SetPrevious, UnderWay
  <2> QED
    BY <1>4, <2>1 DEF SetPrevious, Applied, KeysTypeOK, SecretKeySet
<1>5. ASSUME SaveStore PROVE KeysTypeOK'
  BY <1>5 DEF SaveStore, KeysTypeOK
<1>6. ASSUME SaveStoreFails PROVE KeysTypeOK'
  BY <1>6, KeySetTypes DEF SaveStoreFails, KeysTypeOK, NoRotation
<1>7. ASSUME SealAnew PROVE KeysTypeOK'
  <2>1. SealedConfig \in RowType
    BY DEF SealedConfig, KeysTypeOK, RowType
  <2> QED
    BY <1>7, <2>1 DEF SealAnew, KeysTypeOK
<1>8. ASSUME WriteAnew PROVE KeysTypeOK'
  BY <1>8, KeySetTypes DEF WriteAnew, KeysTypeOK, NoRotation
<1> QED
  BY <1>1, <1>2, <1>3, <1>4, <1>5, <1>6, <1>7, <1>8 DEF Rotate

\* So do those of savers, of a restart and of the command line.
LEMMA SaveTyped ==
  ASSUME KeysTypeOK, NEW s \in Savers, Save(s)
  PROVE  KeysTypeOK'
<1>1. ASSUME Edit(s) PROVE KeysTypeOK'
  <2>1. config' \in [known : BOOLEAN, token : {NotSealed} \cup Passes]
    BY <1>1 DEF Edit, KeysTypeOK
  <2>2. saving' \in [Savers -> [at : {"idle", "edited", "sealed"}, row : RowType]]
    BY <1>1 DEF Edit, KeysTypeOK
  <2> QED
    BY <1>1, <2>1, <2>2 DEF Edit, KeysTypeOK
<1>2. ASSUME SealCopy(s) PROVE KeysTypeOK'
  <2>1. SealedConfig \in RowType
    BY DEF SealedConfig, KeysTypeOK, RowType
  <2> QED
    BY <1>2, <2>1 DEF SealCopy, KeysTypeOK
<1>3. ASSUME WriteConfig(s) PROVE KeysTypeOK'
  BY <1>3, KeySetTypes DEF WriteConfig, NotSaving, KeysTypeOK
<1> QED
  BY <1>1, <1>2, <1>3 DEF Save

\* So do a restart, the command line and a new day.
LEMMA OthersTyped ==
  ASSUME KeysTypeOK, RestartKeys \/ ResetAdmin \/ NextDay
  PROVE  KeysTypeOK'
<1>1. ASSUME RestartKeys PROVE KeysTypeOK'
  <2>1. keyFile' \in StoreType
    BY <1>1, StoresTyped DEF RestartKeys
  <2>2. env' \in [key : Passes, id : KeyIDs, prev : Seq(SecretKeySet)]
    BY <1>1, StoresTyped DEF RestartKeys
  <2>3. config' \in [known : BOOLEAN, token : {NotSealed} \cup Passes]
    <3>1. configRow.token \in {NotSealed} \cup Passes
      BY DEF KeysTypeOK, RowType
    <3>2. config' = [known |-> configRow.password # NotSealed
                                 /\ Opens(configRow.password, LoadKeys(env')),
                     token |-> configRow.token]
      BY <1>1 DEF RestartKeys, OpenedConfig
    <3>3. (configRow.password # NotSealed /\ Opens(configRow.password, LoadKeys(env')))
            \in BOOLEAN
      BY DEF Opens
    <3> QED
      BY <3>1, <3>2, <3>3
  <2>4. rotation' \in [at : {"idle", "key", "id", "prev", "store", "seal", "write"},
                       store : StoreType, row : RowType]
    BY <1>1, KeySetTypes DEF RestartKeys, NoRotation
  <2>5. saving' \in [Savers -> [at : {"idle", "edited", "sealed"}, row : RowType]]
    BY <1>1, KeySetTypes DEF RestartKeys, NotSaving
  <2>6. deaths' \in 0..MaxDeaths
    BY <1>1, KeysAssumption DEF RestartKeys, KeysTypeOK
  <2> QED
    BY <1>1, <2>1, <2>2, <2>3, <2>4, <2>5, <2>6 DEF RestartKeys, KeysTypeOK
<1>2. ASSUME ResetAdmin PROVE KeysTypeOK'
  <2>1. configRow' \in RowType
    BY <1>2, KeySetTypes DEF ResetAdmin, OpenedConfig, KeysTypeOK, RowType
  <2> QED
    BY <1>2, <2>1 DEF ResetAdmin, KeysTypeOK
<1>3. ASSUME NextDay PROVE KeysTypeOK'
  BY <1>3, KeysAssumption DEF NextDay, KeysTypeOK
<1> QED
  BY <1>1, <1>2, <1>3

-----------------------------------------------------------------------------
(* Stores and what is sealed.                                               *)

\* The previous keys of the next store: the current one, then those before it.
LEMMA PreviousIs ==
  ASSUME NEW store, store.current \in SecretKeySet, store.previous \in Seq(SecretKeySet),
         Len(store.previous) <= MaxPrevious
  PROVE  /\ Previous(store) \in Seq(SecretKeySet)
         /\ Len(Previous(store)) \in 1..MaxPrevious
         /\ Previous(store)[1] = store.current
         /\ \A i \in DOMAIN Previous(store) :
              i # 1 => /\ i - 1 \in DOMAIN store.previous
                       /\ Previous(store)[i] = store.previous[i - 1]
         /\ \A i \in DOMAIN store.previous :
              i < MaxPrevious => i + 1 \in DOMAIN Previous(store)
<1> DEFINE all == <<store.current>> \o store.previous
           n == IF Len(all) > MaxPrevious THEN MaxPrevious ELSE Len(all)
<1>1. /\ all \in Seq(SecretKeySet)
      /\ Len(all) = Len(store.previous) + 1
      /\ all[1] = store.current
      /\ \A i \in 2..Len(all) : all[i] = store.previous[i - 1]
  OBVIOUS
<1>2. n \in 1..Len(all) /\ n <= MaxPrevious
  BY <1>1, KeysAssumption
<1>3. Previous(store) = SubSeq(all, 1, n)
  BY DEF Previous
<1> HIDE DEF all, n
<1>4. /\ Previous(store) \in Seq(SecretKeySet)
      /\ Len(Previous(store)) = n
      /\ \A i \in 1..n : Previous(store)[i] = all[i]
  BY <1>1, <1>2, <1>3
<1>5. ASSUME NEW i \in DOMAIN Previous(store), i # 1
      PROVE  i - 1 \in DOMAIN store.previous /\ Previous(store)[i] = store.previous[i - 1]
  BY <1>1, <1>2, <1>4, <1>5
<1>6. ASSUME NEW i \in DOMAIN store.previous, i < MaxPrevious
      PROVE  i + 1 \in DOMAIN Previous(store)
  BY <1>1, <1>2, <1>4, <1>6 DEF n
<1> QED
  BY <1>1, <1>2, <1>4, <1>5, <1>6, KeysAssumption

-----------------------------------------------------------------------------
(* Steps that leave the keys, the store and the environment alone.          *)

\* If nothing new is sealed, the invariant stays.
LEMMA InUseGrows ==
  ASSUME KeysInv, UNCHANGED <<issued, keyFile, env, rotation, strays>>,
         InUse' \subseteq InUse \cup {NotSealed}
  PROVE  Places' /\ StoresOrdered' /\ EnvIssued' /\ EnvFollows' /\ Covered' /\ Carries
<1>1. Openable' = Openable /\ Pending' = Pending
  BY DEF Openable, Pending, InStore, StorePasses, HasStore
<1>2. NotSealed \in Openable
  BY DEF Openable
<1>3. Covered'
  BY <1>1, <1>2 DEF KeysInv, Covered
<1>4. Places'
  BY DEF KeysInv, Places
<1>5. StoresOrdered'
  BY <1>1 DEF KeysInv, StoresOrdered, OrderedStore, Issued, HasStore, UnderWay
<1>6. EnvIssued'
  BY DEF KeysInv, EnvIssued, Issued
<1>7. EnvFollows'
  BY <1>1 DEF KeysInv, EnvFollows, HasStore, UnderWay, Previous, StartedEnv, Applied
<1>8. Carries
  BY <1>1 DEF Carries
<1> QED
  BY <1>3, <1>4, <1>5, <1>6, <1>7, <1>8

\* Savers seal with the key of the environment, or write what was sealed before.
LEMMA SavesKeep ==
  ASSUME KeysInv, NEW s \in Savers, Save(s)
  PROVE  Places' /\ StoresOrdered' /\ EnvIssued' /\ EnvFollows' /\ Covered' /\ Carries
<1>1. UNCHANGED <<issued, keyFile, env, rotation, strays>>
  BY DEF Save, Edit, SealCopy, WriteConfig
<1>2. InUse' \subseteq InUse \cup {NotSealed}
  <2>1. ASSUME Edit(s) PROVE InUse' \subseteq InUse \cup {NotSealed}
    <3>1. config'.token \in {config.token, env.key}
      BY <2>1 DEF Edit, KeysInv, KeysTypeOK
    <3>2. \A t \in Savers : saving'[t].row = saving[t].row
      BY <2>1 DEF Edit, KeysInv, KeysTypeOK
    <3> QED
      BY <2>1, <3>1, <3>2 DEF Edit, InUse, RowPasses
  <2>2. ASSUME SealCopy(s) PROVE InUse' \subseteq InUse \cup {NotSealed}
    <3>1. RowPasses(saving'[s].row) \subseteq {env.key, config.token, NotSealed}
      BY <2>2 DEF SealCopy, SealedConfig, RowPasses, KeysInv, KeysTypeOK
    <3>2. \A t \in Savers \ {s} : saving'[t] = saving[t]
      BY <2>2 DEF SealCopy, KeysInv, KeysTypeOK
    <3>3. UNION {RowPasses(saving'[t].row) : t \in Savers}
            \subseteq InUse \cup {NotSealed}
      BY <3>1, <3>2 DEF InUse
    <3>4. UNCHANGED <<env, config, configRow, rotation>>
      BY <2>2 DEF SealCopy
    <3> QED
      BY <3>3, <3>4 DEF InUse, RowPasses
  <2>3. ASSUME WriteConfig(s) PROVE InUse' \subseteq InUse \cup {NotSealed}
    <3>1. RowPasses(saving'[s].row) = {NotSealed}
      BY <2>3 DEF WriteConfig, NotSaving, NothingSealed, RowPasses, KeysInv, KeysTypeOK
    <3>2. \A t \in Savers \ {s} : saving'[t] = saving[t]
      BY <2>3 DEF WriteConfig, KeysInv, KeysTypeOK
    <3>3. UNION {RowPasses(saving'[t].row) : t \in Savers}
            \subseteq InUse \cup {NotSealed}
      BY <3>1, <3>2 DEF InUse
    <3>4. RowPasses(configRow') \subseteq InUse
      BY <2>3 DEF WriteConfig, InUse, RowPasses
    <3>5. UNCHANGED <<env, config, rotation>>
      BY <2>3 DEF WriteConfig
    <3> QED
      BY <3>3, <3>4, <3>5 DEF InUse, RowPasses
  <2> QED
    BY <2>1, <2>2, <2>3 DEF Save
<1> QED
  BY <1>1, <1>2, InUseGrows

\* A new day changes no key.
LEMMA NextDayKeeps ==
  ASSUME KeysInv, NextDay
  PROVE  Places' /\ StoresOrdered' /\ EnvIssued' /\ EnvFollows' /\ Covered' /\ Carries
<1>1. UNCHANGED <<issued, keyFile, env, rotation, strays>> /\ InUse' = InUse
  BY DEF NextDay, InUse, RowPasses
<1> QED
  BY <1>1, InUseGrows

\* The command line seals with the operator's key only what that key had sealed.
LEMMA ResetKeeps ==
  ASSUME KeysInv, ResetAdmin
  PROVE  Places' /\ StoresOrdered' /\ EnvIssued' /\ EnvFollows' /\ Covered' /\ Carries
<1>1. UNCHANGED <<issued, keyFile, env, rotation, strays, config, saving>>
  BY DEF ResetAdmin
<1>2. LoadKeys(OperatorsEnv) = {FirstKey}
  BY DEF LoadKeys, OperatorsEnv, FirstKey
<1>3. RowPasses(configRow') \subseteq RowPasses(configRow) \cup {NotSealed}
  BY <1>2 DEF ResetAdmin, OpenedConfig, Opens, RowPasses, OperatorsEnv
<1>4. InUse' \subseteq InUse \cup {NotSealed}
  BY <1>1, <1>3 DEF InUse, RowPasses
<1> QED
  BY <1>1, <1>4, InUseGrows

-----------------------------------------------------------------------------
(* The steps of a rotation.                                                 *)

\* Passphrases are positive numbers.
LEMMA KeyPassesInt ==
  /\ \A k \in SecretKeySet : k.pass \in Passes /\ k.pass \in Nat \ {0}
  /\ Passes \subseteq Nat \ {0}
  /\ NoCurrent.pass = 0
BY KeysAssumption DEF SecretKeySet, Passes, NoCurrent

\* A store may have a later key, and its keys stay where they were issued.
LEMMA OrderedLater ==
  ASSUME KeysInv, NEW store \in StoreType, store.current \in SecretKeySet,
         NEW top \in Int, NEW later \in Int, top <= later,
         OrderedStore(store, top)
  PROVE  OrderedStore(store, later)
<1>1. store.previous \in Seq(SecretKeySet)
  BY DEF StoreType
<1>2. \A i \in DOMAIN store.previous : store.previous[i].pass \in Int /\ i \in Int
  BY <1>1, KeyPassesInt
<1>3. store.current.pass \in Int
  BY KeyPassesInt
<1> QED
  BY <1>1, <1>2, <1>3 DEF OrderedStore

\* The end of a rotation: the configuration is sealed anew and written, or the store
\* could not be saved.
LEMMA RotationEnds ==
  ASSUME KeysInv, SealAnew \/ WriteAnew \/ SaveStoreFails
  PROVE  Places' /\ StoresOrdered' /\ EnvIssued' /\ EnvFollows' /\ Covered' /\ Carries
<1>1. UNCHANGED <<issued, keyFile, env, config, saving, strays>>
  BY DEF SealAnew, WriteAnew, SaveStoreFails
<1>2. ~UnderWay' /\ Pending' = {} /\ rotation'.at \notin {"key", "id"} /\ rotation.at # "id"
  <2>1. rotation'.at \in {"write", "idle"}
    <3>1. CASE SealAnew
      BY <3>1 DEF SealAnew, KeysInv, KeysTypeOK
    <3>2. CASE WriteAnew \/ SaveStoreFails
      BY <3>2 DEF WriteAnew, SaveStoreFails, NoRotation
    <3> QED
      BY <3>1, <3>2
  <2> QED
    BY <2>1 DEF SealAnew, WriteAnew, SaveStoreFails, UnderWay, Pending
<1>3. Places' /\ EnvIssued'
  BY <1>1, <1>2 DEF KeysInv, Places, EnvIssued, Issued
<1>4. StoresOrdered'
  <2>1. ASSUME HasStore(keyFile) PROVE OrderedStore(keyFile, Len(issued))
    <3>1. keyFile \in StoreType /\ keyFile.current \in SecretKeySet
      BY <2>1, KeySetTypes DEF KeysInv, KeysTypeOK
    <3>2. Len(issued) \in Int
      BY DEF KeysInv, KeysTypeOK
    <3>3. \/ OrderedStore(keyFile, Len(issued) - 1)
          \/ OrderedStore(keyFile, Len(issued))
      BY <2>1 DEF KeysInv, StoresOrdered
    <3> QED
      BY <3>1, <3>2, <3>3, OrderedLater
  <2>2. ASSUME HasStore(keyFile) PROVE OrderedStore(keyFile, Len(issued))'
    BY <1>1, <2>1, <2>2 DEF OrderedStore, Issued
  <2>3. (keyFile = NoStore \/ HasStore(keyFile)) /\ (HasStore(keyFile)' <=> HasStore(keyFile))
    BY <1>1 DEF KeysInv, StoresOrdered, HasStore
  <2> QED
    BY <1>1, <1>2, <2>2, <2>3 DEF StoresOrdered
<1>5. CASE strays' \subseteq Pending'
  <2>1. strays = {}
    BY <1>1, <1>2, <1>5
  <2>2. Pending = {}
    BY <2>1 DEF KeysInv, StoresOrdered
  <2>3. rotation.at \notin {"id", "prev", "store"}
    BY <2>2 DEF Pending
  <2>4. SealAnew \/ WriteAnew
    BY <2>3 DEF SaveStoreFails
  <2>5. Openable' = Openable
    BY <1>1, <1>2, <2>2 DEF Openable, InStore, StorePasses, HasStore
  <2>6. env' = StartedEnv(keyFile)'
    BY <1>1, <2>1, <2>3 DEF KeysInv, EnvFollows, StartedEnv, HasStore, Applied
  <2>7. EnvFollows'
    <3>1. rotation'.at # "store"
      BY <1>2 DEF UnderWay
    <3> QED
      BY <1>2, <2>6, <3>1 DEF EnvFollows
  <2>8. /\ RowPasses(rotation'.row) \subseteq {env.key, config.token, NotSealed}
        /\ RowPasses(configRow') \subseteq RowPasses(configRow) \cup RowPasses(rotation.row)
    <3>1. CASE SealAnew
      <4>1. rotation'.row = SealedConfig /\ configRow' = configRow
        BY <3>1 DEF SealAnew, KeysInv, KeysTypeOK
      <4> QED
        BY <4>1 DEF SealedConfig, RowPasses
    <3>2. CASE WriteAnew
      BY <3>2 DEF WriteAnew, NoRotation, NothingSealed, RowPasses
    <3> QED
      BY <2>4, <3>1, <3>2
  <2>9. InUse' \subseteq InUse \cup {NotSealed}
    BY <1>1, <2>8 DEF InUse, RowPasses
  <2>10. NotSealed \in Openable
    BY DEF Openable
  <2>11. Covered'
    BY <2>1, <2>5, <2>9, <2>10 DEF KeysInv, Covered
  <2> QED
    BY <1>3, <1>4, <2>1, <2>5, <2>7, <2>11 DEF Carries
<1>6. CASE ~(strays' \subseteq Pending')
  BY <1>3, <1>4, <1>6 DEF EnvFollows, Covered, Carries
<1> QED
  BY <1>5, <1>6

\* The new key becomes the one in the environment, and is on its way to the store.
LEMMA SetKeyKeeps ==
  ASSUME KeysInv, SetKey
  PROVE  Places' /\ StoresOrdered' /\ EnvIssued' /\ EnvFollows' /\ Covered' /\ Carries
<1> DEFINE new == rotation.store.current.pass
<1>1. UNCHANGED <<issued, keyFile, config, configRow, saving>>
  BY DEF SetKey
<1>2. /\ rotation.at = "key" /\ rotation'.at = "id"
      /\ rotation'.store = rotation.store /\ rotation'.row = rotation.row
      /\ env'.key = new /\ env'.id = env.id /\ env'.prev = env.prev
      /\ strays' = strays \cup {new}
  BY DEF SetKey, KeysInv, KeysTypeOK
<1>3. UnderWay /\ UnderWay' /\ Pending = {} /\ Pending' = {new}
  BY <1>2 DEF UnderWay, Pending
<1>4. new = Len(issued) /\ new \in DOMAIN issued /\ new \notin strays
  BY <1>2, <1>3 DEF KeysInv, StoresOrdered, OrderedStore, Issued
<1>5. Places' /\ EnvIssued'
  BY <1>1, <1>2, <1>4 DEF KeysInv, Places, EnvIssued, Issued
<1>6. StoresOrdered'
  BY <1>1, <1>2, <1>3 DEF KeysInv, StoresOrdered, OrderedStore, Issued, HasStore
<1>7. CASE strays' \subseteq Pending'
  <2>1. strays \subseteq Pending
    BY <1>2, <1>3, <1>4, <1>7
  <2>2. EnvFollows'
    BY <1>1, <1>2, <1>3, <2>1 DEF KeysInv, EnvFollows, HasStore, Previous
  <2>3. Openable \subseteq Openable' /\ new \in Openable'
    BY <1>1, <1>3, <1>4 DEF Openable, InStore, StorePasses, HasStore
  <2>4. InUse' \subseteq InUse \cup {new}
    BY <1>1, <1>2 DEF InUse, RowPasses
  <2>5. Covered'
    BY <2>1, <2>3, <2>4 DEF KeysInv, Covered
  <2> QED
    BY <1>5, <1>6, <2>1, <2>2, <2>3, <2>5 DEF Carries
<1>8. CASE ~(strays' \subseteq Pending')
  BY <1>5, <1>6, <1>8 DEF EnvFollows, Covered, Carries
<1> QED
  BY <1>7, <1>8

\* With its id the key of the environment is again one that was issued.
LEMMA SetIDKeeps ==
  ASSUME KeysInv, SetID
  PROVE  Places' /\ StoresOrdered' /\ EnvIssued' /\ EnvFollows' /\ Covered' /\ Carries
<1>1. UNCHANGED <<issued, keyFile, config, configRow, saving, strays>>
  BY DEF SetID
<1>2. /\ rotation.at = "id" /\ rotation'.at = "prev"
      /\ rotation'.store = rotation.store /\ rotation'.row = rotation.row
      /\ env'.key = env.key /\ env'.id = rotation.store.current.id /\ env'.prev = env.prev
  BY DEF SetID, KeysInv, KeysTypeOK
<1>3. UnderWay /\ UnderWay' /\ Pending = {rotation.store.current.pass} /\ Pending' = Pending
  BY <1>2 DEF UnderWay, Pending
<1>4. env.key = rotation.store.current.pass /\ Issued(rotation.store.current)
      /\ rotation.store.current \in SecretKeySet
  BY <1>3, UnderWayTyped DEF KeysInv, StoresOrdered, OrderedStore
<1>5. [id |-> env'.id, pass |-> env'.key] = rotation.store.current
  BY <1>2, <1>4 DEF SecretKeySet
<1>6. Places' /\ EnvIssued'
  BY <1>1, <1>2, <1>4, <1>5 DEF KeysInv, Places, EnvIssued, Issued
<1>7. StoresOrdered'
  BY <1>1, <1>2, <1>3 DEF KeysInv, StoresOrdered, OrderedStore, Issued, HasStore
<1>8. EnvFollows'
  BY <1>1, <1>2, <1>3 DEF KeysInv, EnvFollows, HasStore, Previous
<1>9. Openable' = Openable /\ InUse' = InUse
  BY <1>1, <1>2, <1>3 DEF Openable, InStore, StorePasses, HasStore, InUse, RowPasses
<1>10. Covered'
  BY <1>1, <1>3, <1>9 DEF KeysInv, Covered
<1> QED
  BY <1>1, <1>3, <1>6, <1>7, <1>8, <1>9, <1>10 DEF Carries

\* With the previous keys the environment is what the store will make of it.
LEMMA SetPreviousKeeps ==
  ASSUME KeysInv, SetPrevious
  PROVE  Places' /\ StoresOrdered' /\ EnvIssued' /\ EnvFollows' /\ Covered' /\ Carries
<1>1. UNCHANGED <<issued, keyFile, config, configRow, saving, strays>>
  BY DEF SetPrevious
<1>2. /\ rotation.at = "prev" /\ rotation'.at = "store"
      /\ rotation'.store = rotation.store /\ rotation'.row = rotation.row
  BY DEF SetPrevious, KeysInv, KeysTypeOK
<1>3. UnderWay /\ UnderWay' /\ Pending = {rotation.store.current.pass} /\ Pending' = Pending
  BY <1>2 DEF UnderWay, Pending
<1>4. /\ env.key = rotation.store.current.pass /\ Issued(rotation.store.current)
      /\ rotation.store.current \in SecretKeySet
      /\ rotation.store.previous # << >>
      /\ \A i \in DOMAIN rotation.store.previous : Issued(rotation.store.previous[i])
  BY <1>3, UnderWayTyped DEF KeysInv, StoresOrdered, OrderedStore
<1>5. env' = [key |-> rotation.store.current.pass, id |-> rotation.store.current.id,
              prev |-> rotation.store.previous]
  BY <1>4 DEF SetPrevious, Applied
<1>6. /\ env'.key = env.key /\ env'.id = rotation.store.current.id
      /\ env'.prev = rotation.store.previous
  BY <1>4, <1>5
<1>7. [id |-> env'.id, pass |-> env'.key] = rotation.store.current
  BY <1>4, <1>6 DEF SecretKeySet
<1>8. Places' /\ EnvIssued'
  BY <1>1, <1>2, <1>4, <1>6, <1>7 DEF KeysInv, Places, EnvIssued, Issued
<1>9. StoresOrdered'
  BY <1>1, <1>2, <1>3, <1>6 DEF KeysInv, StoresOrdered, OrderedStore, Issued, HasStore
<1>10. env' = Applied(rotation'.store, OperatorsEnv)
  BY <1>2, <1>4, <1>5 DEF Applied
<1>11. EnvFollows'
  BY <1>1, <1>2, <1>3, <1>10 DEF KeysInv, EnvFollows, HasStore, Previous, Applied,
    OperatorsEnv
<1>12. Openable' = Openable /\ InUse' = InUse
  BY <1>1, <1>2, <1>3, <1>6 DEF Openable, InStore, StorePasses, HasStore, InUse, RowPasses
<1>13. Covered'
  BY <1>1, <1>3, <1>12 DEF KeysInv, Covered
<1> QED
  BY <1>1, <1>3, <1>8, <1>9, <1>11, <1>12, <1>13 DEF Carries

\* A store has more keys than it keeps only after more than MaxPrevious rotations.
LEMMA SaveStoreKeeps ==
  ASSUME KeysInv, SaveStore
  PROVE  Places' /\ StoresOrdered' /\ EnvIssued' /\ EnvFollows' /\ Covered' /\ Carries
<1> DEFINE store == rotation.store
           new == store.current.pass
<1>1. UNCHANGED <<issued, env, config, configRow, saving>> /\ keyFile' = store
      /\ strays' = strays \ {new}
  BY DEF SaveStore
<1>2. /\ rotation.at = "store" /\ rotation'.at = "seal"
      /\ rotation'.store = store /\ rotation'.row = rotation.row
  BY DEF SaveStore, KeysInv, KeysTypeOK
<1>3. UnderWay /\ ~UnderWay' /\ Pending = {new} /\ Pending' = {}
  BY <1>2 DEF UnderWay, Pending
<1>4. /\ OrderedStore(store, Len(issued)) /\ store.previous # << >>
      /\ new = Len(issued) /\ new \in DOMAIN issued
      /\ store.current \in SecretKeySet
  BY <1>3, UnderWayTyped DEF KeysInv, StoresOrdered, OrderedStore, Issued
<1>5. HasStore(store)
  BY <1>4, KeyPassesInt DEF HasStore
<1>6. Places' /\ EnvIssued'
  BY <1>1, <1>2 DEF KeysInv, Places, EnvIssued, Issued
<1>7. StoresOrdered'
  <2>1. OrderedStore(keyFile, Len(issued))' /\ HasStore(keyFile)'
    BY <1>1, <1>4, <1>5 DEF OrderedStore, Issued, HasStore
  <2> QED
    BY <1>2, <1>3, <2>1 DEF StoresOrdered
<1>8. CASE strays' \subseteq Pending'
  <2>1. strays \subseteq Pending
    BY <1>1, <1>3, <1>8
  <2>2. env = Applied(store, OperatorsEnv)
    BY <1>2, <2>1 DEF KeysInv, EnvFollows
  <2>3. EnvFollows'
    BY <1>1, <1>2, <1>3, <1>5, <2>2 DEF EnvFollows, StartedEnv, HasStore, Applied,
      OperatorsEnv
  <2>4. InStore' = StorePasses(store)
    BY <1>1, <1>5 DEF InStore, HasStore, StorePasses
  <2>5. ASSUME NEW p \in InStore PROVE p \in InStore' \/ Len(issued) - p > MaxPrevious
    <3>1. CASE HasStore(keyFile)
      <4>1. /\ keyFile.current \in SecretKeySet
            /\ keyFile.previous \in Seq(SecretKeySet)
        BY <3>1, KeySetTypes DEF KeysInv, KeysTypeOK, StoreType
      <4>2. OrderedStore(keyFile, Len(issued) - 1)
        BY <1>3, <3>1 DEF KeysInv, StoresOrdered
      <4>3. store.previous = Previous(keyFile)
        BY <1>3, <2>1, <3>1 DEF KeysInv, EnvFollows
      <4>4. /\ Len(Previous(keyFile)) \in 1..MaxPrevious
            /\ Previous(keyFile) \in Seq(SecretKeySet)
            /\ Previous(keyFile)[1] = keyFile.current
            /\ \A i \in DOMAIN Previous(keyFile) :
                 i # 1 => Previous(keyFile)[i] = keyFile.previous[i - 1]
            /\ \A i \in DOMAIN keyFile.previous :
                 i < MaxPrevious => i + 1 \in DOMAIN Previous(keyFile)
        BY <4>1, <4>2, PreviousIs DEF OrderedStore
      <4>5. CASE p = keyFile.current.pass
        <5>1. 1 \in DOMAIN store.previous /\ store.previous[1].pass = p
          BY <4>3, <4>4, <4>5, KeysAssumption
        <5> QED
          BY <2>4, <5>1 DEF StorePasses
      <4>6. ASSUME NEW i \in DOMAIN keyFile.previous, p = keyFile.previous[i].pass
            PROVE  p \in InStore' \/ Len(issued) - p > MaxPrevious
        <5>1. CASE i < MaxPrevious
          <6>1. i + 1 \in DOMAIN store.previous /\ i + 1 # 1 /\ (i + 1) - 1 = i
            BY <4>1, <4>3, <4>4, <4>6, <5>1
          <6>2. store.previous[i + 1] = keyFile.previous[i]
            BY <4>3, <4>4, <6>1
          <6> QED
            BY <2>4, <4>6, <6>1, <6>2 DEF StorePasses
        <5>2. CASE i >= MaxPrevious
          <6>1. i \in 1..MaxPrevious /\ p <= Len(issued) - 1 - i
            BY <4>1, <4>2, <4>6, KeysAssumption DEF OrderedStore
          <6>2. p \in Int /\ Len(issued) \in Int
            BY <4>1, <4>6, KeyPassesInt DEF KeysInv, KeysTypeOK
          <6> QED
            BY <5>2, <6>1, <6>2, KeysAssumption
        <5> QED
          BY <4>1, <5>1, <5>2, KeysAssumption
      <4> QED
        BY <3>1, <4>5, <4>6 DEF InStore, StorePasses
    <3>2. CASE ~HasStore(keyFile)
      <4>1. store.previous = <<FirstKey>>
        BY <1>3, <2>1, <3>2 DEF KeysInv, EnvFollows
      <4>2. 1 \in DOMAIN store.previous /\ store.previous[1].pass = FirstKey.pass
        BY <4>1
      <4> QED
        BY <2>4, <3>2, <4>2 DEF InStore, StorePasses
    <3> QED
      BY <3>1, <3>2
  <2>6. new \in InStore'
    BY <2>4 DEF StorePasses
  <2>7. Openable \subseteq Openable'
    BY <1>1, <1>3, <2>5, <2>6 DEF Openable
  <2>8. InUse' = InUse
    BY <1>1, <1>2 DEF InUse, RowPasses
  <2>9. Covered'
    BY <2>1, <2>7, <2>8 DEF KeysInv, Covered
  <2> QED
    BY <1>6, <1>7, <2>1, <2>3, <2>7, <2>9 DEF Carries
<1>9. CASE ~(strays' \subseteq Pending')
  BY <1>6, <1>7, <1>9 DEF EnvFollows, Covered, Carries
<1> QED
  BY <1>8, <1>9

\* What a rotation starts from is ordered, whether it is the store or the environment.
LEMMA BaseOrdered ==
  ASSUME KeysInv, rotation.at = "idle"
  PROVE  /\ OrderedStore(BaseStore, Len(issued))
         /\ BaseStore.current \in SecretKeySet
         /\ BaseStore.previous \in Seq(SecretKeySet)
<1>1. BaseStore \in StoreType /\ HasStore(BaseStore)
  BY StoresTyped DEF KeysInv
<1>2. BaseStore.current \in SecretKeySet /\ BaseStore.previous \in Seq(SecretKeySet)
  BY <1>1, KeySetTypes DEF StoreType
<1>3. CASE HasStore(keyFile)
  BY <1>2, <1>3 DEF BaseStore, KeysInv, StoresOrdered, UnderWay
<1>4. CASE ~HasStore(keyFile)
  <2>1. Issued(BaseStore.current) /\ BaseStore.previous = << >>
    BY <1>4 DEF BaseStore, KeysInv, EnvIssued
  <2>2. BaseStore.current.pass \in DOMAIN issued /\ issued \in Seq(SecretKeySet)
    BY <2>1 DEF Issued, KeysInv, KeysTypeOK
  <2>3. BaseStore.current.pass <= Len(issued)
    BY <2>2
  <2> QED
    BY <1>2, <2>1, <2>3, KeysAssumption DEF OrderedStore
<1> QED
  BY <1>2, <1>3, <1>4

\* A new key is issued, and the keys before it are ordered in the store to be written.
LEMMA BeginRotationKeeps ==
  ASSUME KeysInv, BeginRotation
  PROVE  Places' /\ StoresOrdered' /\ EnvIssued' /\ EnvFollows' /\ Covered' /\ Carries
<1>1. UNCHANGED <<keyFile, env, config, configRow, saving, strays>>
  BY DEF BeginRotation
<1>2. PICK id \in NewIDs(BaseStore.current) :
        LET new == [id |-> id, pass |-> Len(issued) + 1]
        IN  /\ issued' = Append(issued, new)
            /\ rotation' = [at |-> "key", row |-> NothingSealed,
                 store |-> [current |-> new, previous |-> Previous(BaseStore)]]
  BY DEF BeginRotation
<1> DEFINE new == [id |-> id, pass |-> Len(issued) + 1]
<1>3. /\ issued' = Append(issued, new)
      /\ rotation'.at = "key" /\ rotation'.row = NothingSealed
      /\ rotation'.store.current = new
      /\ rotation'.store.previous = Previous(BaseStore)
      /\ rotation.at = "idle" /\ Len(issued) < MaxKeys
  BY <1>2 DEF BeginRotation
<1>4. new.pass = Len(issued) + 1
  OBVIOUS
<1>5. issued \in Seq(SecretKeySet) /\ Len(issued) \in 1..MaxKeys /\ MaxKeys \in Nat
  BY KeysAssumption DEF KeysInv, KeysTypeOK, Places
<1> HIDE DEF new
<1>6. /\ Len(issued') = Len(issued) + 1
      /\ \A i \in DOMAIN issued : i \in DOMAIN issued' /\ issued'[i] = issued[i]
      /\ Len(issued) + 1 \in DOMAIN issued' /\ issued'[Len(issued) + 1] = new
      /\ \A i \in DOMAIN issued' : i \in DOMAIN issued \/ i = Len(issued) + 1
  BY <1>3, <1>5
<1>7. UnderWay' /\ ~UnderWay /\ Pending = {} /\ Pending' = {}
  BY <1>3 DEF UnderWay, Pending
<1>8. Places'
  <2>1. Len(issued') \in 1..MaxKeys
    BY <1>3, <1>5, <1>6
  <2>2. 1 \in DOMAIN issued
    BY <1>5
  <2> QED
    BY <1>1, <1>4, <1>6, <2>1, <2>2 DEF KeysInv, Places
<1>9. EnvIssued'
  BY <1>1, <1>3, <1>6 DEF KeysInv, EnvIssued, Issued
<1>10. StoresOrdered'
  <2>1. ASSUME HasStore(keyFile) PROVE OrderedStore(keyFile, Len(issued) - 1)'
    <3>1. OrderedStore(keyFile, Len(issued))
      BY <1>7, <2>1 DEF KeysInv, StoresOrdered
    <3>2. Len(issued') - 1 = Len(issued)
      BY <1>5, <1>6
    <3> QED
      BY <1>1, <1>6, <3>1, <3>2 DEF OrderedStore, Issued
  <2>2. OrderedStore(rotation.store, Len(issued))'
    <3> DEFINE prev == Previous(BaseStore)
    <3>1. /\ OrderedStore(BaseStore, Len(issued))
          /\ BaseStore.current \in SecretKeySet
          /\ BaseStore.previous \in Seq(SecretKeySet)
      BY <1>3, BaseOrdered
    <3>2. /\ prev \in Seq(SecretKeySet)
          /\ Len(prev) \in 1..MaxPrevious
          /\ prev[1] = BaseStore.current
          /\ \A i \in DOMAIN prev :
               i # 1 => /\ i - 1 \in DOMAIN BaseStore.previous
                        /\ prev[i] = BaseStore.previous[i - 1]
      BY <3>1, PreviousIs DEF OrderedStore
    <3> HIDE DEF prev
    <3> DEFINE IsIssued(key) == key.pass \in DOMAIN issued' /\ issued'[key.pass] = key
    <3>3. ASSUME NEW i \in DOMAIN prev
          PROVE  /\ IsIssued(prev[i])
                 /\ prev[i].pass < Len(issued) + 1
                 /\ prev[i].pass <= Len(issued) + 1 - i
      <4>1. i \in Nat \ {0} /\ prev[i].pass \in Nat /\ Len(issued) \in Nat
        BY <1>5, <3>2, KeyPassesInt
      <4>2. CASE i = 1
        <5>1. prev[i] = BaseStore.current
          BY <3>2, <4>2
        <5>2. Issued(prev[i]) /\ prev[i].pass <= Len(issued)
          BY <3>1, <5>1 DEF OrderedStore
        <5>3. IsIssued(prev[i])
          BY <1>6, <5>2 DEF Issued
        <5> QED
          BY <4>1, <4>2, <5>2, <5>3
      <4>3. CASE i # 1
        <5>1. Issued(prev[i]) /\ prev[i].pass <= Len(issued) - (i - 1)
          BY <3>1, <3>2, <4>3 DEF OrderedStore
        <5>2. IsIssued(prev[i])
          BY <1>6, <5>1 DEF Issued
        <5> QED
          BY <4>1, <4>3, <5>1, <5>2
      <4> QED
        BY <4>2, <4>3
    <3>4. ASSUME NEW i \in DOMAIN prev, NEW j \in DOMAIN prev, i < j
          PROVE  prev[j].pass < prev[i].pass
      <4>1. i \in Nat \ {0} /\ j \in Nat \ {0} /\ j # 1
        BY <3>2, <3>4
      <4>2. CASE i = 1
        <5>1. prev[i] = BaseStore.current
          BY <3>2, <4>2
        <5>2. j - 1 \in DOMAIN BaseStore.previous /\ prev[j] = BaseStore.previous[j - 1]
          BY <3>2, <3>4, <4>1
        <5>3. \A k \in DOMAIN BaseStore.previous :
                BaseStore.previous[k].pass < BaseStore.current.pass
          BY <3>1 DEF OrderedStore
        <5> QED
          BY <5>1, <5>2, <5>3
      <4>3. CASE i # 1
        <5> DEFINE old == BaseStore.previous
        <5>1. /\ i - 1 \in DOMAIN old /\ prev[i] = old[i - 1]
              /\ j - 1 \in DOMAIN old /\ prev[j] = old[j - 1]
          BY <3>2, <4>1, <4>3
        <5>2. \A k, l \in DOMAIN old : k < l => old[l].pass < old[k].pass
          BY <3>1 DEF OrderedStore
        <5>3. i - 1 < j - 1
          BY <3>4, <4>1
        <5> HIDE DEF old
        <5> QED
          BY ONLY <5>1, <5>2, <5>3
      <4> QED
        BY <4>2, <4>3
    <3>5. IsIssued(new)
      BY <1>4, <1>6
    <3>6. Len(prev) <= MaxPrevious
      BY <3>2, KeysAssumption
    <3>7. rotation'.store.previous = prev
      BY <1>3 DEF prev
    <3>8. new.pass <= Len(issued')
      BY <1>4, <1>5, <1>6
    <3>9. \A i \in DOMAIN prev : IsIssued(prev[i]) /\ prev[i].pass < new.pass
                                 /\ prev[i].pass <= Len(issued') - i
      <4>1. TAKE i \in DOMAIN prev
      <4>2. /\ IsIssued(prev[i]) /\ prev[i].pass < Len(issued) + 1
            /\ prev[i].pass <= Len(issued) + 1 - i
        BY <3>3
      <4>3. new.pass = Len(issued) + 1 /\ Len(issued') = Len(issued) + 1
        BY <1>4, <1>6
      <4>4. i \in Nat /\ Len(issued) \in Nat /\ prev[i].pass \in Nat
        BY <1>5, <3>2, KeyPassesInt
      <4> HIDE DEF IsIssued
      <4> QED
        BY ONLY <4>2, <4>3, <4>4
    <3> QED
      BY <1>3, <3>4, <3>5, <3>6, <3>7, <3>8, <3>9 DEF OrderedStore, Issued
  <2>3. rotation'.store.previous # << >>
    <3>1. OrderedStore(BaseStore, Len(issued)) /\ BaseStore.current \in SecretKeySet
          /\ BaseStore.previous \in Seq(SecretKeySet)
      BY <1>3, BaseOrdered
    <3>2. Len(Previous(BaseStore)) \in 1..MaxPrevious
      BY <3>1, PreviousIs DEF OrderedStore
    <3> QED
      BY <1>3, <3>2
  <2>4. new.pass \notin strays'
    BY <1>1, <1>4, <1>5 DEF KeysInv, Places
  <2>5. keyFile' = NoStore \/ HasStore(keyFile)'
    BY <1>1 DEF KeysInv, StoresOrdered, HasStore
  <2>6. HasStore(keyFile)' => HasStore(keyFile)
    BY <1>1 DEF HasStore
  <2>7. rotation'.store.current.pass = Len(issued')
    BY <1>3, <1>4, <1>6
  <2> QED
    BY <1>3, <1>7, <2>1, <2>2, <2>3, <2>4, <2>5, <2>6, <2>7 DEF StoresOrdered
<1>11. CASE strays' \subseteq Pending'
  <2>1. strays \subseteq Pending
    BY <1>1, <1>7, <1>11
  <2>2. env = StartedEnv(keyFile)
    BY <1>3, <2>1 DEF KeysInv, EnvFollows
  <2>3. rotation'.store.previous =
          IF HasStore(keyFile) THEN Previous(keyFile) ELSE <<FirstKey>>
    <3>1. CASE HasStore(keyFile)
      BY <1>3, <3>1 DEF BaseStore
    <3>2. CASE ~HasStore(keyFile)
      <4>1. BaseStore.current = FirstKey /\ BaseStore.previous = << >>
        BY <2>2, <3>2 DEF BaseStore, StartedEnv, OperatorsEnv, FirstKey
      <4>2. /\ Len(Previous(BaseStore)) \in 1..MaxPrevious
            /\ Previous(BaseStore) \in Seq(SecretKeySet)
            /\ Previous(BaseStore)[1] = FirstKey
            /\ \A i \in DOMAIN Previous(BaseStore) : i # 1 => i - 1 \in DOMAIN << >>
        <5>1. /\ BaseStore.current \in SecretKeySet
              /\ BaseStore.previous \in Seq(SecretKeySet)
              /\ Len(BaseStore.previous) <= MaxPrevious
          BY <1>3, BaseOrdered DEF OrderedStore
        <5> QED
          BY <4>1, <5>1, PreviousIs
      <4>3. Len(Previous(BaseStore)) = 1
        <5>1. ASSUME Len(Previous(BaseStore)) > 1 PROVE FALSE
          <6>1. 2 \in DOMAIN Previous(BaseStore)
            BY <4>2, <5>1, KeysAssumption
          <6>2. 2 - 1 \in DOMAIN << >>
            BY <4>2, <6>1
          <6> QED
            BY <6>2
        <5>2. Len(Previous(BaseStore)) \in Nat /\ Len(Previous(BaseStore)) >= 1
          BY <4>2, KeysAssumption
        <5>3. ~(Len(Previous(BaseStore)) > 1)
          BY <5>1
        <5> DEFINE n == Len(Previous(BaseStore))
        <5>4. n \in Nat /\ n >= 1 /\ ~(n > 1)
          BY <5>2, <5>3
        <5> HIDE DEF n
        <5>5. n = 1
          BY <5>4
        <5> QED
          BY <5>5 DEF n
      <4>4. Previous(BaseStore) = <<FirstKey>>
        BY <4>2, <4>3
      <4> QED
        BY <1>3, <3>2, <4>4
    <3> QED
      BY <3>1, <3>2
  <2>4. EnvFollows'
    BY <1>1, <1>3, <2>2, <2>3 DEF EnvFollows, StartedEnv, HasStore, Previous, Applied
  <2>5. Openable \subseteq Openable'
    <3>1. InStore' = InStore
      BY <1>1 DEF InStore, StorePasses, HasStore
    <3>2. \A p \in DOMAIN issued :
            Len(issued) - p > MaxPrevious => Len(issued') - p > MaxPrevious
      BY <1>5, <1>6, KeysAssumption
    <3> QED
      BY <1>6, <1>7, <3>1, <3>2 DEF Openable
  <2>6. InUse' \subseteq InUse \cup {NotSealed}
    BY <1>1, <1>3 DEF InUse, RowPasses, NothingSealed
  <2>7. NotSealed \in Openable
    BY DEF Openable
  <2>8. Covered'
    BY <2>1, <2>5, <2>6, <2>7 DEF KeysInv, Covered
  <2> QED
    BY <1>8, <1>9, <1>10, <2>1, <2>4, <2>5, <2>8 DEF Carries
<1>12. CASE ~(strays' \subseteq Pending')
  BY <1>8, <1>9, <1>10, <1>12 DEF EnvFollows, Covered, Carries
<1> QED
  BY <1>11, <1>12

\* A restart reads the store, or writes one with the operator's key.
LEMMA RestartKeeps ==
  ASSUME KeysInv, RestartKeys
  PROVE  Places' /\ StoresOrdered' /\ EnvIssued' /\ EnvFollows' /\ Covered' /\ Carries
<1> DEFINE First == [current |-> FirstKey, previous |-> << >>]
<1>1. /\ UNCHANGED <<issued, configRow, strays>>
      /\ env' = StartedEnv(keyFile)
      /\ rotation'.at = "idle" /\ rotation'.row = NothingSealed
      /\ \A s \in Savers : saving'[s].row = NothingSealed
      /\ config'.token = configRow.token
  BY DEF RestartKeys, NoRotation, NotSaving, OpenedConfig
<1>2. ~UnderWay' /\ Pending' = {}
  BY <1>1 DEF UnderWay, Pending
<1>3. FirstKey.pass = 1 /\ 1 \in DOMAIN issued /\ issued[1] = FirstKey /\ Len(issued) \in Nat
  BY DEF FirstKey, KeysInv, Places, KeysTypeOK
<1>4. HasStore(First)
  BY DEF HasStore, NoCurrent, FirstKey
<1>5. \/ HasStore(keyFile) /\ keyFile' = keyFile
      \/ ~HasStore(keyFile) /\ keyFile' \in {NoStore, First}
  BY DEF RestartKeys, StartedStores
<1>6. ASSUME HasStore(keyFile)
      PROVE  /\ OrderedStore(keyFile, Len(issued)) /\ keyFile.current \in SecretKeySet
             /\ env' = Applied(keyFile, OperatorsEnv)
  <2>1. keyFile \in StoreType /\ keyFile.current \in SecretKeySet
    BY <1>6, KeySetTypes DEF KeysInv, KeysTypeOK
  <2>2. OrderedStore(keyFile, Len(issued) - 1) \/ OrderedStore(keyFile, Len(issued))
    BY <1>6 DEF KeysInv, StoresOrdered
  <2>3. OrderedStore(keyFile, Len(issued))
    BY <1>3, <2>1, <2>2, OrderedLater
  <2> QED
    BY <1>1, <1>6, <2>1, <2>3 DEF StartedEnv
<1>7. OrderedStore(First, Len(issued))
  BY <1>3, KeysAssumption DEF OrderedStore, Issued
<1>8. Places'
  BY <1>1 DEF KeysInv, Places
<1>9. StoresOrdered'
  <2>1. CASE HasStore(keyFile)
    <3>1. OrderedStore(keyFile, Len(issued))' /\ HasStore(keyFile)'
      BY <1>1, <1>5, <1>6, <2>1 DEF OrderedStore, Issued, HasStore
    <3> QED
      BY <1>1, <1>2, <3>1 DEF StoresOrdered
  <2>2. CASE ~HasStore(keyFile) /\ keyFile' = First
    <3>1. OrderedStore(keyFile, Len(issued))' /\ HasStore(keyFile)'
      BY <1>1, <1>4, <1>7, <2>2 DEF OrderedStore, Issued, HasStore
    <3> QED
      BY <1>1, <1>2, <3>1 DEF StoresOrdered
  <2>3. CASE ~HasStore(keyFile) /\ keyFile' = NoStore
    <3>1. ~HasStore(keyFile)'
      BY <2>3 DEF HasStore, NoStore
    <3> QED
      BY <1>1, <1>2, <2>3, <3>1 DEF StoresOrdered
  <2> QED
    BY <1>5, <2>1, <2>2, <2>3
<1>10. EnvIssued'
  <2>1. CASE HasStore(keyFile)
    <3>1. /\ env'.key = keyFile.current.pass /\ env'.id = keyFile.current.id
          /\ env'.prev = keyFile.previous
      BY <1>6, <2>1 DEF Applied, OperatorsEnv
    <3>2. [id |-> env'.id, pass |-> env'.key] = keyFile.current
      BY <1>6, <2>1, <3>1 DEF SecretKeySet
    <3> QED
      BY <1>1, <1>6, <2>1, <3>1, <3>2 DEF EnvIssued, Issued, OrderedStore
  <2>2. CASE ~HasStore(keyFile)
    <3>1. /\ env'.key = FirstKey.pass /\ env'.id = FirstKey.id /\ env'.prev = << >>
      BY <1>1, <2>2 DEF StartedEnv, OperatorsEnv
    <3>2. [id |-> env'.id, pass |-> env'.key] = FirstKey
      BY <3>1 DEF FirstKey
    <3> QED
      BY <1>1, <1>3, <3>1, <3>2 DEF EnvIssued, Issued
  <2> QED
    BY <2>1, <2>2
<1>11. CASE strays' \subseteq Pending'
  <2>1. strays = {} /\ Pending = {}
    BY <1>1, <1>2, <1>11 DEF KeysInv, StoresOrdered
  <2>2. env' = StartedEnv(keyFile)'
    <3>1. CASE HasStore(keyFile)
      BY <1>1, <1>5, <3>1 DEF StartedEnv, HasStore, Applied
    <3>2. CASE ~HasStore(keyFile) /\ keyFile' = First
      <4>1. HasStore(keyFile)' /\ env' = OperatorsEnv
        BY <1>1, <1>4, <3>2 DEF StartedEnv, HasStore
      <4>2. Applied(First, OperatorsEnv) = OperatorsEnv
        BY DEF Applied, OperatorsEnv
      <4>3. StartedEnv(keyFile)' = Applied(First, OperatorsEnv)
        BY <3>2, <4>1 DEF StartedEnv, HasStore, Applied
      <4> QED
        BY <4>1, <4>2, <4>3
    <3>3. CASE ~HasStore(keyFile) /\ keyFile' = NoStore
      BY <1>1, <3>3 DEF StartedEnv, HasStore, NoStore
    <3> QED
      BY <1>5, <3>1, <3>2, <3>3
  <2>3. EnvFollows'
    BY <1>1, <1>2, <2>2 DEF EnvFollows
  <2>4. InStore' = InStore
    <3>1. CASE HasStore(keyFile)
      BY <1>5, <3>1 DEF InStore, StorePasses, HasStore
    <3>2. CASE ~HasStore(keyFile) /\ keyFile' = First
      <4>1. HasStore(keyFile)'
        BY <1>4, <3>2 DEF HasStore
      <4> QED
        BY <3>2, <4>1 DEF InStore, StorePasses, HasStore
    <3>3. CASE ~HasStore(keyFile) /\ keyFile' = NoStore
      BY <3>3 DEF InStore, HasStore, NoStore
    <3> QED
      BY <1>5, <3>1, <3>2, <3>3
  <2>5. Openable' = Openable
    BY <1>1, <1>2, <2>1, <2>4 DEF Openable
  <2>6. env'.key \in Openable
    <3>1. CASE HasStore(keyFile)
      <4>1. env'.key = keyFile.current.pass /\ keyFile.current.pass \in DOMAIN issued
        BY <1>6, <3>1 DEF Applied, OrderedStore, Issued
      <4> QED
        BY <3>1, <4>1 DEF Openable, InStore, StorePasses
    <3>2. CASE ~HasStore(keyFile)
      BY <1>1, <1>3, <3>2 DEF Openable, InStore, StartedEnv, OperatorsEnv
    <3> QED
      BY <3>1, <3>2
  <2>7. InUse' \subseteq InUse \cup {NotSealed, env'.key}
    BY <1>1 DEF InUse, RowPasses, NothingSealed
  <2>8. NotSealed \in Openable
    BY DEF Openable
  <2>9. Covered'
    BY <2>1, <2>5, <2>6, <2>7, <2>8 DEF KeysInv, Covered
  <2> QED
    BY <1>8, <1>9, <1>10, <2>1, <2>3, <2>5, <2>9 DEF Carries
<1>12. CASE ~(strays' \subseteq Pending')
  BY <1>8, <1>9, <1>10, <1>12 DEF EnvFollows, Covered, Carries
<1> QED
  BY <1>11, <1>12

-----------------------------------------------------------------------------
(* The invariant holds.                                                     *)

\* The initial states satisfy the invariant of the keys.
LEMMA KeysInvInit == KeysInit => KeysInv
<1> SUFFICES ASSUME KeysInit PROVE KeysInv
  OBVIOUS
<1> DEFINE First == [current |-> FirstKey, previous |-> << >>]
<1>1. 1 \in Passes /\ 1 \in 1..LastDay /\ 0 \in 0..MaxDeaths /\ FirstKey.pass = 1
  BY KeysAssumption DEF Passes, FirstKey
<1>2. HasStore(First) /\ ~HasStore(NoStore)
  BY DEF HasStore, NoCurrent, NoStore, FirstKey
<1>3. keyFile \in {NoStore, First}
  BY <1>2 DEF KeysInit, StartedStores
<1>4. First \in StoreType
  BY KeySetTypes DEF StoreType
<1>5. KeysTypeOK
  BY <1>1, <1>3, <1>4, KeySetTypes DEF KeysInit, KeysTypeOK, NoRotation, NotSaving, RowType
<1>6. Len(issued) = 1 /\ issued[1] = FirstKey /\ DOMAIN issued = {1}
  BY DEF KeysInit
<1>7. Places
  BY <1>1, <1>6, KeysAssumption DEF KeysInit, Places
<1>8. ~UnderWay /\ Pending = {} /\ rotation.at = "idle" /\ rotation.row = NothingSealed
  BY DEF KeysInit, UnderWay, Pending, NoRotation
<1>9. OrderedStore(First, Len(issued))
  BY <1>1, <1>6, KeysAssumption DEF OrderedStore, Issued
<1>10. StoresOrdered
  BY <1>2, <1>3, <1>8, <1>9 DEF StoresOrdered
<1>11. env.key = FirstKey.pass /\ env.id = FirstKey.id /\ env.prev = << >>
       /\ [id |-> env.id, pass |-> env.key] = FirstKey
  BY DEF KeysInit, OperatorsEnv, FirstKey
<1>12. EnvIssued
  BY <1>1, <1>6, <1>11 DEF EnvIssued, Issued
<1>13. env = StartedEnv(keyFile)
  <2>1. Applied(First, OperatorsEnv) = OperatorsEnv
    BY DEF Applied, OperatorsEnv
  <2> QED
    BY <1>2, <1>3, <2>1 DEF KeysInit, StartedEnv
<1>14. EnvFollows
  BY <1>8, <1>13 DEF EnvFollows
<1>15. FirstKey.pass \in InStore
  BY <1>2, <1>3 DEF InStore, StorePasses
<1>16. InUse = {FirstKey.pass, NotSealed} \/ InUse = {FirstKey.pass}
  BY <1>1, <1>8, <1>11 DEF KeysInit, InUse, RowPasses, NotSaving, NothingSealed
<1>17. Covered
  BY <1>1, <1>6, <1>15, <1>16 DEF Covered, Openable
<1> QED
  BY <1>5, <1>7, <1>10, <1>12, <1>14, <1>17 DEF KeysInv

\* Every step keeps the invariant of the keys, and what can be opened.
LEMMA KeysInvStep == KeysInv /\ [KeysNext]_keyVars => KeysInv' /\ Carries
<1> SUFFICES ASSUME KeysInv, [KeysNext]_keyVars PROVE KeysInv' /\ Carries
  OBVIOUS
<1>1. CASE NextDay
  BY <1>1, OthersTyped, NextDayKeeps DEF KeysInv
<1>2. CASE Rotate
  <2>1. KeysTypeOK'
    BY <1>2, RotationTyped DEF KeysInv
  <2>2. Places' /\ StoresOrdered' /\ EnvIssued' /\ EnvFollows' /\ Covered' /\ Carries
    BY <1>2, BeginRotationKeeps, SetKeyKeeps, SetIDKeeps, SetPreviousKeeps, SaveStoreKeeps,
      RotationEnds DEF Rotate
  <2> QED
    BY <2>1, <2>2 DEF KeysInv
<1>3. ASSUME NEW s \in Savers, Save(s) PROVE KeysInv' /\ Carries
  <2>1. KeysTypeOK'
    BY <1>3, SaveTyped DEF KeysInv
  <2>2. Places' /\ StoresOrdered' /\ EnvIssued' /\ EnvFollows' /\ Covered' /\ Carries
    BY <1>3, SavesKeep
  <2> QED
    BY <2>1, <2>2 DEF KeysInv
<1>4. CASE RestartKeys
  BY <1>4, OthersTyped, RestartKeeps DEF KeysInv
<1>5. CASE ResetAdmin
  BY <1>5, OthersTyped, ResetKeeps DEF KeysInv
<1>6. CASE UNCHANGED keyVars
  <2>1. UNCHANGED <<issued, keyFile, env, rotation, strays>> /\ InUse' = InUse
    BY <1>6 DEF keyVars, InUse, RowPasses
  <2>2. KeysTypeOK'
    BY <1>6 DEF keyVars, KeysInv, KeysTypeOK
  <2> QED
    BY <2>1, <2>2, InUseGrows DEF KeysInv
<1> QED
  BY <1>1, <1>2, <1>3, <1>4, <1>5, <1>6 DEF KeysNext

-----------------------------------------------------------------------------
(* What a process that starts now can open.                                 *)

\* Two keys with one id are one key, if no two were issued with the same id.
LEMMA OneKeyPerID ==
  ASSUME Distinct, NEW j, NEW k, Issued(j), Issued(k), j.id = k.id
  PROVE  j.pass = k.pass
BY DEF Distinct, Issued

\* An environment opens what its current key has sealed.
LEMMA CurrentOpens ==
  ASSUME NEW e
  PROVE  Opens(e.key, LoadKeys(e))
<1> DEFINE key == [id |-> e.id, pass |-> e.key]
<1>1. key \in LoadKeys(e)
  BY DEF LoadKeys
<1>2. key.pass = e.key
  OBVIOUS
<1> QED
  BY <1>1, <1>2 DEF Opens

\* The environment after a restart opens what a key in the store has sealed.
LEMMA StartedOpens ==
  ASSUME KeysInv, Distinct, NEW p \in InStore
  PROVE  Opens(p, KeysAfterRestart)
<1> DEFINE e == StartedEnv(keyFile)
<1>1. CASE HasStore(keyFile)
  <2>1. e = [key |-> keyFile.current.pass, id |-> keyFile.current.id,
             prev |-> keyFile.previous]
    BY <1>1 DEF StartedEnv, Applied, OperatorsEnv
  <2>2. /\ Issued(keyFile.current)
        /\ \A i \in DOMAIN keyFile.previous : Issued(keyFile.previous[i])
        /\ \A i, j \in DOMAIN keyFile.previous :
             i < j => keyFile.previous[j].pass < keyFile.previous[i].pass
    BY <1>1 DEF KeysInv, StoresOrdered, OrderedStore
  <2>3. CASE p = keyFile.current.pass
    BY <2>1, <2>3, CurrentOpens DEF KeysAfterRestart
  <2>4. ASSUME NEW i \in DOMAIN keyFile.previous, p = keyFile.previous[i].pass
        PROVE  Opens(p, KeysAfterRestart)
    <3>1. CASE keyFile.previous[i].id = keyFile.current.id
      <4>1. p = keyFile.current.pass
        BY <2>2, <2>4, <3>1, OneKeyPerID
      <4> QED
        BY <2>1, <4>1, CurrentOpens DEF KeysAfterRestart
    <3>2. CASE keyFile.previous[i].id # keyFile.current.id
      <4>1. keyFile.previous \in Seq(SecretKeySet)
        BY <1>1 DEF KeysInv, KeysTypeOK, StoreType
      <4>2. ASSUME NEW h \in 1..(i - 1) PROVE keyFile.previous[h].id # keyFile.previous[i].id
        <5>1. h \in DOMAIN keyFile.previous /\ h < i
          BY <4>1
        <5>2. keyFile.previous[i].pass < keyFile.previous[h].pass
          BY <2>2, <5>1
        <5>3. keyFile.previous[i].pass \in Int /\ keyFile.previous[h].pass \in Int
          BY <4>1, <5>1, KeyPassesInt
        <5>4. keyFile.previous[i].pass # keyFile.previous[h].pass
          BY <5>2, <5>3
        <5> QED
          BY <2>2, <5>1, <5>4, OneKeyPerID
      <4>3. keyFile.previous[i] \in LoadKeys(e)
        BY <2>1, <3>2, <4>2 DEF LoadKeys
      <4> QED
        BY <2>4, <4>3 DEF Opens, KeysAfterRestart
    <3> QED
      BY <3>1, <3>2
  <2> QED
    BY <1>1, <2>3, <2>4 DEF InStore, StorePasses
<1>2. CASE ~HasStore(keyFile)
  <2>1. p = FirstKey.pass /\ e = OperatorsEnv
    BY <1>2 DEF InStore, StartedEnv
  <2> QED
    BY <2>1, CurrentOpens DEF KeysAfterRestart, OperatorsEnv
<1> QED
  BY <1>1, <1>2

\* The invariant implies the property about secrets.
LEMMA InvGivesSecrets == KeysInv => SecretsOutliveRestarts
<1> SUFFICES ASSUME KeysInv, strays = {}, Distinct,
                    NEW p \in {configRow.password, configRow.token} \ {NotSealed},
                    Len(issued) - p <= MaxPrevious
             PROVE  Opens(p, KeysAfterRestart)
  BY DEF SecretsOutliveRestarts
<1>1. Pending = {}
  BY DEF KeysInv, StoresOrdered
<1>2. p \in Openable
  BY <1>1 DEF KeysInv, Covered, InUse, RowPasses
<1>3. p \in Int /\ Len(issued) \in Int /\ MaxPrevious \in Int
  <2>1. p \in Passes /\ Len(issued) \in Nat
    BY DEF KeysInv, KeysTypeOK, RowType
  <2> QED
    BY <2>1, KeyPassesInt, KeysAssumption
<1>4. ~(Len(issued) - p > MaxPrevious)
  BY <1>3
<1>5. p \in InStore
  BY <1>1, <1>2, <1>4 DEF Openable
<1> QED
  BY <1>5, StartedOpens

\* In every run of the rotation, whatever fails, comes late or dies, a secret in the
\* configuration can be opened after a restart, under the conditions of the property.
THEOREM Secrets == KeysSpec => []SecretsOutliveRestarts
<1>1. KeysInit => KeysInv
  BY KeysInvInit
<1>2. KeysInv /\ [KeysNext]_keyVars => KeysInv'
  BY KeysInvStep
<1>3. KeysInv => SecretsOutliveRestarts
  BY InvGivesSecrets
<1> QED
  BY <1>1, <1>2, <1>3, PTL DEF KeysSpec

\* The types of the keys, the stores and the environment.
THEOREM KeysTypes == KeysSpec => []KeysTypeOK
<1>1. KeysInv => KeysTypeOK
  BY DEF KeysInv
<1>2. KeysInv /\ [KeysNext]_keyVars => KeysInv'
  BY KeysInvStep
<1> QED
  BY <1>1, <1>2, KeysInvInit, PTL DEF KeysSpec

-----------------------------------------------------------------------------
(* The invariant of the chain.                                              *)

\* The last entry is the tip, and another entry precedes by its place.
LEMMA TipIsLast ==
  ASSUME ChainInv
  PROVE  /\ Tip = Len(chain)
         /\ SeqAt(Tip) = Len(chain)
         /\ \A i, j \in DOMAIN chain : Precedes(i, j) <=> i < j
<1>1. chain \in Seq(Entry) /\ \A i \in DOMAIN chain : chain[i].seq = i
  BY DEF ChainInv, ChainTypeOK, ChainLinked
<1>2. \A i, j \in DOMAIN chain : Precedes(i, j) <=> i < j
  BY <1>1 DEF Precedes
<1>3. CASE chain = << >>
  BY <1>2, <1>3 DEF Tip, SeqAt
<1>4. CASE chain # << >>
  <2>1. Len(chain) \in DOMAIN chain /\ Len(chain) # 0
    BY <1>1, <1>4
  <2>2. \A j \in DOMAIN chain \ {Len(chain)} : Precedes(j, Len(chain))
    BY <1>1, <1>2, <2>1
  <2>3. ASSUME NEW i \in DOMAIN chain, \A j \in DOMAIN chain \ {i} : Precedes(j, i)
        PROVE  i = Len(chain)
    BY <1>1, <1>2, <2>1, <2>3
  <2>4. Tip = Len(chain)
    BY <1>4, <2>1, <2>2, <2>3 DEF Tip
  <2> QED
    BY <1>1, <1>2, <2>1, <2>4 DEF SeqAt
<1> QED
  BY <1>3, <1>4

\* The initial states satisfy the invariant of the chain.
LEMMA ChainInvInit == KeysInit /\ ChainInit => ChainInv
<1> SUFFICES ASSUME KeysInit, ChainInit PROVE ChainInv
  OBVIOUS
<1>1. KeysInv
  BY KeysInvInit
<1>2. ChainTypeOK
  BY DEF ChainInit, NotAppending, ChainTypeOK
<1>3. ChainLinked /\ Signed = {}
  BY DEF ChainInit, NotAppending, ChainLinked, Signed
<1> QED
  BY <1>1, <1>2, <1>3 DEF ChainInv, EntriesFine

\* While an entry is appended the keys stay.
LEMMA AppendKeeps ==
  ASSUME ChainInv, NEW a \in Appenders, AppendEntry(a)
  PROVE  ChainInv'
<1>1. UNCHANGED keyVars
  BY DEF AppendEntry, LockAndReadTip, ReadKey, ReadIDAndCommit, AppendFails
<1>2. KeysInv' /\ Openable' = Openable /\ Pending' = Pending /\ strays' = strays
  <2>1. KeysInv'
    BY <1>1, KeysInvStep DEF ChainInv
  <2> QED
    BY <1>1, <2>1 DEF keyVars, Openable, Pending, InStore, StorePasses, HasStore
<1>3. /\ chain \in Seq(Entry)
      /\ appending \in [Appenders -> [at : {"idle", "key", "id"}, tip : Nat,
                                      pass : {0} \cup Passes]]
  BY DEF ChainInv, ChainTypeOK
<1>4. ASSUME LockAndReadTip(a) PROVE ChainTypeOK' /\ ChainLinked' /\ EntriesFine'
  <2>1. Tip = Len(chain) /\ chain' = chain
    BY <1>4, TipIsLast DEF LockAndReadTip
  <2>2. appending' = [appending EXCEPT ![a] = [at |-> "key", tip |-> Len(chain), pass |-> 0]]
    BY <1>4, <2>1 DEF LockAndReadTip
  <2>3. ChainTypeOK'
    BY <1>3, <2>1, <2>2 DEF ChainTypeOK
  <2>4. ChainLinked'
    BY <1>3, <1>4, <2>1, <2>2 DEF LockAndReadTip, ChainInv, ChainLinked
  <2>5. Signed' \subseteq Signed
    BY <1>3, <2>1, <2>2 DEF Signed
  <2> QED
    BY <1>2, <2>3, <2>4, <2>5 DEF ChainInv, EntriesFine
<1>5. ASSUME ReadKey(a) PROVE ChainTypeOK' /\ ChainLinked' /\ EntriesFine'
  <2>1. /\ chain' = chain /\ appending[a].at = "key" /\ env.key \in Passes
        /\ appending' = [appending EXCEPT ![a].at = "id", ![a].pass = env.key]
    BY <1>5 DEF ReadKey, ChainInv, KeysInv, KeysTypeOK
  <2>2. ChainTypeOK'
    BY <1>3, <2>1 DEF ChainTypeOK
  <2>3. ChainLinked'
    BY <1>3, <2>1 DEF ChainInv, ChainLinked
  <2>4. Signed' \subseteq Signed \cup {env.key}
    BY <1>3, <2>1 DEF Signed
  <2>5. strays \subseteq Pending => env.key \in Openable
    BY DEF ChainInv, KeysInv, Covered, InUse
  <2> QED
    BY <1>2, <2>2, <2>3, <2>4, <2>5 DEF ChainInv, EntriesFine
<1>6. ASSUME ReadIDAndCommit(a) PROVE ChainTypeOK' /\ ChainLinked' /\ EntriesFine'
  <2> DEFINE entry == [seq |-> SeqAt(appending[a].tip) + 1, prev |-> appending[a].tip,
                       id |-> env.id, pass |-> appending[a].pass]
  <2>1. /\ appending[a].at = "id" /\ appending[a].tip = Len(chain)
        /\ appending[a].pass \in Passes
        /\ \A b \in Appenders \ {a} : appending[b].at = "idle"
    BY <1>6 DEF ReadIDAndCommit, ChainInv, ChainLinked
  <2>2. SeqAt(appending[a].tip) = Len(chain)
    BY <2>1, TipIsLast
  <2>3. entry = [seq |-> Len(chain) + 1, prev |-> Len(chain), id |-> env.id,
                 pass |-> appending[a].pass]
    BY <2>1, <2>2
  <2>4. entry \in Entry
    BY <1>3, <2>1, <2>3 DEF Entry, ChainInv, KeysInv, KeysTypeOK
  <2>5. chain' = Append(chain, entry) /\ appending' = [appending EXCEPT ![a] = NotAppending]
    BY <1>6 DEF ReadIDAndCommit
  <2>6. /\ entry.seq = Len(chain) + 1 /\ entry.prev = Len(chain)
        /\ entry.pass = appending[a].pass
    BY <2>3
  <2> HIDE DEF entry
  <2>7. /\ Len(chain') = Len(chain) + 1
        /\ \A i \in DOMAIN chain' :
             \/ i \in DOMAIN chain /\ chain'[i] = chain[i]
             \/ i = Len(chain) + 1 /\ chain'[i] = entry
    BY <1>3, <2>4, <2>5
  <2>8. \A b \in Appenders : appending'[b].at = "idle"
    BY <1>3, <2>1, <2>5 DEF NotAppending
  <2>9. ChainTypeOK'
    BY <1>3, <2>4, <2>5 DEF ChainTypeOK, NotAppending
  <2>10. ChainLinked'
    <3>1. ASSUME NEW i \in DOMAIN chain' PROVE chain'[i].seq = i /\ chain'[i].prev = i - 1
      BY <1>3, <2>6, <2>7 DEF ChainInv, ChainLinked
    <3> QED
      BY <2>8, <3>1 DEF ChainLinked
  <2>11. Signed' \subseteq Signed
    BY <2>1, <2>6, <2>7, <2>8 DEF Signed
  <2> QED
    BY <1>2, <2>9, <2>10, <2>11 DEF ChainInv, EntriesFine
<1>7. ASSUME AppendFails(a) PROVE ChainTypeOK' /\ ChainLinked' /\ EntriesFine'
  <2>1. chain' = chain /\ appending' = [appending EXCEPT ![a] = NotAppending]
    BY <1>7 DEF AppendFails
  <2>2. ChainTypeOK'
    BY <1>3, <2>1 DEF ChainTypeOK, NotAppending
  <2>3. ChainLinked'
    BY <1>3, <2>1 DEF ChainInv, ChainLinked, NotAppending
  <2>4. Signed' \subseteq Signed
    BY <1>3, <2>1 DEF Signed, NotAppending
  <2> QED
    BY <1>2, <2>2, <2>3, <2>4 DEF ChainInv, EntriesFine
<1> QED
  BY <1>2, <1>4, <1>5, <1>6, <1>7 DEF AppendEntry, ChainInv

\* Every step keeps the invariant of the chain.
LEMMA ChainInvStep == ChainInv /\ [ChainNext]_<<keyVars, chainVars>> => ChainInv'
<1> SUFFICES ASSUME ChainInv, [ChainNext]_<<keyVars, chainVars>> PROVE ChainInv'
  OBVIOUS
<1>1. ASSUME KeysStep PROVE ChainInv'
  <2>1. KeysInv' /\ Carries
    BY <1>1, KeysInvStep DEF KeysStep, ChainInv
  <2>2. chain' = chain /\ appending' \in {appending, [a \in Appenders |-> NotAppending]}
    BY <1>1 DEF KeysStep
  <2>3. ChainTypeOK' /\ ChainLinked' /\ Signed' \subseteq Signed
    <3>1. CASE appending' = appending
      BY <2>2, <3>1 DEF ChainInv, ChainTypeOK, ChainLinked, Signed
    <3>2. CASE appending' = [a \in Appenders |-> NotAppending]
      BY <2>2, <3>2 DEF ChainInv, ChainTypeOK, ChainLinked, Signed, NotAppending
    <3> QED
      BY <2>2, <3>1, <3>2
  <2>4. EntriesFine'
    BY <2>1, <2>3 DEF Carries, ChainInv, EntriesFine
  <2> QED
    BY <2>1, <2>3, <2>4 DEF ChainInv
<1>2. CASE UNCHANGED <<keyVars, chainVars>>
  <2>1. KeysInv' /\ Carries
    BY <1>2, KeysInvStep DEF ChainInv
  <2>2. ChainTypeOK' /\ ChainLinked' /\ Signed' = Signed
    BY <1>2 DEF chainVars, ChainInv, ChainTypeOK, ChainLinked, Signed
  <2> QED
    BY <2>1, <2>2 DEF Carries, ChainInv, EntriesFine
<1> QED
  BY <1>1, <1>2, AppendKeeps DEF ChainNext

-----------------------------------------------------------------------------
(* What the chain verifies to.                                              *)

\* A window ends with the chain and has no gaps, so that every entry in it follows its
\* predecessor, but the first one of a window that leaves older entries out.
LEMMA WindowLinked ==
  ASSUME ChainInv, NEW limit \in 1..MaxEntries, NEW i \in Window(limit)
  PROVE  Linked(i, Window(limit), limit)
<1> DEFINE W == Window(limit)
           After(j) == {k \in DOMAIN chain : Precedes(j, k)}
<1>1. /\ chain \in Seq(Entry) /\ limit \in Nat
      /\ \A j \in DOMAIN chain : chain[j].seq = j /\ chain[j].prev = j - 1
  BY DEF ChainInv, ChainTypeOK, ChainLinked
<1>2. \A j, k \in DOMAIN chain : Precedes(j, k) <=> j < k
  BY TipIsLast
<1>3. IsFiniteSet(DOMAIN chain)
  <2>1. DOMAIN chain = 1..Len(chain) /\ Len(chain) \in Int
    BY <1>1
  <2> QED
    BY <2>1, FS_Interval
<1>4. \A j \in DOMAIN chain : IsFiniteSet(After(j)) /\ Cardinality(After(j)) \in Nat
  BY <1>3, FS_Subset, FS_CardinalityType
<1>5. W \subseteq DOMAIN chain /\ i \in DOMAIN chain
      /\ \A j \in DOMAIN chain : j \in W <=> Cardinality(After(j)) <= limit
  BY DEF Window
<1> DEFINE N(j) == Cardinality(After(j))
<1>6. \A j \in DOMAIN chain : After(j) = {k \in DOMAIN chain : j < k}
  BY <1>2
<1>7. \A j \in DOMAIN chain : N(j) \in Nat /\ (j \in W <=> N(j) <= limit)
  BY <1>4, <1>5
<1> HIDE DEF W
<1>8. ASSUME NEW j \in W, NEW k \in DOMAIN chain, j <= k PROVE k \in W
  <2>1. After(k) \subseteq After(j) /\ j \in DOMAIN chain
    BY <1>1, <1>6, <1>5, <1>8
  <2>2. N(k) <= N(j)
    BY <1>4, <2>1, FS_Subset
  <2> HIDE DEF N
  <2> QED
    BY <1>1, <1>7, <2>1, <2>2
<1>9. Before(i, W) = {j \in W : j < i}
  BY <1>2, <1>5 DEF Before
<1>10. CASE Before(i, W) # {}
  <2>1. PICK j \in W : j < i
    BY <1>9, <1>10
  <2>2. i - 1 \in DOMAIN chain /\ j <= i - 1
    BY <1>1, <1>5, <2>1
  <2>3. i - 1 \in Before(i, W)
    BY <1>1, <1>5, <1>8, <1>9, <2>1, <2>2
  <2>4. \A k \in Before(i, W) \ {i - 1} : Precedes(k, i - 1)
    BY <1>1, <1>2, <1>5, <1>9, <2>2
  <2>5. chain[i].seq = chain[i - 1].seq + 1 /\ chain[i].prev = i - 1
    BY <1>1, <1>5, <2>2
  <2> QED
    BY <1>10, <2>3, <2>4, <2>5 DEF Linked, W
<1>11. CASE Before(i, W) = {}
  <2>1. CASE i = 1
    BY <1>1, <1>5, <1>11, <2>1 DEF Linked, W
  <2>2. CASE i # 1
    <3>1. i - 1 \in DOMAIN chain /\ i - 1 \notin W
      BY <1>1, <1>5, <1>9, <1>11, <2>2
    <3>2. After(i - 1) \subseteq W
      <4>1. \A k \in After(i - 1) : k \in DOMAIN chain /\ i <= k
        BY <1>1, <1>5, <1>6, <3>1
      <4>2. i \in W
        BY DEF W
      <4> QED
        BY <1>8, <4>1, <4>2
    <3>3. IsFiniteSet(W) /\ Cardinality(W) \in Nat
      BY <1>3, <1>5, FS_Subset, FS_CardinalityType
    <3>4. N(i - 1) <= Cardinality(W)
      BY <3>2, <3>3, FS_Subset
    <3>5. Cardinality(W) > limit
      <4>1. N(i - 1) \in Nat /\ ~(N(i - 1) <= limit)
        BY <1>7, <3>1
      <4> HIDE DEF N
      <4> QED
        BY <1>1, <3>3, <3>4, <4>1
    <3> QED
      BY <1>11, <3>5 DEF Linked, W
  <2> QED
    BY <2>1, <2>2
<1> QED
  BY <1>10, <1>11

\* Outside the two steps that set a key and its id, every key the process has is one
\* that was issued.
LEMMA LoadedAreIssued ==
  ASSUME KeysInv, rotation.at # "id", NEW k \in LoadKeys(env)
  PROVE  Issued(k)
BY DEF LoadKeys, KeysInv, EnvIssued

\* A genuine entry was signed by a key that was issued.
LEMMA SignerIssued ==
  ASSUME KeysInv, NEW entry, Genuine(entry)
  PROVE  \E key : Issued(key) /\ key.id = entry.id /\ key.pass = entry.pass
<1>1. PICK i \in DOMAIN issued : issued[i].id = entry.id /\ issued[i].pass = entry.pass
  BY DEF Genuine
<1>2. Issued(issued[i])
  BY <1>1 DEF Issued, KeysInv, Places
<1> QED
  BY <1>1, <1>2

\* The invariant implies the property about genuine entries.
LEMMA InvGivesGenuine == ChainInv => GenuineIsNeverBroken
<1> SUFFICES ASSUME ChainInv, Distinct, rotation.at # "id", NEW limit \in 1..MaxEntries,
                    \A i \in Window(limit) : Genuine(chain[i])
             PROVE  /\ ~ReportedBroken(limit)
                    /\ /\ rotation.at = "idle" /\ strays = {}
                       /\ \A i \in Window(limit) : Len(issued) - chain[i].pass <= MaxPrevious
                       => Verifies(limit)
  BY DEF GenuineIsNeverBroken
<1>1. KeysInv
  BY DEF ChainInv
<1>2. \A i \in Window(limit) :
        EntryCode(i, Window(limit), limit) = HashCode(chain[i], LoadKeys(env))
  BY WindowLinked DEF EntryCode
<1>3. ASSUME NEW i \in Window(limit) PROVE HashCode(chain[i], LoadKeys(env)) # "broken"
  <2>1. PICK key : Issued(key) /\ key.id = chain[i].id /\ key.pass = chain[i].pass
    BY <1>1, SignerIssued
  <2>2. \A k \in LoadKeys(env) : k.id = chain[i].id => k.pass = chain[i].pass
    BY <1>1, <2>1, LoadedAreIssued, OneKeyPerID
  <2> QED
    BY <2>2 DEF HashCode
<1>4. ~ReportedBroken(limit)
  BY <1>2, <1>3 DEF ReportedBroken
<1>5. ASSUME rotation.at = "idle", strays = {},
             \A i \in Window(limit) : Len(issued) - chain[i].pass <= MaxPrevious
      PROVE  Verifies(limit)
  <2>1. Pending = {} /\ env = StartedEnv(keyFile)
    BY <1>1, <1>5 DEF Pending, KeysInv, EnvFollows
  <2>2. ASSUME NEW i \in Window(limit) PROVE HashCode(chain[i], LoadKeys(env)) = "ok"
    <3>1. i \in DOMAIN chain /\ chain[i].pass \in Passes
      <4>1. i \in DOMAIN chain /\ chain \in Seq(Entry)
        BY DEF Window, ChainInv, ChainTypeOK
      <4>2. chain[i] \in Entry
        BY <4>1
      <4> QED
        BY <4>1, <4>2 DEF Entry
    <3>2. chain[i].pass \in Int /\ Len(issued) \in Int /\ MaxPrevious \in Int
          /\ chain[i].pass # NotSealed
      <4>1. issued \in Seq(SecretKeySet) /\ chain[i].pass \in Nat \ {0}
        BY <1>1, <3>1, KeyPassesInt DEF KeysInv, KeysTypeOK
      <4> QED
        BY <4>1, KeysAssumption DEF NotSealed
    <3>3. chain[i].pass \in Openable
      BY <1>5, <3>1 DEF ChainInv, EntriesFine, Signed
    <3>4. ~(Len(issued) - chain[i].pass > MaxPrevious)
      BY <1>5, <3>2
    <3>5. chain[i].pass \in InStore
      BY <2>1, <3>2, <3>3, <3>4 DEF Openable
    <3>6. PICK k \in LoadKeys(env) : k.pass = chain[i].pass
      BY <1>1, <2>1, <3>5, StartedOpens DEF Opens, KeysAfterRestart
    <3>7. Issued(k)
      BY <1>1, LoadedAreIssued
    <3>8. PICK key : Issued(key) /\ key.id = chain[i].id /\ key.pass = chain[i].pass
      BY <1>1, SignerIssued
    <3>9. k.id = chain[i].id
      BY <3>6, <3>7, <3>8 DEF Issued
    <3> QED
      BY <3>6, <3>9 DEF HashCode
  <2> QED
    BY <1>2, <2>2 DEF Verifies
<1> QED
  BY <1>4, <1>5

\* Whoever appends, fails, dies or rotates meanwhile, genuine entries are not reported
\* broken, and verify where the property says so.
THEOREM GenuineEntries == ChainSpec => []GenuineIsNeverBroken
<1>1. KeysInit /\ ChainInit => ChainInv
  BY ChainInvInit
<1>2. ChainInv /\ [ChainNext]_<<keyVars, chainVars>> => ChainInv'
  BY ChainInvStep
<1>3. ChainInv => GenuineIsNeverBroken
  BY InvGivesGenuine
<1> QED
  BY <1>1, <1>2, <1>3, PTL DEF ChainSpec

\* The types of entries and of transactions that append them.
THEOREM ChainTypes == ChainSpec => []ChainTypeOK
<1>1. ChainInv => ChainTypeOK
  BY DEF ChainInv
<1> QED
  BY <1>1, ChainInvInit, ChainInvStep, PTL DEF ChainSpec

\* Every entry that is committed follows the one before it, one after the other.
THEOREM ChainIsLinked == ChainSpec => []ChainLinked
<1>1. ChainInv => ChainLinked
  BY DEF ChainInv
<1> QED
  BY <1>1, ChainInvInit, ChainInvStep, PTL DEF ChainSpec
=============================================================================
