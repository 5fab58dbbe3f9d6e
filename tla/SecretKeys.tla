------------------------------ MODULE SecretKeys ------------------------------
(***************************************************************************)
(* The keys that seal the secrets of the configuration, and their rotation *)
(* (secret_rotate.go, crypto.go, crypto_v2.go).  A rotation puts a new key *)
(* into the environment of the process, then into the store file, and then *)
(* saves the configuration, whose secrets it holds in clear, so that they  *)
(* are sealed anew.  Any other save may come in between, every write may   *)
(* fail, and the process may die at any point.  The tokens of CI/CD        *)
(* connections are kept as they were sealed, in memory too.                *)
(***************************************************************************)
EXTENDS Naturals, Sequences, FiniteSets

CONSTANTS
  MaxPrevious,  \* previous keys in the store: 5
  Savers,       \* goroutines that save the configuration
  Seconds,      \* what tells keys of one day apart: the second modulo 1000
  LastDay,      \* bound on days
  MaxKeys,      \* bound on keys
  MaxDeaths     \* bound on restarts

ASSUME KeysAssumption ==
  /\ MaxPrevious \in Nat \ {0}
  /\ LastDay \in Nat \ {0} /\ MaxKeys \in Nat \ {0} /\ MaxDeaths \in Nat
  /\ Seconds \subseteq Nat \ {0}

VARIABLES
  today,        \* the day, in UTC
  issued,       \* every key so far, the operator's first; its place is its passphrase
  keyFile,      \* secret_keys.json
  env,          \* AIOPS_SECRET_KEY, AIOPS_SECRET_KEY_ID and AIOPS_SECRET_KEYS_PREV
  rotation,     \* the rotation that holds secretStoreMu
  config,       \* the configuration in memory: is a password known; the sealed token
  configRow,    \* the configuration in PostgreSQL: what its secrets are sealed with
  saving,       \* what each saver is about to write
  strays,       \* keys that have been in the environment and never in the store
  deaths

keyVars ==
  <<today, issued, keyFile, env, rotation, config, configRow, saving, strays, deaths>>

\* "v" and the day of a rotation, with a suffix if that is taken; "v1" if none is set.
KeyIDs == [day : 0..LastDay, suffix : {0} \cup Seconds]
Passes == 1..MaxKeys
SecretKeySet == [id : KeyIDs, pass : Passes]
FirstKey == [id |-> [day |-> 0, suffix |-> 0], pass |-> 1]

\* The place of the current key is empty when there is no file.
NoCurrent == [id |-> [day |-> 0, suffix |-> 0], pass |-> 0]
NoStore == [current |-> NoCurrent, previous |-> << >>]
HasStore(store) == store.current # NoCurrent

\* A secret that is not there is not sealed.
NotSealed == 0
NothingSealed == [password |-> NotSealed, token |-> NotSealed]
NoRotation == [at |-> "idle", store |-> NoStore, row |-> NothingSealed]
NotSaving == [at |-> "idle", row |-> NothingSealed]

\* What the process was started with.
OperatorsEnv == [key |-> FirstKey.pass, id |-> FirstKey.id, prev |-> << >>]

\* applySecretKeyStoreToEnv; without previous keys it leaves theirs as it was.
Applied(store, e) ==
  [key |-> store.current.pass, id |-> store.current.id,
   prev |-> IF store.previous = << >> THEN e.prev ELSE store.previous]

\* loadAllSecretKeys: of two keys with the same id the first counts.
LoadKeys(e) ==
  {[id |-> e.id, pass |-> e.key]}
    \cup {e.prev[i] : i \in {j \in DOMAIN e.prev :
            /\ e.prev[j].id # e.id
            /\ \A h \in 1..(j - 1) : e.prev[h].id # e.prev[j].id}}

\* decryptSecret tries the key that the sealed text names, then every other.
Opens(pass, keys) == \E k \in keys : k.pass = pass

\* encryptConfigSecrets: clear text is sealed with the current key, what is sealed
\* already passes through.
SealedConfig ==
  [password |-> IF config.known THEN env.key ELSE NotSealed, token |-> config.token]

\* decryptConfigSecrets: a secret that no key opens is empty from then on.
OpenedConfig(row, keys) ==
  [known |-> row.password # NotSealed /\ Opens(row.password, keys), token |-> row.token]

-----------------------------------------------------------------------------
\* initSecretKeyStoreFromEnv: the environment after a start, and the stores that a
\* start may leave, which writes one unless there is one or writing fails.
StartedEnv(store) == IF HasStore(store) THEN Applied(store, OperatorsEnv) ELSE OperatorsEnv
StartedStores(store) ==
  IF HasStore(store) THEN {store}
  ELSE {NoStore, [current |-> FirstKey, previous |-> << >>]}

KeysInit ==
  /\ today = 1
  /\ issued = <<FirstKey>>
  /\ keyFile \in StartedStores(NoStore)
  /\ env = OperatorsEnv
  /\ rotation = NoRotation
  /\ config = [known |-> TRUE, token |-> FirstKey.pass]
  /\ configRow = [password |-> FirstKey.pass, token |-> FirstKey.pass]
  /\ saving = [s \in Savers |-> NotSaving]
  /\ strays = {}
  /\ deaths = 0

NextDay ==
  /\ today < LastDay
  /\ today' = today + 1
  /\ UNCHANGED <<issued, keyFile, env, rotation, config, configRow, saving, strays, deaths>>

\* The store that a rotation starts from, and the ids its key may get.
BaseStore ==
  IF HasStore(keyFile) THEN keyFile
  ELSE [current |-> [id |-> env.id, pass |-> env.key], previous |-> << >>]
NewIDs(current) ==
  LET plain == [day |-> today, suffix |-> 0]
  IN  IF current.id # plain THEN {plain} ELSE {[plain EXCEPT !.suffix = n] : n \in Seconds}

\* Mutant: the key that is replaced is not kept.
PreviousOfOlder(store) == store.previous
Previous(store) ==
  LET all == <<store.current>> \o store.previous
  IN  SubSeq(all, 1, IF Len(all) > MaxPrevious THEN MaxPrevious ELSE Len(all))

\* rotateConfigSecretKey, under secretStoreMu.
BeginRotation ==
  /\ rotation.at = "idle"
  /\ Len(issued) < MaxKeys
  /\ \E id \in NewIDs(BaseStore.current) :
       LET new == [id |-> id, pass |-> Len(issued) + 1]
       IN  /\ issued' = Append(issued, new)
           /\ rotation' = [at |-> "key", row |-> NothingSealed,
                store |-> [current |-> new, previous |-> Previous(BaseStore)]]
  /\ UNCHANGED <<today, keyFile, env, config, configRow, saving, strays, deaths>>

\* applySecretKeyStoreToEnv sets the variables of the environment one by one.
SetKey ==
  /\ rotation.at = "key"
  /\ env' = [env EXCEPT !.key = rotation.store.current.pass]
  /\ strays' = strays \cup {rotation.store.current.pass}
  /\ rotation' = [rotation EXCEPT !.at = "id"]
  /\ UNCHANGED <<today, issued, keyFile, config, configRow, saving, deaths>>

SetID ==
  /\ rotation.at = "id"
  /\ env' = [env EXCEPT !.id = rotation.store.current.id]
  /\ rotation' = [rotation EXCEPT !.at = "prev"]
  /\ UNCHANGED <<today, issued, keyFile, config, configRow, saving, strays, deaths>>

SetPrevious ==
  /\ rotation.at = "prev"
  /\ env' = Applied(rotation.store, env)
  /\ rotation' = [rotation EXCEPT !.at = "store"]
  /\ UNCHANGED <<today, issued, keyFile, config, configRow, saving, strays, deaths>>

\* saveSecretKeyStore writes a file aside and renames it.
SaveStore ==
  /\ rotation.at = "store"
  /\ keyFile' = rotation.store
  /\ strays' = strays \ {rotation.store.current.pass}
  /\ rotation' = [rotation EXCEPT !.at = "seal"]
  /\ UNCHANGED <<today, issued, env, config, configRow, saving, deaths>>

SaveStoreFails ==
  /\ rotation.at = "store"
  /\ rotation' = NoRotation
  /\ UNCHANGED <<today, issued, keyFile, env, config, configRow, saving, strays, deaths>>

\* s.cfg.save() of the rotation: seal a copy, then write it.
SealAnew ==
  /\ rotation.at = "seal"
  /\ rotation' = [rotation EXCEPT !.at = "write", !.row = SealedConfig]
  /\ UNCHANGED <<today, issued, keyFile, env, config, configRow, saving, strays, deaths>>

WriteAnew ==
  /\ rotation.at = "write"
  /\ configRow' \in {rotation.row, configRow}
  /\ rotation' = NoRotation
  /\ UNCHANGED <<today, issued, keyFile, env, config, saving, strays, deaths>>

Rotate ==
  \/ BeginRotation \/ SetKey \/ SetID \/ SetPrevious
  \/ SaveStore \/ SaveStoreFails \/ SealAnew \/ WriteAnew

-----------------------------------------------------------------------------
\* A handler changes the configuration and saves it: it enters a password, or a token,
\* which UpdateCICDConnection seals at once, or something else.  Saves do not wait for
\* one another.
Edit(s) ==
  /\ saving[s].at = "idle"
  /\ \/ config' = [config EXCEPT !.known = TRUE]
     \/ config' = [config EXCEPT !.token = env.key]
  /\ saving' = [saving EXCEPT ![s].at = "edited"]
  /\ UNCHANGED <<today, issued, keyFile, env, rotation, configRow, strays, deaths>>

SealCopy(s) ==
  /\ saving[s].at \in {"idle", "edited"}
  /\ saving' = [saving EXCEPT ![s] = [at |-> "sealed", row |-> SealedConfig]]
  /\ UNCHANGED <<today, issued, keyFile, env, rotation, config, configRow, strays, deaths>>

WriteConfig(s) ==
  /\ saving[s].at = "sealed"
  /\ configRow' \in {saving[s].row, configRow}
  /\ saving' = [saving EXCEPT ![s] = NotSaving]
  /\ UNCHANGED <<today, issued, keyFile, env, rotation, config, strays, deaths>>

Save(s) == Edit(s) \/ SealCopy(s) \/ WriteConfig(s)

\* The process dies and starts again: the environment is the operator's, the store is
\* applied to it, and the configuration is read with the keys that gives.
RestartKeys ==
  /\ deaths < MaxDeaths
  /\ keyFile' \in StartedStores(keyFile)
  /\ env' = StartedEnv(keyFile)
  /\ config' = OpenedConfig(configRow, LoadKeys(env'))
  /\ rotation' = NoRotation
  /\ saving' = [s \in Savers |-> NotSaving]
  /\ deaths' = deaths + 1
  /\ UNCHANGED <<today, issued, configRow, strays>>

\* aiops-server -reset-admin or -reset-admin-mfa, a process of its own: it reads the
\* configuration with the keys of the operator's environment, never with those of the
\* store, changes an account and saves the rest as it read it.
ResetAdmin ==
  /\ LET read == OpenedConfig(configRow, LoadKeys(OperatorsEnv))
     IN  configRow' = [password |-> IF read.known THEN OperatorsEnv.key ELSE NotSealed,
                       token |-> read.token]
  /\ UNCHANGED <<today, issued, keyFile, env, rotation, config, saving, strays, deaths>>

KeysNext ==
  NextDay \/ Rotate \/ (\E s \in Savers : Save(s)) \/ RestartKeys \/ ResetAdmin

KeysSpec == KeysInit /\ [][KeysNext]_keyVars

-----------------------------------------------------------------------------
(* Properties.                                                              *)

StoreType == [current : SecretKeySet \cup {NoCurrent}, previous : Seq(SecretKeySet)]
RowType == [password : {NotSealed} \cup Passes, token : {NotSealed} \cup Passes]

KeysTypeOK ==
  /\ today \in 1..LastDay
  /\ issued \in Seq(SecretKeySet)
  /\ keyFile \in StoreType
  /\ env \in [key : Passes, id : KeyIDs, prev : Seq(SecretKeySet)]
  /\ rotation \in [at : {"idle", "key", "id", "prev", "store", "seal", "write"},
                   store : StoreType, row : RowType]
  /\ config \in [known : BOOLEAN, token : {NotSealed} \cup Passes]
  /\ configRow \in RowType
  /\ saving \in [Savers -> [at : {"idle", "edited", "sealed"}, row : RowType]]
  /\ strays \subseteq Passes
  /\ deaths \in 0..MaxDeaths

Distinct == \A i, j \in DOMAIN issued : issued[i].id = issued[j].id => i = j

\* The keys that a process started now would read the configuration with.
KeysAfterRestart == LoadKeys(StartedEnv(keyFile))

\* A rotation "keeps previous for decrypt": whatever process reads the configuration,
\* after whatever failed or late saves, opens the secrets in it, as long as every key
\* that was used has reached the store, at most MaxPrevious came after the one that
\* sealed the secret, and no two have the same id.
SecretsOutliveRestarts ==
  strays = {} /\ Distinct =>
    \A p \in {configRow.password, configRow.token} \ {NotSealed} :
      Len(issued) - p <= MaxPrevious => Opens(p, KeysAfterRestart)

\* The store is there "so ops need not manually edit AIOPS_SECRET_KEYS_PREV after a
\* rotation": as long as the server stays up, a password in the configuration may be
\* sealed anew, but is never lost.
PasswordsStay ==
  [][configRow.password # NotSealed => configRow'.password # NotSealed]_keyVars
=============================================================================
