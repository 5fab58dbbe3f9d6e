------------------------------ MODULE AuditChain ------------------------------
(***************************************************************************)
(* The chain of the audit log (audit_chain.go, audit_chain_format.go).     *)
(* Every entry holds the hash of the one before it and a hash of its own,  *)
(* under the key that signs at the time.  Entries are appended from any    *)
(* goroutine, in transactions that wait for one another at an advisory     *)
(* lock of the database, while the keys may be rotated.  The last entries  *)
(* are verified on demand.                                                 *)
(***************************************************************************)
EXTENDS SecretKeys

CONSTANTS
  Appenders,    \* goroutines that append
  MaxEntries    \* bound on entries

ASSUME AuditChainAssumption == MaxEntries \in Nat

VARIABLES
  chain,        \* audit_log_p in the order of the rows' ids
  appending     \* the transaction of each appender

chainVars == <<chain, appending>>

\* An entry's own hash is its place, so that prev is the place of another entry, or 0.
Entry == [seq : Nat, prev : Nat, id : KeyIDs, pass : Passes]

NotAppending == [at |-> "idle", tip |-> 0, pass |-> 0]

\* ORDER BY chain_seq, id
Precedes(i, j) == chain[i].seq < chain[j].seq \/ (chain[i].seq = chain[j].seq /\ i < j)
Tip ==
  IF chain = << >> THEN 0
  ELSE CHOOSE i \in DOMAIN chain : \A j \in DOMAIN chain \ {i} : Precedes(j, i)
SeqAt(place) == IF place = 0 THEN 0 ELSE chain[place].seq

ChainInit ==
  /\ chain = << >>
  /\ appending = [a \in Appenders |-> NotAppending]

\* Mutant: the transaction does not wait for the lock.
ReadTipUnlocked(a) ==
  /\ appending[a].at = "idle"
  /\ Len(chain) < MaxEntries
  /\ appending' = [appending EXCEPT ![a] = [at |-> "key", tip |-> Tip, pass |-> 0]]
  /\ UNCHANGED <<chain, keyVars>>

\* appendAuditChained: pg_advisory_xact_lock, and the tip that it then sees.
LockAndReadTip(a) ==
  /\ \A b \in Appenders : appending[b].at = "idle"
  /\ Len(chain) < MaxEntries
  /\ appending' = [appending EXCEPT ![a] = [at |-> "key", tip |-> Tip, pass |-> 0]]
  /\ UNCHANGED <<chain, keyVars>>

\* auditChainSigningKeys reads the key from the environment, and then its id.
ReadKey(a) ==
  /\ appending[a].at = "key"
  /\ appending' = [appending EXCEPT ![a].at = "id", ![a].pass = env.key]
  /\ UNCHANGED <<chain, keyVars>>

ReadIDAndCommit(a) ==
  /\ appending[a].at = "id"
  /\ chain' = Append(chain,
       [seq |-> SeqAt(appending[a].tip) + 1, prev |-> appending[a].tip,
        id |-> env.id, pass |-> appending[a].pass])
  /\ appending' = [appending EXCEPT ![a] = NotAppending]
  /\ UNCHANGED keyVars

\* withPgTx rolls back; appendAudit only reports that the entry is missing.
AppendFails(a) ==
  /\ appending[a].at # "idle"
  /\ appending' = [appending EXCEPT ![a] = NotAppending]
  /\ UNCHANGED <<chain, keyVars>>

AppendEntry(a) ==
  LockAndReadTip(a) \/ ReadKey(a) \/ ReadIDAndCommit(a) \/ AppendFails(a)

\* The keys change under the transactions; a restart ends those too.
KeysStep ==
  /\ KeysNext
  /\ appending' = IF deaths' = deaths THEN appending ELSE [a \in Appenders |-> NotAppending]
  /\ UNCHANGED chain

ChainNext == KeysStep \/ \E a \in Appenders : AppendEntry(a)

ChainSpec == KeysInit /\ ChainInit /\ [][ChainNext]_<<keyVars, chainVars>>

-----------------------------------------------------------------------------
\* The entries that verifyAuditChain reads: one more than it reports.
Window(limit) ==
  {i \in DOMAIN chain : Cardinality({j \in DOMAIN chain : Precedes(i, j)}) <= limit}

Before(i, window) == {j \in window : Precedes(j, i)}

\* The first entry of a window that begins inside the chain follows one not read.
Linked(i, window, limit) ==
  IF Before(i, window) # {}
  THEN \E p \in Before(i, window) :
         /\ \A j \in Before(i, window) \ {p} : Precedes(j, p)
         /\ chain[i].seq = chain[p].seq + 1 /\ chain[i].prev = p
  ELSE Cardinality(window) > limit \/ (chain[i].seq = 1 /\ chain[i].prev = 0)

\* verifyAuditEntryHash, for entries that name their key.
HashCode(entry, keys) ==
  LET named == {k \in keys : k.id = entry.id}
  IN  IF named = {} THEN "unverifiable"
      ELSE IF \E k \in named : k.pass = entry.pass THEN "ok" ELSE "broken"

EntryCode(i, window, limit) ==
  IF Linked(i, window, limit) THEN HashCode(chain[i], LoadKeys(env)) ELSE "broken"

Verifies(limit) ==
  \A i \in Window(limit) : EntryCode(i, Window(limit), limit) = "ok"

\* The first entry that does not verify decides what is reported.
ReportedBroken(limit) ==
  \E i \in Window(limit) :
    /\ EntryCode(i, Window(limit), limit) = "broken"
    /\ \A j \in Before(i, Window(limit)) : EntryCode(j, Window(limit), limit) = "ok"

-----------------------------------------------------------------------------
(* Properties.                                                              *)

ChainTypeOK ==
  /\ chain \in Seq(Entry)
  /\ appending \in [Appenders -> [at : {"idle", "key", "id"}, tip : Nat,
                                  pass : {0} \cup Passes]]

\* An entry that was signed by one key under the id of that key: a rotation between the
\* reads of the key and of its id makes one that is not.
Genuine(entry) ==
  \E i \in DOMAIN issued : issued[i].id = entry.id /\ issued[i].pass = entry.pass

\* What nobody has touched is not reported broken: whoever appends at the same time,
\* whatever rolls back, dies or is rotated meanwhile, a window of genuine entries is
\* broken only while a rotation has set the key and not yet its id, or if two keys have
\* the same id.  And it verifies if no rotation is under way, every key has reached the
\* store, and the keys of its entries are among those the store keeps.
GenuineIsNeverBroken ==
  Distinct /\ rotation.at # "id" =>
    \A limit \in 1..MaxEntries :
      (\A i \in Window(limit) : Genuine(chain[i])) =>
        /\ ~ReportedBroken(limit)
        /\ /\ rotation.at = "idle" /\ strays = {}
           /\ \A i \in Window(limit) : Len(issued) - chain[i].pass <= MaxPrevious
           => Verifies(limit)
=============================================================================
