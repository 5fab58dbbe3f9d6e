------------------------------- MODULE WriteCache -------------------------------
(***************************************************************************)
(* The periodic flush of one table to PostgreSQL with the cache that keeps *)
(* it from writing what has not changed (src/cmd/server/pgstore.go,        *)
(* pgstore_writecache.go).  There are four kinds of tables: hosts, with a  *)
(* frequent flush that looks at the identity of a host only and a rare one *)
(* that writes its metrics too; mirrored tables (on-call pages, change     *)
(* records), whose rows go when their object goes; kept ones (incidents,   *)
(* tickets), whose rows stay; and blobs, one row each, written outside of  *)
(* transactions.  One flush runs at a time, which holds until the process  *)
(* is told to stop: no mutex keeps its last flush apart from one that the  *)
(* ticker has started, and that overlap is left out.                       *)
(***************************************************************************)
EXTENDS Naturals, FiniteSets

CONSTANTS
  Objects, Absent,
  Identities, Readings,   \* what an object's JSON is made of
  MaxBoots                \* bound on the restarts of a behaviour

VARIABLES
  kind,          \* which kind of table this is
  live,          \* the objects in memory
  rows,          \* the table
  hashes,        \* pgWriteCache.hash: the value remembered for each row
  idents,        \* the same of the identity digests ("hosts-id/")
  known,         \* pgWriteCache.ids
  seeded,        \* pgWriteCache.seeded
  flush,         \* the flush under way, or the last one
  lost,          \* blobs whose last write failed, perhaps after it took effect
  boots          \* restarts so far

wcVars == <<kind, live, rows, hashes, idents, known, seeded, flush, lost, boots>>

Kinds == {"hosts", "mirrored", "kept", "blobs"}
Object == [ident : Identities, reading : Readings]
Table == [Objects -> Object \cup {Absent}]
Nothing == [o \in Objects |-> Absent]
Present(t) == {o \in Objects : t[o] # Absent}

ASSUME WriteCacheAssumption ==
  /\ Absent \notin Object \cup Identities
  /\ MaxBoots \in Nat

AtRestFlush ==
  [at |-> "rest", heavy |-> TRUE, scope |-> {}, export |-> Nothing,
   pending |-> {}, removed |-> {}]

WriteCacheTypeOK ==
  /\ kind \in Kinds
  /\ {live, rows, hashes} \subseteq Table
  /\ idents \in [Objects -> Identities \cup {Absent}]
  /\ known \subseteq Objects
  /\ seeded \in BOOLEAN
  /\ flush \in [at : {"rest", "compared", "committed", "done"}, heavy : BOOLEAN,
                scope : SUBSET Objects, export : Table,
                pending : SUBSET Objects, removed : SUBSET Objects]
  /\ lost \subseteq Objects
  /\ boots \in 0..MaxBoots

WriteCacheInit ==
  /\ kind \in Kinds
  /\ live = Nothing
  /\ rows = Nothing
  /\ hashes = Nothing
  /\ idents = Nothing
  /\ known = {}
  /\ seeded = FALSE
  /\ flush = AtRestFlush
  /\ lost = {}
  /\ boots = 0

-----------------------------------------------------------------------------

\* A handler creates, changes or removes an object; a blob stays.
Store(o, v) ==
  /\ kind = "blobs" => v # Absent
  /\ live' = [live EXCEPT ![o] = v]
  /\ UNCHANGED <<kind, rows, hashes, idents, known, seeded, flush, lost, boots>>

\* isChanged, for the row and, in the frequent flush of the hosts, for the identity.
Changed(o, v, heavy) ==
  /\ hashes[o] # v
  /\ kind = "hosts" /\ ~heavy => idents[o] # v.ident

Mirrored == kind \in {"hosts", "mirrored"}

\* Export, needsSeed and seed, and the comparison with the cache.
BeginFlush(heavy, scope) ==
  /\ flush.at \in {"rest", "done"}
  /\ kind # "hosts" => heavy
  /\ IF kind = "blobs" THEN \E o \in Objects : scope = {o} ELSE scope = Objects
  /\ LET present == IF Mirrored /\ ~seeded THEN Present(rows) ELSE known
     IN  /\ known' = present
         /\ seeded' = (seeded \/ Mirrored)
         /\ flush' =
              [at |-> "compared", heavy |-> heavy, scope |-> scope, export |-> live,
               pending |-> {o \in Present(live) \cap scope : Changed(o, live[o], heavy)},
               removed |-> IF Mirrored THEN present \ Present(live) ELSE {}]
  /\ UNCHANGED <<kind, live, rows, hashes, idents, lost, boots>>

\* Nothing to write: the flush returns without a transaction.
NothingToWrite ==
  /\ flush.at = "compared"
  /\ flush.pending = {} /\ flush.removed = {}
  /\ flush' = [flush EXCEPT !.at = "done"]
  /\ UNCHANGED <<kind, live, rows, hashes, idents, known, seeded, lost, boots>>

\* Begin or a statement fails: the transaction is rolled back, the cache stays.
Abort ==
  /\ flush.at = "compared"
  /\ flush.pending \cup flush.removed # {}
  /\ flush' = [flush EXCEPT !.at = "rest"]
  /\ UNCHANGED <<kind, live, rows, hashes, idents, known, seeded, lost, boots>>

Written ==
  [o \in Objects |-> IF o \in flush.pending THEN flush.export[o]
                     ELSE IF o \in flush.removed THEN Absent ELSE rows[o]]

Commit ==
  /\ flush.at = "compared"
  /\ flush.pending \cup flush.removed # {}
  /\ rows' = Written
  /\ flush' = [flush EXCEPT !.at = "committed"]
  /\ UNCHANGED <<kind, live, hashes, idents, known, seeded, lost, boots>>

\* Mutant: the cache is left as it is.
CommitFailsTrusting ==
  /\ flush.at = "compared"
  /\ flush.pending \cup flush.removed # {}
  /\ rows' \in {rows, Written}
  /\ flush' = [flush EXCEPT !.at = "rest"]
  /\ UNCHANGED <<kind, live, hashes, idents, known, seeded, lost, boots>>
\* The commit returns an error, having taken effect or not: invalidateTable of the
\* rows and of the identities.  saveKV only returns the error.
CommitFails ==
  /\ flush.at = "compared"
  /\ flush.pending \cup flush.removed # {}
  /\ rows' \in {rows, Written}
  /\ flush' = [flush EXCEPT !.at = "rest"]
  /\ IF kind = "blobs"
       THEN /\ lost' = lost \cup flush.pending
            /\ UNCHANGED <<hashes, idents, known, seeded>>
       ELSE /\ hashes' = Nothing
            /\ idents' = Nothing
            /\ known' = {}
            /\ seeded' = FALSE
            /\ UNCHANGED lost
  /\ UNCHANGED <<kind, live, boots>>

\* remember, forget and setIDs
Remember ==
  /\ flush.at = "committed"
  /\ hashes' = [o \in Objects |-> IF o \in flush.pending THEN flush.export[o]
                                  ELSE IF o \in flush.removed THEN Absent ELSE hashes[o]]
  /\ idents' = [o \in Objects |->
                  IF kind = "hosts" /\ o \in flush.pending THEN flush.export[o].ident
                  ELSE IF o \in flush.removed THEN Absent ELSE idents[o]]
  /\ known' = IF Mirrored THEN Present(flush.export) ELSE known
  /\ lost' = lost \ flush.pending
  /\ flush' = [flush EXCEPT !.at = "done"]
  /\ UNCHANGED <<kind, live, rows, seeded, boots>>

\* The process stops, at any point of a flush, and another one loads the table, or
\* starts without it when the query fails.
Reboot ==
  /\ boots < MaxBoots
  /\ boots' = boots + 1
  /\ live' \in {rows, Nothing}
  /\ hashes' = Nothing
  /\ idents' = Nothing
  /\ known' = {}
  /\ seeded' = FALSE
  /\ flush' = AtRestFlush
  /\ lost' = {}
  /\ UNCHANGED <<kind, rows>>

WriteCacheNext ==
  \/ \E o \in Objects, v \in Object \cup {Absent} : Store(o, v)
  \/ \E heavy \in BOOLEAN, scope \in SUBSET Objects : BeginFlush(heavy, scope)
  \/ NothingToWrite
  \/ Abort
  \/ Commit
  \/ CommitFails
  \/ Remember
  \/ Reboot

WriteCacheSpec == WriteCacheInit /\ [][WriteCacheNext]_wcVars

-----------------------------------------------------------------------------
(* Properties.                                                              *)

\* The cache never claims more than the table holds, whatever failed: a value it
\* remembers is the one in the row, and the ids it knows are those of the rows.
\* Between the commit and the remembering the table is ahead.
CacheSound ==
  flush.at # "committed" =>
    /\ \A o \in Objects \ lost :
         /\ hashes[o] # Absent => rows[o] = hashes[o]
         /\ idents[o] # Absent => rows[o] # Absent /\ rows[o].ident = idents[o]
    /\ seeded => known = Present(rows)

\* What a flush without the cache would leave: every object as it was exported, and
\* of a mirrored table nothing else.  The frequent flush of the hosts vouches for
\* their identities only.
Mirrors(o) ==
  LET e == flush.export[o]
  IN  IF e = Absent THEN Mirrored => rows[o] = Absent
      ELSE /\ rows[o] # Absent
           /\ rows[o].ident = e.ident
           /\ flush.heavy => rows[o] = e

\* Writing what has changed is "equivalent" to writing everything: a flush that
\* reports success leaves the table as one without a cache would have, after any
\* failed commits, removals, restarts and skipped rows; except for a blob that went
\* back to its former value after a write that failed.
FlushMirrors ==
  flush.at = "done" => \A o \in flush.scope \ lost : Mirrors(o)
=============================================================================
