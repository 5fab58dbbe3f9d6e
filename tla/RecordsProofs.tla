---------------------------- MODULE RecordsProofs ----------------------------
(***************************************************************************)
(* Proofs about what the server keeps in PostgreSQL: the cache of what has *)
(* been written there, for any objects, of any kind of table, and any      *)
(* number of restarts; SQL change requests, for any number of tickets and  *)
(* of handlers at work on them; and the history of playbook executions,    *)
(* for any capacity, any number of executions and any number of restarts.  *)
(***************************************************************************)
EXTENDS WriteCache, SQLChanges, PlaybookHistory, SequenceTheorems, FiniteSetTheorems, TLAPS

Flush ==
  [at : {"rest", "compared", "committed", "done"}, heavy : BOOLEAN,
   scope : SUBSET Objects, export : Table,
   pending : SUBSET Objects, removed : SUBSET Objects]

\* A flush writes only what it has exported: what is remembered is then an object.
PendingExported == flush.pending \subseteq Present(flush.export)

LEMMA NothingIsATable == Nothing \in Table
BY DEF Nothing, Table

LEMMA AtRestIsAFlush == AtRestFlush \in Flush
BY NothingIsATable DEF AtRestFlush, Flush

LEMMA InitPending == WriteCacheInit => PendingExported
BY DEF WriteCacheInit, AtRestFlush, PendingExported

LEMMA StepPending ==
  WriteCacheTypeOK /\ PendingExported /\ [WriteCacheNext]_wcVars => PendingExported'
<1> SUFFICES ASSUME WriteCacheTypeOK, PendingExported, [WriteCacheNext]_wcVars
             PROVE  PendingExported'
  OBVIOUS
<1> USE DEF PendingExported
<1>a. flush \in Flush
  BY DEF WriteCacheTypeOK, Flush
<1>1. CASE UNCHANGED flush
  BY <1>1 DEF Present
<1>2. ASSUME NEW heavy \in BOOLEAN, NEW scope \in SUBSET Objects, BeginFlush(heavy, scope)
      PROVE  PendingExported'
  BY <1>2 DEF BeginFlush
<1>3. CASE NothingToWrite \/ Abort \/ Commit \/ CommitFails \/ Remember
  <2>1. flush'.pending = flush.pending /\ flush'.export = flush.export
    BY <1>3, <1>a DEF NothingToWrite, Abort, Commit, CommitFails, Remember, Flush
  <2> QED
    BY <2>1 DEF Present
<1>4. CASE Reboot
  BY <1>4 DEF Reboot, AtRestFlush
<1> QED
  BY <1>1, <1>2, <1>3, <1>4 DEF WriteCacheNext, Store, wcVars

LEMMA InitTypes == WriteCacheInit => WriteCacheTypeOK
<1> SUFFICES ASSUME WriteCacheInit PROVE WriteCacheTypeOK
  OBVIOUS
<1>1. Nothing \in Table /\ Nothing \in [Objects -> Identities \cup {Absent}]
  BY NothingIsATable DEF Nothing
<1>2. flush \in Flush
  BY AtRestIsAFlush DEF WriteCacheInit
<1>3. boots \in 0..MaxBoots
  BY WriteCacheAssumption DEF WriteCacheInit
<1> QED
  BY <1>1, <1>2, <1>3 DEF WriteCacheInit, WriteCacheTypeOK, Flush

LEMMA PresentIsSubset == \A t : Present(t) \subseteq Objects
BY DEF Present

LEMMA WrittenIsATable == WriteCacheTypeOK => Written \in Table
BY DEF WriteCacheTypeOK, Written, Table

LEMMA StepTypes ==
  WriteCacheTypeOK /\ PendingExported /\ [WriteCacheNext]_wcVars => WriteCacheTypeOK'
<1> SUFFICES ASSUME WriteCacheTypeOK, PendingExported, [WriteCacheNext]_wcVars
             PROVE  WriteCacheTypeOK'
  OBVIOUS
<1>a. flush \in Flush
  BY DEF WriteCacheTypeOK, Flush
<1>1. ASSUME NEW o \in Objects, NEW v \in Object \cup {Absent}, Store(o, v)
      PROVE  WriteCacheTypeOK'
  <2>1. live' \in Table
    BY <1>1 DEF Store, WriteCacheTypeOK, Table
  <2> QED
    BY <1>1, <2>1 DEF Store, WriteCacheTypeOK
<1>2. ASSUME NEW heavy \in BOOLEAN, NEW scope \in SUBSET Objects, BeginFlush(heavy, scope)
      PROVE  WriteCacheTypeOK'
  <2> DEFINE present == IF Mirrored /\ ~seeded THEN Present(rows) ELSE known
  <2>1. present \subseteq Objects
    BY PresentIsSubset DEF WriteCacheTypeOK
  <2>2. known' \subseteq Objects /\ seeded' \in BOOLEAN
    BY <1>2, <2>1 DEF BeginFlush, WriteCacheTypeOK, Mirrored
  <2>3. flush' \in Flush
    BY <1>2, <2>1, PresentIsSubset DEF BeginFlush, WriteCacheTypeOK, Flush
  <2> QED
    BY <1>2, <2>2, <2>3 DEF BeginFlush, WriteCacheTypeOK, Flush
<1>3. CASE NothingToWrite
  <2>1. flush' \in Flush
    BY <1>3, <1>a DEF NothingToWrite, Flush
  <2> QED
    BY <1>3, <2>1 DEF NothingToWrite, WriteCacheTypeOK, Flush
<1>4. CASE Abort
  <2>1. flush' \in Flush
    BY <1>4, <1>a DEF Abort, Flush
  <2> QED
    BY <1>4, <2>1 DEF Abort, WriteCacheTypeOK, Flush
<1>5. CASE Commit
  <2>1. flush' \in Flush
    BY <1>5, <1>a DEF Commit, Flush
  <2> QED
    BY <1>5, <2>1, WrittenIsATable DEF Commit, WriteCacheTypeOK, Flush
<1>6. CASE CommitFails
  <2>1. flush' \in Flush
    BY <1>6, <1>a DEF CommitFails, Flush
  <2>2. rows' \in Table
    BY <1>6, WrittenIsATable DEF CommitFails, WriteCacheTypeOK
  <2>3. Nothing \in [Objects -> Identities \cup {Absent}]
    BY DEF Nothing
  <2>4. hashes' \in Table /\ idents' \in [Objects -> Identities \cup {Absent}]
    BY <1>6, <2>3, NothingIsATable DEF CommitFails, WriteCacheTypeOK
  <2>5. known' \subseteq Objects /\ seeded' \in BOOLEAN /\ lost' \subseteq Objects
    BY <1>6, <1>a DEF CommitFails, WriteCacheTypeOK, Flush
  <2> QED
    BY <1>6, <2>1, <2>2, <2>4, <2>5 DEF CommitFails, WriteCacheTypeOK, Flush
<1>7. CASE Remember
  <2>1. flush' \in Flush
    BY <1>7, <1>a DEF Remember, Flush
  <2>2. hashes' \in Table
    BY <1>7, <1>a DEF Remember, WriteCacheTypeOK, Flush, Table
  <2>3. idents' \in [Objects -> Identities \cup {Absent}]
    <3> SUFFICES ASSUME NEW o \in Objects
                 PROVE  (IF kind = "hosts" /\ o \in flush.pending THEN flush.export[o].ident
                         ELSE IF o \in flush.removed THEN Absent ELSE idents[o])
                          \in Identities \cup {Absent}
      BY <1>7 DEF Remember
    <3>1. CASE kind = "hosts" /\ o \in flush.pending
      <4>1. flush.export[o] \in Object
        BY <3>1, <1>a DEF PendingExported, Present, Flush, Table
      <4> QED
        BY <3>1, <4>1 DEF Object
    <3>2. CASE ~(kind = "hosts" /\ o \in flush.pending)
      BY <3>2 DEF WriteCacheTypeOK
    <3> QED
      BY <3>1, <3>2
  <2>4. known' \subseteq Objects /\ lost' \subseteq Objects
    BY <1>7, PresentIsSubset DEF Remember, WriteCacheTypeOK
  <2> QED
    BY <1>7, <2>1, <2>2, <2>3, <2>4 DEF Remember, WriteCacheTypeOK, Flush
<1>8. CASE Reboot
  <2>1. boots' \in 0..MaxBoots
    BY <1>8, WriteCacheAssumption DEF Reboot, WriteCacheTypeOK
  <2>2. Nothing \in [Objects -> Identities \cup {Absent}]
    BY DEF Nothing
  <2>3. live' \in Table
    BY <1>8, NothingIsATable DEF Reboot, WriteCacheTypeOK
  <2> QED
    BY <1>8, <2>1, <2>2, <2>3, NothingIsATable, AtRestIsAFlush
    DEF Reboot, WriteCacheTypeOK, Flush
<1>9. CASE UNCHANGED wcVars
  BY <1>9 DEF wcVars, WriteCacheTypeOK
<1> QED
  BY <1>1, <1>2, <1>3, <1>4, <1>5, <1>6, <1>7, <1>8, <1>9 DEF WriteCacheNext

\* Every variable keeps its type: what is in memory, in the table and in the cache is
\* an object or nothing, whatever a flush does and wherever the process stops.
THEOREM WriteCacheTyped == WriteCacheSpec => []WriteCacheTypeOK
<1>1. WriteCacheInit => WriteCacheTypeOK /\ PendingExported
  BY InitTypes, InitPending
<1>2. WriteCacheTypeOK /\ PendingExported /\ [WriteCacheNext]_wcVars
        => WriteCacheTypeOK' /\ PendingExported'
  BY StepTypes, StepPending
<1> QED
  BY <1>1, <1>2, PTL DEF WriteCacheSpec

-----------------------------------------------------------------------------
(* The cache never claims more than the table holds.  Three things make that *)
(* inductive: what the comparison of a flush under way has established about *)
(* the objects it leaves alone; what the commit has made of the others, that *)
(* the cache does not know yet; and that only blobs are ever in doubt and    *)
(* only hosts have identities.                                              *)

UnderWay == flush.at \in {"compared", "committed"}
InDoubt == IF flush.at = "committed" THEN flush.pending \cup flush.removed ELSE {}

KindsKept ==
  /\ lost # {} => kind = "blobs"
  /\ seeded => Mirrored
  /\ kind # "hosts" => \A o \in Objects : idents[o] = Absent

ComparedFacts ==
  UnderWay =>
    /\ kind # "hosts" => flush.heavy
    /\ \A o \in Present(flush.export) \cap flush.scope :
         o \notin flush.pending => ~Changed(o, flush.export[o], flush.heavy)
    /\ Mirrored => seeded /\ flush.removed = known \ Present(flush.export)
    /\ Mirrored => flush.scope = Objects
    /\ ~Mirrored => flush.removed = {}

EntryTrue(o) ==
  /\ hashes[o] # Absent => rows[o] = hashes[o]
  /\ idents[o] # Absent => rows[o] # Absent /\ rows[o].ident = idents[o]
EntriesTrue == \A o \in Objects \ (lost \cup InDoubt) : EntryTrue(o)

CommittedFacts ==
  flush.at = "committed" =>
    /\ \A o \in flush.pending : rows[o] = flush.export[o]
    /\ \A o \in flush.removed : rows[o] = Absent
    /\ Mirrored => Present(rows) = Present(flush.export)

KnownTrue == flush.at # "committed" /\ seeded => known = Present(rows)

CacheFacts ==
  /\ KindsKept
  /\ ComparedFacts
  /\ EntriesTrue
  /\ CommittedFacts
  /\ KnownTrue

CacheInv == WriteCacheTypeOK /\ PendingExported /\ CacheFacts

LEMMA CacheInvImpliesSound == CacheInv => CacheSound
BY DEF CacheInv, CacheFacts, EntriesTrue, EntryTrue, InDoubt, KnownTrue, CacheSound

LEMMA InitCache == WriteCacheInit => CacheInv
<1> SUFFICES ASSUME WriteCacheInit PROVE CacheInv
  OBVIOUS
<1>1. WriteCacheTypeOK /\ PendingExported
  BY InitTypes, InitPending
<1>2. EntriesTrue
  BY DEF WriteCacheInit, EntriesTrue, EntryTrue, Nothing
<1>3. flush.at = "rest" /\ lost = {} /\ seeded = FALSE /\ idents = Nothing
  BY DEF WriteCacheInit, AtRestFlush
<1> QED
  BY <1>1, <1>2, <1>3
  DEF CacheInv, CacheFacts, KindsKept, ComparedFacts, UnderWay, CommittedFacts, KnownTrue, Nothing

\* The parts of the invariant that read neither the objects in memory nor the counter
\* of restarts.
LEMMA StoreCache ==
  ASSUME CacheInv, UNCHANGED <<kind, rows, hashes, idents, known, seeded, flush, lost>>
  PROVE  CacheFacts'
BY DEF CacheInv, CacheFacts, KindsKept, ComparedFacts, EntriesTrue, EntryTrue,
       CommittedFacts, KnownTrue, UnderWay, InDoubt, Mirrored, Present, Changed

LEMMA BeginFlushCache ==
  ASSUME CacheInv, NEW heavy \in BOOLEAN, NEW scope \in SUBSET Objects,
         BeginFlush(heavy, scope)
  PROVE  CacheFacts'
<1> USE DEF BeginFlush, CacheInv, CacheFacts
<1>1. flush'.at = "compared" /\ flush'.heavy = heavy /\ flush'.scope = scope
      /\ flush'.export = live
  OBVIOUS
<1>2. flush'.pending = {o \in Present(live) \cap scope : Changed(o, live[o], heavy)}
  OBVIOUS
<1>3. flush'.removed = IF Mirrored THEN known' \ Present(live) ELSE {}
  OBVIOUS
<1>4. seeded' = (seeded \/ Mirrored) /\ Mirrored' = Mirrored
  BY DEF Mirrored
<1>5. Mirrored => known' = Present(rows)
  BY DEF KnownTrue
<1>6. KindsKept'
  BY <1>4 DEF KindsKept
<1>7. ComparedFacts'
  <2>1. \A o \in Present(live) \cap scope :
          o \notin flush'.pending => ~Changed(o, live[o], heavy)
    BY <1>2
  <2>3. Mirrored => scope = Objects
    BY DEF Mirrored
  <2>4. kind' # "hosts" => heavy
    OBVIOUS
  <2>5. \A o \in Present(flush'.export) \cap flush'.scope :
          o \notin flush'.pending => ~Changed(o, flush.export[o], flush.heavy)'
    BY <1>1, <2>1 DEF Changed
  <2> QED
    BY <1>1, <1>3, <1>4, <2>3, <2>4, <2>5 DEF ComparedFacts, Present
<1>8. EntriesTrue'
  BY <1>1 DEF EntriesTrue, EntryTrue, InDoubt
<1>9. CommittedFacts'
  BY <1>1 DEF CommittedFacts
<1>10. KnownTrue'
  BY <1>4, <1>5 DEF KnownTrue, KindsKept, Present
<1> QED
  BY <1>6, <1>7, <1>8, <1>9, <1>10

\* What a step that ends the flush without writing, or moves it on, keeps of it.
LEMMA FlushKept ==
  ASSUME WriteCacheTypeOK, NothingToWrite \/ Abort \/ Commit \/ CommitFails \/ Remember
  PROVE  /\ flush'.heavy = flush.heavy /\ flush'.scope = flush.scope
         /\ flush'.export = flush.export /\ flush'.pending = flush.pending
         /\ flush'.removed = flush.removed
         /\ NothingToWrite \/ Remember => flush'.at = "done"
         /\ Abort \/ CommitFails => flush'.at = "rest"
         /\ Commit => flush'.at = "committed"
<1>1. flush \in Flush
  BY DEF WriteCacheTypeOK, Flush
<1> QED
  BY <1>1 DEF Flush, NothingToWrite, Abort, Commit, CommitFails, Remember

LEMMA UnwrittenCache ==
  ASSUME CacheInv, NothingToWrite \/ Abort
  PROVE  CacheFacts'
<1>1. /\ UNCHANGED <<kind, rows, hashes, idents, known, seeded, lost>>
      /\ flush.at = "compared" /\ flush'.at \in {"rest", "done"}
  BY FlushKept DEF CacheInv, NothingToWrite, Abort
<1> QED
  BY <1>1 DEF CacheInv, CacheFacts, KindsKept, ComparedFacts, EntriesTrue, EntryTrue,
              CommittedFacts, KnownTrue, UnderWay, InDoubt, Mirrored, Present

\* What is in the row of an object that a flush under way leaves alone.
LEMMA LeftAlone ==
  ASSUME CacheInv, UnderWay, NEW o \in flush.scope \ lost,
         o \in Present(flush.export), o \notin flush.pending \cup InDoubt
  PROVE  /\ rows[o] # Absent
         /\ rows[o].ident = flush.export[o].ident
         /\ flush.heavy => rows[o] = flush.export[o]
<1>1. flush.scope \subseteq Objects
  BY DEF CacheInv, WriteCacheTypeOK
<1>2. EntryTrue(o)
  BY <1>1 DEF CacheInv, CacheFacts, EntriesTrue
<1>3. ~Changed(o, flush.export[o], flush.heavy) /\ (kind # "hosts" => flush.heavy)
  BY DEF CacheInv, CacheFacts, ComparedFacts
<1>4. flush.export[o] \in Object
  BY <1>1 DEF CacheInv, WriteCacheTypeOK, Table, Present
<1>5. flush.export[o] # Absent /\ flush.export[o].ident # Absent
  BY <1>4, WriteCacheAssumption DEF Object
<1> QED
  BY <1>2, <1>3, <1>5 DEF EntryTrue, Changed

LEMMA CommitCache ==
  ASSUME CacheInv, Commit
  PROVE  CacheFacts'
<1> USE DEF CacheInv, CacheFacts
<1>1. /\ UNCHANGED <<kind, hashes, idents, known, seeded, lost>>
      /\ flush.at = "compared" /\ flush'.at = "committed"
      /\ rows' = Written
  BY FlushKept DEF Commit
<1>2. /\ flush'.heavy = flush.heavy /\ flush'.scope = flush.scope
      /\ flush'.export = flush.export /\ flush'.pending = flush.pending
      /\ flush'.removed = flush.removed
  BY FlushKept
<1>3. KindsKept'
  BY <1>1 DEF KindsKept, Mirrored
<1>4. ComparedFacts'
  BY <1>1, <1>2 DEF ComparedFacts, UnderWay, Mirrored, Present, Changed
<1>5. EntriesTrue'
  BY <1>1, <1>2 DEF EntriesTrue, EntryTrue, InDoubt, Written
<1>6. CommittedFacts'
  <2>1. flush.pending \subseteq Objects /\ flush.removed \subseteq Objects
    BY DEF WriteCacheTypeOK
  <2>2. flush.pending \subseteq Present(flush.export)
    BY DEF PendingExported
  <2>3. Mirrored => flush.removed = known \ Present(flush.export) /\ known = Present(rows)
    BY <1>1 DEF ComparedFacts, UnderWay, KnownTrue
  <2>4. flush.removed \cap flush.pending = {}
    BY <1>1, <2>2 DEF ComparedFacts, UnderWay
  <2>5. \A o \in flush.pending : rows'[o] = flush.export[o]
    BY <1>1, <2>1 DEF Written
  <2>6. \A o \in flush.removed : rows'[o] = Absent
    BY <1>1, <2>1, <2>4 DEF Written
  <2>7. ASSUME Mirrored PROVE Present(rows') = Present(flush.export)
    <3>1. ASSUME NEW o \in Objects, o \in Present(flush.export) PROVE rows'[o] # Absent
      <4>1. CASE o \in flush.pending
        BY <3>1, <4>1, <2>5 DEF Present
      <4>2. CASE o \notin flush.pending
        <5>1. o \in flush.scope \ lost
          BY <1>1, <2>7 DEF ComparedFacts, UnderWay, KindsKept, Mirrored
        <5>2. rows[o] # Absent
          BY <1>1, <3>1, <4>2, <5>1, LeftAlone DEF UnderWay, InDoubt
        <5> QED
          BY <1>1, <2>3, <2>7, <3>1, <4>2, <5>2 DEF Written
      <4> QED
        BY <4>1, <4>2
    <3>2. ASSUME NEW o \in Objects, o \notin Present(flush.export) PROVE rows'[o] = Absent
      BY <1>1, <2>2, <2>3, <2>7, <3>2 DEF Written, Present
    <3> QED
      BY <3>1, <3>2 DEF Present
  <2> QED
    BY <1>1, <1>2, <2>5, <2>6, <2>7 DEF CommittedFacts, Mirrored, Present
<1>7. KnownTrue'
  BY <1>1 DEF KnownTrue
<1> QED
  BY <1>3, <1>4, <1>5, <1>6, <1>7

\* A commit that fails, perhaps after it took effect: what the cache knew is
\* forgotten, or, of a blob, in doubt.
LEMMA CommitFailsCache ==
  ASSUME CacheInv, CommitFails
  PROVE  CacheFacts'
<1>1. flush.at = "compared" /\ flush'.at = "rest" /\ flush'.pending = flush.pending
      /\ kind' = kind
  BY FlushKept DEF CacheInv, CommitFails
<1>2. CASE kind = "blobs"
  <2>1. flush.removed = {} /\ ~Mirrored /\ ~seeded
    BY <1>1, <1>2 DEF CacheInv, CacheFacts, ComparedFacts, UnderWay, Mirrored, KindsKept
  <2>2. lost' = lost \cup flush.pending /\ UNCHANGED <<hashes, idents, known, seeded>>
    BY <1>2 DEF CommitFails
  <2>3. \A o \in Objects \ lost' : rows'[o] = rows[o]
    BY <2>1, <2>2 DEF CommitFails, Written
  <2>4. EntriesTrue'
    BY <1>1, <2>2, <2>3 DEF CacheInv, CacheFacts, EntriesTrue, EntryTrue, InDoubt
  <2> QED
    BY <1>1, <1>2, <2>1, <2>2, <2>4
    DEF CacheInv, CacheFacts, KindsKept, ComparedFacts, UnderWay, CommittedFacts, KnownTrue
<1>3. CASE kind # "blobs"
  <2>1. hashes' = Nothing /\ idents' = Nothing /\ seeded' = FALSE /\ lost' = lost
    BY <1>3 DEF CommitFails
  <2>2. EntriesTrue'
    BY <2>1 DEF EntriesTrue, EntryTrue, Nothing
  <2> QED
    BY <1>1, <2>1, <2>2
    DEF CacheInv, CacheFacts, KindsKept, Nothing, ComparedFacts, UnderWay, CommittedFacts,
        KnownTrue
<1> QED
  BY <1>2, <1>3

LEMMA RememberCache ==
  ASSUME CacheInv, Remember
  PROVE  CacheFacts'
<1> USE DEF CacheInv, CacheFacts
<1>1. /\ flush.at = "committed" /\ flush'.at = "done"
      /\ UNCHANGED <<kind, rows, seeded>> /\ lost' = lost \ flush.pending
  BY FlushKept DEF Remember
<1>2. flush.pending \subseteq Present(flush.export)
  BY DEF PendingExported
<1>3. EntriesTrue'
  <2> SUFFICES ASSUME NEW o \in Objects \ lost' PROVE EntryTrue(o)'
    BY DEF EntriesTrue
  <2>1. CASE o \in flush.pending
    <3>1. rows'[o] = flush.export[o] /\ rows'[o] # Absent
      BY <1>1, <1>2, <2>1 DEF CommittedFacts, Present
    <3>2. hashes'[o] = flush.export[o]
      BY <2>1 DEF Remember
    <3>3. CASE kind = "hosts"
      BY <2>1, <3>1, <3>2, <3>3 DEF Remember, EntryTrue
    <3>4. CASE kind # "hosts"
      <4>1. idents'[o] = Absent
        BY <3>4 DEF Remember, KindsKept
      <4> QED
        BY <3>1, <3>2, <4>1 DEF EntryTrue
    <3> QED
      BY <3>3, <3>4
  <2>2. CASE o \notin flush.pending /\ o \in flush.removed
    BY <2>2 DEF Remember, EntryTrue
  <2>3. CASE o \notin flush.pending /\ o \notin flush.removed
    <3>1. EntryTrue(o)
      BY <1>1, <2>3 DEF EntriesTrue, InDoubt
    <3> QED
      BY <1>1, <2>3, <3>1 DEF Remember, EntryTrue
  <2> QED
    BY <2>1, <2>2, <2>3
<1>5. KindsKept'
  BY <1>1 DEF Remember, KindsKept, Mirrored
<1>4. KnownTrue'
  BY <1>1 DEF Remember, KnownTrue, CommittedFacts, KindsKept, Present
<1> QED
  BY <1>1, <1>3, <1>4, <1>5 DEF ComparedFacts, UnderWay, CommittedFacts

LEMMA RebootCache ==
  ASSUME CacheInv, Reboot
  PROVE  CacheFacts'
<1>1. flush'.at = "rest" /\ lost' = {} /\ seeded' = FALSE
      /\ hashes' = Nothing /\ idents' = Nothing
  BY DEF Reboot, AtRestFlush
<1> QED
  BY <1>1 DEF CacheFacts, KindsKept, ComparedFacts, UnderWay, EntriesTrue, EntryTrue,
              CommittedFacts, KnownTrue, Nothing

LEMMA StepCache == CacheInv /\ [WriteCacheNext]_wcVars => CacheInv'
<1> SUFFICES ASSUME CacheInv, [WriteCacheNext]_wcVars PROVE CacheInv'
  OBVIOUS
<1>1. WriteCacheTypeOK' /\ PendingExported'
  BY StepTypes, StepPending DEF CacheInv
<1> SUFFICES CacheFacts'
  BY <1>1 DEF CacheInv
<1>2. ASSUME NEW o \in Objects, NEW v \in Object \cup {Absent}, Store(o, v) PROVE CacheFacts'
  BY <1>2, StoreCache DEF Store
<1>3. ASSUME NEW heavy \in BOOLEAN, NEW scope \in SUBSET Objects, BeginFlush(heavy, scope)
      PROVE  CacheFacts'
  BY <1>3, BeginFlushCache
<1>4. CASE NothingToWrite \/ Abort
  BY <1>4, UnwrittenCache
<1>5. CASE Commit
  BY <1>5, CommitCache
<1>6. CASE CommitFails
  BY <1>6, CommitFailsCache
<1>7. CASE Remember
  BY <1>7, RememberCache
<1>8. CASE Reboot
  BY <1>8, RebootCache
<1>9. CASE UNCHANGED wcVars
  BY <1>9, StoreCache DEF wcVars
<1> QED
  BY <1>2, <1>3, <1>4, <1>5, <1>6, <1>7, <1>8, <1>9 DEF WriteCacheNext

\* The cache of what has been written (pgWriteCache) is sound: what it remembers of a
\* row is in the row, and the ids it knows are those of the table, whatever fails in
\* whatever order, except for a blob whose last write failed.
THEOREM CacheIsSound == WriteCacheSpec => []CacheSound
<1>1. WriteCacheInit => CacheInv
  BY InitCache
<1>2. CacheInv /\ [WriteCacheNext]_wcVars => CacheInv'
  BY StepCache
<1>3. CacheInv => CacheSound
  BY CacheInvImpliesSound
<1> QED
  BY <1>1, <1>2, <1>3, PTL DEF WriteCacheSpec

-----------------------------------------------------------------------------
(* A flush that is done leaves the table as one without a cache would.      *)

\* Before the flush is done: nothing to write means that the table is right.
LEMMA NothingToWriteMirrors ==
  ASSUME CacheInv, NothingToWrite
  PROVE  FlushMirrors'
<1>1. /\ flush.at = "compared" /\ UNCHANGED <<kind, rows, lost>>
      /\ flush.pending = {} /\ flush.removed = {}
  BY DEF NothingToWrite
<1>2. /\ flush'.heavy = flush.heavy /\ flush'.scope = flush.scope
      /\ flush'.export = flush.export
  BY FlushKept DEF CacheInv
<1>3. ASSUME NEW o \in flush.scope \ lost PROVE Mirrors(o)
  <2>1. o \in Objects
    BY DEF CacheInv, WriteCacheTypeOK
  <2>2. CASE o \in Present(flush.export)
    BY <1>1, <2>2, LeftAlone DEF UnderWay, InDoubt, Mirrors, Present
  <2>3. CASE flush.export[o] = Absent /\ Mirrored
    <3>1. o \notin Present(rows)
      BY <1>1, <2>3 DEF CacheInv, CacheFacts, ComparedFacts, UnderWay, KnownTrue, Present
    <3> QED
      BY <2>1, <2>3, <3>1 DEF Mirrors, Present
  <2> QED
    BY <2>1, <2>2, <2>3 DEF Mirrors, Present
<1> QED
  BY <1>1, <1>2, <1>3 DEF FlushMirrors, Mirrors, Mirrored

LEMMA RememberMirrors ==
  ASSUME CacheInv, Remember
  PROVE  FlushMirrors'
<1>1. flush.at = "committed" /\ UNCHANGED <<kind, rows>> /\ lost' = lost \ flush.pending
  BY DEF Remember
<1>2. /\ flush'.heavy = flush.heavy /\ flush'.scope = flush.scope
      /\ flush'.export = flush.export
  BY FlushKept DEF CacheInv
<1>3. ASSUME NEW o \in flush.scope \ lost' PROVE Mirrors(o)
  <2>1. o \in Objects
    BY DEF CacheInv, WriteCacheTypeOK
  <2>2. CASE o \in flush.pending
    <3>1. rows[o] = flush.export[o] /\ rows[o] # Absent
      BY <1>1, <2>2 DEF CacheInv, CacheFacts, CommittedFacts, PendingExported, Present
    <3> QED
      BY <3>1 DEF Mirrors
  <2>3. CASE o \in Present(flush.export) \ flush.pending
    <3>1. o \notin flush.removed
      BY <1>1, <2>3 DEF CacheInv, CacheFacts, ComparedFacts, UnderWay
    <3> QED
      BY <1>1, <2>3, <3>1, LeftAlone DEF UnderWay, InDoubt, Mirrors, Present
  <2>4. CASE flush.export[o] = Absent /\ Mirrored
    <3>1. o \notin Present(rows)
      BY <1>1, <2>4 DEF CacheInv, CacheFacts, CommittedFacts, Present
    <3> QED
      BY <2>1, <2>4, <3>1 DEF Mirrors, Present
  <2> QED
    BY <2>1, <2>2, <2>3, <2>4 DEF Mirrors, Present
<1> QED
  BY <1>1, <1>2, <1>3 DEF FlushMirrors, Mirrors, Mirrored

LEMMA StepMirrors == CacheInv /\ FlushMirrors /\ [WriteCacheNext]_wcVars => FlushMirrors'
<1> SUFFICES ASSUME CacheInv, FlushMirrors, [WriteCacheNext]_wcVars PROVE FlushMirrors'
  OBVIOUS
<1>1. CASE UNCHANGED <<kind, rows, flush, lost>>
  BY <1>1 DEF FlushMirrors, Mirrors, Mirrored
<1>2. CASE flush'.at # "done"
  BY <1>2 DEF FlushMirrors
<1>3. CASE NothingToWrite
  BY <1>3, NothingToWriteMirrors
<1>4. CASE Remember
  BY <1>4, RememberMirrors
<1>5. CASE Abort \/ Commit \/ CommitFails
  BY <1>2, <1>5, FlushKept DEF CacheInv
<1>6. ASSUME NEW heavy \in BOOLEAN, NEW scope \in SUBSET Objects, BeginFlush(heavy, scope)
      PROVE  flush'.at # "done"
  BY <1>6 DEF BeginFlush
<1>7. CASE Reboot
  BY <1>2, <1>7 DEF Reboot, AtRestFlush
<1> QED
  BY <1>1, <1>2, <1>3, <1>4, <1>5, <1>6, <1>7 DEF WriteCacheNext, Store, wcVars

\* Writing only what has changed is equivalent to writing everything: a flush that
\* reports success (pgFlush) leaves the rows as if there were no cache.
THEOREM FlushesMirror == WriteCacheSpec => []FlushMirrors
<1>1. WriteCacheInit => CacheInv /\ FlushMirrors
  BY InitCache DEF WriteCacheInit, AtRestFlush, FlushMirrors
<1>2. CacheInv /\ FlushMirrors /\ [WriteCacheNext]_wcVars => CacheInv' /\ FlushMirrors'
  BY StepCache, StepMirrors
<1> QED
  BY <1>1, <1>2, PTL DEF WriteCacheSpec

-----------------------------------------------------------------------------
(* SQL change requests.                                                     *)

RequestType ==
  [at : RequestStages, of : Tickets, late : BOOLEAN, copy : TicketStatuses,
   then : RequestStages]

LEMMA AtRestIsARequest == AtRestRequest \in RequestType
<1>1. (CHOOSE t \in Tickets : TRUE) \in Tickets
  BY SQLChangesAssumption
<1> QED
  BY <1>1 DEF AtRestRequest, RequestType, RequestStages, TicketStatuses

LEMMA InitSQLTypes == SQLChangesInit => SQLChangesTypeOK
BY AtRestIsARequest
DEF SQLChangesInit, SQLChangesTypeOK, RequestType, TicketStatuses, RecordStatuses

LEMMA ExpiredTypes ==
  ASSUME SQLChangesTypeOK
  PROVE  AllExpired \in [Tickets -> TicketStatuses]
BY DEF SQLChangesTypeOK, AllExpired, Expired, TicketStatuses

\* A request whose fields are moved on stays one.
LEMMA MovedRequest ==
  ASSUME SQLChangesTypeOK, NEW r \in Requests, NEW q \in RequestType,
         request' = [request EXCEPT ![r] = q]
  PROVE  request' \in [Requests -> RequestType]
BY DEF SQLChangesTypeOK, RequestType

LEMMA RequestTyped == SQLChangesTypeOK => request \in [Requests -> RequestType]
BY DEF SQLChangesTypeOK, RequestType

\* Where the look at a record leads a request.
LEMMA NextStageTyped == \A copy, st : NextStage(copy, st) \in RequestStages
BY DEF NextStage, RequestStages

LEMMA SeenTyped ==
  ASSUME SQLChangesTypeOK, NEW r \in Requests, NEW st, Seen(r, st)
  PROVE  /\ request' \in [Requests -> RequestType]
         /\ request'[r].at \notin {"running", "begin"}
         /\ \A s \in Requests \ {r} : request'[s] = request[s]
<1> DEFINE stage == NextStage(request[r].copy, st)
           q == IF stage = "rest" THEN AtRestRequest ELSE [request[r] EXCEPT !.at = stage]
<1>1. request[r] \in RequestType
  BY RequestTyped
<1>2. stage \in RequestStages /\ stage \notin {"running", "begin"}
  BY NextStageTyped DEF NextStage
<1>3. q \in RequestType /\ q.at \notin {"running", "begin"}
  BY <1>1, <1>2, AtRestIsARequest DEF RequestType, AtRestRequest
<1>4. request' = [request EXCEPT ![r] = q]
  BY DEF Seen
<1> HIDE DEF q
<1> QED
  BY <1>3, <1>4, MovedRequest, RequestTyped

LEMMA RefusedTyped ==
  ASSUME SQLChangesTypeOK, NEW r \in Requests, Refused(r)
  PROVE  /\ request' \in [Requests -> RequestType]
         /\ request'[r].at \notin {"running", "begin"}
         /\ \A s \in Requests \ {r} : request'[s] = request[s]
<1> DEFINE q == IF request[r].copy = "executed" /\ request[r].at # "completing"
                THEN [request[r] EXCEPT !.at = "reread", !.then = request[r].at]
                ELSE AtRestRequest
<1>1. request[r] \in RequestType
  BY RequestTyped
<1>2. q \in RequestType /\ q.at \notin {"running", "begin"}
  BY <1>1, AtRestIsARequest DEF RequestType, AtRestRequest, RequestStages
<1>3. request' = [request EXCEPT ![r] = q]
  BY DEF Refused
<1> HIDE DEF q
<1> QED
  BY <1>2, <1>3, MovedRequest, RequestTyped

-----------------------------------------------------------------------------
(* The steps of a handler, one lemma per group of actions.  A step is quiet   *)
(* when it sends nothing, brings no ticket to a status that says its statement *)
(* was sent nor takes one from there, and starts no execution.                *)

Consumed == {"executing", "executed", "failed"}

QuietStep ==
  /\ UNCHANGED sent
  /\ \A t \in Tickets :
       /\ ticket[t] \in Consumed => ticket'[t] = ticket[t]
       /\ ticket'[t] \in Consumed => ticket[t] \in Consumed
  /\ \A r \in Requests : request'[r].at = "running" => request'[r] = request[r]

LEMMA ExpiringIsQuiet ==
  ASSUME SQLChangesTypeOK, NEW t \in Tickets
  PROVE  /\ ticket[t] \in Consumed => Expired(t) = ticket[t]
         /\ Expired(t) \in Consumed => ticket[t] \in Consumed
BY DEF Expired, Consumed

\* Time, and what only lists.
LEMMA ListSteps ==
  ASSUME SQLChangesTypeOK, ListTickets \/ \E t \in Tickets : ApprovalAges(t)
  PROVE  SQLChangesTypeOK' /\ QuietStep
<1>1. CASE ListTickets
  <2>1. ticket' \in [Tickets -> TicketStatuses]
    BY <1>1, ExpiredTypes DEF ListTickets
  <2>2. QuietStep
    BY <1>1, ExpiringIsQuiet DEF ListTickets, QuietStep, AllExpired
  <2> QED
    BY <1>1, <2>1, <2>2 DEF ListTickets, SQLChangesTypeOK
<1>2. CASE \E t \in Tickets : ApprovalAges(t)
  BY <1>2 DEF ApprovalAges, SQLChangesTypeOK, QuietStep
<1> QED
  BY <1>1, <1>2

LEMMA CreateSteps ==
  ASSUME SQLChangesTypeOK, NEW r \in Requests, NEW t \in Tickets, Create(r, t)
  PROVE  SQLChangesTypeOK' /\ QuietStep
<1> DEFINE q == [AtRestRequest EXCEPT !.at = "bridge", !.of = t]
<1>1. q \in RequestType /\ q.at = "bridge"
  BY AtRestIsARequest DEF RequestType, RequestStages
<1>2. request' = [request EXCEPT ![r] = q]
  BY DEF Create
<1> HIDE DEF q
<1>3. request' \in [Requests -> RequestType]
  BY <1>1, <1>2, MovedRequest
<1>4. ticket' \in [Tickets -> TicketStatuses]
  BY DEF Create, SQLChangesTypeOK, TicketStatuses
<1>5. SQLChangesTypeOK'
  BY <1>3, <1>4 DEF Create, SQLChangesTypeOK, RequestType
<1>6. QuietStep
  BY <1>1, <1>2 DEF Create, SQLChangesTypeOK, QuietStep, Consumed
<1> QED
  BY <1>5, <1>6

LEMMA LookUpSteps ==
  ASSUME SQLChangesTypeOK, NEW r \in Requests, NEW t \in Tickets,
         NEW stage \in {"approve", "begin"}, LookUp(r, t, stage)
  PROVE  SQLChangesTypeOK' /\ QuietStep
<1> DEFINE late == t \in overdue
           q == [AtRestRequest EXCEPT !.at = stage, !.of = t, !.late = late]
<1>0. late \in BOOLEAN
  OBVIOUS
<1>1. q \in RequestType /\ q.at # "running"
  <2> HIDE DEF late
  <2> QED
    BY <1>0, AtRestIsARequest DEF RequestType, RequestStages
<1>2. request' = [request EXCEPT ![r] = q]
  BY DEF LookUp
<1> HIDE DEF q
<1>3. request' \in [Requests -> RequestType]
  BY <1>1, <1>2, MovedRequest
<1>4. ticket' \in [Tickets -> TicketStatuses]
  BY ExpiredTypes DEF LookUp
<1>5. SQLChangesTypeOK'
  BY <1>3, <1>4 DEF LookUp, SQLChangesTypeOK, RequestType
<1>6. QuietStep
  BY <1>1, <1>2, ExpiringIsQuiet DEF LookUp, SQLChangesTypeOK, QuietStep, AllExpired
<1> QED
  BY <1>5, <1>6

\* An operator's decision moves a ticket that is not consumed to a status that says
\* nothing was sent.
LEMMA DecisionSteps ==
  ASSUME SQLChangesTypeOK, NEW r \in Requests,
         ApproveTicket(r) \/ \E t \in Tickets : RejectTicket(r, t)
  PROVE  SQLChangesTypeOK' /\ QuietStep
<1>1. request[r] \in RequestType
  BY RequestTyped
<1>2. CASE ApproveTicket(r)
  <2>1. request[r].of \in Tickets
    BY <1>1 DEF RequestType
  <2>2. PICK q \in RequestType : q.at # "running" /\ request' = [request EXCEPT ![r] = q]
    <3>1. [request[r] EXCEPT !.at = "sync", !.copy = "approved"] \in RequestType
      BY <1>1 DEF RequestType, RequestStages, TicketStatuses
    <3>2. CASE ticket[request[r].of] = "pending"
      <4>1. request' = [request EXCEPT ![r] = [request[r] EXCEPT !.at = "sync", !.copy = "approved"]]
        BY <1>2, <3>2 DEF ApproveTicket
      <4> QED
        BY <1>1, <3>1, <4>1 DEF RequestType
    <3>3. CASE ticket[request[r].of] # "pending"
      <4>1. request' = [request EXCEPT ![r] = AtRestRequest] /\ AtRestRequest.at # "running"
        BY <1>2, <3>3 DEF ApproveTicket, AtRestRequest
      <4> QED
        BY <4>1, AtRestIsARequest
    <3> QED
      BY <3>2, <3>3
  <2>3. request' \in [Requests -> RequestType]
    BY <2>2, MovedRequest
  <2>4. ticket' \in [Tickets -> TicketStatuses] /\ overdue' \subseteq Tickets
    BY <1>2, <2>1 DEF ApproveTicket, SQLChangesTypeOK, TicketStatuses
  <2>5. SQLChangesTypeOK'
    BY <1>2, <2>3, <2>4 DEF ApproveTicket, SQLChangesTypeOK, RequestType
  <2>6. QuietStep
    BY <1>2, <2>1, <2>2 DEF ApproveTicket, SQLChangesTypeOK, QuietStep, Consumed
  <2> QED
    BY <2>5, <2>6
<1>3. ASSUME NEW t \in Tickets, RejectTicket(r, t) PROVE SQLChangesTypeOK' /\ QuietStep
  <2> DEFINE q == [AtRestRequest EXCEPT !.at = "sync", !.of = t, !.copy = "rejected"]
  <2>1. q \in RequestType /\ q.at # "running"
    BY AtRestIsARequest DEF RequestType, RequestStages, TicketStatuses
  <2>2. request' = [request EXCEPT ![r] = q] \/ request' = request
    BY <1>3 DEF RejectTicket
  <2> HIDE DEF q
  <2>3. request' \in [Requests -> RequestType]
    BY <2>1, <2>2, MovedRequest, RequestTyped
  <2>4. ticket' = [ticket EXCEPT ![t] = IF Expired(t) \in {"pending", "approved"}
                                        THEN "rejected" ELSE Expired(t)]
    BY <1>3 DEF RejectTicket
  <2>5. ticket' \in [Tickets -> TicketStatuses]
    BY <2>4 DEF SQLChangesTypeOK, TicketStatuses, Expired
  <2>6. SQLChangesTypeOK'
    BY <1>3, <2>3, <2>5 DEF RejectTicket, SQLChangesTypeOK, RequestType
  <2>7. \A u \in Tickets :
          /\ ticket[u] \in Consumed => ticket'[u] = ticket[u]
          /\ ticket'[u] \in Consumed => ticket[u] \in Consumed
    BY <2>4 DEF SQLChangesTypeOK, Consumed, Expired
  <2>8. QuietStep
    BY <1>3, <2>1, <2>2, <2>7, RequestTyped DEF RejectTicket, QuietStep
  <2> QED
    BY <2>6, <2>8
<1> QED
  BY <1>2, <1>3

\* The steps that bring the record along change no ticket.
LEMMA RecordSteps ==
  ASSUME SQLChangesTypeOK, NEW r \in Requests,
         Bridge(r) \/ SyncRecord(r) \/ Transition(r) \/ Reread(r)
  PROVE  SQLChangesTypeOK' /\ QuietStep
<1>1. UNCHANGED <<ticket, overdue, sent>>
  BY DEF Bridge, SyncRecord, Transition, Reread
<1>2. request[r] \in RequestType /\ request[r].of \in Tickets
  BY RequestTyped DEF RequestType
<1> DEFINE Moved ==
      /\ request' \in [Requests -> RequestType]
      /\ request'[r].at \notin {"running", "begin"}
      /\ \A s \in Requests \ {r} : request'[s] = request[s]
<1>3. ASSUME request' = [request EXCEPT ![r] = AtRestRequest] PROVE Moved
  BY <1>3, AtRestIsARequest, MovedRequest, RequestTyped DEF AtRestRequest
<1>4. Moved /\ record' \in [Tickets -> RecordStatuses] /\ bridgedLate' \subseteq Tickets
  <2>1. CASE Bridge(r)
    BY <1>2, <1>3, <2>1 DEF Bridge, SQLChangesTypeOK, RecordStatuses
  <2>2. CASE SyncRecord(r)
    <3>1. Moved
      BY <2>2, SeenTyped DEF SyncRecord
    <3> QED
      BY <2>2, <3>1 DEF SyncRecord, SQLChangesTypeOK, RecordStatuses
  <2>3. CASE Transition(r)
    <3>1. record' \in [Tickets -> RecordStatuses] /\ bridgedLate' = bridgedLate
      BY <2>3 DEF Transition, From, SQLChangesTypeOK, RecordStatuses
    <3>2. Refused(r) \/ (\E st : Seen(r, st)) \/ request' = [request EXCEPT ![r] = AtRestRequest]
      BY <2>3 DEF Transition
    <3>3. Moved
      BY <1>3, <3>2, SeenTyped, RefusedTyped
    <3> QED
      BY <3>1, <3>3 DEF SQLChangesTypeOK
  <2>4. CASE Reread(r)
    <3>1. (\E st : Seen(r, st)) \/ request' = [request EXCEPT ![r] = AtRestRequest]
      BY <2>4 DEF Reread
    <3>2. Moved
      BY <1>3, <3>1, SeenTyped
    <3> QED
      BY <2>4, <3>2 DEF Reread, SQLChangesTypeOK
  <2> QED
    BY <2>1, <2>2, <2>3, <2>4
<1>5. SQLChangesTypeOK'
  BY <1>1, <1>4 DEF SQLChangesTypeOK, RequestType
<1>6. QuietStep
  BY <1>1, <1>4 DEF QuietStep
<1> QED
  BY <1>5, <1>6

-----------------------------------------------------------------------------
(* The statement of a ticket is sent once.  The invariant also says who is    *)
(* executing: at most one handler per ticket, and only while the ticket says  *)
(* so, which is what keeps a second answer from coming in.                    *)

OneExecutor ==
  \A r \in Requests : request[r].at = "running" =>
    /\ ticket[request[r].of] = "executing"
    /\ \A s \in Requests :
         request[s].at = "running" /\ request[s].of = request[r].of => s = r

SentInv == SQLChangesTypeOK /\ SentOnce /\ OneExecutor

LEMMA InitSent == SQLChangesInit => SentInv
<1> SUFFICES ASSUME SQLChangesInit PROVE SentInv
  OBVIOUS
<1>1. \A r \in Requests : request[r].at = "rest"
  BY DEF SQLChangesInit, AtRestRequest
<1> QED
  BY <1>1, InitSQLTypes DEF SQLChangesInit, SentInv, SentOnce, OneExecutor

LEMMA QuietKeeps ==
  ASSUME SentInv, SQLChangesTypeOK', QuietStep
  PROVE  SentInv'
<1>1. SentOnce'
  BY DEF SentInv, SQLChangesTypeOK, SentOnce, QuietStep, Consumed
<1>2. \A r \in Requests : request[r].of \in Tickets
  BY RequestTyped DEF SentInv, RequestType
<1>3. OneExecutor'
  BY <1>2 DEF SentInv, OneExecutor, QuietStep, Consumed
<1> QED
  BY <1>1, <1>3 DEF SentInv

LEMMA BeginKeeps ==
  ASSUME SentInv, NEW r \in Requests, BeginExecute(r)
  PROVE  SentInv'
<1> DEFINE t == request[r].of
<1>1. request[r] \in RequestType /\ t \in Tickets
  BY RequestTyped DEF SentInv, RequestType
<1>2. UNCHANGED <<overdue, record, bridgedLate>>
  BY DEF BeginExecute
<1>3. CASE /\ ticket[t] = "approved"
           /\ ticket' = [ticket EXCEPT ![t] = "executing"]
           /\ sent' = [sent EXCEPT ![t] = @ + 1]
           /\ request' = [request EXCEPT ![r].at = "running"]
  <2>1. sent[t] = 0
    BY <1>1, <1>3 DEF SentInv, SentOnce
  <2>2. sent' = [sent EXCEPT ![t] = 1]
    BY <1>1, <1>3, <2>1
  <2>3. request' \in [Requests -> RequestType]
    BY <1>1, <1>3, RequestTyped DEF SentInv, RequestType, RequestStages
  <2>4. SQLChangesTypeOK'
    BY <1>1, <1>2, <1>3, <2>2, <2>3
    DEF SentInv, SQLChangesTypeOK, RequestType, TicketStatuses
  <2>5. SentOnce'
    BY <1>1, <1>3, <2>2 DEF SentInv, SQLChangesTypeOK, SentOnce
  <2>6. \A s \in Requests \ {r} : request'[s] = request[s]
                               /\ (request[s].at = "running" => request[s].of # t)
    BY <1>1, <1>3 DEF SentInv, SQLChangesTypeOK, OneExecutor
  <2>7. request'[r].of = t /\ ticket'[t] = "executing"
    BY <1>1, <1>3 DEF SentInv, SQLChangesTypeOK, RequestType
  <2>8. \A u \in Tickets \ {t} : ticket'[u] = ticket[u]
    BY <1>1, <1>3 DEF SentInv, SQLChangesTypeOK
  <2>9. \A s \in Requests : request[s].of \in Tickets
    BY RequestTyped DEF SentInv, RequestType
  <2>10. OneExecutor'
    <3> HIDE DEF t
    <3> SUFFICES ASSUME NEW q \in Requests, request'[q].at = "running"
                 PROVE  /\ ticket'[request'[q].of] = "executing"
                        /\ \A s \in Requests :
                             request'[s].at = "running" /\ request'[s].of = request'[q].of
                               => s = q
      BY DEF OneExecutor
    <3>1. CASE q = r
      BY <2>6, <2>7, <3>1
    <3>2. CASE q # r
      BY <2>6, <2>7, <2>8, <2>9, <3>2 DEF SentInv, OneExecutor
    <3> QED
      BY <3>1, <3>2
  <2> QED
    BY <2>4, <2>5, <2>10 DEF SentInv
<1>4. CASE /\ ticket' = [ticket EXCEPT ![t] = IF @ = "approved" THEN "expired" ELSE @]
           /\ request' = [request EXCEPT ![r] = AtRestRequest]
           /\ UNCHANGED sent
  <2>1. request' \in [Requests -> RequestType]
    BY <1>4, AtRestIsARequest, MovedRequest DEF SentInv
  <2>2. SQLChangesTypeOK'
    BY <1>1, <1>2, <1>4, <2>1 DEF SentInv, SQLChangesTypeOK, RequestType, TicketStatuses
  <2>3. QuietStep
    BY <1>1, <1>4, RequestTyped
    DEF SentInv, SQLChangesTypeOK, QuietStep, Consumed, AtRestRequest
  <2> QED
    BY <2>2, <2>3, QuietKeeps
<1> QED
  BY <1>3, <1>4 DEF BeginExecute

LEMMA FinishKeeps ==
  ASSUME SentInv, NEW r \in Requests, NEW outcome \in {"executed", "failed"},
         FinishExecute(r, outcome)
  PROVE  SentInv'
<1> DEFINE t == request[r].of
<1>1. request[r] \in RequestType /\ t \in Tickets
  BY RequestTyped DEF SentInv, RequestType
<1>2. request[r].at = "running" /\ ticket[t] = "executing"
  BY DEF FinishExecute, SentInv, OneExecutor
<1>3. ticket' = [ticket EXCEPT ![t] = outcome] /\ UNCHANGED <<overdue, record, sent, bridgedLate>>
  BY DEF FinishExecute
<1>4. PICK q \in RequestType : q.at # "running" /\ request' = [request EXCEPT ![r] = q]
  <2>1. [request[r] EXCEPT !.at = "sync", !.copy = "executed"] \in RequestType
    BY <1>1 DEF RequestType, RequestStages, TicketStatuses
  <2>2. CASE outcome = "executed"
    <3>1. request' = [request EXCEPT ![r] = [request[r] EXCEPT !.at = "sync", !.copy = "executed"]]
      BY <2>2 DEF FinishExecute
    <3> QED
      BY <1>1, <2>1, <3>1 DEF RequestType
  <2>3. CASE outcome # "executed"
    <3>1. request' = [request EXCEPT ![r] = AtRestRequest] /\ AtRestRequest.at # "running"
      BY <2>3 DEF FinishExecute, AtRestRequest
    <3> QED
      BY <3>1, AtRestIsARequest
  <2> QED
    BY <2>2, <2>3
<1>5. request' \in [Requests -> RequestType]
  BY <1>4, MovedRequest DEF SentInv
<1>6. SQLChangesTypeOK'
  BY <1>1, <1>3, <1>5 DEF SentInv, SQLChangesTypeOK, RequestType, TicketStatuses
<1>7. SentOnce'
  BY <1>1, <1>2, <1>3 DEF SentInv, SQLChangesTypeOK, SentOnce
<1>8. \A s \in Requests : request'[s].at = "running" =>
        request'[s] = request[s] /\ s # r /\ request[s].of # t /\ request[s].of \in Tickets
  BY <1>2, <1>4, RequestTyped DEF SentInv, OneExecutor, RequestType
<1>9. \A u \in Tickets \ {t} : ticket'[u] = ticket[u]
  BY <1>1, <1>3 DEF SentInv, SQLChangesTypeOK
<1>10. OneExecutor'
  <2> HIDE DEF t
  <2> QED
    BY <1>8, <1>9 DEF SentInv, OneExecutor
<1> QED
  BY <1>6, <1>7, <1>10 DEF SentInv

LEMMA StepSent == SentInv /\ [SQLChangesNext]_sqlVars => SentInv'
<1> SUFFICES ASSUME SentInv, [SQLChangesNext]_sqlVars PROVE SentInv'
  OBVIOUS
<1> USE DEF SentInv
<1>1. CASE ListTickets \/ \E t \in Tickets : ApprovalAges(t)
  BY <1>1, ListSteps, QuietKeeps
<1>2. ASSUME NEW r \in Requests, NEW t \in Tickets, Create(r, t) PROVE SentInv'
  BY <1>2, CreateSteps, QuietKeeps
<1>3. ASSUME NEW r \in Requests, NEW t \in Tickets, NEW stage \in {"approve", "begin"},
             LookUp(r, t, stage)
      PROVE  SentInv'
  BY <1>3, LookUpSteps, QuietKeeps
<1>4. ASSUME NEW r \in Requests, ApproveTicket(r) \/ \E t \in Tickets : RejectTicket(r, t)
      PROVE  SentInv'
  BY <1>4, DecisionSteps, QuietKeeps
<1>5. ASSUME NEW r \in Requests, BeginExecute(r) PROVE SentInv'
  BY <1>5, BeginKeeps
<1>6. ASSUME NEW r \in Requests, NEW outcome \in {"executed", "failed"},
             FinishExecute(r, outcome)
      PROVE  SentInv'
  BY <1>6, FinishKeeps
<1>7. ASSUME NEW r \in Requests, Bridge(r) \/ SyncRecord(r) \/ Transition(r) \/ Reread(r)
      PROVE  SentInv'
  BY <1>7, RecordSteps, QuietKeeps
<1>8. CASE UNCHANGED sqlVars
  BY <1>8 DEF sqlVars, SQLChangesTypeOK, SentOnce, OneExecutor
<1> QED
  BY <1>1, <1>2, <1>3, <1>4, <1>5, <1>6, <1>7, <1>8 DEF SQLChangesNext

\* BeginExecute consumes an approval atomically: however many handlers approve,
\* reject and execute a ticket at the same time, its statement is sent at most once,
\* and never for one that was rejected, has expired or is not approved yet.
THEOREM StatementSentOnce == SQLChangesSpec => []SentOnce
<1>1. SQLChangesInit => SentInv
  BY InitSent
<1>2. SentInv /\ [SQLChangesNext]_sqlVars => SentInv'
  BY StepSent
<1>3. SentInv => SentOnce
  BY DEF SentInv
<1> QED
  BY <1>1, <1>2, <1>3, PTL DEF SQLChangesSpec

-----------------------------------------------------------------------------
(* The record of an executed ticket.  The executor is the only handler that   *)
(* brings it past the approval, and at each of its stages the record is where *)
(* the next transition starts; an approver that comes late can only have done *)
(* the executor's first transitions for it.                                   *)

\* The statuses that the handlers of a ticket that is not executed bring its record to.
Started == {"none", "pending_approval", "approved"}

\* What the record is at each stage of the executor.
OnItsWay(q, rec) ==
  \/ q.at = "sync" /\ rec \in Started
  \/ q.at = "approving" /\ rec \in {"pending_approval", "approved"}
  \/ q.at = "reread" /\ q.then = "approving" /\ rec = "approved"
  \/ q.at = "starting" /\ rec = "approved"
  \/ q.at = "completing" /\ rec = "in_progress"

\* A handler knows a status of the ticket only while it brings the record along, and
\* that of a rejected or executed ticket is final.
Idle == {"rest", "bridge", "approve", "begin", "running"}
HandlerFine(r) ==
  LET q == request[r]
  IN  \/ q.copy = "none" /\ q.at \in Idle
      \/ q.copy = "approved" /\ q.at \in {"sync", "approving"}
      \/ q.copy = "rejected" /\ q.at \in {"sync", "reject"} /\ ticket[q.of] = "rejected"
      \/ /\ q.copy = "executed" /\ ticket[q.of] = "executed"
         /\ q.at \in {"sync", "approving", "reread", "starting", "completing"}
         /\ q.of \in bridgedLate \/ OnItsWay(q, record[q.of])

\* One handler at most has executed a ticket.
Executes(r) == request[r].at = "running" \/ request[r].copy = "executed"
OneFollower ==
  \A r, s \in Requests : Executes(r) /\ Executes(s) /\ request[r].of = request[s].of => r = s

TicketFine(t) ==
  t \notin bridgedLate =>
    /\ ticket[t] \notin {"rejected", "executed"} => record[t] \in Started
    /\ ticket[t] = "executed" =>
         \/ record[t] = "completed"
         \/ \E r \in Requests : request[r].of = t /\ request[r].copy = "executed"

FollowInv ==
  /\ SentInv
  /\ \A r \in Requests : HandlerFine(r)
  /\ \A t \in Tickets : TicketFine(t)
  /\ OneFollower

LEMMA FollowTypes ==
  ASSUME FollowInv
  PROVE  /\ SQLChangesTypeOK
         /\ request \in [Requests -> RequestType]
         /\ \A r \in Requests : request[r] \in RequestType /\ request[r].of \in Tickets
BY RequestTyped DEF FollowInv, SentInv, RequestType

LEMMA InitFollow == SQLChangesInit => FollowInv
<1> SUFFICES ASSUME SQLChangesInit PROVE FollowInv
  OBVIOUS
<1>1. \A r \in Requests : request[r].at = "rest" /\ request[r].copy = "none"
  BY DEF SQLChangesInit, AtRestRequest
<1>2. \A t \in Tickets : ticket[t] = "none" /\ record[t] = "none"
  BY DEF SQLChangesInit
<1> QED
  BY <1>1, <1>2, InitSent
  DEF FollowInv, HandlerFine, Idle, TicketFine, Started, OneFollower, Executes

\* Handlers that move tickets, up to the execution.
LEMMA TicketsMove ==
  ASSUME FollowInv, SentInv', UNCHANGED <<record, bridgedLate>>,
         \A u \in Tickets :
           \/ ticket'[u] = ticket[u]
           \/ ticket[u] \notin {"rejected", "executed"} /\ ticket'[u] # "executed",
         \A s \in Requests :
           \/ request'[s] = request[s]
           \/ /\ request[s].copy = "none"
              /\ \/ request'[s].copy = "none" /\ request'[s].at \in Idle \ {"running"}
                 \/ request'[s].copy = "approved" /\ request'[s].at = "sync"
                 \/ /\ request'[s].copy = "rejected" /\ request'[s].at = "sync"
                    /\ ticket'[request'[s].of] = "rejected"
  PROVE  FollowInv'
<1>1. \A r \in Requests : request[r].of \in Tickets
  BY FollowTypes
<1>2. ASSUME NEW r \in Requests PROVE HandlerFine(r)'
  <2>1. CASE request'[r] = request[r]
    <3>1. HandlerFine(r) /\ request[r].of \in Tickets
      BY <1>1 DEF FollowInv
    <3>2. ticket[request[r].of] \in {"rejected", "executed"} =>
            ticket'[request[r].of] = ticket[request[r].of]
      BY <3>1
    <3> QED
      BY <2>1, <3>1, <3>2 DEF HandlerFine
  <2>2. CASE request'[r] # request[r]
    BY <2>2 DEF HandlerFine
  <2> QED
    BY <2>1, <2>2
<1>3. ASSUME NEW t \in Tickets PROVE TicketFine(t)'
  <2>1. TicketFine(t)
    BY DEF FollowInv
  <2>2. ASSUME NEW r \in Requests, request[r].copy = "executed" PROVE request'[r] = request[r]
    BY <2>2
  <2> QED
    BY <2>1, <2>2 DEF TicketFine
<1>4. OneFollower'
  <2>1. ASSUME NEW r \in Requests, Executes(r)' PROVE request'[r] = request[r] /\ Executes(r)
    BY <2>1 DEF Executes
  <2> QED
    BY <2>1 DEF FollowInv, OneFollower
<1> QED
  BY <1>2, <1>3, <1>4 DEF FollowInv

\* Handlers that bring a record along.
LEMMA RecordMoves ==
  ASSUME FollowInv, SentInv', NEW r \in Requests, NEW t \in Tickets, request[r].of = t,
         UNCHANGED ticket, bridgedLate \subseteq bridgedLate',
         \A u \in Tickets \ {t} : record'[u] = record[u] /\ (u \in bridgedLate' => u \in bridgedLate),
         \A s \in Requests \ {r} : request'[s] = request[s],
         HandlerFine(r)',
         Executes(r)' => Executes(r) /\ request'[r].of = t,
         TicketFine(t)',
         \/ t \in bridgedLate'
         \/ request[r].copy = "executed"
         \/ ticket[t] # "executed"
         \/ record'[t] = record[t]
         \/ record[t] = "none" /\ record'[t] = "pending_approval"
         \/ record[t] = "pending_approval" /\ record'[t] = "approved",
         request[r].copy = "executed" => request[r].of = t
  PROVE  FollowInv'
<1>1. \A s \in Requests : request[s].of \in Tickets
  BY FollowTypes
<1>2. ASSUME NEW s \in Requests PROVE HandlerFine(s)'
  <2>1. CASE s = r
    BY <2>1
  <2>2. CASE s # r
    <3>1. HandlerFine(s) /\ request[s].of \in Tickets /\ request'[s] = request[s]
      BY <1>1, <2>2 DEF FollowInv
    <3>2. CASE request[s].copy # "executed"
      BY <3>1, <3>2 DEF HandlerFine
    <3>3. CASE request[s].copy = "executed" /\ request[s].of # t
      <4>1. /\ record'[request[s].of] = record[request[s].of]
            /\ request[s].of \in bridgedLate => request[s].of \in bridgedLate'
        BY <3>1, <3>3
      <4> QED
        BY <3>1, <3>3, <4>1 DEF HandlerFine
    <3>4. CASE request[s].copy = "executed" /\ request[s].of = t
      <4>1. request[r].copy # "executed"
        BY <2>2, <3>4 DEF FollowInv, OneFollower, Executes
      <4>2. ticket[t] = "executed"
        BY <3>1, <3>4 DEF HandlerFine
      <4>3. CASE t \in bridgedLate'
        BY <3>1, <3>4, <4>3 DEF HandlerFine
      <4>4. CASE t \notin bridgedLate'
        <5>1. OnItsWay(request[s], record[t])
          BY <3>1, <3>4, <4>4 DEF HandlerFine
        <5>2. OnItsWay(request[s], record'[t])
          BY <4>1, <4>2, <4>4, <5>1 DEF OnItsWay, Started
        <5> QED
          BY <3>1, <3>4, <5>2 DEF HandlerFine
      <4> QED
        BY <4>3, <4>4
    <3> QED
      BY <3>2, <3>3, <3>4
  <2> QED
    BY <2>1, <2>2
<1>3. ASSUME NEW u \in Tickets PROVE TicketFine(u)'
  <2>1. CASE u = t
    BY <2>1
  <2>2. CASE u # t
    <3>1. TicketFine(u) /\ record'[u] = record[u] /\ (u \notin bridgedLate' => u \notin bridgedLate)
      BY <2>2 DEF FollowInv
    <3>2. \A s \in Requests : request[s].of = u => request'[s] = request[s]
      BY <2>2
    <3> QED
      BY <3>1, <3>2 DEF TicketFine
  <2> QED
    BY <2>1, <2>2
<1>4. OneFollower'
  <2>1. ASSUME NEW s \in Requests, Executes(s)'
        PROVE  Executes(s) /\ request'[s].of = request[s].of
    BY <2>1 DEF Executes
  <2> QED
    BY <2>1 DEF FollowInv, OneFollower
<1> QED
  BY <1>2, <1>3, <1>4 DEF FollowInv

LEMMA ManageFollow ==
  ASSUME FollowInv, SentInv',
         \/ ListTickets \/ \E t \in Tickets : ApprovalAges(t)
         \/ \E r \in Requests :
              \/ \E t \in Tickets :
                   \/ Create(r, t) \/ RejectTicket(r, t)
                   \/ \E stage \in {"approve", "begin"} : LookUp(r, t, stage)
              \/ ApproveTicket(r)
  PROVE  FollowInv'
<1>1. /\ \A s \in Requests : request[s] \in RequestType /\ request[s].of \in Tickets
      /\ request \in [Requests -> RequestType]
      /\ \A s \in Requests : HandlerFine(s)
      /\ ticket \in [Tickets -> TicketStatuses]
  BY FollowTypes DEF FollowInv, SQLChangesTypeOK
<1>2. \A u \in Tickets : Expired(u) = ticket[u] \/ (ticket[u] = "approved" /\ Expired(u) = "expired")
  BY DEF Expired
<1>3. \A s \in Requests : request[s].at \in Idle => request[s].copy = "none"
  BY <1>1 DEF HandlerFine, Idle
<1>4. CASE ListTickets \/ \E t \in Tickets : ApprovalAges(t)
  BY <1>2, <1>4, TicketsMove DEF ListTickets, AllExpired, ApprovalAges
<1>5. ASSUME NEW r \in Requests, NEW t \in Tickets, Create(r, t) PROVE FollowInv'
  <2>1. request'[r].copy = "none" /\ request'[r].at = "bridge" /\ request[r].copy = "none"
    BY <1>1, <1>3, <1>5 DEF Create, AtRestRequest, Idle
  <2>2. \A s \in Requests \ {r} : request'[s] = request[s]
    BY <1>1, <1>5 DEF Create
  <2>3. \A u \in Tickets : ticket'[u] = ticket[u] \/ (ticket[u] = "none" /\ ticket'[u] = "pending")
    BY <1>1, <1>5 DEF Create
  <2>4. \A u \in Tickets :
          \/ ticket'[u] = ticket[u]
          \/ ticket[u] \notin {"rejected", "executed"} /\ ticket'[u] # "executed"
    BY ONLY <2>3
  <2>5. request'[r].at \in Idle \ {"running"}
    BY ONLY <2>1 DEF Idle
  <2>6. \A s \in Requests :
          \/ request'[s] = request[s]
          \/ /\ request[s].copy = "none"
             /\ request'[s].copy = "none" /\ request'[s].at \in Idle \ {"running"}
    BY ONLY <2>1, <2>2, <2>5
  <2>7. FollowInv /\ SentInv' /\ UNCHANGED <<record, bridgedLate>>
    BY <1>5 DEF Create
  <2> QED
    BY ONLY <2>4, <2>6, <2>7, TicketsMove
<1>6. ASSUME NEW r \in Requests, NEW t \in Tickets, NEW stage \in {"approve", "begin"},
             LookUp(r, t, stage)
      PROVE  FollowInv'
  <2>1. request'[r].copy = "none" /\ request'[r].at = stage /\ request[r].copy = "none"
    <3>1. request[r].copy = "none"
      <4>1. request[r].at = "rest" /\ "rest" \in Idle
        BY <1>6 DEF LookUp, Idle
      <4> QED
        BY ONLY <1>3, <4>1
    <3>2. request' = [request EXCEPT ![r] =
                        [AtRestRequest EXCEPT !.at = stage, !.of = t, !.late = t \in overdue]]
      BY <1>6 DEF LookUp
    <3>3. request'[r] = [AtRestRequest EXCEPT !.at = stage, !.of = t, !.late = t \in overdue]
      BY ONLY <1>1, <3>2, r \in Requests
    <3> QED
      BY ONLY <3>1, <3>3 DEF AtRestRequest
  <2>2. \A s \in Requests \ {r} : request'[s] = request[s]
    BY <1>1, <1>6 DEF LookUp
  <2>3. \A u \in Tickets : ticket'[u] = Expired(u)
    BY <1>6 DEF LookUp, AllExpired
  <2>4. \A u \in Tickets :
          \/ ticket'[u] = ticket[u]
          \/ ticket[u] \notin {"rejected", "executed"} /\ ticket'[u] # "executed"
    BY <1>2, <2>3
  <2>5. stage \in Idle \ {"running"}
    BY <1>6 DEF Idle
  <2>6. \A s \in Requests :
          \/ request'[s] = request[s]
          \/ /\ request[s].copy = "none"
             /\ request'[s].copy = "none" /\ request'[s].at \in Idle \ {"running"}
    BY <2>1, <2>2, <2>5
  <2>7. FollowInv /\ SentInv' /\ UNCHANGED <<record, bridgedLate>>
    BY <1>6 DEF LookUp
  <2> QED
    BY ONLY <2>4, <2>6, <2>7, TicketsMove
<1>7. ASSUME NEW r \in Requests, NEW t \in Tickets, RejectTicket(r, t) PROVE FollowInv'
  <2>1. request[r].copy = "none"
    BY <1>3, <1>7 DEF RejectTicket, Idle
  <2>2. \A s \in Requests \ {r} : request'[s] = request[s]
    BY <1>1, <1>7 DEF RejectTicket
  <2>3. CASE Expired(t) \in {"pending", "approved"}
    <3>1. /\ ticket' = [ticket EXCEPT ![t] = "rejected"]
          /\ request' = [request EXCEPT ![r] =
               [AtRestRequest EXCEPT !.at = "sync", !.of = t, !.copy = "rejected"]]
      BY <1>7, <2>3 DEF RejectTicket
    <3>2. /\ request'[r].copy = "rejected" /\ request'[r].at = "sync"
          /\ ticket'[request'[r].of] = "rejected"
      BY <1>1, <3>1 DEF AtRestRequest
    <3>3. \A u \in Tickets : ticket'[u] = ticket[u]
                          \/ (ticket[u] \in {"pending", "approved"} /\ ticket'[u] = "rejected")
      BY <1>1, <1>2, <2>3, <3>1
    <3>4. \A u \in Tickets :
            \/ ticket'[u] = ticket[u]
            \/ ticket[u] \notin {"rejected", "executed"} /\ ticket'[u] # "executed"
      BY ONLY <3>3
    <3>5. \A s \in Requests :
            \/ request'[s] = request[s]
            \/ /\ request[s].copy = "none"
               /\ request'[s].copy = "rejected" /\ request'[s].at = "sync"
               /\ ticket'[request'[s].of] = "rejected"
      BY ONLY <2>1, <2>2, <3>2
    <3>6. FollowInv /\ SentInv' /\ UNCHANGED <<record, bridgedLate>>
      BY <1>7 DEF RejectTicket
    <3> QED
      BY ONLY <3>4, <3>5, <3>6, TicketsMove
  <2>4. CASE Expired(t) \notin {"pending", "approved"}
    <3>1. ticket' = [ticket EXCEPT ![t] = Expired(t)] /\ UNCHANGED request
      BY <1>7, <2>4 DEF RejectTicket
    <3>2. \A u \in Tickets : ticket'[u] = ticket[u]
                          \/ (ticket[u] = "approved" /\ ticket'[u] = "expired")
      BY <1>1, <1>2, <3>1
    <3>3. \A u \in Tickets :
            \/ ticket'[u] = ticket[u]
            \/ ticket[u] \notin {"rejected", "executed"} /\ ticket'[u] # "executed"
      BY ONLY <3>2
    <3>4. FollowInv /\ SentInv' /\ UNCHANGED <<record, bridgedLate, request>>
      BY <1>7, <3>1 DEF RejectTicket
    <3> QED
      BY ONLY <3>3, <3>4, TicketsMove
  <2> QED
    BY <2>3, <2>4
<1>8. ASSUME NEW r \in Requests, ApproveTicket(r) PROVE FollowInv'
  <2>1. request[r].copy = "none"
    BY <1>3, <1>8 DEF ApproveTicket, Idle
  <2>2. \A s \in Requests \ {r} : request'[s] = request[s]
    BY <1>1, <1>8 DEF ApproveTicket
  <2>3. \/ request'[r].copy = "approved" /\ request'[r].at = "sync"
        \/ request'[r].copy = "none" /\ request'[r].at = "rest"
    <3>1. CASE ticket[request[r].of] = "pending"
      BY <1>1, <1>8, <3>1 DEF ApproveTicket, RequestType
    <3>2. CASE ticket[request[r].of] # "pending"
      BY <1>1, <1>8, <3>2 DEF ApproveTicket, AtRestRequest
    <3> QED
      BY <3>1, <3>2
  <2>4. \A u \in Tickets : ticket'[u] = ticket[u]
                        \/ (ticket[u] = "pending" /\ ticket'[u] = "approved")
    BY <1>1, <1>8 DEF ApproveTicket
  <2>5. \A u \in Tickets :
          \/ ticket'[u] = ticket[u]
          \/ ticket[u] \notin {"rejected", "executed"} /\ ticket'[u] # "executed"
    BY ONLY <2>4
  <2>6. "rest" \in Idle \ {"running"}
    BY ONLY DEF Idle
  <2>7. \A s \in Requests :
          \/ request'[s] = request[s]
          \/ /\ request[s].copy = "none"
             /\ \/ request'[s].copy = "none" /\ request'[s].at \in Idle \ {"running"}
                \/ request'[s].copy = "approved" /\ request'[s].at = "sync"
    BY ONLY <2>1, <2>2, <2>3, <2>6
  <2>8. FollowInv /\ SentInv' /\ UNCHANGED <<record, bridgedLate>>
    BY <1>8 DEF ApproveTicket
  <2> QED
    BY ONLY <2>5, <2>7, <2>8, TicketsMove
<1> QED
  BY <1>4, <1>5, <1>6, <1>7, <1>8

LEMMA BeginFollow ==
  ASSUME FollowInv, SentInv', NEW r \in Requests, BeginExecute(r)
  PROVE  FollowInv'
<1> DEFINE t == request[r].of
<1>1. /\ \A s \in Requests : request[s] \in RequestType /\ request[s].of \in Tickets
      /\ request \in [Requests -> RequestType]
      /\ \A s \in Requests : HandlerFine(s)
      /\ ticket \in [Tickets -> TicketStatuses]
  BY FollowTypes DEF FollowInv, SQLChangesTypeOK
<1>2. request[r].at = "begin" /\ request[r].copy = "none" /\ UNCHANGED <<record, bridgedLate>>
  BY <1>1 DEF BeginExecute, HandlerFine
<1>3. CASE /\ ticket[t] = "approved"
           /\ ticket' = [ticket EXCEPT ![t] = "executing"]
           /\ request' = [request EXCEPT ![r].at = "running"]
  <2>1. request'[r].at = "running" /\ request'[r].copy = "none" /\ request'[r].of = t
    BY <1>1, <1>2, <1>3 DEF RequestType
  <2>2. \A s \in Requests \ {r} : request'[s] = request[s]
    BY <1>1, <1>3
  <2>3. \A u \in Tickets : ticket'[u] = ticket[u]
                        \/ (ticket[u] = "approved" /\ ticket'[u] = "executing")
    BY <1>1, <1>3
  <2>4. ASSUME NEW s \in Requests PROVE HandlerFine(s)'
    <3>1. CASE s = r
      BY <2>1, <3>1 DEF HandlerFine, Idle
    <3>2. CASE s # r
      <4>1. /\ HandlerFine(s) /\ request'[s] = request[s]
            /\ ticket[request[s].of] \in {"rejected", "executed"} =>
                 ticket'[request[s].of] = ticket[request[s].of]
        BY <1>1, <2>2, <2>3, <3>2
      <4> QED
        BY <1>2, <4>1 DEF HandlerFine
    <3> QED
      BY <3>1, <3>2
  <2>5. ASSUME NEW u \in Tickets PROVE TicketFine(u)'
    <3>1. TicketFine(u)
      BY DEF FollowInv
    <3>2. \A s \in Requests : request[s].copy = "executed" => request'[s] = request[s]
      BY <1>2, <2>2
    <3> QED
      BY <1>2, <2>3, <3>1, <3>2 DEF TicketFine
  <2>6. OneFollower'
    <3>1. ASSUME NEW s \in Requests, Executes(s) PROVE request[s].of # t
      <4>1. CASE request[s].at = "running"
        BY <1>3, <4>1 DEF FollowInv, SentInv, OneExecutor
      <4>2. CASE request[s].copy = "executed"
        BY <1>1, <1>3, <4>2 DEF HandlerFine
      <4> QED
        BY <3>1, <4>1, <4>2 DEF Executes
    <3>2. ASSUME NEW s \in Requests \ {r}, Executes(s)'
          PROVE  Executes(s) /\ request'[s] = request[s] /\ request'[s].of # t
      BY <2>2, <3>1, <3>2 DEF Executes
    <3> HIDE DEF t
    <3> SUFFICES ASSUME NEW p \in Requests, NEW s \in Requests, Executes(p)', Executes(s)',
                        request'[p].of = request'[s].of
                 PROVE  p = s
      BY DEF OneFollower
    <3> QED
      BY <2>1, <3>2 DEF FollowInv, OneFollower
  <2> QED
    BY <2>4, <2>5, <2>6 DEF FollowInv
<1>4. CASE /\ ticket' = [ticket EXCEPT ![t] = IF @ = "approved" THEN "expired" ELSE @]
           /\ request' = [request EXCEPT ![r] = AtRestRequest]
  <2>1. request'[r].at = "rest" /\ request'[r].copy = "none"
    BY <1>1, <1>4 DEF AtRestRequest
  <2>2. \A s \in Requests \ {r} : request'[s] = request[s]
    BY <1>1, <1>4
  <2>3. \A u \in Tickets : ticket'[u] = ticket[u]
                        \/ (ticket[u] = "approved" /\ ticket'[u] = "expired")
    BY <1>1, <1>4
  <2> QED
    BY <1>2, <2>1, <2>2, <2>3, TicketsMove DEF Idle
<1> QED
  BY <1>3, <1>4 DEF BeginExecute

LEMMA FinishFollow ==
  ASSUME FollowInv, SentInv', NEW r \in Requests, NEW outcome \in {"executed", "failed"},
         FinishExecute(r, outcome)
  PROVE  FollowInv'
<1> DEFINE t == request[r].of
<1>1. /\ \A s \in Requests : request[s] \in RequestType /\ request[s].of \in Tickets
      /\ request \in [Requests -> RequestType]
      /\ \A s \in Requests : HandlerFine(s)
      /\ ticket \in [Tickets -> TicketStatuses]
  BY FollowTypes DEF FollowInv, SQLChangesTypeOK
<1>2. /\ request[r].at = "running" /\ request[r].copy = "none" /\ ticket[t] = "executing"
      /\ UNCHANGED <<record, bridgedLate>>
      /\ ticket' = [ticket EXCEPT ![t] = outcome]
  BY <1>1 DEF FinishExecute, HandlerFine, FollowInv, SentInv, OneExecutor
<1>3. \A s \in Requests \ {r} : request'[s] = request[s]
  BY <1>1 DEF FinishExecute
<1>4. \A u \in Tickets \ {t} : ticket'[u] = ticket[u]
  BY <1>1, <1>2
<1>5. CASE outcome = "failed"
  <2>1. request'[r].at = "rest" /\ request'[r].copy = "none"
    BY <1>1, <1>5 DEF AtRestRequest, FinishExecute
  <2>2. ticket'[t] = "failed"
    BY <1>1, <1>2, <1>5
  <2>3. \A u \in Tickets : ticket'[u] = ticket[u]
                        \/ (ticket[u] = "executing" /\ ticket'[u] = "failed")
    BY <1>2, <1>4, <2>2
  <2> QED
    BY <1>2, <1>3, <2>1, <2>3, TicketsMove DEF Idle
<1>6. CASE outcome = "executed"
  <2>1. /\ request'[r].at = "sync" /\ request'[r].copy = "executed" /\ request'[r].of = t
        /\ ticket'[t] = "executed"
    <3>1. request' = [request EXCEPT ![r] = [request[r] EXCEPT !.at = "sync", !.copy = "executed"]]
      BY <1>6 DEF FinishExecute
    <3> QED
      BY <1>1, <1>2, <1>6, <3>1 DEF RequestType
  <2>2. t \in bridgedLate \/ record[t] \in Started
    BY <1>1, <1>2 DEF FollowInv, TicketFine
  <2>3. HandlerFine(r)'
    BY <1>2, <2>1, <2>2 DEF HandlerFine, OnItsWay
  <2>4. ASSUME NEW s \in Requests \ {r} PROVE HandlerFine(s)'
    <3>1. HandlerFine(s) /\ request'[s] = request[s] /\ request[s].of \in Tickets
      BY <1>1, <1>3
    <3>2. ticket[request[s].of] # "executing" => ticket'[request[s].of] = ticket[request[s].of]
      BY <1>2, <1>4, <3>1
    <3> QED
      BY <1>2, <3>1, <3>2 DEF HandlerFine
  <2>5. ASSUME NEW u \in Tickets PROVE TicketFine(u)'
    <3>1. CASE u = t
      BY <2>1, <3>1 DEF TicketFine
    <3>2. CASE u # t
      <4>1. TicketFine(u) /\ ticket'[u] = ticket[u] /\ record'[u] = record[u]
        BY <1>2, <1>4, <3>2 DEF FollowInv
      <4>2. \A s \in Requests : request[s].copy = "executed" => request'[s] = request[s]
        BY <1>2, <1>3
      <4> QED
        BY <1>2, <4>1, <4>2 DEF TicketFine
    <3> QED
      BY <3>1, <3>2
  <2>6. OneFollower'
    <3>1. ASSUME NEW s \in Requests, Executes(s)'
          PROVE  Executes(s) /\ request'[s].of = request[s].of
      BY <1>2, <1>3, <2>1, <3>1 DEF Executes
    <3> QED
      BY <3>1 DEF FollowInv, OneFollower
  <2> QED
    BY <2>3, <2>4, <2>5, <2>6 DEF FollowInv
<1> QED
  BY <1>5, <1>6

\* Where a look at the record leads a handler.
LEMMA SeenIs ==
  ASSUME NEW r \in Requests, request \in [Requests -> RequestType], NEW st, Seen(r, st)
  PROVE  /\ \A s \in Requests \ {r} : request'[s] = request[s]
         /\ LET stage == NextStage(request[r].copy, st)
            IN  IF stage = "rest" THEN request'[r] = AtRestRequest
                ELSE /\ request'[r].at = stage /\ request'[r].of = request[r].of
                     /\ request'[r].copy = request[r].copy
<1>1. request[r] \in RequestType
  OBVIOUS
<1> DEFINE stage == NextStage(request[r].copy, st)
<1>2. request' = [request EXCEPT ![r] =
                    IF stage = "rest" THEN AtRestRequest ELSE [request[r] EXCEPT !.at = stage]]
  BY DEF Seen
<1> HIDE DEF stage
<1>3. request'[r] = IF stage = "rest" THEN AtRestRequest ELSE [request[r] EXCEPT !.at = stage]
  BY <1>2
<1>4. \A s \in Requests \ {r} : request'[s] = request[s]
  BY <1>2
<1> QED
  BY <1>1, <1>3, <1>4 DEF RequestType, stage

\* A handler at rest follows nothing.
LEMMA RestIsFine ==
  ASSUME NEW r \in Requests, request'[r] = AtRestRequest
  PROVE  HandlerFine(r)' /\ ~Executes(r)'
BY DEF HandlerFine, Executes, AtRestRequest, Idle

LEMMA BridgeFollow ==
  ASSUME FollowInv, SentInv', NEW r \in Requests, Bridge(r)
  PROVE  FollowInv'
<1>1. PICK t \in Tickets : t = request[r].of
  BY FollowTypes
<1>2. /\ request \in [Requests -> RequestType] /\ record \in [Tickets -> RecordStatuses]
      /\ HandlerFine(r)
  BY FollowTypes DEF FollowInv, SQLChangesTypeOK
<1>3. /\ request[r].copy = "none" /\ UNCHANGED ticket
      /\ request'[r] = AtRestRequest
      /\ \A s \in Requests \ {r} : request'[s] = request[s]
      /\ record' = [record EXCEPT ![t] = "pending_approval"]
      /\ bridgedLate' = IF ticket[t] = "pending" THEN bridgedLate ELSE bridgedLate \cup {t}
  BY <1>1, <1>2 DEF Bridge, HandlerFine
<1>4. /\ record'[t] = "pending_approval"
      /\ \A u \in Tickets \ {t} : record'[u] = record[u] /\ (u \in bridgedLate' => u \in bridgedLate)
      /\ bridgedLate \subseteq bridgedLate'
      /\ t \in bridgedLate' \/ ticket[t] = "pending"
  BY <1>2, <1>3
<1>5. TicketFine(t)'
  BY <1>3, <1>4 DEF TicketFine, Started
<1> QED
  BY <1>1, <1>3, <1>4, <1>5, RestIsFine, RecordMoves

\* A handler that brings along the record of a ticket that was approved or rejected.
LEMMA DecidedFollow ==
  ASSUME FollowInv, SentInv', NEW r \in Requests,
         request[r].copy \in {"approved", "rejected"},
         SyncRecord(r) \/ Transition(r) \/ Reread(r)
  PROVE  FollowInv'
<1>1. PICK t \in Tickets : t = request[r].of
  BY FollowTypes
<1>2. /\ request \in [Requests -> RequestType] /\ record \in [Tickets -> RecordStatuses]
      /\ HandlerFine(r) /\ TicketFine(t)
  BY FollowTypes DEF FollowInv, SQLChangesTypeOK
<1>3. UNCHANGED <<ticket, bridgedLate>>
  BY DEF SyncRecord, Transition, Reread
<1>4. /\ request[r].copy = "rejected" => ticket[t] = "rejected"
      /\ request[r].at \in {"sync", "approving", "reject"}
      /\ request[r].at = "approving" => request[r].copy = "approved"
      /\ request[r].at = "reject" => request[r].copy = "rejected"
  BY <1>1, <1>2 DEF HandlerFine
<1>5. /\ \A s \in Requests \ {r} : request'[s] = request[s]
      /\ \/ request'[r] = AtRestRequest
         \/ /\ request'[r].of = t /\ request'[r].copy = request[r].copy
            /\ request'[r].at = IF request[r].copy = "approved" THEN "approving" ELSE "reject"
  <2>1. CASE SyncRecord(r)
    <3>1. PICK st : Seen(r, st)
      BY <2>1 DEF SyncRecord
    <3>2. NextStage(request[r].copy, st) \in
            {"rest", IF request[r].copy = "approved" THEN "approving" ELSE "reject"}
      BY DEF NextStage
    <3> QED
      BY <1>1, <1>2, <3>1, <3>2, SeenIs
  <2>2. CASE Transition(r)
    <3>1. request' = [request EXCEPT ![r] = AtRestRequest]
      BY <2>2 DEF Transition, Refused
    <3> QED
      BY <1>2, <3>1
  <2>3. CASE Reread(r)
    BY <1>4, <2>3 DEF Reread
  <2> QED
    BY <2>1, <2>2, <2>3
<1>6. /\ \A u \in Tickets \ {t} : record'[u] = record[u]
      /\ \/ record'[t] = record[t]
         \/ record[t] = "none" /\ record'[t] = "pending_approval"
         \/ record[t] \in Undecided /\ record'[t] = "approved"
         \/ ticket[t] = "rejected"
  <2>1. CASE SyncRecord(r)
    BY <1>1, <1>2, <2>1 DEF SyncRecord
  <2>2. CASE Transition(r)
    <3>1. request[r].at \in {"approving", "reject"}
      BY <1>4, <2>2 DEF Transition, From
    <3>2. \/ record' = record
          \/ /\ record[t] \in From[request[r].at].of
             /\ record' = [record EXCEPT ![t] = From[request[r].at].to]
      BY <1>1, <2>2 DEF Transition
    <3> QED
      BY <1>2, <1>4, <3>1, <3>2 DEF From
  <2>3. CASE Reread(r)
    BY <1>4, <2>3 DEF Reread
  <2> QED
    BY <2>1, <2>2, <2>3
<1>7. TicketFine(t)'
  <2>1. \A s \in Requests : request[s].copy = "executed" => request'[s] = request[s]
    BY <1>5
  <2> QED
    BY <1>2, <1>3, <1>6, <2>1 DEF TicketFine, Started, Undecided
<1>8. HandlerFine(r)'
  <2>1. CASE request'[r] = AtRestRequest
    BY <2>1, RestIsFine
  <2>2. CASE /\ request'[r].of = t /\ request'[r].copy = request[r].copy
             /\ request'[r].at = IF request[r].copy = "approved" THEN "approving" ELSE "reject"
    BY <1>3, <1>4, <2>2 DEF HandlerFine
  <2> QED
    BY <1>5, <2>1, <2>2
<1>9. ~Executes(r)'
  BY <1>5, RestIsFine DEF Executes
<1>10. \/ t \in bridgedLate'
       \/ ticket[t] # "executed"
       \/ record'[t] = record[t]
       \/ record[t] = "none" /\ record'[t] = "pending_approval"
       \/ record[t] = "pending_approval" /\ record'[t] = "approved"
       \/ record[t] = "draft"
  BY <1>6 DEF Undecided
<1>11. record[t] = "draft" => t \in bridgedLate' \/ ticket[t] # "executed"
  BY <1>2, <1>3 DEF TicketFine, FollowInv, HandlerFine, OnItsWay, Started
<1> QED
  BY <1>1, <1>3, <1>5, <1>6, <1>7, <1>8, <1>9, <1>10, <1>11, RecordMoves

\* The executor.
LEMMA ExecutorFollow ==
  ASSUME FollowInv, SentInv', NEW r \in Requests, request[r].copy = "executed",
         SyncRecord(r) \/ Transition(r) \/ Reread(r)
  PROVE  FollowInv'
<1>1. PICK t \in Tickets : t = request[r].of
  BY FollowTypes
<1>2. /\ request \in [Requests -> RequestType] /\ record \in [Tickets -> RecordStatuses]
      /\ HandlerFine(r)
  BY FollowTypes DEF FollowInv, SQLChangesTypeOK
<1>3. UNCHANGED <<ticket, bridgedLate>> /\ ticket[t] = "executed"
  BY <1>1, <1>2 DEF SyncRecord, Transition, Reread, HandlerFine
<1>4. /\ request[r].at \in {"sync", "approving", "reread", "starting", "completing"}
      /\ t \in bridgedLate \/ OnItsWay(request[r], record[t])
  BY <1>1, <1>2 DEF HandlerFine
<1> DEFINE Goes ==
      \/ /\ request'[r] = AtRestRequest
         /\ t \in bridgedLate \/ record'[t] = "completed"
      \/ /\ request'[r].of = t /\ request'[r].copy = "executed"
         /\ request'[r].at \in {"sync", "approving", "reread", "starting", "completing"}
         /\ t \in bridgedLate \/ OnItsWay(request'[r], record'[t])
<1>5. ASSUME NEW st, Seen(r, st), record'[t] = st,
             t \in bridgedLate \/ st \in {"pending_approval", "approved", "in_progress", "completed"}
      PROVE  Goes /\ \A s \in Requests \ {r} : request'[s] = request[s]
  <2> DEFINE stage == NextStage("executed", st)
  <2>1. /\ \A s \in Requests \ {r} : request'[s] = request[s]
        /\ IF stage = "rest" THEN request'[r] = AtRestRequest
           ELSE /\ request'[r].at = stage /\ request'[r].of = t
                /\ request'[r].copy = "executed"
    BY <1>1, <1>2, <1>5, SeenIs
  <2>2. CASE stage = "rest"
    <3>1. t \in bridgedLate \/ st = "completed"
      BY <1>5, <2>2 DEF NextStage, Undecided
    <3> QED
      BY <1>5, <2>1, <2>2, <3>1
  <2>3. CASE stage # "rest"
    <3>1. /\ stage \in {"approving", "starting", "completing"}
          /\ stage = "approving" => st \in {"pending_approval", "draft"}
          /\ stage = "starting" => st \in {"approved", "scheduled"}
          /\ stage = "completing" => st = "in_progress"
      BY <2>3 DEF NextStage, Undecided
    <3> HIDE DEF stage
    <3> QED
      BY <1>5, <2>1, <2>3, <3>1 DEF OnItsWay
  <2> QED
    BY <2>1, <2>2, <2>3
<1>6. /\ Goes /\ \A s \in Requests \ {r} : request'[s] = request[s]
      /\ \A u \in Tickets \ {t} : record'[u] = record[u]
  <2>1. CASE SyncRecord(r)
    <3> DEFINE st == IF record[t] = "none" THEN "pending_approval" ELSE record[t]
    <3>1. /\ request[r].at = "sync" /\ Seen(r, st)
          /\ record' = [record EXCEPT ![t] = st]
      BY <1>1, <2>1 DEF SyncRecord
    <3>2. t \in bridgedLate \/ record[t] \in Started
      BY <1>4, <3>1 DEF OnItsWay
    <3>3. t \in bridgedLate \/ st \in {"pending_approval", "approved", "in_progress", "completed"}
      BY <3>2 DEF Started
    <3>4. record'[t] = st /\ \A u \in Tickets \ {t} : record'[u] = record[u]
      BY <1>2, <3>1
    <3> HIDE DEF st, Goes
    <3> QED
      BY <1>5, <3>1, <3>3, <3>4
  <2>2. CASE Transition(r)
    <3>1. request[r].at \in {"approving", "starting", "completing"}
      BY <1>4, <2>2 DEF Transition, From
    <3>2. CASE record[t] \in From[request[r].at].of
      <4> DEFINE to == From[request[r].at].to
      <4>1. record' = [record EXCEPT ![t] = to] /\ Seen(r, to)
        BY <1>1, <2>2, <3>2 DEF Transition
      <4>2. to \in {"approved", "in_progress", "completed"}
        BY <3>1 DEF From
      <4> HIDE DEF to, Goes
      <4>3. record'[t] = to /\ \A u \in Tickets \ {t} : record'[u] = record[u]
        BY <1>2, <4>1
      <4> QED
        BY <1>5, <4>1, <4>2, <4>3
    <3>3. CASE record[t] \notin From[request[r].at].of
      <4>1. Refused(r) /\ UNCHANGED record
        BY <1>1, <2>2, <3>3 DEF Transition
      <4>2. CASE request[r].at = "completing"
        <5>1. request' = [request EXCEPT ![r] = AtRestRequest]
          BY <4>1, <4>2 DEF Refused
        <5>2. t \in bridgedLate
          BY <1>4, <3>3, <4>2 DEF OnItsWay, From
        <5> QED
          BY <1>2, <4>1, <5>1, <5>2
      <4>3. CASE request[r].at # "completing"
        <5>1. request' = [request EXCEPT ![r] =
                            [request[r] EXCEPT !.at = "reread", !.then = request[r].at]]
          BY <4>1, <4>3 DEF Refused
        <5>2. /\ request'[r].at = "reread" /\ request'[r].then = request[r].at
              /\ request'[r].of = t /\ request'[r].copy = "executed"
              /\ \A s \in Requests \ {r} : request'[s] = request[s]
          BY <1>1, <1>2, <5>1 DEF RequestType
        <5>3. t \in bridgedLate \/ (request[r].at = "approving" /\ record[t] = "approved")
          BY <1>4, <3>1, <3>3, <4>3 DEF OnItsWay, From, Undecided
        <5> QED
          BY <4>1, <5>2, <5>3 DEF OnItsWay
      <4> QED
        BY <4>2, <4>3
    <3> QED
      BY <3>2, <3>3
  <2>3. CASE Reread(r)
    <3>1. request[r].at = "reread" /\ UNCHANGED record
      BY <2>3 DEF Reread
    <3>2. t \in bridgedLate \/ (request[r].then = "approving" /\ record[t] = "approved")
      BY <1>4, <3>1 DEF OnItsWay
    <3>3. CASE request' = [request EXCEPT ![r] = AtRestRequest] /\ t \in bridgedLate
      BY <1>2, <3>1, <3>3
    <3>4. CASE Seen(r, record[t])
      <4> HIDE DEF Goes
      <4> QED
        BY <1>5, <3>1, <3>2, <3>4
    <3>5. \/ request' = [request EXCEPT ![r] = AtRestRequest] /\ t \in bridgedLate
          \/ Seen(r, record[t])
      BY <1>1, <2>3, <3>2 DEF Reread, Undecided
    <3> QED
      BY <3>3, <3>4, <3>5
  <2> QED
    BY <2>1, <2>2, <2>3
<1>7. HandlerFine(r)'
  BY <1>3, <1>6, RestIsFine DEF HandlerFine
<1>8. TicketFine(t)'
  BY <1>3, <1>6 DEF TicketFine
<1>9. Executes(r) /\ (Executes(r)' => request'[r].of = t)
  BY <1>6, RestIsFine DEF Executes
<1> QED
  BY <1>1, <1>3, <1>6, <1>7, <1>8, <1>9, RecordMoves

LEMMA StepFollow == FollowInv /\ [SQLChangesNext]_sqlVars => FollowInv'
<1> SUFFICES ASSUME FollowInv, [SQLChangesNext]_sqlVars PROVE FollowInv'
  OBVIOUS
<1>1. SentInv'
  BY StepSent DEF FollowInv
<1>2. ASSUME NEW r \in Requests, SyncRecord(r) \/ Transition(r) \/ Reread(r) PROVE FollowInv'
  <2>1. HandlerFine(r) /\ request[r].at \notin Idle
    BY <1>2 DEF FollowInv, SyncRecord, Transition, From, Reread, Idle
  <2>2. request[r].copy \in {"approved", "rejected", "executed"}
    BY <2>1 DEF HandlerFine
  <2> QED
    BY <1>1, <1>2, <2>2, DecidedFollow, ExecutorFollow
<1>3. CASE UNCHANGED sqlVars
  BY <1>1, <1>3 DEF sqlVars, FollowInv, HandlerFine, TicketFine, OneFollower, Executes
<1> QED
  BY <1>1, <1>2, <1>3, ManageFollow, BeginFollow, FinishFollow, BridgeFollow DEF SQLChangesNext

\* Once every handler of an executed ticket has returned, its change record is completed,
\* for any number of handlers and any order of their looks and transitions; only the
\* creator that records its ticket after it was decided takes the record back.
THEOREM RecordsFollowTickets == SQLChangesSpec => []ExecutedIsCompleted
<1>1. FollowInv => ExecutedIsCompleted
  <2> SUFFICES ASSUME FollowInv, NEW t \in Tickets \ bridgedLate, ticket[t] = "executed",
                      \A r \in Requests : request[r].at # "rest" => request[r].of # t
               PROVE  record[t] = "completed"
    BY DEF ExecutedIsCompleted
  <2>1. ASSUME NEW r \in Requests, request[r].of = t PROVE request[r].copy # "executed"
    <3>1. HandlerFine(r) /\ request[r].at = "rest"
      BY <2>1 DEF FollowInv
    <3> QED
      BY <3>1 DEF HandlerFine
  <2> QED
    BY <2>1 DEF FollowInv, TicketFine
<1> QED
  BY <1>1, InitFollow, StepFollow, PTL DEF SQLChangesSpec

-----------------------------------------------------------------------------
(* The history of playbook executions, through restarts.                    *)

Executions ==
  [id : Nat, serial : Nat, status : {"running"} \cup EndStatuses]

\* Where executions are kept: the ring, the table and the blob of the last flush.
Kept ==
  {pbRing[i] : i \in DOMAIN pbRing} \cup {pbRows[id] : id \in DOMAIN pbRows}
    \cup {pbBlob[i] : i \in DOMAIN pbBlob}

HistoryTyped ==
  /\ pbRing \in Seq(Executions) /\ Len(pbRing) <= PBRingCap
  /\ pbBlob \in Seq(Executions) /\ Len(pbBlob) <= PBRingCap
  /\ DOMAIN pbRows \subseteq Nat /\ IsFiniteSet(DOMAIN pbRows)
  /\ \A id \in DOMAIN pbRows : pbRows[id] \in Executions /\ pbRows[id].id = id
  /\ nextExecID \in Nat /\ serials \in Nat

\* While the ring holds all, a number stands for one execution, an execution has one
\* number, and the next of each is free.
NumbersApart ==
  /\ \A c \in Kept : c.id <= nextExecID /\ c.serial \in 1..serials
  /\ \A c, d \in Kept : c.id = d.id <=> c.serial = d.serial

HistoryInv == HistoryTyped /\ (serials <= PBRingCap => NumbersApart)

Same(a, b) == a.id = b.id /\ a.serial = b.serial

LEMMA KeptAreExecutions == HistoryTyped => Kept \subseteq Executions
<1> SUFFICES ASSUME HistoryTyped, NEW c \in Kept PROVE c \in Executions
  OBVIOUS
<1>1. ASSUME NEW s \in Seq(Executions), NEW i \in DOMAIN s PROVE s[i] \in Executions
  BY <1>1
<1> QED
  BY <1>1 DEF HistoryTyped, Kept

\* A finite set of numbers, counted from its end.
LEMMA CountedDown ==
  ASSUME NEW S \in SUBSET Nat, IsFiniteSet(S), NEW k \in 1..Cardinality(S)
  PROVE  \E i \in S : Cardinality({j \in S : j >= i}) = k
<1> DEFINE Above(i) == {j \in S : j >= i}
           n == Cardinality(S)
           count == [i \in S |-> Cardinality(Above(i))]
<1>1. ASSUME NEW i \in S
      PROVE  /\ IsFiniteSet(Above(i)) /\ Cardinality(Above(i)) \in Nat
             /\ Cardinality(Above(i)) <= n /\ Cardinality(Above(i)) # 0
  <2>1. Above(i) \in SUBSET S /\ i \in Above(i)
    OBVIOUS
  <2>2. IsFiniteSet(Above(i)) /\ Cardinality(Above(i)) <= n
    BY <2>1, FS_Subset
  <2>3. Cardinality(Above(i)) \in Nat /\ Cardinality(Above(i)) # 0
    BY <2>1, <2>2, FS_CardinalityType, FS_EmptySet
  <2> QED
    BY <2>2, <2>3
<1>2. ASSUME NEW i \in S, NEW m \in S, i < m
      PROVE  Cardinality(Above(i)) # Cardinality(Above(m))
  <2>1. Above(m) \in SUBSET Above(i)
    <3>1. \A j \in S : j >= m => j >= i
      BY <1>2
    <3> QED
      BY <3>1
  <2>2. i \in Above(i) /\ i \notin Above(m)
    BY <1>2
  <2> QED
    BY <1>1, <2>1, <2>2, FS_Subset
<1>3. n \in Nat
  BY FS_CardinalityType
<1> HIDE DEF Above, n
<1>4. count \in [S -> 1..n]
  BY <1>1, <1>3
<1>5. \A i, m \in S : count[i] = count[m] => i = m
  <2> SUFFICES ASSUME NEW i \in S, NEW m \in S, count[i] = count[m] PROVE i = m
    OBVIOUS
  <2>1. ~(i < m) /\ ~(m < i)
    BY <1>2
  <2> QED
    BY <2>1
<1>6. count \in Injection(S, 1..n)
  BY <1>4, <1>5 DEF Injection, IsInjective
<1>7. IsFiniteSet(1..n) /\ Cardinality(1..n) = n
  BY <1>3, FS_Interval
<1>8. count \in Surjection(S, 1..n)
  <2>1. Cardinality(S) = Cardinality(1..n)
    BY <1>7 DEF n
  <2> HIDE DEF count
  <2> QED
    BY <1>6, <1>7, <2>1, FS_Injection
<1>9. k \in 1..n
  BY DEF n
<1>10. \E i \in S : count[i] = k
  <2> HIDE DEF count
  <2> QED
    BY <1>8, <1>9 DEF Surjection
<1> QED
  BY <1>10 DEF Above

\* It has a largest element, and a smallest one.
LEMMA Extremes ==
  ASSUME NEW S \in SUBSET Nat, IsFiniteSet(S), S # {}
  PROVE  /\ \E n \in S : \A m \in S : m <= n
         /\ \E n \in S : \A m \in S : n <= m
<1> DEFINE Above(i) == {j \in S : j >= i}
<1>1. Cardinality(S) \in Nat /\ Cardinality(S) # 0
  BY FS_CardinalityType, FS_EmptySet
<1>2. \E n \in S : \A m \in S : m <= n
  <2>1. PICK n \in S : Cardinality(Above(n)) = 1
    BY <1>1, CountedDown
  <2>2. IsFiniteSet(Above(n)) /\ n \in Above(n)
    BY FS_Subset
  <2>3. Above(n) = {n}
    <3> HIDE DEF Above
    <3> QED
      BY <2>1, <2>2, FS_Singleton
  <2>4. \A m \in S : m >= n => m = n
    BY <2>3
  <2>5. \A m \in S : m <= n
    BY <2>4
  <2> QED
    BY <2>5
<1>3. \E n \in S : \A m \in S : n <= m
  <2>1. Cardinality(S) \in 1..Cardinality(S)
    BY <1>1
  <2>2. PICK n \in S : Cardinality(Above(n)) = Cardinality(S)
    BY <2>1, CountedDown
  <2>3. Above(n) \in SUBSET S
    OBVIOUS
  <2>4. Above(n) = S
    <3> HIDE DEF Above
    <3> QED
      BY <2>2, <2>3, FS_Subset
  <2>5. \A m \in S : n <= m
    BY <2>4
  <2> QED
    BY <2>5
<1> QED
  BY <1>2, <1>3

\* The end of a list, as much as fits.
LEMMA LastFit ==
  ASSUME NEW s \in Seq(Executions), NEW n \in Nat
  PROVE  /\ LastOf(s, n) \in Seq(Executions) /\ Len(LastOf(s, n)) <= n
         /\ \A i \in DOMAIN LastOf(s, n) : \E j \in DOMAIN s : LastOf(s, n)[i] = s[j]
         /\ Len(s) <= n => LastOf(s, n) = s
<1>1. Len(s) \in Nat /\ DOMAIN s = 1..Len(s)
  OBVIOUS
<1>2. CASE Len(s) > n
  <2> DEFINE m == Len(s) - n + 1
  <2>0. m \in Int /\ m >= 2
    BY ONLY <1>1, <1>2, n \in Nat
  <2>1. m \in Int /\ m >= 2 /\ \A i \in m..Len(s) : s[i] \in Executions
    <3>1. ASSUME NEW i \in m..Len(s) PROVE i \in 1..Len(s)
      BY ONLY <1>1, <2>0, i \in m..Len(s)
    <3> QED
      BY <2>0, <3>1
  <2>2. LastOf(s, n) = SubSeq(s, m, Len(s))
    BY <1>2 DEF LastOf
  <2>3. /\ SubSeq(s, m, Len(s)) \in Seq(Executions)
        /\ Len(SubSeq(s, m, Len(s))) = IF m <= Len(s) THEN Len(s) - m + 1 ELSE 0
        /\ \A i \in 1..(Len(s) - m + 1) : SubSeq(s, m, Len(s))[i] = s[m + i - 1]
    BY <1>1, <2>1, SubSeqProperties
  <2>4. Len(LastOf(s, n)) = n
    BY <1>1, <1>2, <2>2, <2>3
  <2>5. ASSUME NEW i \in DOMAIN LastOf(s, n) PROVE \E j \in DOMAIN s : LastOf(s, n)[i] = s[j]
    <3>1. i \in 1..n
      BY <2>2, <2>3, <2>4
    <3>2. m + i - 1 \in DOMAIN s /\ i \in 1..(Len(s) - m + 1)
      BY <1>1, <1>2, <3>1
    <3> QED
      BY <2>2, <2>3, <3>2
  <2> QED
    BY <1>1, <1>2, <2>2, <2>3, <2>4, <2>5
<1>3. CASE ~(Len(s) > n)
  BY <1>1, <1>3 DEF LastOf
<1> QED
  BY <1>2, <1>3

LEMMA ElementsFit ==
  ASSUME NEW s \in Seq(Executions)
  PROVE  \A i \in DOMAIN s : s[i] \in Executions /\ s[i].id \in Nat
<1>1. \A e \in Executions : e.id \in Nat
  BY DEF Executions
<1>2. \A i \in DOMAIN s : s[i] \in Executions
  OBVIOUS
<1> QED
  BY <1>1, <1>2

LEMMA LastOfRing ==
  ASSUME NEW s \in Seq(Executions)
  PROVE  /\ LastOf(s, PBRingCap) \in Seq(Executions) /\ Len(LastOf(s, PBRingCap)) <= PBRingCap
         /\ \A i \in DOMAIN LastOf(s, PBRingCap) : \E j \in DOMAIN s : LastOf(s, PBRingCap)[i] = s[j]
         /\ Len(s) <= PBRingCap => LastOf(s, PBRingCap) = s
BY LastFit, PlaybookHistoryAssumption

\* A list stays a list when some of its elements are said to have ended.
LEMMA ImportedFit ==
  ASSUME NEW s \in Seq(Executions)
  PROVE  /\ Imported(s) \in Seq(Executions) /\ Len(Imported(s)) <= PBRingCap
         /\ \A i \in DOMAIN Imported(s) : \E j \in DOMAIN s : Same(Imported(s)[i], s[j])
         /\ Len(s) <= PBRingCap => /\ DOMAIN Imported(s) = DOMAIN s
                                   /\ \A i \in DOMAIN s : Same(Imported(s)[i], s[i])
<1> DEFINE t == LastOf(s, PBRingCap)
           Ended(e) == IF e.status = "running" THEN [e EXCEPT !.status = "cancelled"] ELSE e
<1>1. /\ t \in Seq(Executions) /\ Len(t) <= PBRingCap
      /\ \A i \in DOMAIN t : \E j \in DOMAIN s : t[i] = s[j]
      /\ Len(s) <= PBRingCap => t = s
  BY LastOfRing
<1>2. Imported(s) = [i \in DOMAIN t |-> Ended(t[i])]
  BY DEF Imported
<1>3. ASSUME NEW e \in Executions PROVE Ended(e) \in Executions /\ Same(Ended(e), e)
  BY DEF Executions, EndStatuses, Same
<1> HIDE DEF t, Ended
<1>4. \A i \in DOMAIN t : t[i] \in Executions
  BY <1>1
<1>5. DOMAIN t = 1..Len(t) /\ Len(t) \in Nat
  BY <1>1
<1>6. Imported(s) \in Seq(Executions) /\ Len(Imported(s)) = Len(t) /\ DOMAIN Imported(s) = DOMAIN t
  BY <1>2, <1>3, <1>4, <1>5
<1>7. \A i \in DOMAIN t : Same(Imported(s)[i], t[i])
  BY <1>2, <1>3, <1>4
<1>8. \A i \in DOMAIN t : \E j \in DOMAIN s : Same(Imported(s)[i], s[j])
  <2> SUFFICES ASSUME NEW i \in DOMAIN t PROVE \E j \in DOMAIN s : Same(Imported(s)[i], s[j])
    OBVIOUS
  <2>1. PICK j \in DOMAIN s : t[i] = s[j]
    BY <1>1
  <2>2. Same(Imported(s)[i], s[j])
    BY <1>7, <2>1
  <2> QED
    BY <2>2
<1>9. ASSUME Len(s) <= PBRingCap
      PROVE  DOMAIN Imported(s) = DOMAIN s /\ \A i \in DOMAIN s : Same(Imported(s)[i], s[i])
  <2>1. t = s
    BY <1>1, <1>9
  <2> QED
    BY <1>6, <1>7, <2>1
<1>10. Imported(s) \in Seq(Executions) /\ Len(Imported(s)) <= PBRingCap
  BY <1>1, <1>6
<1> QED
  BY <1>6, <1>8, <1>9, <1>10

\* The next number is above all that are kept, and above the one at hand or the same.
LEMMA NextNumber ==
  ASSUME NEW next \in Nat, NEW s \in Seq(Executions)
  PROVE  /\ NumberAfter(next, s) \in Nat /\ NumberAfter(next, s) >= next
         /\ Len(s) <= PBRingCap => \A i \in DOMAIN s : s[i].id <= NumberAfter(next, s)
<1> DEFINE t == LastOf(s, PBRingCap)
           kept == NumbersOf(t)
<1>1. t \in Seq(Executions) /\ (Len(s) <= PBRingCap => t = s)
  BY LastOfRing
<1>2. \A i \in DOMAIN t : t[i].id \in Nat
  <2> HIDE DEF t
  <2> QED
    BY <1>1, ElementsFit
<1>3. kept \in SUBSET Nat /\ \A i \in DOMAIN t : t[i].id \in kept
  BY <1>2 DEF NumbersOf
<1>4. IsFiniteSet(kept)
  <2> DEFINE f == [i \in DOMAIN t |-> t[i].id]
  <2>1. DOMAIN t = 1..Len(t) /\ Len(t) \in Nat
    BY <1>1
  <2>2. IsFiniteSet(DOMAIN t)
    BY <2>1, FS_Interval
  <2>3. f \in Surjection(DOMAIN t, kept)
    BY DEF NumbersOf, Surjection
  <2> HIDE DEF f, kept
  <2> QED
    BY <2>2, <2>3, FS_Surjection
<1>5. NumberAfter(next, s) = IF \A id \in kept : id < next THEN next ELSE Highest(kept) + 1
  BY DEF NumberAfter
<1> HIDE DEF t, kept
<1>6. CASE \A id \in kept : id < next
  <2>1. NumberAfter(next, s) = next
    BY <1>5, <1>6
  <2>2. \A id \in kept : id <= next
    BY <1>3, <1>6
  <2>3. Len(s) <= PBRingCap => \A i \in DOMAIN s : s[i].id \in kept
    BY <1>1, <1>3
  <2>4. NumberAfter(next, s) \in Nat /\ NumberAfter(next, s) >= next
    BY <2>1
  <2> QED
    BY <2>1, <2>2, <2>3, <2>4
<1>7. CASE ~\A id \in kept : id < next
  <2>1. PICK id \in kept : ~(id < next)
    BY <1>7
  <2>2. Highest(kept) \in kept /\ \A m \in kept : m <= Highest(kept)
    BY <1>3, <1>4, <2>1, Extremes DEF Highest
  <2>3. NumberAfter(next, s) = Highest(kept) + 1
    BY <1>5, <1>7
  <2>4. Highest(kept) \in Nat /\ id <= Highest(kept) /\ id \in Nat
    BY <1>3, <2>1, <2>2
  <2>5. \A m \in kept : m <= Highest(kept) + 1
    BY <1>3, <2>2, <2>4
  <2>6. Len(s) <= PBRingCap => \A i \in DOMAIN s : s[i].id \in kept
    BY <1>1, <1>3
  <2>7. NumberAfter(next, s) \in Nat /\ NumberAfter(next, s) >= next
    BY <2>1, <2>3, <2>4
  <2> QED
    BY <2>3, <2>5, <2>6, <2>7
<1> QED
  BY <1>6, <1>7

\* Upserting a list leaves of each number its last execution, or the row there was.
LEMMA UpsertedFit ==
  ASSUME HistoryTyped, NEW s \in Seq(Executions)
  PROVE  LET table == AllUpserted(pbRows, s)
         IN  /\ DOMAIN table = DOMAIN pbRows \cup NumbersOf(s)
             /\ DOMAIN table \subseteq Nat /\ IsFiniteSet(DOMAIN table)
             /\ \A id \in DOMAIN table :
                  /\ table[id] \in Executions /\ table[id].id = id
                  /\ \/ \E i \in DOMAIN s : table[id] = s[i]
                     \/ id \in DOMAIN pbRows /\ table[id] = pbRows[id]
<1> DEFINE table == AllUpserted(pbRows, s)
           ids == NumbersOf(s)
           Last(id) == CHOOSE i \in DOMAIN s : s[i].id = id
                                         /\ \A j \in DOMAIN s : s[j].id = id => j <= i
<1>1. DOMAIN s = 1..Len(s) /\ Len(s) \in Nat /\ \A i \in DOMAIN s : s[i] \in Executions /\ s[i].id \in Nat
  BY ElementsFit
<1>2. IsFiniteSet(DOMAIN s) /\ DOMAIN s \in SUBSET Nat
  BY <1>1, FS_Interval
<1>3. table = [id \in DOMAIN pbRows \cup ids |-> IF id \in ids THEN s[Last(id)] ELSE pbRows[id]]
  BY DEF AllUpserted
<1>4. ids \subseteq Nat /\ IsFiniteSet(ids)
  <2> DEFINE f == [i \in DOMAIN s |-> s[i].id]
  <2>1. f \in Surjection(DOMAIN s, ids)
    BY DEF NumbersOf, Surjection
  <2>2. ids \subseteq Nat
    BY <1>1 DEF NumbersOf
  <2> HIDE DEF f, ids
  <2> QED
    BY <1>2, <2>1, <2>2, FS_Surjection
<1>5. ASSUME NEW id \in ids PROVE Last(id) \in DOMAIN s /\ s[Last(id)].id = id
  <2> DEFINE of == {i \in DOMAIN s : s[i].id = id}
  <2>1. of \in SUBSET Nat /\ IsFiniteSet(of) /\ of # {}
    BY <1>2, FS_Subset DEF NumbersOf
  <2>2. PICK n \in of : \A m \in of : m <= n
    <3> HIDE DEF of
    <3> QED
      BY <2>1, Extremes
  <2>3. n \in DOMAIN s /\ s[n].id = id /\ \A j \in DOMAIN s : s[j].id = id => j <= n
    BY <2>2
  <2> QED
    BY <2>3
<1> HIDE DEF table, ids, Last
<1>6. DOMAIN table = DOMAIN pbRows \cup ids
  BY <1>3
<1>7. IsFiniteSet(DOMAIN table) /\ DOMAIN table \subseteq Nat
  <2>1. IsFiniteSet(DOMAIN pbRows) /\ DOMAIN pbRows \subseteq Nat
    BY DEF HistoryTyped
  <2>2. IsFiniteSet(DOMAIN pbRows \cup ids)
    BY <1>4, <2>1, FS_Union
  <2> QED
    BY <1>4, <1>6, <2>1, <2>2
<1>8. ASSUME NEW id \in DOMAIN table
      PROVE  /\ table[id] \in Executions /\ table[id].id = id
             /\ \/ \E i \in DOMAIN s : table[id] = s[i]
                \/ id \in DOMAIN pbRows /\ table[id] = pbRows[id]
  <2>1. CASE id \in ids
    BY <1>1, <1>3, <1>5, <1>6, <2>1
  <2>2. CASE id \notin ids
    <3>1. id \in DOMAIN pbRows /\ table[id] = pbRows[id]
      BY <1>3, <1>6, <2>2
    <3> QED
      BY <3>1 DEF HistoryTyped
  <2> QED
    BY <2>1, <2>2
<1> QED
  BY <1>6, <1>7, <1>8 DEF table, ids

\* Rows are listed from the highest number down.
LEMMA ListedFit ==
  ASSUME NEW table, DOMAIN table \subseteq Nat, IsFiniteSet(DOMAIN table),
         \A id \in DOMAIN table : table[id] \in Executions /\ table[id].id = id
  PROVE  /\ ListedRows(table) \in Seq(Executions)
         /\ Len(ListedRows(table)) <= Cardinality(DOMAIN table)
         /\ \A i \in DOMAIN ListedRows(table) : \E id \in DOMAIN table : ListedRows(table)[i] = table[id]
         /\ DOMAIN table # {} => /\ 1 \in DOMAIN ListedRows(table)
                                /\ \A id \in DOMAIN table : id <= ListedRows(table)[1].id
         /\ DOMAIN table = {} => ListedRows(table) = << >>
<1> DEFINE D == DOMAIN table
           n == Cardinality(D)
           len == IF n < PBListCap THEN n ELSE PBListCap
           Above(id) == {other \in D : other >= id}
           Nth(k) == CHOOSE id \in D : Cardinality(Above(id)) = k
           list == ListedRows(table)
<1>1. D \in SUBSET Nat /\ IsFiniteSet(D) /\ n \in Nat /\ PBListCap \in Nat \ {0}
  <2>1. PBListCap \in Nat \ {0}
    BY PlaybookHistoryAssumption
  <2> QED
    BY <2>1, FS_CardinalityType
<1>2. list = [k \in 1..len |-> table[Nth(k)]]
  BY DEF ListedRows
<1>3. len \in Nat /\ len <= n /\ (n # 0 => len # 0)
  BY <1>1
<1>4. ASSUME NEW k \in 1..len PROVE Nth(k) \in D /\ Cardinality(Above(Nth(k))) = k
  <2>1. k \in 1..n
    BY <1>1, <1>3
  <2>2. \E id \in D : Cardinality(Above(id)) = k
    BY <1>1, <2>1, CountedDown
  <2> HIDE DEF Above, D
  <2> QED
    BY <2>2
<1> HIDE DEF Nth, list, n, len
<1>5. list \in Seq(Executions) /\ Len(list) = len /\ DOMAIN list = 1..len
  <2>1. \A k \in 1..len : table[Nth(k)] \in Executions
    BY <1>4
  <2> QED
    BY <1>2, <1>3, <2>1
<1>6. ASSUME D # {} PROVE 1 \in DOMAIN list /\ \A id \in D : id <= list[1].id
  <2>1. n # 0
    BY <1>1, <1>6, FS_EmptySet DEF n
  <2>2. 1 \in 1..len
    BY <1>3, <2>1
  <2> DEFINE top == Nth(1)
  <2>3. top \in D /\ Cardinality(Above(top)) = 1
    BY <1>4, <2>2
  <2>4. list[1].id = top
    BY <1>2, <2>2, <2>3
  <2>5. IsFiniteSet(Above(top)) /\ top \in Above(top)
    BY <1>1, <2>3, FS_Subset
  <2> HIDE DEF top
  <2>6. Above(top) = {top}
    <3> HIDE DEF Above
    <3> QED
      BY <2>3, <2>5, FS_Singleton
  <2>7. \A id \in D : id >= top => id = top
    BY <2>6
  <2>8. \A id \in D : id <= top
    BY <1>1, <2>3, <2>7
  <2> QED
    BY <1>5, <2>2, <2>4, <2>8
<1>7. ASSUME D = {} PROVE list = << >>
  <2>1. n = 0
    BY <1>7, FS_EmptySet DEF n
  <2>2. len = 0
    BY <1>1, <1>3, <2>1
  <2> QED
    BY <1>5, <2>2
<1>8. \A i \in DOMAIN list : \E id \in D : list[i] = table[id]
  BY <1>2, <1>4, <1>5
<1> QED
  BY <1>1, <1>3, <1>5, <1>6, <1>7, <1>8 DEF list, n

\* A step after which everything that is kept is of an execution that was kept, or of
\* the one that it starts.
LEMMA ExecutionsDescend ==
  ASSUME HistoryInv, HistoryTyped', serials' <= PBRingCap,
         serials <= serials', DOMAIN pbRows \subseteq DOMAIN pbRows',
         \A c \in Kept' : c.id <= nextExecID', NEW new,
         \A c \in Kept' : \/ \E d \in Kept : Same(c, d)
                          \/ /\ c = new /\ nextExecID < c.id
                             /\ c.serial = serials + 1 /\ serials' = serials + 1
  PROVE  NumbersApart' /\ ~TakenOver
<1>1. /\ serials \in Nat /\ serials' \in Nat /\ PBRingCap \in Nat /\ nextExecID \in Nat
      /\ \A c \in Kept \cup Kept' : c.id \in Nat /\ c.serial \in Nat
  <2>1. \A e \in Executions : e.id \in Nat /\ e.serial \in Nat
    BY DEF Executions
  <2>2. Kept \subseteq Executions /\ Kept' \subseteq Executions
    <3>1. Kept \subseteq Executions
      BY KeptAreExecutions DEF HistoryInv
    <3>2. \A s \in Seq(Executions) : \A i \in DOMAIN s : s[i] \in Executions
      BY ElementsFit
    <3>3. \A i \in DOMAIN pbRing' : pbRing'[i] \in Executions
      BY <3>2 DEF HistoryTyped
    <3>4. \A i \in DOMAIN pbBlob' : pbBlob'[i] \in Executions
      BY <3>2 DEF HistoryTyped
    <3>5. \A id \in DOMAIN pbRows' : pbRows'[id] \in Executions
      BY DEF HistoryTyped
    <3> QED
      BY <3>1, <3>3, <3>4, <3>5 DEF Kept
  <2>3. serials \in Nat /\ serials' \in Nat /\ PBRingCap \in Nat /\ nextExecID \in Nat
    BY PlaybookHistoryAssumption DEF HistoryInv, HistoryTyped
  <2> QED
    BY <2>1, <2>2, <2>3
<1>2. NumbersApart
  BY <1>1 DEF HistoryInv
<1>3. \A c \in Kept : c.id <= nextExecID /\ c.serial <= serials /\ c.serial >= 1
  BY <1>1, <1>2 DEF NumbersApart
<1>4. \A c \in Kept' : \/ \E d \in Kept : Same(c, d)
                       \/ c = new /\ nextExecID < c.id /\ serials < c.serial
  BY <1>1
<1>5. \A c, d \in Kept' : c.id = d.id <=> c.serial = d.serial
  <2> SUFFICES ASSUME NEW c \in Kept', NEW d \in Kept' PROVE c.id = d.id <=> c.serial = d.serial
    OBVIOUS
  <2>1. ASSUME NEW a \in Kept, NEW b \in Kept, Same(c, a), Same(d, b)
        PROVE  c.id = d.id <=> c.serial = d.serial
    BY <1>2, <2>1 DEF NumbersApart, Same
  <2>2. ASSUME NEW a \in Kept, NEW x \in Kept', NEW y \in Kept', Same(x, a),
               nextExecID < y.id, serials < y.serial
        PROVE  x.id # y.id /\ x.serial # y.serial
    <3>1. x.id = a.id /\ x.serial = a.serial
      BY <2>2 DEF Same
    <3> QED
      BY <1>1, <1>3, <2>2, <3>1
  <2>3. CASE \E a, b \in Kept : Same(c, a) /\ Same(d, b)
    BY <2>1, <2>3
  <2>4. CASE (\E a \in Kept : Same(c, a)) /\ ~\E b \in Kept : Same(d, b)
    BY <1>4, <2>2, <2>4
  <2>5. CASE (~\E a \in Kept : Same(c, a)) /\ \E b \in Kept : Same(d, b)
    BY <1>4, <2>2, <2>5
  <2>6. CASE (~\E a \in Kept : Same(c, a)) /\ ~\E b \in Kept : Same(d, b)
    BY <1>4, <2>6
  <2> QED
    BY <2>3, <2>4, <2>5, <2>6
<1>6. \A c \in Kept' : c.serial \in 1..serials'
  <2> SUFFICES ASSUME NEW c \in Kept' PROVE c.serial \in 1..serials'
    OBVIOUS
  <2>1. CASE \E d \in Kept : Same(c, d)
    BY <1>1, <1>3, <2>1 DEF Same
  <2>2. CASE c.serial = serials + 1 /\ serials' = serials + 1
    BY <1>1, <2>2
  <2> QED
    BY <2>1, <2>2
<1>7. ~TakenOver
  <2> SUFFICES ASSUME NEW id \in DOMAIN pbRows PROVE pbRows'[id].serial = pbRows[id].serial
    BY DEF TakenOver
  <2>1. pbRows[id] \in Kept /\ pbRows[id].id = id
    BY DEF HistoryInv, HistoryTyped, Kept
  <2>2. id \in DOMAIN pbRows' /\ pbRows'[id] \in Kept' /\ pbRows'[id].id = id
    BY DEF HistoryTyped, Kept
  <2>3. ~(nextExecID < pbRows'[id].id)
    BY <1>1, <1>3, <2>1, <2>2
  <2>4. PICK d \in Kept : Same(pbRows'[id], d)
    BY <1>4, <2>2, <2>3
  <2> QED
    BY <1>2, <2>1, <2>2, <2>4 DEF NumbersApart, Same
<1> QED
  BY <1>5, <1>6, <1>7 DEF NumbersApart

Keeps == HistoryInv' /\ (serials' <= PBRingCap => ~TakenOver)

\* The same, for a step that starts nothing.
LEMMA NothingStarted ==
  ASSUME HistoryInv, HistoryTyped', serials' = serials, DOMAIN pbRows \subseteq DOMAIN pbRows',
         serials <= PBRingCap => \A c \in Kept' : c.id <= nextExecID' /\ \E d \in Kept : Same(c, d)
  PROVE  Keeps
<1>1. serials <= serials'
  BY DEF HistoryInv, HistoryTyped
<1> QED
  BY <1>1, ExecutionsDescend DEF Keeps, HistoryInv

\* One more in the ring, at its end.
LEMMA AppendedFit ==
  ASSUME HistoryTyped, NEW e \in Executions, pbRing' = LastOf(Append(pbRing, e), PBRingCap)
  PROVE  /\ pbRing' \in Seq(Executions) /\ Len(pbRing') <= PBRingCap
         /\ \A i \in DOMAIN pbRing' : pbRing'[i] = e \/ \E j \in DOMAIN pbRing : pbRing'[i] = pbRing[j]
<1> DEFINE s == Append(pbRing, e)
<1>1. pbRing \in Seq(Executions)
  BY DEF HistoryTyped
<1>2. s \in Seq(Executions) /\ \A i \in DOMAIN s : s[i] = e \/ \E j \in DOMAIN pbRing : s[i] = pbRing[j]
  BY <1>1
<1>3. pbRing' = LastOf(s, PBRingCap)
  OBVIOUS
<1> HIDE DEF s
<1>4. \A i \in DOMAIN pbRing' : \E j \in DOMAIN s : pbRing'[i] = s[j]
  BY <1>2, <1>3, LastOfRing
<1> QED
  BY <1>2, <1>3, <1>4, LastOfRing

\* A number that is held has an entry.
LEMMA EntryHeld ==
  ASSUME HistoryTyped, NEW id, Held(id) # {}
  PROVE  EntryOf(id) \in DOMAIN pbRing /\ pbRing[EntryOf(id)].id = id
<1>1. DOMAIN pbRing = 1..Len(pbRing) /\ Len(pbRing) \in Nat
  BY DEF HistoryTyped
<1>2. IsFiniteSet(DOMAIN pbRing) /\ DOMAIN pbRing \in SUBSET Nat
  BY <1>1, FS_Interval
<1>3. Held(id) \in SUBSET DOMAIN pbRing
  BY DEF Held
<1>4. Held(id) \in SUBSET Nat /\ IsFiniteSet(Held(id))
  BY <1>2, <1>3, FS_Subset
<1>5. EntryOf(id) \in Held(id)
  BY <1>4, Extremes DEF EntryOf
<1> QED
  BY <1>5 DEF Held

LEMMA StartKeeps == ASSUME HistoryInv, StartExecution PROVE Keeps
<1> DEFINE e == [id |-> nextExecID + 1, serial |-> serials + 1, status |-> "running"]
<1>1. /\ serials' = serials + 1 /\ nextExecID' = nextExecID + 1
      /\ pbRing' = LastOf(Append(pbRing, e), PBRingCap) /\ UNCHANGED <<pbRows, pbBlob>>
  BY DEF StartExecution
<1>2. serials \in Nat /\ nextExecID \in Nat /\ PBRingCap \in Nat
  BY PlaybookHistoryAssumption DEF HistoryInv, HistoryTyped
<1>3. e \in Executions /\ e.id = nextExecID + 1 /\ e.serial = serials + 1
  BY <1>2 DEF Executions
<1> HIDE DEF e
<1>4. /\ pbRing' \in Seq(Executions) /\ Len(pbRing') <= PBRingCap
      /\ \A i \in DOMAIN pbRing' : pbRing'[i] = e \/ \E j \in DOMAIN pbRing : pbRing'[i] = pbRing[j]
  BY <1>1, <1>3, AppendedFit DEF HistoryInv
<1>5. HistoryTyped'
  BY <1>1, <1>2, <1>4 DEF HistoryInv, HistoryTyped
<1>6. \A c \in Kept' : c \in Kept \/ c = e
  BY <1>1, <1>4 DEF Kept
<1>7. ASSUME serials' <= PBRingCap PROVE NumbersApart' /\ ~TakenOver
  <2>1. \A c \in Kept : c.id <= nextExecID
    BY <1>1, <1>2, <1>7 DEF HistoryInv, NumbersApart
  <2>2. \A c \in Kept : c.id \in Nat
    <3>1. \A x \in Executions : x.id \in Nat
      BY DEF Executions
    <3> QED
      BY <3>1, KeptAreExecutions DEF HistoryInv
  <2>3. \A c \in Kept' : c.id <= nextExecID'
    BY <1>1, <1>2, <1>3, <1>6, <2>1, <2>2
  <2>4. \A c \in Kept' : \/ \E d \in Kept : Same(c, d)
                         \/ /\ c = e /\ nextExecID < c.id
                            /\ c.serial = serials + 1 /\ serials' = serials + 1
    BY <1>1, <1>2, <1>3, <1>6 DEF Same
  <2>5. serials <= serials' /\ DOMAIN pbRows \subseteq DOMAIN pbRows'
    BY <1>1, <1>2
  <2> QED
    BY <1>5, <1>7, <2>3, <2>4, <2>5, ExecutionsDescend
<1> QED
  BY <1>5, <1>7 DEF Keeps, HistoryInv

LEMMA EndKeeps ==
  ASSUME HistoryInv, NEW id, NEW status \in EndStatuses, EndExecution(id, status)
  PROVE  Keeps
<1> DEFINE k == EntryOf(id)
<1>1. k \in DOMAIN pbRing /\ pbRing \in Seq(Executions) /\ Len(pbRing) <= PBRingCap
  BY EntryHeld DEF EndExecution, HistoryInv, HistoryTyped
<1>2. /\ pbRing' = [pbRing EXCEPT ![k].status = status]
      /\ UNCHANGED <<nextExecID, pbRows, pbBlob, serials>>
  BY DEF EndExecution
<1> HIDE DEF k
<1>3. \A i \in DOMAIN pbRing : pbRing[i] \in Executions
  BY <1>1, ElementsFit
<1>4. ASSUME NEW e \in Executions
      PROVE  [e EXCEPT !.status = status] \in Executions /\ Same([e EXCEPT !.status = status], e)
  BY DEF Executions, Same
<1>5. pbRing' = [pbRing EXCEPT ![k] = [pbRing[k] EXCEPT !.status = status]]
  BY <1>2
<1>6. DOMAIN pbRing' = DOMAIN pbRing /\ DOMAIN pbRing = 1..Len(pbRing) /\ Len(pbRing) \in Nat
  BY <1>1, <1>5
<1>7. \A i \in DOMAIN pbRing : pbRing'[i] \in Executions /\ Same(pbRing'[i], pbRing[i])
  <2> SUFFICES ASSUME NEW i \in DOMAIN pbRing
               PROVE  pbRing'[i] \in Executions /\ Same(pbRing'[i], pbRing[i])
    OBVIOUS
  <2>1. CASE i = k
    <3>1. pbRing'[i] = [pbRing[i] EXCEPT !.status = status]
      BY <1>1, <1>5, <2>1
    <3> QED
      BY <1>3, <1>4, <3>1
  <2>2. CASE i # k
    <3>1. pbRing'[i] = pbRing[i]
      BY <1>5, <2>2
    <3> QED
      BY <1>3, <3>1 DEF Same
  <2> QED
    BY <2>1, <2>2
<1>8. pbRing' \in Seq(Executions) /\ Len(pbRing') = Len(pbRing)
  <2>1. pbRing' = [i \in 1..Len(pbRing) |-> pbRing'[i]]
    BY <1>5, <1>6
  <2>2. \A i \in 1..Len(pbRing) : pbRing'[i] \in Executions
    BY <1>6, <1>7
  <2> QED
    BY <1>6, <2>1, <2>2
<1>9. HistoryTyped'
  BY <1>1, <1>2, <1>8 DEF HistoryInv, HistoryTyped
<1>10. \A c \in Kept' : \E d \in Kept : Same(c, d)
  <2> SUFFICES ASSUME NEW c \in Kept' PROVE \E d \in Kept : Same(c, d)
    OBVIOUS
  <2>1. c \in Kept \/ \E i \in DOMAIN pbRing : c = pbRing'[i]
    BY <1>2, <1>6 DEF Kept
  <2>2. \A i \in DOMAIN pbRing : pbRing[i] \in Kept
    BY DEF Kept
  <2> QED
    BY <1>7, <2>1, <2>2 DEF Same
<1>11. ASSUME serials <= PBRingCap PROVE \A c \in Kept' : c.id <= nextExecID'
  BY <1>2, <1>10, <1>11 DEF HistoryInv, NumbersApart, Same
<1>12. serials' = serials /\ DOMAIN pbRows \subseteq DOMAIN pbRows'
  BY <1>2
<1> QED
  BY <1>9, <1>10, <1>11, <1>12, NothingStarted

LEMMA CancelKeeps == ASSUME HistoryInv, NEW id, CancelStored(id) PROVE Keeps
<1> DEFINE e == [pbRows[id] EXCEPT !.status = "cancelled"]
<1>1. /\ id \in DOMAIN pbRows /\ pbRows[id] \in Executions /\ pbRows[id].id = id /\ id \in Nat
      /\ pbRows[id] \in Kept
  BY DEF CancelStored, HistoryInv, HistoryTyped, Kept
<1>2. /\ pbRing' = LastOf(Append(pbRing, e), PBRingCap)
      /\ nextExecID' = (IF id >= nextExecID THEN id + 1 ELSE nextExecID)
      /\ UNCHANGED <<pbRows, pbBlob, serials>>
  BY DEF CancelStored
<1>3. e \in Executions /\ Same(e, pbRows[id])
  BY <1>1 DEF Executions, EndStatuses, Same
<1>4. nextExecID \in Nat /\ nextExecID' \in Nat /\ nextExecID <= nextExecID'
  BY <1>1, <1>2 DEF HistoryInv, HistoryTyped
<1> HIDE DEF e
<1>5. /\ pbRing' \in Seq(Executions) /\ Len(pbRing') <= PBRingCap
      /\ \A i \in DOMAIN pbRing' : pbRing'[i] = e \/ \E j \in DOMAIN pbRing : pbRing'[i] = pbRing[j]
  BY <1>2, <1>3, AppendedFit DEF HistoryInv
<1>6. HistoryTyped'
  BY <1>2, <1>4, <1>5 DEF HistoryInv, HistoryTyped
<1>7. \A c \in Kept' : \E d \in Kept : Same(c, d)
  <2>1. \A c \in Kept' : c \in Kept \/ c = e
    BY <1>2, <1>5 DEF Kept
  <2> QED
    BY <1>1, <1>3, <2>1 DEF Same
<1>8. ASSUME serials <= PBRingCap PROVE \A c \in Kept' : c.id <= nextExecID'
  <2>1. \A c \in Kept : c.id <= nextExecID /\ c.id \in Nat
    <3>1. \A x \in Executions : x.id \in Nat
      BY DEF Executions
    <3> QED
      BY <1>8, <3>1, KeptAreExecutions DEF HistoryInv, NumbersApart
  <2>2. \A c \in Kept : c.id <= nextExecID'
    BY <1>4, <2>1
  <2> QED
    BY <1>7, <2>2 DEF Same
<1>9. serials' = serials /\ DOMAIN pbRows \subseteq DOMAIN pbRows'
  BY <1>2
<1> QED
  BY <1>6, <1>7, <1>8, <1>9, NothingStarted

LEMMA WriteKeeps == ASSUME HistoryInv, NEW id, WriteRow(id) PROVE Keeps
<1>1. UNCHANGED <<pbRing, nextExecID, pbBlob, serials>>
  BY DEF WriteRow
<1>2. /\ DOMAIN pbRows' \subseteq Nat /\ IsFiniteSet(DOMAIN pbRows')
      /\ DOMAIN pbRows \subseteq DOMAIN pbRows'
      /\ \A n \in DOMAIN pbRows' : /\ pbRows'[n] \in Executions /\ pbRows'[n].id = n
                                   /\ pbRows'[n] \in Kept
  <2>0. /\ DOMAIN pbRows \subseteq Nat /\ IsFiniteSet(DOMAIN pbRows)
        /\ \A n \in DOMAIN pbRows : /\ pbRows[n] \in Executions /\ pbRows[n].id = n
                                    /\ pbRows[n] \in Kept
    BY DEF HistoryInv, HistoryTyped, Kept
  <2>1. CASE Held(id) = {}
    <3>1. pbRows' = pbRows
      BY <2>1 DEF WriteRow
    <3> QED
      BY <2>0, <3>1
  <2>2. CASE Held(id) # {}
    <3> DEFINE e == pbRing[EntryOf(id)]
    <3>1. e \in Executions /\ e \in Kept /\ e.id \in Nat
      <4>1. EntryOf(id) \in DOMAIN pbRing /\ pbRing \in Seq(Executions)
        BY <2>2, EntryHeld DEF HistoryInv, HistoryTyped
      <4> QED
        BY <4>1, ElementsFit DEF Kept
    <3>2. pbRows' = Upserted(pbRows, e)
      BY <2>2 DEF WriteRow
    <3> HIDE DEF e
    <3>3. pbRows' = [n \in DOMAIN pbRows \cup {e.id} |-> IF n = e.id THEN e ELSE pbRows[n]]
      BY <3>2 DEF Upserted
    <3>4. IsFiniteSet(DOMAIN pbRows \cup {e.id})
      BY <2>0, FS_AddElement
    <3>5. DOMAIN pbRows' = DOMAIN pbRows \cup {e.id}
      BY <3>3
    <3>6. \A n \in DOMAIN pbRows' : pbRows'[n] = IF n = e.id THEN e ELSE pbRows[n]
      BY <3>3
    <3>7. \A n \in DOMAIN pbRows' : /\ pbRows'[n] \in Executions /\ pbRows'[n].id = n
                                    /\ pbRows'[n] \in Kept
      BY <2>0, <3>1, <3>5, <3>6
    <3> QED
      BY <2>0, <3>1, <3>4, <3>5, <3>7
  <2> QED
    BY <2>1, <2>2
<1>3. HistoryTyped'
  BY <1>1, <1>2 DEF HistoryInv, HistoryTyped
<1>4. Kept' \subseteq Kept
  BY <1>1, <1>2 DEF Kept
<1>5. serials <= PBRingCap => \A c \in Kept' : c.id <= nextExecID' /\ \E d \in Kept : Same(c, d)
  BY <1>1, <1>4 DEF HistoryInv, NumbersApart, Same
<1> QED
  BY <1>1, <1>2, <1>3, <1>5, NothingStarted

LEMMA FlushKeeps == ASSUME HistoryInv, FlushBlob PROVE Keeps
<1>1. pbBlob' = pbRing /\ UNCHANGED <<pbRing, nextExecID, pbRows, serials>>
  BY DEF FlushBlob
<1>2. HistoryTyped'
  BY <1>1 DEF HistoryInv, HistoryTyped
<1>3. Kept' \subseteq Kept
  BY <1>1 DEF Kept
<1>4. serials <= PBRingCap => \A c \in Kept' : c.id <= nextExecID' /\ \E d \in Kept : Same(c, d)
  BY <1>1, <1>3 DEF HistoryInv, NumbersApart, Same
<1> QED
  BY <1>1, <1>2, <1>4, NothingStarted

\* There are no more rows than executions.
LEMMA RowsCounted ==
  ASSUME HistoryInv, serials <= PBRingCap, NEW table, DOMAIN table \subseteq Nat,
         IsFiniteSet(DOMAIN table),
         \A id \in DOMAIN table : table[id].id = id /\ \E d \in Kept : Same(table[id], d)
  PROVE  Cardinality(DOMAIN table) <= serials
<1> DEFINE serial == [id \in DOMAIN table |-> table[id].serial]
<1>1. serials \in Nat /\ NumbersApart
  BY DEF HistoryInv, HistoryTyped
<1>2. IsFiniteSet(1..serials) /\ Cardinality(1..serials) = serials
  BY <1>1, FS_Interval
<1>3. \A id \in DOMAIN table : serial[id] \in 1..serials
  BY <1>1 DEF NumbersApart, Same
<1>4. ASSUME NEW a \in DOMAIN table, NEW b \in DOMAIN table, serial[a] = serial[b] PROVE a = b
  <2>1. PICK c \in Kept : Same(table[a], c)
    OBVIOUS
  <2>2. PICK d \in Kept : Same(table[b], d)
    OBVIOUS
  <2>3. c.serial = d.serial
    BY <1>4, <2>1, <2>2 DEF Same
  <2>4. c.id = d.id
    BY <1>1, <2>3 DEF NumbersApart
  <2> QED
    BY <2>1, <2>2, <2>4 DEF Same
<1>5. serial \in Injection(DOMAIN table, 1..serials)
  <2>1. serial \in [DOMAIN table -> 1..serials]
    BY <1>3
  <2> QED
    BY <1>4, <2>1 DEF Injection, IsInjective
<1> HIDE DEF serial
<1> QED
  BY <1>2, <1>5, FS_Injection

LEMMA ReloadKeeps == ASSUME HistoryInv, ReloadHistory PROVE Keeps
<1> DEFINE blob == Imported(pbBlob)
           table == AllUpserted(pbRows, blob)
           listed == ListedRows(table)
           next == NumberAfter(0, pbBlob)
<1>0. /\ HistoryTyped /\ pbBlob \in Seq(Executions) /\ Len(pbBlob) <= PBRingCap
      /\ serials \in Nat /\ PBRingCap \in Nat
  BY PlaybookHistoryAssumption DEF HistoryInv, HistoryTyped
<1>1. /\ pbRows' = table
      /\ pbRing' = IF listed = << >> THEN blob ELSE Imported(listed)
      /\ nextExecID' = NumberAfter(next, listed)
      /\ UNCHANGED <<pbBlob, serials>>
  BY DEF ReloadHistory
<1>2. /\ blob \in Seq(Executions) /\ Len(blob) <= PBRingCap
      /\ DOMAIN blob = DOMAIN pbBlob /\ \A i \in DOMAIN pbBlob : Same(blob[i], pbBlob[i])
  BY <1>0, ImportedFit
<1> HIDE DEF blob
<1>3. /\ DOMAIN table = DOMAIN pbRows \cup NumbersOf(blob)
      /\ DOMAIN table \subseteq Nat /\ IsFiniteSet(DOMAIN table)
      /\ \A id \in DOMAIN table :
           /\ table[id] \in Executions /\ table[id].id = id
           /\ \/ \E i \in DOMAIN blob : table[id] = blob[i]
              \/ id \in DOMAIN pbRows /\ table[id] = pbRows[id]
  BY <1>0, <1>2, UpsertedFit
<1> HIDE DEF table
<1>4. \A id \in DOMAIN table : \E d \in Kept : Same(table[id], d)
  <2> SUFFICES ASSUME NEW id \in DOMAIN table PROVE \E d \in Kept : Same(table[id], d)
    OBVIOUS
  <2>1. CASE \E i \in DOMAIN blob : table[id] = blob[i]
    <3>1. PICK i \in DOMAIN pbBlob : Same(table[id], pbBlob[i])
      BY <1>2, <2>1
    <3> QED
      BY <3>1 DEF Kept
  <2>2. CASE id \in DOMAIN pbRows /\ table[id] = pbRows[id]
    BY <2>2 DEF Kept, Same
  <2> QED
    BY <1>3, <2>1, <2>2
<1>5. /\ listed \in Seq(Executions) /\ Len(listed) <= Cardinality(DOMAIN table)
      /\ \A i \in DOMAIN listed : \E id \in DOMAIN table : listed[i] = table[id]
      /\ DOMAIN table # {} => 1 \in DOMAIN listed /\ \A id \in DOMAIN table : id <= listed[1].id
      /\ DOMAIN table = {} => listed = << >>
  BY <1>3, ListedFit
<1> HIDE DEF listed
<1>6. next \in Nat
  BY <1>0, NextNumber
<1> HIDE DEF next
<1>7. nextExecID' \in Nat /\ (Len(listed) <= PBRingCap => \A i \in DOMAIN listed : listed[i].id <= nextExecID')
  BY <1>1, <1>5, <1>6, NextNumber
<1>8. pbRing' \in Seq(Executions) /\ Len(pbRing') <= PBRingCap
  BY <1>1, <1>2, <1>5, ImportedFit
<1>9. HistoryTyped'
  BY <1>0, <1>1, <1>3, <1>7, <1>8 DEF HistoryTyped
<1>10. \A c \in Kept' : \E id \in DOMAIN table, d \in Kept : Same(c, d) /\ c.id = id
  <2> SUFFICES ASSUME NEW c \in Kept'
               PROVE  \E id \in DOMAIN table, d \in Kept : Same(c, d) /\ c.id = id
    OBVIOUS
  <2>1. ASSUME NEW id \in DOMAIN table, Same(c, table[id])
        PROVE  \E n \in DOMAIN table, d \in Kept : Same(c, d) /\ c.id = n
    <3>1. PICK d \in Kept : Same(table[id], d)
      BY <1>4
    <3> QED
      BY <1>3, <2>1, <3>1 DEF Same
  <2>2. ASSUME NEW i \in DOMAIN pbBlob, Same(c, pbBlob[i])
        PROVE  \E n \in DOMAIN table, d \in Kept : Same(c, d) /\ c.id = n
    <3>1. blob[i].id = c.id /\ i \in DOMAIN blob
      BY <1>2, <2>2 DEF Same
    <3>2. c.id \in DOMAIN table
      BY <1>3, <3>1 DEF NumbersOf
    <3>3. pbBlob[i] \in Kept
      BY DEF Kept
    <3> QED
      BY <2>2, <3>2, <3>3
  <2>3. CASE \E i \in DOMAIN pbRing' : c = pbRing'[i]
    <3>1. PICK i \in DOMAIN pbRing' : c = pbRing'[i]
      BY <2>3
    <3>2. CASE listed = << >>
      <4>1. pbRing' = blob
        BY <1>1, <3>2
      <4> QED
        BY <1>2, <2>2, <3>1, <4>1 DEF Same
    <3>3. CASE listed # << >>
      <4>1. pbRing' = Imported(listed)
        BY <1>1, <3>3
      <4>2. PICK j \in DOMAIN listed : Same(c, listed[j])
        BY <1>5, <3>1, <4>1, ImportedFit
      <4>3. PICK id \in DOMAIN table : listed[j] = table[id]
        BY <1>5
      <4> QED
        BY <2>1, <4>2, <4>3
    <3> QED
      BY <3>2, <3>3
  <2>4. CASE \E id \in DOMAIN pbRows' : c = pbRows'[id]
    BY <1>1, <2>1, <2>4 DEF Same
  <2>5. CASE \E i \in DOMAIN pbBlob' : c = pbBlob'[i]
    BY <1>1, <2>2, <2>5 DEF Same
  <2> QED
    BY <2>3, <2>4, <2>5 DEF Kept
<1>11. ASSUME serials <= PBRingCap PROVE \A c \in Kept' : c.id <= nextExecID'
  <2>1. Cardinality(DOMAIN table) <= serials
    BY <1>3, <1>4, <1>11, RowsCounted
  <2>2. Len(listed) <= PBRingCap
    <3>1. Len(listed) \in Nat /\ Cardinality(DOMAIN table) \in Nat
      BY <1>3, <1>5, FS_CardinalityType
    <3> QED
      BY <1>0, <1>5, <1>11, <2>1, <3>1
  <2> SUFFICES ASSUME NEW c \in Kept' PROVE c.id <= nextExecID'
    OBVIOUS
  <2>3. c.id \in DOMAIN table
    BY <1>10
  <2>4. 1 \in DOMAIN listed /\ c.id <= listed[1].id
    BY <1>5, <2>3
  <2>5. listed[1].id <= nextExecID' /\ listed[1].id \in Nat /\ c.id \in Nat
    BY <1>3, <1>5, <1>7, <2>2, <2>3, <2>4, ElementsFit
  <2> QED
    BY <1>7, <2>4, <2>5
<1>12. serials' = serials /\ DOMAIN pbRows \subseteq DOMAIN pbRows'
  BY <1>1, <1>3
<1> QED
  BY <1>9, <1>10, <1>11, <1>12, NothingStarted

LEMMA HistoryStep == HistoryInv /\ [PlaybookHistoryNext]_phVars => Keeps
<1> SUFFICES ASSUME HistoryInv, [PlaybookHistoryNext]_phVars PROVE Keeps
  OBVIOUS
<1>1. CASE StartExecution
  BY <1>1, StartKeeps
<1>2. CASE \E id \in Numbers : \E status \in EndStatuses : EndExecution(id, status)
  BY <1>2, EndKeeps
<1>3. CASE \E id \in Numbers : CancelStored(id)
  BY <1>3, CancelKeeps
<1>4. CASE \E id \in Numbers : WriteRow(id)
  BY <1>4, WriteKeeps
<1>5. CASE FlushBlob
  BY <1>5, FlushKeeps
<1>6. CASE ReloadHistory
  BY <1>6, ReloadKeeps
<1>7. CASE UNCHANGED phVars
  <2>1. UNCHANGED <<pbRing, nextExecID, pbRows, pbBlob, serials>>
    BY <1>7 DEF phVars
  <2>2. HistoryTyped' /\ Kept' = Kept
    BY <2>1 DEF HistoryInv, HistoryTyped, Kept
  <2>3. serials <= PBRingCap => \A c \in Kept' : c.id <= nextExecID' /\ \E d \in Kept : Same(c, d)
    BY <2>1, <2>2 DEF HistoryInv, NumbersApart, Same
  <2> QED
    BY <2>1, <2>2, <2>3, NothingStarted
<1> QED
  BY <1>1, <1>2, <1>3, <1>4, <1>5, <1>6, <1>7 DEF PlaybookHistoryNext

\* As long as the ring could hold every execution there was, no row of the table is
\* taken over by another execution, whatever dies between a start, its row, and a
\* flush, for any capacity and any number of restarts (playbook.go:517-611).
THEOREM NumbersStayApart == PlaybookHistorySpec => HistoryKeptBelowCap
<1>1. PlaybookHistoryInit => HistoryInv
  <2> SUFFICES ASSUME PlaybookHistoryInit PROVE HistoryInv
    OBVIOUS
  <2>1. PBRingCap \in Nat
    BY PlaybookHistoryAssumption
  <2>2. DOMAIN pbRows = {} /\ pbRing = << >> /\ pbBlob = << >>
    BY DEF PlaybookHistoryInit
  <2>3. Kept = {}
    BY <2>2 DEF Kept
  <2>4. HistoryTyped
    BY <2>1, <2>2, FS_EmptySet DEF PlaybookHistoryInit, HistoryTyped
  <2> QED
    BY <2>3, <2>4 DEF HistoryInv, NumbersApart
<1>2. HistoryInv /\ [PlaybookHistoryNext]_phVars => HistoryInv'
  BY HistoryStep DEF Keeps
<1>3. HistoryInv /\ [PlaybookHistoryNext]_phVars => [serials' <= PBRingCap => ~TakenOver]_phVars
  BY HistoryStep DEF Keeps
<1> QED
  BY <1>1, <1>2, <1>3, PTL DEF PlaybookHistorySpec, HistoryKeptBelowCap
=============================================================================
