---------------------------- MODULE PlaybookHistory ----------------------------
(***************************************************************************)
(* What is kept of playbook executions (src/cmd/server/playbook.go,        *)
(* playbook_cancel.go, ai_usage.go, pgstore.go): the ring in memory, from  *)
(* which executions get their numbers; the table, one row per execution,   *)
(* written at once; and the copy of the ring that every flush writes as one *)
(* blob.  An execution is its number, a serial that no two executions ever *)
(* share (the program has none), and whether it has ended and how.         *)
(***************************************************************************)
EXTENDS Naturals, Sequences, FiniteSets

CONSTANTS
  PBRingCap,     \* executions kept in memory (100)
  PBListCap,     \* rows read at startup (500)
  MaxSerial,     \* bound on the executions of a behaviour
  MaxReloads     \* bound on the restarts of a behaviour

ASSUME PlaybookHistoryAssumption ==
  /\ PBRingCap \in Nat \ {0}
  /\ PBListCap \in Nat /\ PBListCap >= PBRingCap
  /\ {MaxSerial, MaxReloads} \subseteq Nat

VARIABLES
  pbRing,        \* executions, as they were appended
  nextExecID,
  pbRows,        \* the table, number -> execution
  pbBlob,        \* what the last flush wrote
  unwrittenExecs, \* numbers whose row is not written yet
  serials,       \* executions started so far
  reloads        \* restarts so far

phVars == <<pbRing, nextExecID, pbRows, pbBlob, unwrittenExecs, serials, reloads>>

EndStatuses == {"completed", "cancelled"}
\* A restart and a cancellation may each skip a number.
Numbers == 1..(2 * MaxSerial + MaxReloads)
Stored == [id : Numbers, serial : 1..MaxSerial,
           status : {"running"} \cup EndStatuses]

PlaybookHistoryTypeOK ==
  /\ pbRing \in Seq(Stored) /\ Len(pbRing) <= PBRingCap
  /\ nextExecID \in Nat
  /\ \A id \in DOMAIN pbRows : pbRows[id] \in Stored /\ pbRows[id].id = id
  /\ pbBlob \in Seq(Stored) /\ Len(pbBlob) <= PBRingCap
  /\ unwrittenExecs \subseteq Nat
  /\ serials \in 0..MaxSerial
  /\ reloads \in 0..MaxReloads

PlaybookHistoryInit ==
  /\ pbRing = << >>
  /\ nextExecID = 0
  /\ pbRows = << >>
  /\ pbBlob = << >>
  /\ unwrittenExecs = {}
  /\ serials = 0
  /\ reloads = 0

LastOf(s, n) == IF Len(s) > n THEN SubSeq(s, Len(s) - n + 1, Len(s)) ELSE s

\* GetExecution: the first entry with this number.
Held(id) == {i \in DOMAIN pbRing : pbRing[i].id = id}
EntryOf(id) == CHOOSE i \in Held(id) : \A j \in Held(id) : i <= j

\* upsertPlaybookExecution of one execution, and of several in order: the last one of a
\* number stays.
Upserted(rows, e) == [id \in DOMAIN rows \cup {e.id} |-> IF id = e.id THEN e ELSE rows[id]]
NumbersOf(list) == {list[i].id : i \in DOMAIN list}
AllUpserted(rows, list) ==
  LET Last(id) == CHOOSE i \in DOMAIN list : list[i].id = id
                                         /\ \A j \in DOMAIN list : list[j].id = id => j <= i
  IN  [id \in DOMAIN rows \cup NumbersOf(list) |->
         IF id \in NumbersOf(list) THEN list[Last(id)] ELSE rows[id]]

-----------------------------------------------------------------------------

\* startExecution
StartExecution ==
  /\ serials < MaxSerial
  /\ serials' = serials + 1
  /\ nextExecID' = nextExecID + 1
  /\ pbRing' = LastOf(Append(pbRing, [id |-> nextExecID + 1, serial |-> serials + 1,
                                      status |-> "running"]), PBRingCap)
  /\ unwrittenExecs' = unwrittenExecs \cup {nextExecID + 1}
  /\ UNCHANGED <<pbRows, pbBlob, reloads>>

\* The runner's last write, or the cancel handler for an execution of the ring.  An
\* execution pushed out of the ring is not found any more.
EndExecution(id, status) ==
  /\ Held(id) # {}
  /\ pbRing[EntryOf(id)].status = "running"
  /\ pbRing' = [pbRing EXCEPT ![EntryOf(id)].status = status]
  /\ unwrittenExecs' = unwrittenExecs \cup {id}
  /\ UNCHANGED <<nextExecID, pbRows, pbBlob, serials, reloads>>

\* handleCancelPlaybookExecution for an execution that only the table has:
\* ensureExecution, and the cancellation.
CancelStored(id) ==
  /\ Held(id) = {}
  /\ id \in DOMAIN pbRows
  /\ pbRows[id].status = "running"
  /\ pbRing' = LastOf(Append(pbRing, [pbRows[id] EXCEPT !.status = "cancelled"]), PBRingCap)
  /\ nextExecID' = IF id >= nextExecID THEN id + 1 ELSE nextExecID
  /\ unwrittenExecs' = unwrittenExecs \cup {id}
  /\ UNCHANGED <<pbRows, pbBlob, serials, reloads>>

\* persistPlaybookExecution: what GetExecution finds by now, if anything.
WriteRow(id) ==
  /\ id \in unwrittenExecs
  /\ unwrittenExecs' = unwrittenExecs \ {id}
  /\ pbRows' = IF Held(id) = {} THEN pbRows ELSE Upserted(pbRows, pbRing[EntryOf(id)])
  /\ UNCHANGED <<pbRing, nextExecID, pbBlob, serials, reloads>>

\* pgFlush
FlushBlob ==
  /\ pbBlob # pbRing
  /\ pbBlob' = pbRing
  /\ UNCHANGED <<pbRing, nextExecID, pbRows, unwrittenExecs, serials, reloads>>

-----------------------------------------------------------------------------

\* importExecutions: the last PBRingCap, the orphans cancelled.
Imported(list) ==
  [i \in DOMAIN LastOf(list, PBRingCap) |->
     LET e == LastOf(list, PBRingCap)[i]
     IN  IF e.status = "running" THEN [e EXCEPT !.status = "cancelled"] ELSE e]
Highest(S) == CHOOSE n \in S : \A m \in S : m <= n
\* Mutant: the highest number in use is given again.
NumberInUse(next, list) ==
  LET kept == NumbersOf(LastOf(list, PBRingCap))
  IN  IF \A id \in kept : id < next THEN next ELSE Highest(kept) - 1
\* One above the numbers that are kept and not below the one at hand, if there are any.
NumberAfter(next, list) ==
  LET kept == NumbersOf(LastOf(list, PBRingCap))
  IN  IF \A id \in kept : id < next THEN next ELSE Highest(kept) + 1

\* listPlaybookExecutions: the highest numbers first.
ListedRows(rows) ==
  LET Nth(k) == CHOOSE id \in DOMAIN rows :
                  Cardinality({other \in DOMAIN rows : other >= id}) = k
      n == Cardinality(DOMAIN rows)
  IN  [k \in 1..(IF n < PBListCap THEN n ELSE PBListCap) |-> rows[Nth(k)]]

\* bindPG of a new process: the blob, if there is one, is imported and written over
\* the table; then the table, if it has rows, is imported.
ReloadHistory ==
  /\ reloads < MaxReloads
  /\ reloads' = reloads + 1
  /\ LET rows == AllUpserted(pbRows, Imported(pbBlob))
         listed == ListedRows(rows)
         next == NumberAfter(0, pbBlob)
     IN  /\ pbRows' = rows
         /\ pbRing' = IF listed = << >> THEN Imported(pbBlob) ELSE Imported(listed)
         /\ nextExecID' = NumberAfter(next, listed)
  /\ unwrittenExecs' = {}
  /\ UNCHANGED <<pbBlob, serials>>

PlaybookHistoryNext ==
  \/ StartExecution
  \/ \E id \in Numbers :
       \/ \E status \in EndStatuses : EndExecution(id, status)
       \/ CancelStored(id)
       \/ WriteRow(id)
  \/ FlushBlob
  \/ ReloadHistory

PlaybookHistorySpec == PlaybookHistoryInit /\ [][PlaybookHistoryNext]_phVars

-----------------------------------------------------------------------------
(* Properties.                                                              *)

TakenOver == \E id \in DOMAIN pbRows : pbRows'[id].serial # pbRows[id].serial

\* "PG table keeps full history via upsertPlaybookExecution", as long as the ring holds
\* every execution: no row is taken over by another one, whenever the process dies,
\* since the numbers in use are found again in the blob or in the table.  A number that
\* was never written may be given twice.
HistoryKeptBelowCap == [][serials' <= PBRingCap => ~TakenOver]_phVars
=============================================================================
