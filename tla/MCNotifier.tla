------------------------------ MODULE MCNotifier ------------------------------
(* Instances of Notifier for TLC. *)
EXTENDS Notifier, TLC

CONSTANTS cpu, disk, loop, t1

TwoKeys == {cpu, disk}
OneTrigger == {t1}
\* An active cpu alert inhibits the disk alert of the same host.
CpuInhibitsDisk == {<<cpu, disk>>}

\* Nothing has happened to a key, or all of it is forgotten.
Untouched(k) ==
  /\ k \notin cond \cup active \cup dropped
  /\ \A w \in Workers : k \notin cur[w]
  /\ pending[k] = 0 /\ recordIDs[k] = NoEntry /\ told[k] = "nothing"

\* Two keys, and configuration saves on behaviours in which one of them, disk,
\* is never seen: the bound that keeps the two apart.
SavesOnOneKey == saves > 0 => Untouched(disk)

\* Records of other sources, on behaviours without saves, which are those that
\* RecordsMirrorAlerts is about, and while no job waits for its delivery.
OthersWithoutSaves == FileOther => saves = 0 /\ pushQ = <<>>

\* In behaviours with saves a job is delivered before anything else happens: what the
\* queue does is the business of those without.
SavesDeliver == saves' > 0 /\ pushQ # <<>> => Deliver

MCSpec ==
  /\ Init
  /\ [][Next /\ SavesOnOneKey' /\ OthersWithoutSaves /\ SavesDeliver]_vars
  /\ Fairness
=============================================================================
