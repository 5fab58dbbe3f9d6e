----------------------------- MODULE MCSelfHealing -----------------------------
(* Instances of SelfHealing for TLC. *)
EXTENDS SelfHealing

CONSTANTS web, loop, t1, heal, manual

OneKey == {web}
OneRule == {heal}
OneTrigger == {t1}
None == {}

\* Bounds that keep apart what need not meet: a scan comes before the runs of alerts; a
\* save when nothing is recorded, for after it, which makes the engine forget, no verdict
\* is claimed; and a record of another source when no job waits.
OneAfterAnother ==
  /\ scanRuns' # scanRuns => nextID' <= 2
  /\ saves' > 0 => nextID' <= 1
  /\ FileElsewhere => saves = 0 /\ pushQ = <<>>

\* HealFairness, as far as the verdicts need it.
MCFairness ==
  /\ WF_healVars(HealTickStep(Ticker))
  /\ WF_healVars(Push)
  /\ WF_healVars(\E id \in R!Ids : HealWork(id))

MCSpec == HealInit /\ [][HealNext /\ OneAfterAnother]_healVars /\ MCFairness
=============================================================================
