------------------------------ MODULE MCAlertLoop ------------------------------
(* Instances of AlertLoop for TLC. *)
EXTENDS AlertLoop

CONSTANTS cpu, loop, t1

OneKey == {cpu}
OneTrigger == {t1}
NoRules == {}

\* Bounds that keep apart what need not meet: a behaviour has configuration saves
\* or flushes and restarts, and no flush after its last restart, whose rows nobody
\* would read.
SavesOrRestarts ==
  /\ saves' > 0 => incidentRows' = << >> /\ imports' = 0
  /\ imports > 0 /\ imports = MaxImports => incidentRows' = incidentRows

MCSpec == LoopInit /\ [][LoopNext /\ SavesOrRestarts]_loopVars /\ LoopFairness
=============================================================================
