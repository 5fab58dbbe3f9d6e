----------------------------- MODULE MCRemediation -----------------------------
(* Instances of Remediation for TLC. *)
EXTENDS Remediation

CONSTANTS disk, web, db, manual

OneRule == {disk}
OneHost == {web}
TwoHosts == {web, db}
None == {}

\* The steps of Next that are left when there is no PostgreSQL: nothing is written,
\* flushed or loaded again.
LocalNext ==
  \/ Fire \/ Propose \/ Decide
  \/ \E id \in Ids : Work(id)
  \/ Tick

LocalSpec == Init /\ [][LocalNext]_vars /\ Fairness
=============================================================================
