------------------------------ MODULE LogUpload -------------------------------
(***************************************************************************)
(* Encrypted uploads of logs (agent/logcollect.go, sre_api.go, crypto.go). *)
(* An agent gets its log key when it registers: the server derives it from *)
(* the key that seals its secrets and the agent's fingerprint.  The server *)
(* derives it again for every batch, from the key it has by then.          *)
(***************************************************************************)
EXTENDS SecretKeys

CONSTANT Agents

VARIABLES
  agentKey,     \* the server's key from which each agent's log key was derived
  refused       \* the agents whose last batch the server could not open

logVars == <<keyVars, agentKey, refused>>

LogInit ==
  /\ KeysInit
  /\ agentKey = [a \in Agents |-> env.key]
  /\ refused = {}

\* An agent registers when it starts, when the server no longer knows it, and after it
\* could not reach the server for long; a refused batch is no reason.
Register(a) ==
  /\ agentKey' = [agentKey EXCEPT ![a] = env.key]
  /\ UNCHANGED <<keyVars, refused>>

\* sendLogBatch does not look at the answer: the lines of a refused batch are gone.
SendBatch(a) ==
  /\ refused' = IF agentKey[a] = env.key THEN refused \ {a} ELSE refused \cup {a}
  /\ UNCHANGED <<keyVars, agentKey>>

ServerStep == KeysNext /\ UNCHANGED <<agentKey, refused>>

LogNext == ServerStep \/ \E a \in Agents : Register(a) \/ SendBatch(a)

\* Collectors send batches as long as lines come, and a rotation is a call of its own
\* that runs to its end.  Nothing makes an agent register again.
LogSpec ==
  /\ LogInit
  /\ [][LogNext]_logVars
  /\ \A a \in Agents : WF_logVars(SendBatch(a))
  /\ WF_logVars(rotation.at # "idle" /\ Rotate /\ UNCHANGED <<agentKey, refused>>)

-----------------------------------------------------------------------------
\* "The server derives the same key again from the fingerprint": an agent whose batches
\* are refused, if only because a rotation came between, gets through again.
LogsResume == \A a \in Agents : a \in refused ~> a \notin refused
=============================================================================
