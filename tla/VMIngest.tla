-------------------------------- MODULE VMIngest --------------------------------
(***************************************************************************)
(* The ingest loop of src/cmd/server/vm.go over the write breaker of        *)
(* VMBreaker: samples wait in a channel that drops what it cannot hold, the *)
(* loop gathers them in a batch and pushes it, keeps it when VictoriaMetrics *)
(* is unreachable, gives it up when it is rejected, and trims it when it    *)
(* grows too long.  On shutdown the loop drains the channel and pushes once *)
(* more.  There are four channels, each with its batch, served alike; this  *)
(* is one of them, the samples being numbers in the order they are offered. *)
(* While the loop is not pumping, the other callers of VMBreaker run.       *)
(***************************************************************************)
EXTENDS VMBreaker, Sequences, SequencesExt

CONSTANTS
  Writer,        \* the loop, as a caller of the breaker
  MaxSamples,    \* bound on the samples of a behaviour
  ChanCap,       \* capacity of the channel (8192)
  FlushAt,       \* length at which the batch is pushed at once (512)
  RetryMax       \* vmRetryBufMax: what is kept of it after a failure

ASSUME VMIngestAssumption ==
  /\ Writer \in Ingest
  /\ MaxSamples \in Nat
  /\ {ChanCap, FlushAt, RetryMax} \subseteq Nat \ {0}

VARIABLES
  pumping,       \* the behaviour is one of the ingest loop
  offered,       \* samples handed to enqueue so far
  channel,       \* v.ch
  batch,         \* buf
  loop,          \* where run() is
  stopping,      \* stopCh is closed
  stored,        \* samples VictoriaMetrics has
  givenUp        \* samples dropped at a full channel, trimmed or rejected

pump == <<offered, channel, batch, loop, stopping, stored, givenUp>>
ingestVars == <<vars, pumping, pump>>

Samples == 1..MaxSamples

IngestTypeOK ==
  /\ TypeOK
  /\ pumping \in BOOLEAN
  /\ offered \in 0..MaxSamples
  /\ channel \in Seq(Samples) /\ Len(channel) <= ChanCap
  /\ batch \in Seq(Samples)
  /\ loop \in {"waiting", "select", "push", "pushing", "last", "stopped"}
  /\ stopping \in BOOLEAN
  /\ {stored, givenUp} \subseteq SUBSET Samples

IngestInit ==
  /\ Init
  /\ pumping \in BOOLEAN
  /\ offered = 0
  /\ channel = << >>
  /\ batch = << >>
  /\ loop = "waiting"
  /\ stopping = FALSE
  /\ stored = {}
  /\ givenUp = {}

-----------------------------------------------------------------------------

\* enqueue, by the handlers of the agents' reports; they have returned when the
\* server shuts its writer down.
Offer ==
  /\ ~stopping
  /\ offered < MaxSamples
  /\ offered' = offered + 1
  /\ IF Len(channel) < ChanCap
       THEN channel' = Append(channel, offered + 1) /\ UNCHANGED givenUp
       ELSE givenUp' = givenUp \cup {offered + 1} /\ UNCHANGED channel
  /\ UNCHANGED <<vars, batch, loop, stopping, stored>>

\* waitReady: VictoriaMetrics answers, the 90 s are over, or the writer is stopped.
Ready ==
  /\ loop = "waiting"
  /\ loop' = "select"
  /\ UNCHANGED <<vars, offered, channel, batch, stopping, stored, givenUp>>

\* The next sample; a batch that is long enough is pushed at once.
Take ==
  /\ loop = "select"
  /\ channel # << >>
  /\ channel' = Tail(channel)
  /\ batch' = Append(batch, Head(channel))
  /\ loop' = IF Len(batch) + 1 >= FlushAt THEN "push" ELSE "select"
  /\ UNCHANGED <<vars, offered, stopping, stored, givenUp>>

\* The ticker.
Flush ==
  /\ loop = "select"
  /\ batch # << >>
  /\ loop' = "push"
  /\ UNCHANGED <<vars, offered, channel, batch, stopping, stored, givenUp>>

\* shutdown, once the handlers have returned.
Shutdown ==
  /\ ~stopping
  /\ stopping' = TRUE
  /\ UNCHANGED <<vars, offered, channel, batch, loop, stored, givenUp>>

\* Mutant: what the channel still holds is left there.
DrainNothing ==
  /\ loop = "select"
  /\ stopping
  /\ loop' = IF batch = << >> THEN "stopped" ELSE "last"
  /\ UNCHANGED <<vars, offered, channel, batch, stopping, stored, givenUp>>
\* The loop sees stopCh, though it may take other cases first: drain, and the last push.
Drain ==
  /\ loop = "select"
  /\ stopping
  /\ batch' = batch \o channel
  /\ channel' = << >>
  /\ loop' = IF batch \o channel = << >> THEN "stopped" ELSE "last"
  /\ UNCHANGED <<vars, offered, stopping, stored, givenUp>>

-----------------------------------------------------------------------------
(* push, pushChecks, pushAPI and pushRaw by way of vmImport.                *)

AtPush == pumping /\ loop \in {"push", "last"}
AfterPush == IF loop = "last" THEN "stopped" ELSE "select"

\* Mutant: a batch that could not be pushed is cleared like one that was.
GiveUpUnsent ==
  /\ batch' = << >>
  /\ loop' = AfterPush
  /\ UNCHANGED givenUp
\* A batch that could not be pushed is kept, but for its oldest samples.
KeepBatch ==
  /\ loop' = AfterPush
  /\ IF Len(batch) > RetryMax
       THEN LET trimmed == Len(batch) - RetryMax
            IN  /\ batch' = SubSeq(batch, trimmed + 1, Len(batch))
                /\ givenUp' = givenUp \cup ToSet(SubSeq(batch, 1, trimmed))
       ELSE UNCHANGED <<batch, givenUp>>

\* errVMCircuitOpen
PushRefused ==
  /\ AtPush
  /\ req[Writer] = "idle"
  /\ ~Allow
  /\ KeepBatch
  /\ UNCHANGED <<vars, offered, channel, stopping, stored>>

PushSent ==
  /\ AtPush
  /\ Send(Writer)
  /\ UNCHANGED pump

\* A request that fails may have been carried out all the same.
PushAnswered ==
  /\ AtPush
  /\ Answer(Writer)
  /\ \/ health \in {"up", "down"} /\ stored' = stored \cup ToSet(batch)
     \/ health # "up" /\ UNCHANGED stored
  /\ UNCHANGED <<offered, channel, batch, loop, stopping, givenUp>>

\* vmImportDone: the batch is done with, or kept after an error, a 5xx or a 429; the body
\* of another 4xx is read first.
PushReported ==
  /\ AtPush
  /\ Report(Writer)
  /\ CASE req[Writer] = "ok" -> batch' = << >> /\ loop' = AfterPush /\ UNCHANGED givenUp
       [] req[Writer] \in {"failed", "throttled"} -> KeepBatch
       [] req[Writer] = "rejected" -> UNCHANGED <<batch, loop, givenUp>>
  /\ UNCHANGED <<offered, channel, stopping, stored>>

PushRejected ==
  /\ AtPush
  /\ Reject(Writer)
  /\ batch' = << >>
  /\ givenUp' = givenUp \cup ToSet(batch)
  /\ loop' = AfterPush
  /\ UNCHANGED <<offered, channel, stopping, stored>>

PushStep == PushRefused \/ PushSent \/ PushAnswered \/ PushReported \/ PushRejected

-----------------------------------------------------------------------------

Pumped(A) == pumping /\ A /\ UNCHANGED pumping
Queried(A) == ~pumping /\ A /\ UNCHANGED <<pumping, pump>>
Passing(A) == A /\ UNCHANGED <<pumping, pump>>

IngestNext ==
  \/ Passing(HealthChange)
  \/ Passing(Tick)
  \/ \E c \in Callers :
       Queried(Send(c)) \/ Queried(Answer(c)) \/ Queried(Report(c)) \/ Queried(Reject(c))
  \/ Pumped(Offer) \/ Pumped(Ready) \/ Pumped(Take) \/ Pumped(Flush)
  \/ Pumped(Shutdown) \/ Pumped(Drain)
  \/ Pumped(PushRefused) \/ Pumped(PushSent) \/ Pumped(PushAnswered)
  \/ Pumped(PushReported) \/ Pumped(PushRejected)

\* As for the breaker; the loop runs, its select takes every case that stays ready,
\* and its ticker fires.
IngestFairness ==
  /\ WF_ingestVars(Passing(Tick))
  /\ \A c \in Callers : /\ WF_ingestVars(Queried(Answer(c)))
                        /\ WF_ingestVars(Queried(Report(c)))
                        /\ WF_ingestVars(Queried(Reject(c)))
  /\ WF_ingestVars(\E c \in Callers : Queried(Send(c)))
  /\ WF_ingestVars(Pumped(Ready))
  /\ WF_ingestVars(Pumped(Take))
  /\ WF_ingestVars(Pumped(Flush))
  /\ WF_ingestVars(Pumped(Drain))
  /\ WF_ingestVars(Pumped(PushStep))

IngestSpec == IngestInit /\ [][IngestNext]_ingestVars
FairIngestSpec == IngestSpec /\ IngestFairness

-----------------------------------------------------------------------------
(* Properties.                                                              *)

Settled == 1..offered \subseteq stored \cup givenUp

\* A loop that stops with nothing left to retry has lost nothing on the way: what
\* was offered before the shutdown is stored, or was dropped, trimmed or rejected,
\* whether it was in the channel, in a batch that failed before, or in the push
\* that the shutdown found under way.
DrainedAll == loop = "stopped" /\ batch = << >> => Settled

\* "VM restart punched a hole in every chart" no more: when VictoriaMetrics is up
\* again for good and the server stays up, every sample is stored in the end that
\* was not given up with a warning, though the breaker has refused pushes since.
Delivered == <>[](health = "up") /\ []~stopping => <>[]Settled

\* Callers that keep calling, which the loop does not once it has nothing to push,
\* use a VictoriaMetrics that stays up again, and stop waiting for one that stays down.
CallersFollow == ~pumping => Recovers /\ Trips
=============================================================================
