------------------------------ MODULE Embedding ------------------------------
(* Recall by meaning on a running server: src/worker-embedder.ts and its      *)
(* worker src/embed-worker.ts, the start of src/mcp/semantic.ts, and the      *)
(* calls of src/mcp/governance-server.ts that use the embedder.               *)
(*                                                                          *)
(* The model runs in a worker thread.  Requests and answers are messages;    *)
(* the worker can fail or be stopped with requests unanswered.  The start    *)
(* probes the model, switches recall over to it and then embeds the facts    *)
(* that have no vector, while recalls come in and a failing one switches     *)
(* semantic recall off for good.                                             *)
EXTENDS Naturals, Sequences

CONSTANTS EmbCallers,    \* recalls
          EmbBatches     \* batches of facts without a vector at the start

VARIABLES embWorker,   \* the worker thread: "none", "running" or "gone"
          embDead,     \* the embedder answers no more
          embPending,  \* the requests waiting for an answer
          embRequests, \* the requests the worker has not answered
          embEvents,   \* what the worker's thread has sent, in order
          embRef,      \* the worker keeps the process running
          embCalls,    \* what each recall, and the start, is doing
          embStatus,   \* "loading", "ready" or "off"
          embIndexed   \* how many batches the start has embedded

embVars == <<embWorker, embDead, embPending, embRequests, embEvents, embRef, embCalls, embStatus, embIndexed>>

TheStart == "start"
Asking == EmbCallers \cup {TheStart}
Exit == [of |-> "exit"]

\* Who may use the embedder: recall once the probe was answered, and the start.
Current == embStatus = "ready"

----------------------------------------------------------------------------
(* The embedder *)

\* embed(): a dead embedder refuses; else the worker, started if need be, is
\* sent the request and keeps the process open until it has answered.
Refused(c, then) ==
  /\ embDead
  /\ embCalls' = [embCalls EXCEPT ![c] = then]
  /\ UNCHANGED <<embWorker, embPending, embRequests, embRef>>

Posted(c) ==
  /\ ~embDead
  /\ embWorker' = IF embWorker = "none" THEN "running" ELSE embWorker
  /\ embPending' = embPending \cup {c}
  /\ embRequests' = IF embWorker = "gone" THEN embRequests ELSE embRequests \cup {c}
  /\ embRef' = TRUE
  /\ embCalls' = [embCalls EXCEPT ![c] = "waiting"]

\* The worker answers in any order: each request awaits the model.
WorkerAnswers(c) ==
  /\ embWorker = "running"
  /\ c \in embRequests
  /\ embRequests' = embRequests \ {c}
  /\ \E ok \in BOOLEAN : embEvents' = Append(embEvents, [of |-> "answer", to |-> c, ok |-> ok])
  /\ UNCHANGED <<embWorker, embDead, embPending, embRef, embCalls, embStatus, embIndexed>>

\* The worker fails or exits: the last of what it sent may not arrive.
WorkerEnds ==
  /\ embWorker = "running"
  /\ embWorker' = "gone"
  /\ embRequests' = {}
  /\ \E n \in 0 .. Len(embEvents) : embEvents' = Append(SubSeq(embEvents, 1, n), Exit)

WorkerFails ==
  /\ WorkerEnds
  /\ UNCHANGED <<embDead, embPending, embRef, embCalls, embStatus, embIndexed>>

\* close(): refuses what comes, and stops the worker.
Close ==
  /\ ~embDead
  /\ embDead' = TRUE
  /\ \/ WorkerEnds
     \/ embWorker # "running" /\ UNCHANGED <<embWorker, embRequests, embEvents>>
  /\ UNCHANGED <<embPending, embRef, embCalls, embStatus, embIndexed>>

\* An answer settles its request if that is still waiting; the last lets go.
DeliverAnswer ==
  /\ embEvents # <<>>
  /\ embEvents[1].of = "answer"
  /\ embEvents' = Tail(embEvents)
  /\ LET answer == embEvents[1] IN
     IF answer.to \in embPending
       THEN /\ embPending' = embPending \ {answer.to}
            /\ embCalls' = [embCalls EXCEPT ![answer.to] = IF answer.ok THEN "answered" ELSE "failed"]
            /\ embRef' = (embRef /\ embPending' # {})
       ELSE UNCHANGED <<embPending, embCalls, embRef>>
  /\ UNCHANGED <<embWorker, embDead, embRequests, embStatus, embIndexed>>

\* A variant that leaves the requests of a dead worker pending.
DeliverExitQuietly ==
  /\ embEvents # <<>>
  /\ embEvents[1] = Exit
  /\ embEvents' = Tail(embEvents)
  /\ embDead' = TRUE
  /\ embRef' = FALSE
  /\ UNCHANGED <<embWorker, embPending, embRequests, embCalls, embStatus, embIndexed>>

\* fail(): everything that still waits is rejected.
DeliverExit ==
  /\ embEvents # <<>>
  /\ embEvents[1] = Exit
  /\ embEvents' = Tail(embEvents)
  /\ embDead' = TRUE
  /\ embPending' = {}
  /\ embCalls' = [c \in Asking |-> IF c \in embPending THEN "failed" ELSE embCalls[c]]
  /\ embRef' = FALSE
  /\ UNCHANGED <<embWorker, embRequests, embStatus, embIndexed>>

----------------------------------------------------------------------------
(* startSemanticRecall() *)

EmbInit ==
  /\ embWorker = "none"
  /\ embDead = FALSE
  /\ embPending = {}
  /\ embRequests = {}
  /\ embEvents = <<>>
  /\ embRef = FALSE
  /\ embCalls = [c \in Asking |-> "ready"]
  /\ embStatus = "loading"
  /\ embIndexed = 0

\* Switched off by configuration, nothing is loaded.
DisabledBySetting ==
  /\ embCalls[TheStart] = "ready" /\ embStatus = "loading"
  /\ embStatus' = "off"
  /\ embCalls' = [embCalls EXCEPT ![TheStart] = "done"]
  /\ UNCHANGED <<embWorker, embDead, embPending, embRequests, embEvents, embRef, embIndexed>>

\* The probe, then one batch after the other.
StartAsks ==
  /\ embCalls[TheStart] = "ready"
  /\ Posted(TheStart) \/ Refused(TheStart, "failed")
  /\ UNCHANGED <<embDead, embEvents, embStatus, embIndexed>>

\* The probe failed: off.  A batch failed: indexing stops, recall goes on.
StartFails ==
  /\ embCalls[TheStart] = "failed"
  /\ embCalls' = [embCalls EXCEPT ![TheStart] = "done"]
  /\ embStatus' = IF embStatus = "loading" THEN "off" ELSE embStatus
  /\ UNCHANGED <<embWorker, embDead, embPending, embRequests, embEvents, embRef, embIndexed>>

Probing == embIndexed = 0

\* The probe was answered: on, unless disable() came meanwhile.
ProbeAnswered ==
  /\ embCalls[TheStart] = "answered" /\ Probing
  /\ IF embStatus = "off"
       THEN embCalls' = [embCalls EXCEPT ![TheStart] = "done"] /\ UNCHANGED <<embStatus, embIndexed>>
       ELSE /\ embStatus' = "ready"
            /\ embIndexed' = 1
            /\ embCalls' = [embCalls EXCEPT ![TheStart] = IF EmbBatches = 0 THEN "done" ELSE "ready"]
  /\ UNCHANGED <<embWorker, embDead, embPending, embRequests, embEvents, embRef>>

\* A variant that notes what is indexed without looking whether it is off by now.
BatchSwitchesOn ==
  /\ embCalls[TheStart] = "answered" /\ ~Probing
  /\ embIndexed' = embIndexed + 1
  /\ embStatus' = "ready"
  /\ embCalls' = [embCalls EXCEPT ![TheStart] = IF embIndexed' > EmbBatches THEN "done" ELSE "ready"]
  /\ UNCHANGED <<embWorker, embDead, embPending, embRequests, embEvents, embRef>>

\* A batch is written; off or not, the pass goes on to its end.
BatchEmbedded ==
  /\ embCalls[TheStart] = "answered" /\ ~Probing
  /\ embIndexed' = embIndexed + 1
  /\ embCalls' = [embCalls EXCEPT ![TheStart] = IF embIndexed' > EmbBatches THEN "done" ELSE "ready"]
  /\ UNCHANGED <<embWorker, embDead, embPending, embRequests, embEvents, embRef, embStatus>>

----------------------------------------------------------------------------
(* recall() on the server: by meaning if it is on, else by keyword *)

RecallAsks(c) ==
  /\ embCalls[c] = "ready"
  /\ IF Current
       THEN Posted(c) \/ Refused(c, "failed")
       ELSE embCalls' = [embCalls EXCEPT ![c] = "done"] /\ UNCHANGED <<embWorker, embPending, embRequests, embRef>>
  /\ UNCHANGED <<embDead, embEvents, embStatus, embIndexed>>

\* The call is answered, by keyword when the embedder failed: that is told,
\* and semantic recall is off.
RecallEnds(c) ==
  /\ embCalls[c] \in {"answered", "failed"}
  /\ embStatus' = IF embCalls[c] = "failed" THEN "off" ELSE embStatus
  /\ embCalls' = [embCalls EXCEPT ![c] = "done"]
  /\ UNCHANGED <<embWorker, embDead, embPending, embRequests, embEvents, embRef, embIndexed>>

RecallAgain(c) ==
  /\ embCalls[c] = "done"
  /\ embCalls' = [embCalls EXCEPT ![c] = "ready"]
  /\ UNCHANGED <<embWorker, embDead, embPending, embRequests, embEvents, embRef, embStatus, embIndexed>>

EmbNext ==
  \/ \E c \in Asking : WorkerAnswers(c)
  \/ WorkerFails
  \/ Close
  \/ DeliverAnswer
  \/ DeliverExit
  \/ DisabledBySetting
  \/ StartAsks
  \/ StartFails
  \/ ProbeAnswered
  \/ BatchEmbedded
  \/ \E c \in EmbCallers : RecallAsks(c) \/ RecallEnds(c) \/ RecallAgain(c)

\* The event loop runs what is ready, and a worker that is not ended answers.
EmbFairness ==
  /\ WF_embVars(DeliverAnswer \/ DeliverExit)
  /\ \A c \in Asking : WF_embVars(WorkerAnswers(c))
  /\ WF_embVars(StartAsks)
  /\ WF_embVars(StartFails \/ ProbeAnswered \/ BatchEmbedded)
  /\ \A c \in EmbCallers : WF_embVars(RecallAsks(c)) /\ WF_embVars(RecallEnds(c))

EmbSpec == EmbInit /\ [][EmbNext]_embVars /\ EmbFairness

----------------------------------------------------------------------------
(* Properties *)

\* The type of the model's state.
EmbTypeOK ==
  /\ embWorker \in {"none", "running", "gone"}
  /\ embPending \subseteq Asking /\ embRequests \subseteq Asking
  /\ embCalls \in [Asking -> {"ready", "waiting", "answered", "failed", "done"}]
  /\ embStatus \in {"loading", "ready", "off"}
  /\ embIndexed \in 0 .. EmbBatches + 1

\* The worker keeps the process running exactly while a request waits on it, so
\* an idle one never does and no request is cut off (worker-embedder.ts:62-75).
HeldOpenWhileAsked == embWorker # "none" => (embRef <=> embPending # {})

\* A recall's request is never left waiting once the worker is gone, answered
\* out of order, closed or refused: every one is settled, and the start settles
\* too (semantic.ts:36-37).
EmbedsSettle ==
  /\ \A c \in EmbCallers : embCalls[c] = "ready" ~> embCalls[c] = "done"
  /\ <>(embCalls[TheStart] = "done")

\* Once semantic recall is off it stays off: neither a probe answered late nor
\* a batch of the background pass switches it on again.
OffStaysOff == [][embStatus = "off" => embStatus' = "off"]_embVars
============================================================================
