------------------------------- MODULE Agent -------------------------------
(***************************************************************************)
(* chrono-agent: collectors, the loop of Agent.Run, the batcher goroutine, *)
(* the shipper goroutine with its retries, and a server that may fail or   *)
(* lose its answer (internal/agent, internal/batcher, internal/shipper,    *)
(* cmd/chrono-agent).                                                      *)
(*                                                                         *)
(* Samples are numbered in the order they enter the agent; FlushMark is    *)
(* the sample with metric "__flush__" that Batcher.Flush enqueues.         *)
(***************************************************************************)
EXTENDS Naturals, Sequences, FiniteSets, SequencesExt

CONSTANTS
    QueueSize,     \* capacity of both sample channels (Agent.QueueSize)
    BatchSize,     \* Batcher.batchSize
    BatchChCap,    \* capacity of Batcher.batchCh (64 in New)
    RetryMax,      \* Shipper.retryMax
    MaxSamples     \* bound: samples the collectors produce

Samples == 1 .. MaxSamples
FlushMark == 0

ASSUME AgentConstants ==
    /\ QueueSize \in Nat \ {0} /\ BatchSize \in Nat \ {0}
    /\ BatchChCap \in Nat \ {0} /\ RetryMax \in Nat /\ MaxSamples \in Nat

VARIABLES
    cancelled,     \* ctx is done
    main,          \* Agent.Run: "loop", "flush", "wait", "returned"
    sampleCh,      \* the agent's channel from the collectors
    queue,         \* Batcher.sampleCh
    batcher,       \* Batcher.loop: "new", "loop", "send", "lastSend", "done"
    buf,           \* the samples collected for the next batch
    pending,       \* the batch that flush() tries to send
    batchCh,       \* Batcher.batchCh
    shipper,       \* runShipper: "idle", "post", "backoff", "done"
    current,       \* the batch in Shipper.Send
    attempt,       \* its attempt, from 0
    emitted,       \* samples produced so far
    dropped,       \* history: samples Submit refused
    lost,          \* history: samples of batches that were given up
    acked,         \* history: samples of batches the server acknowledged
    stored,        \* how often the server stored each sample
    unsure         \* history: samples stored by a post that returned an error

vars == <<cancelled, main, sampleCh, queue, batcher, buf, pending, batchCh, shipper,
          current, attempt, emitted, dropped, lost, acked, stored, unsure>>
chanVars == <<sampleCh, queue>>
batcherVars == <<batcher, buf, pending>>
shipperVars == <<shipper, current, attempt>>
serverVars == <<stored, unsure, acked>>

AgentInit ==
    /\ cancelled = FALSE /\ main = "loop"
    /\ sampleCh = <<>> /\ queue = <<>> /\ batchCh = <<>>
    /\ batcher = "new" /\ buf = <<>> /\ pending = <<>>
    /\ shipper = "idle" /\ current = <<>> /\ attempt = 0
    /\ emitted = 0 /\ dropped = {} /\ lost = {} /\ acked = {}
    /\ stored = [s \in Samples |-> 0] /\ unsure = {}

(* The process lives until Agent.Run returns to main.                      *)
Alive == main # "returned"

(* A signal cancels the context.                                           *)
Cancel ==
    /\ Alive /\ ~cancelled
    /\ cancelled' = TRUE
    /\ UNCHANGED <<main, chanVars, batcherVars, batchCh, shipperVars, emitted,
                   dropped, lost, serverVars>>

(* A collector's emit; once the context is done it may still win.          *)
Emit ==
    /\ Alive /\ emitted < MaxSamples /\ Len(sampleCh) < QueueSize
    /\ emitted' = emitted + 1
    /\ sampleCh' = Append(sampleCh, emitted + 1)
    /\ UNCHANGED <<cancelled, main, queue, batcherVars, batchCh, shipperVars,
                   dropped, lost, serverVars>>
-----------------------------------------------------------------------------
(* Agent.Run hands a sample to Submit, which never blocks.                 *)
TakeSample ==
    /\ main = "loop" /\ sampleCh # <<>>
    /\ sampleCh' = Tail(sampleCh)
    /\ IF Len(queue) < QueueSize
         THEN queue' = Append(queue, Head(sampleCh)) /\ dropped' = dropped
         ELSE queue' = queue /\ dropped' = dropped \cup {Head(sampleCh)}
    /\ UNCHANGED <<cancelled, main, batcherVars, batchCh, shipperVars, emitted,
                   lost, serverVars>>

(* ctx.Done: Flush, whose send blocks while the queue is full, then Wait.  *)
Stopping ==
    /\ main = "loop" /\ cancelled
    /\ main' = "flush"
    /\ UNCHANGED <<cancelled, chanVars, batcherVars, batchCh, shipperVars, emitted,
                   dropped, lost, serverVars>>

SendMark ==
    /\ main = "flush" /\ Len(queue) < QueueSize
    /\ queue' = Append(queue, FlushMark)
    /\ main' = "wait"
    /\ UNCHANGED <<cancelled, sampleCh, batcherVars, batchCh, shipperVars, emitted,
                   dropped, lost, serverVars>>

(* The WaitGroup is zero before Batcher.Run has called Add, too.           *)
WaitReturns ==
    /\ main = "wait" /\ batcher \in {"new", "done"}
    /\ main' = "returned"
    /\ UNCHANGED <<cancelled, chanVars, batcherVars, batchCh, shipperVars, emitted,
                   dropped, lost, serverVars>>
-----------------------------------------------------------------------------
BatcherStart ==
    /\ Alive /\ batcher = "new"
    /\ batcher' = "loop"
    /\ UNCHANGED <<cancelled, main, chanVars, buf, pending, batchCh, shipperVars,
                   emitted, dropped, lost, serverVars>>

(* Faulty variant: the buffer is not emptied when it is copied.            *)
StartFlushKeeps(b, then) == pending' = b /\ buf' = b /\ batcher' = then

(* flush(): the buffer b becomes the pending batch.                        *)
StartFlush(b, then) == pending' = b /\ buf' = <<>> /\ batcher' = then

BatcherTake ==
    /\ Alive /\ batcher = "loop" /\ queue # <<>>
    /\ queue' = Tail(queue)
    /\ LET b == Append(buf, Head(queue))
       IN  IF Len(b) >= BatchSize
             THEN StartFlush(b, "send")
             ELSE buf' = b /\ UNCHANGED <<batcher, pending>>
    /\ UNCHANGED <<cancelled, main, sampleCh, batchCh, shipperVars, emitted,
                   dropped, lost, serverVars>>

(* Faulty variant: the tick flushes full buffers only.                     *)
BatcherTickFull ==
    /\ Alive /\ batcher = "loop" /\ Len(buf) >= BatchSize
    /\ StartFlush(buf, "send")
    /\ UNCHANGED <<cancelled, main, chanVars, batchCh, shipperVars, emitted,
                   dropped, lost, serverVars>>

(* The flush ticker fires.                                                 *)
BatcherTick ==
    /\ Alive /\ batcher = "loop" /\ buf # <<>>
    /\ StartFlush(buf, "send")
    /\ UNCHANGED <<cancelled, main, chanVars, batchCh, shipperVars, emitted,
                   dropped, lost, serverVars>>

BatcherStops ==
    /\ Alive /\ batcher = "loop" /\ cancelled
    /\ IF buf = <<>>
         THEN batcher' = "done" /\ UNCHANGED <<buf, pending>>
         ELSE StartFlush(buf, "lastSend")
    /\ UNCHANGED <<cancelled, main, chanVars, batchCh, shipperVars, emitted,
                   dropped, lost, serverVars>>

AfterSend == batcher' = IF batcher = "send" THEN "loop" ELSE "done"

(* The select of flush(): the channel takes the batch, or the context is   *)
(* done and the batch is gone.                                             *)
BatcherSends ==
    /\ Alive /\ batcher \in {"send", "lastSend"} /\ Len(batchCh) < BatchChCap
    /\ batchCh' = Append(batchCh, pending)
    /\ pending' = <<>> /\ AfterSend
    /\ UNCHANGED <<cancelled, main, chanVars, buf, shipperVars, emitted, dropped,
                   lost, serverVars>>

(* Faulty variant: a plain send, that does not look at the context.        *)
BatcherAbandonsNever == FALSE /\ UNCHANGED vars

BatcherAbandons ==
    /\ Alive /\ batcher \in {"send", "lastSend"} /\ cancelled
    /\ lost' = lost \cup (ToSet(pending) \cap Samples)
    /\ pending' = <<>> /\ AfterSend
    /\ UNCHANGED <<cancelled, main, chanVars, buf, batchCh, shipperVars, emitted,
                   dropped, serverVars>>
-----------------------------------------------------------------------------
ShipperTake ==
    /\ Alive /\ shipper = "idle" /\ batchCh # <<>>
    /\ batchCh' = Tail(batchCh)
    /\ shipper' = "post" /\ current' = Head(batchCh) /\ attempt' = 0
    /\ UNCHANGED <<cancelled, main, chanVars, batcherVars, emitted, dropped, lost,
                   serverVars>>

ShipperStops ==
    /\ Alive /\ shipper = "idle" /\ cancelled
    /\ shipper' = "done"
    /\ UNCHANGED <<cancelled, main, chanVars, batcherVars, batchCh, current, attempt,
                   emitted, dropped, lost, serverVars>>

(* The server stores the samples in S.                                     *)
Store(S) == stored' = [s \in Samples |-> IF s \in S THEN stored[s] + 1 ELSE stored[s]]

(* Faulty variant: the status code of the answer is not checked.           *)
PostOkAnyStatus ==
    /\ Alive /\ shipper = "post" /\ ~cancelled
    /\ \E S \in SUBSET ToSet(current) : Store(S)
    /\ acked' = acked \cup (ToSet(current) \cap Samples)
    /\ shipper' = "idle" /\ current' = <<>>
    /\ UNCHANGED <<cancelled, main, chanVars, batcherVars, batchCh, attempt, emitted,
                   dropped, lost, unsure>>

(* post returns nil; with a cancelled context no request is sent.          *)
PostOk ==
    /\ Alive /\ shipper = "post" /\ ~cancelled
    /\ Store(ToSet(current))
    /\ acked' = acked \cup (ToSet(current) \cap Samples)
    /\ shipper' = "idle" /\ current' = <<>>
    /\ UNCHANGED <<cancelled, main, chanVars, batcherVars, batchCh, attempt, emitted,
                   dropped, lost, unsure>>

GiveUp ==
    /\ lost' = lost \cup (ToSet(current) \cap Samples)
    /\ shipper' = "idle" /\ current' = <<>>

(* Faulty variant: one attempt too many.                                   *)
AfterErrorMore ==
    IF attempt <= RetryMax
      THEN shipper' = "backoff" /\ UNCHANGED <<current, lost>>
      ELSE GiveUp

AfterError ==
    IF attempt < RetryMax
      THEN shipper' = "backoff" /\ UNCHANGED <<current, lost>>
      ELSE GiveUp

(* post returns an error: nothing was stored, the server failed inside the *)
(* batch, or only its answer was lost.                                     *)
PostFails ==
    /\ Alive /\ shipper = "post"
    /\ \E S \in SUBSET (ToSet(current) \cap Samples) :
          /\ cancelled => S = {}
          /\ Store(S) /\ unsure' = unsure \cup S
    /\ AfterError
    /\ UNCHANGED <<cancelled, main, chanVars, batcherVars, batchCh, attempt, emitted,
                   dropped, acked>>

(* A value that JSON cannot express makes Send return before any attempt.  *)
MarshalFails ==
    /\ Alive /\ shipper = "post" /\ attempt = 0
    /\ GiveUp
    /\ UNCHANGED <<cancelled, main, chanVars, batcherVars, batchCh, attempt, emitted,
                   dropped, serverVars>>

(* The backoff timer fires, or the context ends the wait.                  *)
Retry ==
    /\ Alive /\ shipper = "backoff"
    /\ shipper' = "post" /\ attempt' = attempt + 1
    /\ UNCHANGED <<cancelled, main, chanVars, batcherVars, batchCh, current, emitted,
                   dropped, lost, serverVars>>

BackoffCancelled ==
    /\ Alive /\ shipper = "backoff" /\ cancelled
    /\ GiveUp
    /\ UNCHANGED <<cancelled, main, chanVars, batcherVars, batchCh, attempt, emitted,
                   dropped, serverVars>>

MainStep == TakeSample \/ Stopping \/ SendMark \/ WaitReturns
BatcherStep ==
    \/ BatcherStart \/ BatcherTake \/ BatcherTick \/ BatcherStops
    \/ BatcherSends \/ BatcherAbandons
ShipperStep ==
    \/ ShipperTake \/ ShipperStops \/ PostOk \/ PostFails \/ MarshalFails
    \/ Retry \/ BackoffCancelled

AgentNext == Cancel \/ Emit \/ MainStep \/ BatcherStep \/ ShipperStep

(* Each of the three goroutines runs when it can: tickers keep firing, and *)
(* requests end because the client has a timeout.                          *)
AgentFairness == WF_vars(MainStep) /\ WF_vars(BatcherStep) /\ WF_vars(ShipperStep)

AgentSpec == AgentInit /\ [][AgentNext]_vars /\ AgentFairness
-----------------------------------------------------------------------------
(* Type invariant of the agent.                                            *)
AgentTypeOK ==
    /\ cancelled \in BOOLEAN /\ main \in {"loop", "flush", "wait", "returned"}
    /\ sampleCh \in Seq(Samples) /\ Len(sampleCh) <= QueueSize
    /\ queue \in Seq(Samples \cup {FlushMark}) /\ Len(queue) <= QueueSize
    /\ batcher \in {"new", "loop", "send", "lastSend", "done"}
    /\ buf \in Seq(Samples \cup {FlushMark}) /\ Len(buf) < BatchSize
    /\ pending \in Seq(Samples \cup {FlushMark}) /\ Len(pending) <= BatchSize
    /\ batchCh \in Seq(Seq(Samples \cup {FlushMark})) /\ Len(batchCh) <= BatchChCap
    /\ shipper \in {"idle", "post", "backoff", "done"}
    /\ current \in Seq(Samples \cup {FlushMark}) /\ attempt \in 0 .. RetryMax
    /\ emitted \in 0 .. MaxSamples /\ stored \in [Samples -> Nat]
    /\ dropped \in SUBSET Samples /\ lost \in SUBSET Samples
    /\ acked \in SUBSET Samples /\ unsure \in SUBSET Samples

(* The places of samples in the agent, from the oldest to the newest.      *)
Pipeline == <<current>> \o batchCh \o <<pending, buf, queue, sampleCh>>

Held == (UNION {ToSet(Pipeline[a]) : a \in DOMAIN Pipeline}) \ {FlushMark}

(* Position i of place a is before position k of place b.                  *)
Precedes(a, i, b, k) == a < b \/ (a = b /\ i < k)

(* The agent neither duplicates nor forgets nor reorders a sample: those   *)
(* it still holds are in the order they came, and every other one was      *)
(* acknowledged by the server, refused by Submit or given up, one of them. *)
SamplesAccounted ==
    /\ \A a, b \in DOMAIN Pipeline : \A i \in DOMAIN Pipeline[a], k \in DOMAIN Pipeline[b] :
          Precedes(a, i, b, k) /\ FlushMark \notin {Pipeline[a][i], Pipeline[b][k]}
            => Pipeline[a][i] < Pipeline[b][k]
    /\ \A s \in 1 .. emitted :
          Cardinality({k \in 1 .. 4 : s \in <<Held, acked, dropped, lost>>[k]}) = 1

(* The server stores a sample twice only if an answer was lost, at most    *)
(* once per attempt; what the agent believes delivered was stored.         *)
DuplicatesOnlyByRetry ==
    /\ \A s \in Samples : stored[s] <= RetryMax + 1
    /\ \A s \in Samples : stored[s] > 1 => s \in unsure
    /\ \A s \in acked : stored[s] > 0

(* While nobody stops the agent, every sample is delivered, refused or     *)
(* given up after the retries, however small the channels are.             *)
EverySampleSettles ==
    \A s \in Samples : (s <= emitted) ~> (s \in acked \cup dropped \cup lost \/ cancelled)

(* A stopped agent returns from Run, unless the batcher has ended with its *)
(* queue full: then Flush waits for a receiver that is gone.               *)
StopsUnlessStuck ==
    cancelled ~> (main = "returned" \/ (batcher = "done" /\ Len(queue) = QueueSize))
=============================================================================
