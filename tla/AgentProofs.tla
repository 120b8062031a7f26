---------------------------- MODULE AgentProofs ----------------------------
(***************************************************************************)
(* Proofs about module Agent: no sample is duplicated, forgotten or        *)
(* reordered on its way through the channels, the batcher and the shipper, *)
(* and the server stores one twice only when a retry repeats a post.       *)
(***************************************************************************)
EXTENDS Agent, FiniteSetTheorems, TLAPS

Items == Samples \cup {FlushMark}

(* The samples of a sequence of items, and of a sequence of batches.       *)
Of(q) == ToSet(q) \ {FlushMark}
OfAll(bs) == UNION {Of(bs[i]) : i \in DOMAIN bs}

(* All of S came before all of T.                                          *)
Earlier(S, T) == \A s \in S, t \in T : s < t

InOrder(q) ==
    \A i, k \in DOMAIN q : i < k /\ q[i] # FlushMark /\ q[k] # FlushMark => q[i] < q[k]

BatchesInOrder(bs) ==
    /\ \A i \in DOMAIN bs : InOrder(bs[i])
    /\ \A i, k \in DOMAIN bs : i < k => Earlier(Of(bs[i]), Of(bs[k]))

(* The variables that hold samples, beyond their types.                    *)
ShipperShape ==
    /\ shipper \in {"idle", "done"} => current = <<>>
    /\ shipper = "backoff" => attempt < RetryMax

BatcherShape == batcher \notin {"send", "lastSend"} => pending = <<>>

ShapeInv == AgentTypeOK /\ ShipperShape /\ BatcherShape

(* Six places of samples, each with older samples than the next.           *)
Chain(A, B, C, D, E, F) ==
    /\ Earlier(A, B \cup C \cup D \cup E \cup F)
    /\ Earlier(B, C \cup D \cup E \cup F)
    /\ Earlier(C, D \cup E \cup F)
    /\ Earlier(D, E \cup F)
    /\ Earlier(E, F)

SequencesInOrder ==
    /\ InOrder(current) /\ BatchesInOrder(batchCh) /\ InOrder(pending)
    /\ InOrder(buf) /\ InOrder(queue) /\ InOrder(sampleCh)

OrderInv ==
    /\ SequencesInOrder
    /\ Chain(Of(current), OfAll(batchCh), Of(pending), Of(buf), Of(queue), Of(sampleCh))

Kept ==
    Of(current) \cup OfAll(batchCh) \cup Of(pending) \cup Of(buf) \cup Of(queue) \cup Of(sampleCh)

(* Every sample that entered is in one place or has one fate.              *)
FateInv ==
    /\ Kept \cup acked \cup dropped \cup lost = 1 .. emitted
    /\ Kept \cap (acked \cup dropped \cup lost) = {}
    /\ acked \cap (dropped \cup lost) = {} /\ dropped \cap lost = {}

(* A sample that has not reached the shipper was never posted; one that it *)
(* holds was stored at most once per attempt, and then by a post that      *)
(* returned an error.                                                      *)
StoredInv ==
    /\ \A s \in Samples : stored[s] > 0 =>
          s \in Of(current) \cup acked \cup lost
    /\ \A s \in Of(current) :
          /\ stored[s] <= IF shipper = "backoff" THEN attempt + 1 ELSE attempt
          /\ stored[s] > 0 => s \in unsure
    /\ DuplicatesOnlyByRetry
-----------------------------------------------------------------------------
(* Sequences.  Taking the first item, and adding a last one.               *)
LEMMA TailItems ==
    ASSUME NEW q \in Seq(Items), q # <<>>
    PROVE  /\ Head(q) \in Items /\ Tail(q) \in Seq(Items) /\ Len(Tail(q)) = Len(q) - 1
           /\ Of(q) = Of(Tail(q)) \cup ({Head(q)} \ {FlushMark})
           /\ InOrder(q) =>
                InOrder(Tail(q)) /\ Earlier({Head(q)} \ {FlushMark}, Of(Tail(q)))
<1>1. /\ Len(q) \in Nat \ {0} /\ Head(q) = q[1] /\ Head(q) \in Items
      /\ Tail(q) \in Seq(Items) /\ Len(Tail(q)) = Len(q) - 1
      /\ \A i \in 1 .. Len(q) - 1 : Tail(q)[i] = q[i + 1]
  OBVIOUS
<1>2. DOMAIN q = 1 .. Len(q) /\ DOMAIN Tail(q) = 1 .. Len(q) - 1
  BY <1>1
<1>3. ToSet(q) = ToSet(Tail(q)) \cup {Head(q)}
  <2>1. ASSUME NEW i \in DOMAIN q PROVE q[i] \in ToSet(Tail(q)) \cup {Head(q)}
    <3>1. CASE i = 1
      BY <1>1, <3>1
    <3>2. CASE i # 1
      <4>1. i - 1 \in DOMAIN Tail(q) /\ Tail(q)[i - 1] = q[i]
        BY <1>1, <1>2, <3>2
      <4> QED
        BY <4>1 DEF ToSet
    <3> QED
      BY <3>1, <3>2
  <2>2. ASSUME NEW i \in DOMAIN Tail(q) PROVE Tail(q)[i] \in ToSet(q)
    <3>1. i + 1 \in DOMAIN q /\ Tail(q)[i] = q[i + 1]
      BY <1>1, <1>2
    <3> QED
      BY <3>1 DEF ToSet
  <2>3. Head(q) \in ToSet(q)
    BY <1>1, <1>2 DEF ToSet
  <2> QED
    BY <2>1, <2>2, <2>3 DEF ToSet
<1>4. ASSUME InOrder(q)
      PROVE  InOrder(Tail(q)) /\ Earlier({Head(q)} \ {FlushMark}, Of(Tail(q)))
  <2>1. InOrder(Tail(q))
    BY <1>1, <1>2, <1>4 DEF InOrder
  <2>2. ASSUME NEW i \in DOMAIN Tail(q), Tail(q)[i] # FlushMark, Head(q) # FlushMark
        PROVE  Head(q) < Tail(q)[i]
    BY <1>1, <1>2, <1>4, <2>2 DEF InOrder
  <2> QED
    BY <2>1, <2>2 DEF Earlier, Of, ToSet
<1> QED
  BY <1>1, <1>3, <1>4 DEF Of

LEMMA AppendItems ==
    ASSUME NEW q \in Seq(Items), NEW x \in Items
    PROVE  /\ Append(q, x) \in Seq(Items) /\ Len(Append(q, x)) = Len(q) + 1
           /\ Of(Append(q, x)) = Of(q) \cup ({x} \ {FlushMark})
           /\ InOrder(q) /\ Earlier(Of(q), {x} \ {FlushMark}) => InOrder(Append(q, x))
<1>1. /\ Len(q) \in Nat /\ Append(q, x) \in Seq(Items) /\ Len(Append(q, x)) = Len(q) + 1
      /\ \A i \in 1 .. Len(q) : Append(q, x)[i] = q[i]
      /\ Append(q, x)[Len(q) + 1] = x
  OBVIOUS
<1>2. DOMAIN q = 1 .. Len(q) /\ DOMAIN Append(q, x) = 1 .. Len(q) + 1
  BY <1>1
<1>3. ToSet(Append(q, x)) = ToSet(q) \cup {x}
  BY <1>1, <1>2 DEF ToSet
<1>4. ASSUME InOrder(q), Earlier(Of(q), {x} \ {FlushMark}) PROVE InOrder(Append(q, x))
  <2> SUFFICES ASSUME NEW i \in 1 .. Len(q) + 1, NEW k \in 1 .. Len(q) + 1, i < k,
                      Append(q, x)[i] # FlushMark, Append(q, x)[k] # FlushMark
               PROVE  Append(q, x)[i] < Append(q, x)[k]
    BY <1>2 DEF InOrder
  <2>1. i \in 1 .. Len(q) /\ Append(q, x)[i] = q[i]
    BY <1>1
  <2>2. CASE k = Len(q) + 1
    <3>1. q[i] \in Of(q) /\ Append(q, x)[k] = x
      BY <1>1, <1>2, <2>1, <2>2 DEF Of, ToSet
    <3> QED
      BY <1>4, <2>1, <3>1 DEF Earlier
  <2>3. CASE k # Len(q) + 1
    BY <1>1, <1>2, <1>4, <2>1, <2>3 DEF InOrder
  <2> QED
    BY <2>2, <2>3
<1> QED
  BY <1>1, <1>3, <1>4 DEF Of

(* The same for sequences of batches.                                      *)
LEMMA InOfAll ==
    ASSUME NEW bs, NEW s
    PROVE  s \in OfAll(bs) <=> \E i \in DOMAIN bs : s \in Of(bs[i])
  BY Zenon DEF OfAll

LEMMA TailBatches ==
    ASSUME NEW bs \in Seq(Seq(Items)), bs # <<>>
    PROVE  /\ Head(bs) \in Seq(Items) /\ Tail(bs) \in Seq(Seq(Items))
           /\ Len(Tail(bs)) = Len(bs) - 1
           /\ OfAll(bs) = OfAll(Tail(bs)) \cup Of(Head(bs))
           /\ BatchesInOrder(bs) => /\ InOrder(Head(bs)) /\ BatchesInOrder(Tail(bs))
                                    /\ Earlier(Of(Head(bs)), OfAll(Tail(bs)))
<1>1. /\ Len(bs) \in Nat \ {0} /\ Head(bs) = bs[1] /\ Head(bs) \in Seq(Items)
      /\ Tail(bs) \in Seq(Seq(Items)) /\ Len(Tail(bs)) = Len(bs) - 1
      /\ \A i \in 1 .. Len(bs) - 1 : Tail(bs)[i] = bs[i + 1]
  OBVIOUS
<1>2. DOMAIN bs = 1 .. Len(bs) /\ DOMAIN Tail(bs) = 1 .. Len(bs) - 1
  BY <1>1
<1>3. OfAll(bs) = OfAll(Tail(bs)) \cup Of(Head(bs))
  <2>1. ASSUME NEW i \in DOMAIN bs, NEW s \in Of(bs[i])
        PROVE  s \in OfAll(Tail(bs)) \cup Of(Head(bs))
    <3>1. CASE i = 1
      BY <1>1, <2>1, <3>1
    <3>2. CASE i # 1
      <4>1. i - 1 \in DOMAIN Tail(bs) /\ Tail(bs)[i - 1] = bs[i]
        BY <1>1, <1>2, <3>2
      <4> QED
        BY <2>1, <4>1 DEF OfAll
    <3> QED
      BY <3>1, <3>2
  <2>2. ASSUME NEW i \in DOMAIN Tail(bs), NEW s \in Of(Tail(bs)[i]) PROVE s \in OfAll(bs)
    <3>1. i + 1 \in DOMAIN bs /\ Tail(bs)[i] = bs[i + 1]
      BY <1>1, <1>2
    <3> QED
      BY <2>2, <3>1 DEF OfAll
  <2>3. Of(Head(bs)) \subseteq OfAll(bs)
    BY SMTT(30), <1>1, <1>2 DEF OfAll
  <2>4. OfAll(bs) \subseteq OfAll(Tail(bs)) \cup Of(Head(bs))
    BY <2>1, InOfAll
  <2>5. OfAll(Tail(bs)) \subseteq OfAll(bs)
    BY <2>2, InOfAll
  <2> QED
    BY <2>3, <2>4, <2>5
<1>4. ASSUME BatchesInOrder(bs)
      PROVE  /\ InOrder(Head(bs)) /\ BatchesInOrder(Tail(bs))
             /\ Earlier(Of(Head(bs)), OfAll(Tail(bs)))
  <2>1. InOrder(Head(bs))
    BY <1>1, <1>2, <1>4 DEF BatchesInOrder
  <2>2. \A i \in DOMAIN Tail(bs) : i + 1 \in DOMAIN bs /\ 1 < i + 1 /\ Tail(bs)[i] = bs[i + 1]
    BY <1>1, <1>2
  <2>3. BatchesInOrder(Tail(bs))
    <3>1. ASSUME NEW i \in DOMAIN Tail(bs) PROVE InOrder(Tail(bs)[i])
      BY <1>4, <2>2 DEF BatchesInOrder
    <3>2. ASSUME NEW i \in DOMAIN Tail(bs), NEW k \in DOMAIN Tail(bs), i < k
          PROVE  Earlier(Of(Tail(bs)[i]), Of(Tail(bs)[k]))
      <4>1. i + 1 < k + 1
        BY <1>2, <3>2
      <4> QED
        BY <1>4, <2>2, <4>1 DEF BatchesInOrder
    <3> QED
      BY <3>1, <3>2 DEF BatchesInOrder
  <2>4. ASSUME NEW i \in DOMAIN Tail(bs) PROVE Earlier(Of(Head(bs)), Of(Tail(bs)[i]))
    <3>1. 1 \in DOMAIN bs
      BY <1>1, <1>2
    <3> QED
      BY <1>1, <1>4, <2>2, <3>1 DEF BatchesInOrder
  <2> QED
    BY <2>1, <2>3, <2>4, InOfAll DEF Earlier
<1> QED
  BY <1>1, <1>3, <1>4

LEMMA AppendBatches ==
    ASSUME NEW bs \in Seq(Seq(Items)), NEW q \in Seq(Items)
    PROVE  /\ Append(bs, q) \in Seq(Seq(Items)) /\ Len(Append(bs, q)) = Len(bs) + 1
           /\ OfAll(Append(bs, q)) = OfAll(bs) \cup Of(q)
           /\ BatchesInOrder(bs) /\ InOrder(q) /\ Earlier(OfAll(bs), Of(q))
                => BatchesInOrder(Append(bs, q))
<1> DEFINE b == Append(bs, q)
<1>1. /\ Len(bs) \in Nat /\ b \in Seq(Seq(Items)) /\ Len(b) = Len(bs) + 1
      /\ \A i \in 1 .. Len(bs) : b[i] = bs[i]
      /\ b[Len(bs) + 1] = q
  OBVIOUS
<1>2. DOMAIN bs = 1 .. Len(bs) /\ DOMAIN b = 1 .. Len(bs) + 1
  BY <1>1
<1>3. \A i \in DOMAIN b : (i \in DOMAIN bs /\ b[i] = bs[i]) \/ b[i] = q
  BY <1>1, <1>2
<1> HIDE DEF b
<1>4. OfAll(b) = OfAll(bs) \cup Of(q)
  <2>1. \A i \in DOMAIN b : Of(b[i]) \subseteq OfAll(bs) \cup Of(q)
    BY <1>3, Zenon DEF OfAll
  <2>2. \A i \in DOMAIN bs : i \in DOMAIN b /\ b[i] = bs[i]
    BY <1>1, <1>2
  <2>3. OfAll(bs) \subseteq OfAll(b)
    BY <2>2, InOfAll
  <2>4. Of(q) \subseteq OfAll(b)
    <3>1. Len(bs) + 1 \in DOMAIN b
      BY <1>1, <1>2
    <3> QED
      BY <1>1, <3>1, InOfAll
  <2>5. OfAll(b) \subseteq OfAll(bs) \cup Of(q)
    BY <2>1, InOfAll
  <2> QED
    BY <2>3, <2>4, <2>5
<1>5. ASSUME BatchesInOrder(bs), InOrder(q), Earlier(OfAll(bs), Of(q))
      PROVE  BatchesInOrder(b)
  <2>1. \A i \in DOMAIN b : InOrder(b[i])
    BY <1>5, <1>3 DEF BatchesInOrder
  <2>2. ASSUME NEW i \in DOMAIN b, NEW k \in DOMAIN b, i < k
        PROVE  Earlier(Of(b[i]), Of(b[k]))
    <3>1. i \in DOMAIN bs /\ b[i] = bs[i]
      BY <1>1, <1>2, <2>2
    <3>2. CASE k \in DOMAIN bs
      BY <1>1, <1>2, <1>5, <2>2, <3>1, <3>2 DEF BatchesInOrder
    <3>3. CASE k \notin DOMAIN bs
      <4>1. b[k] = q /\ Of(bs[i]) \subseteq OfAll(bs)
        BY <1>1, <1>2, <3>1, <3>3 DEF OfAll
      <4> QED
        BY <1>5, <3>1, <4>1 DEF Earlier
    <3> QED
      BY <3>2, <3>3
  <2> QED
    BY <2>1, <2>2 DEF BatchesInOrder
<1> QED
  BY <1>1, <1>4, <1>5 DEF b

(* An empty place.                                                         *)
LEMMA EmptyItems ==
    /\ <<>> \in Seq(Items) /\ Of(<<>>) = {} /\ InOrder(<<>>)
    /\ <<>> \in Seq(Seq(Items)) /\ OfAll(<<>>) = {} /\ BatchesInOrder(<<>>)
  BY DEF Of, ToSet, InOrder, OfAll, BatchesInOrder
-----------------------------------------------------------------------------
(* ShapeInv.  The types of the places, and room in each.                   *)
LEMMA PlaceTypes ==
    ASSUME AgentTypeOK
    PROVE  /\ current \in Seq(Items) /\ batchCh \in Seq(Seq(Items)) /\ pending \in Seq(Items)
           /\ buf \in Seq(Items) /\ queue \in Seq(Items)
           /\ sampleCh \in Seq(Items) /\ sampleCh \in Seq(Samples)
           /\ Samples \subseteq Items /\ FlushMark \in Items /\ Items \subseteq Nat
           /\ FlushMark \notin Samples
<1>1. sampleCh \in Seq(Samples) /\ Samples \subseteq Items
  BY DEF AgentTypeOK, Items
<1>2. sampleCh \in Seq(Items)
  BY <1>1
<1>3. Items \subseteq Nat /\ FlushMark \notin Samples
  BY AgentConstants DEF Items, Samples, FlushMark
<1> QED
  BY <1>1, <1>2, <1>3 DEF AgentTypeOK, Items

LEMMA ShapeInit == AgentInit => ShapeInv
<1> SUFFICES ASSUME AgentInit PROVE ShapeInv
  OBVIOUS
<1>1. <<>> \in Seq(Samples) /\ <<>> \in Seq(Items) /\ <<>> \in Seq(Seq(Items)) /\ Len(<<>>) = 0
  OBVIOUS
<1>2. stored \in [Samples -> Nat]
  BY DEF AgentInit
<1>3. 0 \in 0 .. RetryMax /\ 0 \in 0 .. MaxSamples /\ 0 <= QueueSize /\ 0 <= BatchChCap
      /\ 0 < BatchSize /\ 0 <= BatchSize
  BY AgentConstants
<1> QED
  BY <1>1, <1>2, <1>3
  DEF AgentInit, ShapeInv, AgentTypeOK, ShipperShape, BatcherShape, Items

(* The collectors, Agent.Run and the signal.                               *)
LEMMA ShapeMain ==
    ASSUME ShapeInv, Cancel \/ Emit \/ MainStep
    PROVE  ShapeInv'
<1>1. CASE Cancel \/ Stopping \/ WaitReturns
  BY <1>1 DEF Cancel, Stopping, WaitReturns, ShapeInv, AgentTypeOK, ShipperShape, BatcherShape,
              chanVars, batcherVars, shipperVars, serverVars
<1>2. CASE Emit
  <2>1. emitted + 1 \in Samples /\ emitted' = emitted + 1 /\ sampleCh' = Append(sampleCh, emitted + 1)
        /\ Len(sampleCh) < QueueSize
    BY <1>2, AgentConstants DEF Emit, ShapeInv, AgentTypeOK, Samples
  <2>2. sampleCh' \in Seq(Samples) /\ Len(sampleCh') <= QueueSize
    BY <2>1, AgentConstants DEF ShapeInv, AgentTypeOK
  <2>3. emitted' \in 0 .. MaxSamples
    BY <2>1, AgentConstants DEF Samples
  <2> QED
    BY <1>2, <2>2, <2>3 DEF Emit, ShapeInv, AgentTypeOK, ShipperShape, BatcherShape,
              batcherVars, shipperVars, serverVars
<1>3. CASE TakeSample
  <2>1. sampleCh \in Seq(Samples) /\ sampleCh # <<>> /\ queue \in Seq(Items) /\ Samples \subseteq Items
    BY <1>3, PlaceTypes DEF TakeSample, ShapeInv
  <2>2. Head(sampleCh) \in Samples /\ Tail(sampleCh) \in Seq(Samples)
        /\ Len(Tail(sampleCh)) <= QueueSize
    BY <2>1, AgentConstants DEF ShapeInv, AgentTypeOK
  <2>3. queue' \in Seq(Items) /\ Len(queue') <= QueueSize /\ dropped' \in SUBSET Samples
    <3>1. /\ Len(queue) <= QueueSize /\ dropped \in SUBSET Samples
          /\ Append(queue, Head(sampleCh)) \in Seq(Items)
          /\ Len(Append(queue, Head(sampleCh))) = Len(queue) + 1
      BY <2>1, <2>2, AppendItems DEF ShapeInv, AgentTypeOK
    <3>2. CASE Len(queue) < QueueSize
      <4>1. Len(queue) + 1 <= QueueSize
        BY <2>1, <3>2, AgentConstants
      <4> QED
        BY <1>3, <3>1, <3>2, <4>1 DEF TakeSample
    <3>3. CASE ~(Len(queue) < QueueSize)
      BY <1>3, <2>1, <2>2, <3>1, <3>3 DEF TakeSample
    <3> QED
      BY <3>2, <3>3
  <2> QED
    BY <1>3, <2>2, <2>3 DEF TakeSample, ShapeInv, AgentTypeOK, ShipperShape, BatcherShape,
              batcherVars, shipperVars, serverVars, Items
<1>4. CASE SendMark
  <2>1. queue' \in Seq(Items) /\ Len(queue') <= QueueSize
    BY <1>4, AgentConstants, PlaceTypes DEF SendMark, ShapeInv
  <2> QED
    BY <1>4, <2>1 DEF SendMark, ShapeInv, AgentTypeOK, ShipperShape, BatcherShape,
              batcherVars, shipperVars, serverVars, Items
<1> QED
  BY <1>1, <1>2, <1>3, <1>4 DEF MainStep

(* The batcher.                                                            *)
LEMMA ShapeBatcher ==
    ASSUME ShapeInv, BatcherStep
    PROVE  ShapeInv'
<1>0. /\ current \in Seq(Items) /\ batchCh \in Seq(Seq(Items)) /\ pending \in Seq(Items)
      /\ buf \in Seq(Items) /\ queue \in Seq(Items) /\ <<>> \in Seq(Items)
  BY PlaceTypes DEF ShapeInv
<1>1. /\ Len(queue) <= QueueSize /\ Len(buf) < BatchSize /\ Len(pending) <= BatchSize
      /\ Len(batchCh) <= BatchChCap /\ lost \in SUBSET Samples
      /\ batcher \in {"new", "loop", "send", "lastSend", "done"}
  BY DEF ShapeInv, AgentTypeOK
<1>2. /\ UNCHANGED <<cancelled, main, sampleCh, shipperVars, emitted, dropped, serverVars>>
      /\ batcher' \in {"new", "loop", "send", "lastSend", "done"}
  BY <1>1 DEF BatcherStep, BatcherStart, BatcherTake, BatcherTick, BatcherStops, BatcherSends,
              BatcherAbandons, StartFlush, AfterSend, chanVars
<1>3. /\ queue' \in Seq(Items) /\ Len(queue') <= QueueSize
      /\ buf' \in Seq(Items) /\ Len(buf') < BatchSize
      /\ pending' \in Seq(Items) /\ Len(pending') <= BatchSize
      /\ batchCh' \in Seq(Seq(Items)) /\ Len(batchCh') <= BatchChCap
      /\ lost' \in SUBSET Samples /\ BatcherShape'
  <2>1. CASE BatcherStart
    BY <2>1, <1>0, <1>1 DEF BatcherStart, chanVars, ShapeInv, BatcherShape
  <2>2. CASE BatcherTake
    <3>1. Tail(queue) \in Seq(Items) /\ Len(Tail(queue)) <= QueueSize /\ Head(queue) \in Items
      BY <2>2, <1>0, <1>1, TailItems, AgentConstants DEF BatcherTake
    <3>2. Append(buf, Head(queue)) \in Seq(Items) /\ Len(Append(buf, Head(queue))) = Len(buf) + 1
      BY <3>1, <1>0, AppendItems
    <3>3. pending = <<>> /\ batcher = "loop"
      BY <2>2 DEF BatcherTake, ShapeInv, BatcherShape
    <3>4. batchCh' = batchCh /\ lost' = lost /\ queue' = Tail(queue)
      BY <2>2 DEF BatcherTake
    <3> DEFINE b == Append(buf, Head(queue))
    <3>5. \/ Len(b) >= BatchSize /\ pending' = b /\ buf' = <<>> /\ batcher' = "send"
          \/ ~(Len(b) >= BatchSize) /\ buf' = b /\ batcher' = batcher /\ pending' = pending
      BY <2>2 DEF BatcherTake, StartFlush
    <3>6. b \in Seq(Items) /\ Len(b) = Len(buf) + 1 /\ Len(buf) \in Nat /\ Len(<<>>) = 0
      BY <3>2, <1>0
    <3> HIDE DEF b
    <3>7. CASE Len(b) >= BatchSize
      <4>1. Len(b) <= BatchSize /\ 0 < BatchSize
        BY <3>6, <1>1, AgentConstants
      <4>2. buf' = <<>> /\ pending' = b /\ BatcherShape'
        BY <3>5, <3>7 DEF BatcherShape
      <4> QED
        BY <3>1, <3>4, <3>6, <4>1, <4>2, <1>0, <1>1
    <3>8. CASE ~(Len(b) >= BatchSize)
      <4>1. Len(b) < BatchSize
        BY <3>6, <3>8, AgentConstants
      <4>2. buf' = b /\ pending' = pending /\ BatcherShape'
        BY <3>3, <3>5, <3>8 DEF BatcherShape
      <4> QED
        BY <3>1, <3>4, <3>6, <4>1, <4>2, <1>0, <1>1
    <3> QED
      BY <3>7, <3>8
  <2>3. CASE BatcherTick \/ BatcherStops
    BY <2>3, <1>0, <1>1, AgentConstants
    DEF BatcherTick, BatcherStops, StartFlush, chanVars, ShapeInv, BatcherShape
  <2>4. CASE BatcherSends
    BY <2>4, <1>0, <1>1, AgentConstants
    DEF BatcherSends, AfterSend, chanVars, ShapeInv, BatcherShape
  <2>5. CASE BatcherAbandons
    BY <2>5, <1>0, <1>1, AgentConstants
    DEF BatcherAbandons, AfterSend, chanVars, ShapeInv, BatcherShape
  <2> QED
    BY <2>1, <2>2, <2>3, <2>4, <2>5 DEF BatcherStep
<1> QED
  BY <1>2, <1>3 DEF ShapeInv, AgentTypeOK, ShipperShape, shipperVars, serverVars, Items

(* The shipper and the server.                                             *)
LEMMA ShapeShipper ==
    ASSUME ShapeInv, ShipperStep
    PROVE  ShapeInv'
<1>0. /\ current \in Seq(Items) /\ batchCh \in Seq(Seq(Items)) /\ <<>> \in Seq(Items)
      /\ Len(batchCh) <= BatchChCap /\ lost \in SUBSET Samples /\ acked \in SUBSET Samples
      /\ unsure \in SUBSET Samples /\ stored \in [Samples -> Nat] /\ attempt \in 0 .. RetryMax
      /\ shipper \in {"idle", "post", "backoff", "done"}
      /\ shipper \in {"idle", "done"} => current = <<>>
      /\ shipper = "backoff" => attempt < RetryMax
  BY SMTT(30), PlaceTypes DEF ShapeInv, AgentTypeOK, ShipperShape
<1>1. UNCHANGED <<cancelled, main, chanVars, batcherVars, emitted, dropped>>
  BY DEF ShipperStep, ShipperTake, ShipperStops, PostOk, PostFails, MarshalFails, Retry,
         BackoffCancelled
<1>2. /\ current' \in Seq(Items) /\ batchCh' \in Seq(Seq(Items)) /\ Len(batchCh') <= BatchChCap
      /\ lost' \in SUBSET Samples /\ acked' \in SUBSET Samples
      /\ unsure' \in SUBSET Samples /\ stored' \in [Samples -> Nat]
      /\ attempt' \in 0 .. RetryMax /\ shipper' \in {"idle", "post", "backoff", "done"}
      /\ ShipperShape'
  <2>1. CASE ShipperTake
    <3>1. Head(batchCh) \in Seq(Items) /\ Tail(batchCh) \in Seq(Seq(Items))
          /\ Len(Tail(batchCh)) <= BatchChCap
      BY <2>1, <1>0, TailBatches, AgentConstants DEF ShipperTake
    <3> QED
      BY <2>1, <3>1, <1>0, AgentConstants DEF ShipperTake, ShipperShape, serverVars
  <2>2. CASE ShipperStops \/ Retry
    BY <2>2, <1>0, AgentConstants DEF ShipperStops, Retry, ShipperShape, serverVars
  <2>3. CASE PostOk
    BY <2>3, <1>0, AgentConstants DEF PostOk, Store, ShipperShape
  <2>4. CASE PostFails
    <3>1. PICK S \in SUBSET Samples : Store(S) /\ unsure' = unsure \cup S
      BY <2>4 DEF PostFails
    <3>2. unsure' \in SUBSET Samples /\ stored' \in [Samples -> Nat]
      BY <3>1, <1>0 DEF Store
    <3>3. batchCh' = batchCh /\ attempt' = attempt /\ acked' = acked /\ AfterError
          /\ shipper = "post"
      BY <2>4 DEF PostFails
    <3>4. CASE attempt < RetryMax
      BY <3>2, <3>3, <3>4, <1>0 DEF AfterError, ShipperShape
    <3>5. CASE ~(attempt < RetryMax)
      BY <3>2, <3>3, <3>5, <1>0 DEF AfterError, GiveUp, ShipperShape
    <3> QED
      BY <3>4, <3>5
  <2>5. CASE MarshalFails \/ BackoffCancelled
    BY <2>5, <1>0, AgentConstants DEF MarshalFails, BackoffCancelled, GiveUp, ShipperShape, serverVars
  <2> QED
    BY <2>1, <2>2, <2>3, <2>4, <2>5 DEF ShipperStep
<1> QED
  BY <1>1, <1>2 DEF ShapeInv, AgentTypeOK, BatcherShape, chanVars, batcherVars, Items

LEMMA ShapeStep ==
    ASSUME ShapeInv, [AgentNext]_vars
    PROVE  ShapeInv'
<1>1. CASE UNCHANGED vars
  BY <1>1 DEF vars, ShapeInv, AgentTypeOK, ShipperShape, BatcherShape
<1> QED
  BY <1>1, ShapeMain, ShapeBatcher, ShapeShipper DEF AgentNext

(* The agent's channels stay within their capacities, its batches within   *)
(* the batch size and its retries within retryMax.                         *)
THEOREM AgentTypeCorrect == AgentSpec => []AgentTypeOK
<1>1. ShapeInv => AgentTypeOK
  BY DEF ShapeInv
<1> QED
  BY <1>1, ShapeInit, ShapeStep, PTL DEF AgentSpec

-----------------------------------------------------------------------------
(* OrderInv and FateInv.  Samples that move to the next place, or leave,   *)
(* keep the chain.                                                         *)
LEMMA ChainMoves ==
    ASSUME NEW A, NEW B, NEW C, NEW D, NEW E, NEW F, NEW X
    PROVE  /\ Chain(A, B, C, D, E, F) /\ Earlier(A \cup B \cup C \cup D \cup E, X)
                => Chain(A, B, C, D, E, F \cup X)
           /\ Chain(A, B, C, D, E, F \cup X) => Chain(A, B, C, D, E, F)
           /\ Chain(A, B, C, D, E, F \cup X) /\ Earlier(X, F) => Chain(A, B, C, D, E \cup X, F)
           /\ Chain(A, B, C, D, E \cup X, F) /\ Earlier(X, E) => Chain(A, B, C, D \cup X, E, F)
           /\ Chain(A, B, {}, D, E, F) => Chain(A, B, D, {}, E, F)
           /\ Chain(A, B, C, D, E, F) => Chain(A, B \cup C, {}, D, E, F)
           /\ Chain(A, B, C, D, E, F) => Chain(A, B, {}, D, E, F)
           /\ Chain({}, B \cup X, C, D, E, F) /\ Earlier(X, B) => Chain(X, B, C, D, E, F)
           /\ Chain(A, B, C, D, E, F) => Chain({}, B, C, D, E, F)
  BY DEF Chain, Earlier

(* No sample is in two places.                                             *)
LEMMA ChainApart ==
    ASSUME NEW A \in SUBSET Nat, NEW B \in SUBSET Nat, NEW C \in SUBSET Nat,
           NEW D \in SUBSET Nat, NEW E \in SUBSET Nat, NEW F \in SUBSET Nat,
           Chain(A, B, C, D, E, F)
    PROVE  /\ A \cap (B \cup C \cup D \cup E \cup F) = {}
           /\ C \cap (A \cup B \cup D \cup E \cup F) = {}
           /\ F \cap (A \cup B \cup C \cup D \cup E) = {}
<1>1. ASSUME NEW S \in SUBSET Nat, NEW T \in SUBSET Nat, Earlier(S, T) PROVE S \cap T = {}
  BY <1>1 DEF Earlier
<1>2. /\ Earlier(A, B \cup C \cup D \cup E \cup F) /\ Earlier(A, C) /\ Earlier(A, F)
      /\ Earlier(B, C) /\ Earlier(B, F) /\ Earlier(C, D \cup E \cup F) /\ Earlier(C, F)
      /\ Earlier(D, F) /\ Earlier(E, F)
  BY DEF Chain, Earlier
<1>3. /\ A \cap (B \cup C \cup D \cup E \cup F) = {} /\ A \cap C = {} /\ A \cap F = {}
      /\ B \cap C = {} /\ B \cap F = {} /\ C \cap (D \cup E \cup F) = {} /\ C \cap F = {}
      /\ D \cap F = {} /\ E \cap F = {}
  BY <1>1, <1>2
<1> QED
  BY <1>3

(* What a sequence of items holds are samples.                             *)
LEMMA OfSamples ==
    ASSUME NEW q \in Seq(Items)
    PROVE  Of(q) \subseteq Samples /\ Of(q) = ToSet(q) \cap Samples
<1>1. \A i \in DOMAIN q : q[i] \in Items
  OBVIOUS
<1>2. Items = Samples \cup {FlushMark} /\ FlushMark \notin Samples
  BY AgentConstants DEF Items, Samples, FlushMark
<1> QED
  BY <1>1, <1>2 DEF Of, ToSet

LEMMA KeptSamples ==
    ASSUME AgentTypeOK
    PROVE  /\ Of(current) \subseteq Samples /\ OfAll(batchCh) \subseteq Samples
           /\ Of(pending) \subseteq Samples /\ Of(buf) \subseteq Samples
           /\ Of(queue) \subseteq Samples /\ Of(sampleCh) \subseteq Samples
           /\ Samples \subseteq Nat
<1>1. \A i \in DOMAIN batchCh : batchCh[i] \in Seq(Items)
  BY PlaceTypes
<1>2. OfAll(batchCh) \subseteq Samples
  BY <1>1, OfSamples, InOfAll
<1>3. Samples \subseteq Nat
  BY AgentConstants DEF Samples
<1> QED
  BY <1>2, <1>3, PlaceTypes, OfSamples

(* The shipper's batch and the pending one share no sample with the rest.  *)
LEMMA BatchesApart ==
    ASSUME ShapeInv, OrderInv
    PROVE  /\ Of(current) \cap (OfAll(batchCh) \cup Of(pending) \cup Of(buf) \cup Of(queue)
                                \cup Of(sampleCh)) = {}
           /\ Of(pending) \cap (Of(current) \cup OfAll(batchCh) \cup Of(buf) \cup Of(queue)
                                \cup Of(sampleCh)) = {}
<1>1. /\ Of(current) \in SUBSET Nat /\ OfAll(batchCh) \in SUBSET Nat
      /\ Of(pending) \in SUBSET Nat /\ Of(buf) \in SUBSET Nat
      /\ Of(queue) \in SUBSET Nat /\ Of(sampleCh) \in SUBSET Nat
  BY KeptSamples DEF ShapeInv
<1>2. Chain(Of(current), OfAll(batchCh), Of(pending), Of(buf), Of(queue), Of(sampleCh))
  BY DEF OrderInv
<1> QED
  BY <1>1, <1>2, ChainApart

(* Samples that leave the agent get one fate.                              *)
LEMMA Settled ==
    ASSUME FateInv, NEW X, X \subseteq Kept, Kept' = Kept \ X, emitted' = emitted,
           \/ acked' = acked \cup X /\ dropped' = dropped /\ lost' = lost
           \/ acked' = acked /\ dropped' = dropped \cup X /\ lost' = lost
           \/ acked' = acked /\ dropped' = dropped /\ lost' = lost \cup X
    PROVE  FateInv'
  BY DEF FateInv

(* No step outside the three goroutines and the collectors moves a sample. *)
LEMMA NothingMoves ==
    ASSUME UNCHANGED <<sampleCh, queue, buf, pending, batchCh, current>>
    PROVE  Kept' = Kept /\ (OrderInv => OrderInv')
<1>1. Kept' = Kept
  BY DEF Kept
<1>2. OrderInv => OrderInv'
  BY DEF OrderInv, SequencesInOrder
<1> QED
  BY <1>1, <1>2

(* A collector emits the newest sample.                                    *)
LEMMA OrderEmit ==
    ASSUME ShapeInv, OrderInv, FateInv, Emit
    PROVE  OrderInv' /\ FateInv'
<1> DEFINE n == emitted + 1
<1>1. /\ emitted \in Nat /\ n \in Samples /\ n # FlushMark /\ emitted' = n
      /\ sampleCh' = Append(sampleCh, n)
      /\ UNCHANGED <<queue, buf, pending, batchCh, current, acked, dropped, lost>>
  BY AgentConstants
  DEF Emit, ShapeInv, AgentTypeOK, Samples, FlushMark, batcherVars, shipperVars, serverVars
<1> HIDE DEF n
<1>2. sampleCh \in Seq(Items) /\ n \in Items
  BY <1>1, PlaceTypes DEF ShapeInv
<1>3. Kept \subseteq 1 .. emitted
  BY DEF FateInv
<1>4. Earlier(Kept, {n})
  BY <1>1, <1>3 DEF Earlier, n
<1>5. Of(sampleCh') = Of(sampleCh) \cup {n} /\ InOrder(sampleCh')
  <2>1. Earlier(Of(sampleCh), {n} \ {FlushMark})
    BY <1>4 DEF Earlier, Kept
  <2> QED
    BY <1>1, <1>2, <2>1, AppendItems DEF OrderInv, SequencesInOrder
<1>6. OrderInv'
  <2>1. Earlier(Of(current) \cup OfAll(batchCh) \cup Of(pending) \cup Of(buf) \cup Of(queue), {n})
    BY <1>4 DEF Earlier, Kept
  <2>2. Chain(Of(current), OfAll(batchCh), Of(pending), Of(buf), Of(queue), Of(sampleCh) \cup {n})
    BY <2>1, ChainMoves DEF OrderInv
  <2> QED
    BY <1>1, <1>5, <2>2 DEF OrderInv, SequencesInOrder
<1>7. Kept' = Kept \cup {n}
  BY <1>1, <1>5 DEF Kept
<1>8. n \notin 1 .. emitted /\ 1 .. n = (1 .. emitted) \cup {n}
  BY <1>1 DEF n
<1> QED
  BY <1>1, <1>6, <1>7, <1>8 DEF FateInv

(* Submit takes the sample or refuses it.                                  *)
LEMMA OrderSubmit ==
    ASSUME ShapeInv, OrderInv, FateInv, TakeSample
    PROVE  OrderInv' /\ FateInv'
<1> DEFINE h == Head(sampleCh)
           F == Of(Tail(sampleCh))
<1>1. /\ sampleCh # <<>> /\ sampleCh' = Tail(sampleCh)
      /\ UNCHANGED <<buf, pending, batchCh, current, acked, lost, emitted>>
      /\ \/ queue' = Append(queue, h) /\ dropped' = dropped
         \/ queue' = queue /\ dropped' = dropped \cup {h}
  BY DEF TakeSample, batcherVars, shipperVars, serverVars
<1>2. sampleCh \in Seq(Items) /\ queue \in Seq(Items) /\ h \in Items /\ h # FlushMark
  <2>1. sampleCh \in Seq(Samples) /\ FlushMark \notin Samples
    BY PlaceTypes DEF ShapeInv
  <2> QED
    BY <1>1, <2>1, PlaceTypes DEF ShapeInv
<1>3. /\ Of(sampleCh) = F \cup {h} /\ InOrder(Tail(sampleCh)) /\ Earlier({h}, F)
  <2>1. InOrder(sampleCh) /\ {h} \ {FlushMark} = {h}
    BY <1>2 DEF OrderInv, SequencesInOrder
  <2> QED
    BY <1>1, <1>2, <2>1, TailItems
<1>4. Of(sampleCh') = F /\ InOrder(sampleCh')
  BY <1>1, <1>3
<1>5. Chain(Of(current), OfAll(batchCh), Of(pending), Of(buf), Of(queue), F \cup {h})
  BY <1>3 DEF OrderInv
<1>6. CASE queue' = Append(queue, h) /\ dropped' = dropped
  <2>1. Earlier(Of(queue), {h})
    BY <1>5 DEF Chain, Earlier
  <2>2. Of(queue') = Of(queue) \cup {h} /\ InOrder(queue')
    BY <1>2, <1>6, <2>1, AppendItems DEF OrderInv, SequencesInOrder
  <2>3. Chain(Of(current), OfAll(batchCh), Of(pending), Of(buf), Of(queue) \cup {h}, F)
    BY <1>3, <1>5, ChainMoves
  <2>4. OrderInv'
    BY <1>1, <1>4, <2>2, <2>3 DEF OrderInv, SequencesInOrder
  <2>5. Kept' = Kept
    BY <1>1, <1>3, <1>4, <2>2 DEF Kept
  <2> QED
    BY <1>1, <1>6, <2>4, <2>5 DEF FateInv
<1>7. CASE queue' = queue /\ dropped' = dropped \cup {h}
  <2>1. Chain(Of(current), OfAll(batchCh), Of(pending), Of(buf), Of(queue), F)
    BY <1>5, ChainMoves
  <2>2. OrderInv'
    BY <1>1, <1>4, <1>7, <2>1 DEF OrderInv, SequencesInOrder
  <2>3. h \notin F /\ h \in Nat
    BY <1>2, <1>3, PlaceTypes DEF Earlier, ShapeInv
  <2>4. h \notin Of(current) \cup OfAll(batchCh) \cup Of(pending) \cup Of(buf) \cup Of(queue)
    BY <2>3, <1>5 DEF Chain, Earlier
  <2>5. Kept' = Kept \ {h} /\ {h} \subseteq Kept
    BY <1>1, <1>3, <1>4, <1>7, <2>3, <2>4 DEF Kept
  <2> QED
    BY <1>1, <1>7, <2>2, <2>5, Settled
<1> QED
  BY <1>1, <1>6, <1>7

(* The mark of Flush is no sample.                                         *)
LEMMA OrderMark ==
    ASSUME ShapeInv, OrderInv, FateInv, SendMark
    PROVE  OrderInv' /\ FateInv'
<1>1. /\ queue' = Append(queue, FlushMark)
      /\ UNCHANGED <<sampleCh, buf, pending, batchCh, current, acked, dropped, lost, emitted>>
  BY DEF SendMark, batcherVars, shipperVars, serverVars
<1>2. Of(queue') = Of(queue) /\ InOrder(queue')
  <2>1. queue \in Seq(Items) /\ FlushMark \in Items
    BY PlaceTypes DEF ShapeInv
  <2>2. Earlier(Of(queue), {FlushMark} \ {FlushMark})
    BY DEF Earlier
  <2> QED
    BY <1>1, <2>1, <2>2, AppendItems DEF OrderInv, SequencesInOrder
<1>3. OrderInv' /\ Kept' = Kept
  BY <1>1, <1>2 DEF OrderInv, SequencesInOrder, Kept
<1> QED
  BY <1>1, <1>3 DEF FateInv

(* flush(): the items in b become the pending batch.                       *)
LEMMA OrderFlush ==
    ASSUME ShapeInv, NEW b \in Seq(Items), InOrder(b), pending = <<>>,
           StartFlush(b, "send") \/ StartFlush(b, "lastSend"),
           UNCHANGED <<sampleCh, batchCh, current>>, InOrder(queue'), OrderInv,
           Chain(Of(current), OfAll(batchCh), {}, Of(b), Of(queue'), Of(sampleCh))
    PROVE  /\ OrderInv'
           /\ Kept' = Of(current) \cup OfAll(batchCh) \cup Of(b) \cup Of(queue') \cup Of(sampleCh)
<1>1. pending' = b /\ buf' = <<>>
  BY DEF StartFlush
<1>2. Of(pending') = Of(b) /\ Of(buf') = {} /\ InOrder(buf') /\ InOrder(pending')
  BY <1>1, EmptyItems
<1>3. Chain(Of(current), OfAll(batchCh), Of(b), {}, Of(queue'), Of(sampleCh))
  BY ChainMoves
<1> QED
  BY <1>2, <1>3 DEF OrderInv, SequencesInOrder, Kept

(* The batcher takes an item, or flushes on a tick or at the end.          *)
LEMMA OrderCollect ==
    ASSUME ShapeInv, OrderInv, FateInv, BatcherTake \/ BatcherTick \/ BatcherStops
    PROVE  OrderInv' /\ FateInv'
<1>0. /\ pending = <<>> /\ Of(pending) = {}
      /\ UNCHANGED <<sampleCh, batchCh, current, acked, dropped, lost, emitted>>
  BY EmptyItems DEF BatcherTake, BatcherTick, BatcherStops, ShapeInv, BatcherShape, chanVars,
         shipperVars, serverVars
<1>1. buf \in Seq(Items) /\ queue \in Seq(Items)
  BY PlaceTypes DEF ShapeInv
<1>2. InOrder(buf) /\ InOrder(queue)
      /\ Chain(Of(current), OfAll(batchCh), {}, Of(buf), Of(queue), Of(sampleCh))
  BY <1>0 DEF OrderInv, SequencesInOrder
<1>3. SUFFICES OrderInv' /\ Kept' = Kept
  BY <1>0 DEF FateInv
<1>4. CASE BatcherTake
  <2> DEFINE X == {Head(queue)} \ {FlushMark}
             E == Of(Tail(queue))
             b == Append(buf, Head(queue))
  <2>1. queue # <<>> /\ queue' = Tail(queue)
    BY <1>4 DEF BatcherTake
  <2>2. /\ Head(queue) \in Items /\ Of(queue) = E \cup X
        /\ InOrder(queue') /\ Of(queue') = E /\ Earlier(X, E)
    BY <1>1, <1>2, <2>1, TailItems
  <2>3. Chain(Of(current), OfAll(batchCh), {}, Of(buf), E \cup X, Of(sampleCh))
    BY <1>2, <2>2
  <2>4. Chain(Of(current), OfAll(batchCh), {}, Of(buf) \cup X, E, Of(sampleCh))
    BY <2>2, <2>3, ChainMoves
  <2>5. Earlier(Of(buf), X)
    BY <2>3 DEF Chain, Earlier
  <2>6. b \in Seq(Items) /\ Of(b) = Of(buf) \cup X /\ InOrder(b)
    BY <1>1, <1>2, <2>2, <2>5, AppendItems
  <2>7. StartFlush(b, "send") \/ (buf' = b /\ pending' = pending)
    BY <1>4 DEF BatcherTake
  <2> HIDE DEF X, E, b
  <2>8. CASE StartFlush(b, "send")
    <3>1. Chain(Of(current), OfAll(batchCh), {}, Of(b), Of(queue'), Of(sampleCh))
      BY <2>2, <2>4, <2>6
    <3>2. /\ OrderInv'
          /\ Kept' = Of(current) \cup OfAll(batchCh) \cup Of(b) \cup Of(queue') \cup Of(sampleCh)
      BY <1>0, <2>2, <2>6, <2>8, <3>1, OrderFlush
    <3> QED
      BY <1>0, <2>2, <2>6, <3>2 DEF Kept
  <2>9. CASE buf' = b /\ pending' = pending
    <3>1. OrderInv'
      BY <1>0, <2>2, <2>4, <2>6, <2>9 DEF OrderInv, SequencesInOrder
    <3> QED
      BY <1>0, <2>2, <2>6, <2>9, <3>1 DEF Kept
  <2> QED
    BY <2>7, <2>8, <2>9
<1>5. CASE BatcherTick \/ BatcherStops
  <2>1. queue' = queue
    BY <1>5 DEF BatcherTick, BatcherStops, chanVars
  <2>2. CASE buf' = buf /\ pending' = pending
    BY <1>0, <2>1, <2>2, NothingMoves
  <2>3. CASE StartFlush(buf, "send") \/ StartFlush(buf, "lastSend")
    <3>1. /\ OrderInv'
          /\ Kept' = Of(current) \cup OfAll(batchCh) \cup Of(buf) \cup Of(queue') \cup Of(sampleCh)
      BY <1>0, <1>1, <1>2, <2>1, <2>3, OrderFlush
    <3> QED
      BY <1>0, <2>1, <3>1 DEF Kept
  <2> QED
    BY <1>5, <2>2, <2>3 DEF BatcherTick, BatcherStops
<1> QED
  BY <1>4, <1>5

(* The pending batch is sent, or given up when the context is done.        *)
LEMMA OrderSend ==
    ASSUME ShapeInv, OrderInv, FateInv, BatcherSends \/ BatcherAbandons
    PROVE  OrderInv' /\ FateInv'
<1>0. /\ UNCHANGED <<sampleCh, queue, buf, current, acked, dropped, emitted>>
      /\ pending' = <<>> /\ Of(pending') = {} /\ InOrder(pending')
  BY EmptyItems DEF BatcherSends, BatcherAbandons, chanVars, shipperVars, serverVars
<1>1. pending \in Seq(Items) /\ batchCh \in Seq(Seq(Items))
  BY PlaceTypes DEF ShapeInv
<1>2. Chain(Of(current), OfAll(batchCh), Of(pending), Of(buf), Of(queue), Of(sampleCh))
  BY DEF OrderInv
<1>3. CASE BatcherSends
  <2>1. batchCh' = Append(batchCh, pending) /\ lost' = lost
    BY <1>3 DEF BatcherSends
  <2>2. Earlier(OfAll(batchCh), Of(pending))
    BY <1>2 DEF Chain, Earlier
  <2>3. OfAll(batchCh') = OfAll(batchCh) \cup Of(pending) /\ BatchesInOrder(batchCh')
    BY <1>1, <2>1, <2>2, AppendBatches DEF OrderInv, SequencesInOrder
  <2>4. Chain(Of(current), OfAll(batchCh) \cup Of(pending), {}, Of(buf), Of(queue), Of(sampleCh))
    BY <1>2, ChainMoves
  <2>5. OrderInv'
    BY <1>0, <2>3, <2>4 DEF OrderInv, SequencesInOrder
  <2>6. Kept' = Kept
    BY <1>0, <2>3 DEF Kept
  <2> QED
    BY <1>0, <2>1, <2>5, <2>6 DEF FateInv
<1>4. CASE BatcherAbandons
  <2>1. batchCh' = batchCh /\ lost' = lost \cup Of(pending)
    BY <1>1, <1>4, OfSamples DEF BatcherAbandons
  <2>2. Chain(Of(current), OfAll(batchCh), {}, Of(buf), Of(queue), Of(sampleCh))
    BY <1>2, ChainMoves
  <2>3. OrderInv'
    BY <1>0, <2>1, <2>2 DEF OrderInv, SequencesInOrder
  <2>4. Of(pending) \cap (Of(current) \cup OfAll(batchCh) \cup Of(buf) \cup Of(queue)
                          \cup Of(sampleCh)) = {}
    BY BatchesApart
  <2>5. Kept' = Kept \ Of(pending) /\ Of(pending) \subseteq Kept
    BY <1>0, <2>1, <2>4 DEF Kept
  <2> QED
    BY <1>0, <2>1, <2>3, <2>5, Settled
<1> QED
  BY <1>3, <1>4

(* The shipper takes a batch.                                              *)
LEMMA OrderShip ==
    ASSUME ShapeInv, OrderInv, FateInv, ShipperTake
    PROVE  OrderInv' /\ FateInv'
<1> DEFINE X == Of(Head(batchCh))
           B == OfAll(Tail(batchCh))
<1>1. /\ UNCHANGED <<sampleCh, queue, buf, pending, acked, dropped, lost, emitted>>
      /\ batchCh # <<>> /\ batchCh' = Tail(batchCh) /\ current' = Head(batchCh)
      /\ current = <<>>
  BY DEF ShipperTake, ShapeInv, ShipperShape, chanVars, batcherVars, serverVars
<1>2. batchCh \in Seq(Seq(Items))
  BY PlaceTypes DEF ShapeInv
<1>3. /\ OfAll(batchCh) = B \cup X /\ BatchesInOrder(batchCh') /\ InOrder(current')
      /\ Earlier(X, B)
  BY <1>1, <1>2, TailBatches DEF OrderInv, SequencesInOrder
<1>4. Of(current) = {} /\ Of(current') = X /\ OfAll(batchCh') = B
  BY <1>1, EmptyItems
<1> HIDE DEF X, B
<1>5. Chain({}, B \cup X, Of(pending), Of(buf), Of(queue), Of(sampleCh))
  BY <1>3, <1>4 DEF OrderInv
<1>6. Chain(X, B, Of(pending), Of(buf), Of(queue), Of(sampleCh))
  BY <1>3, <1>5, ChainMoves
<1>7. OrderInv'
  BY <1>1, <1>3, <1>4, <1>6 DEF OrderInv, SequencesInOrder
<1>8. Kept' = Kept
  BY <1>1, <1>3, <1>4 DEF Kept
<1> QED
  BY <1>1, <1>7, <1>8 DEF FateInv

(* The shipper has done with its batch.                                    *)
LEMMA OrderDone ==
    ASSUME ShapeInv, OrderInv, FateInv, current' = <<>>,
           UNCHANGED <<sampleCh, queue, buf, pending, batchCh, dropped, emitted>>,
           \/ acked' = acked \cup Of(current) /\ lost' = lost
           \/ acked' = acked /\ lost' = lost \cup Of(current)
    PROVE  OrderInv' /\ FateInv'
<1>1. Of(current') = {} /\ InOrder(current')
  BY EmptyItems
<1>2. Chain(Of(current), OfAll(batchCh), Of(pending), Of(buf), Of(queue), Of(sampleCh))
  BY DEF OrderInv
<1>3. Chain({}, OfAll(batchCh), Of(pending), Of(buf), Of(queue), Of(sampleCh))
  BY <1>2, ChainMoves
<1>4. OrderInv'
  BY <1>1, <1>3 DEF OrderInv, SequencesInOrder
<1>5. Of(current) \cap (OfAll(batchCh) \cup Of(pending) \cup Of(buf) \cup Of(queue)
                        \cup Of(sampleCh)) = {}
  BY BatchesApart
<1>6. Kept' = Kept \ Of(current) /\ Of(current) \subseteq Kept
  BY <1>1, <1>5 DEF Kept
<1> QED
  BY <1>4, <1>6, Settled

(* Every step keeps the order and gives each sample at most one fate.      *)
LEMMA OrderStep ==
    ASSUME ShapeInv, OrderInv, FateInv, [AgentNext]_vars
    PROVE  OrderInv' /\ FateInv'
<1>1. CASE \/ UNCHANGED vars \/ Cancel \/ Stopping \/ WaitReturns \/ BatcherStart
           \/ ShipperStops \/ Retry
  <2>1. UNCHANGED <<sampleCh, queue, buf, pending, batchCh, current, acked, dropped, lost,
                    emitted>>
    BY <1>1 DEF vars, Cancel, Stopping, WaitReturns, BatcherStart, ShipperStops, Retry,
                chanVars, batcherVars, shipperVars, serverVars
  <2> QED
    BY <2>1, NothingMoves DEF FateInv
<1>2. CASE PostOk \/ PostFails \/ MarshalFails \/ BackoffCancelled
  <2>1. UNCHANGED <<sampleCh, queue, buf, pending, batchCh, dropped, emitted>>
    BY <1>2 DEF PostOk, PostFails, MarshalFails, BackoffCancelled, chanVars, batcherVars
  <2>2. Of(current) = ToSet(current) \cap Samples
    BY PlaceTypes, OfSamples DEF ShapeInv
  <2>3. \/ UNCHANGED <<current, acked, lost>>
        \/ current' = <<>> /\ acked' = acked \cup Of(current) /\ lost' = lost
        \/ current' = <<>> /\ acked' = acked /\ lost' = lost \cup Of(current)
    BY <1>2, <2>2 DEF PostOk, PostFails, MarshalFails, BackoffCancelled, AfterError, GiveUp,
                      serverVars
  <2>4. CASE UNCHANGED <<current, acked, lost>>
    BY <2>1, <2>4, NothingMoves DEF FateInv
  <2>5. CASE ~UNCHANGED <<current, acked, lost>>
    BY <2>1, <2>3, <2>5, OrderDone
  <2> QED
    BY <2>4, <2>5
<1>3. CASE Emit \/ TakeSample \/ SendMark
  BY <1>3, OrderEmit, OrderSubmit, OrderMark
<1>4. CASE BatcherTake \/ BatcherTick \/ BatcherStops
  BY <1>4, OrderCollect
<1>5. CASE BatcherSends \/ BatcherAbandons
  BY <1>5, OrderSend
<1>6. CASE ShipperTake
  BY <1>6, OrderShip
<1> QED
  BY <1>1, <1>2, <1>3, <1>4, <1>5, <1>6 DEF AgentNext, MainStep, BatcherStep, ShipperStep

LEMMA OrderInit == AgentInit => OrderInv /\ FateInv
<1> SUFFICES ASSUME AgentInit PROVE OrderInv /\ FateInv
  OBVIOUS
<1>1. /\ current = <<>> /\ batchCh = <<>> /\ pending = <<>> /\ buf = <<>> /\ queue = <<>>
      /\ sampleCh = <<>> /\ acked = {} /\ dropped = {} /\ lost = {} /\ emitted = 0
  BY DEF AgentInit
<1>2. SequencesInOrder /\ Kept = {}
  BY <1>1, EmptyItems DEF SequencesInOrder, Kept
<1>3. OrderInv
  BY <1>1, <1>2, EmptyItems DEF OrderInv, Chain, Earlier
<1>4. 1 .. emitted = {}
  BY <1>1
<1> QED
  BY <1>1, <1>2, <1>3, <1>4 DEF FateInv

(* The indices of a concatenation.                                         *)
LEMMA ConcatAt ==
    ASSUME NEW S, NEW s \in Seq(S), NEW t \in Seq(S)
    PROVE  /\ Len(s) \in Nat /\ Len(t) \in Nat
           /\ s \o t \in Seq(S) /\ Len(s \o t) = Len(s) + Len(t)
           /\ \A i \in 1 .. Len(s) : (s \o t)[i] = s[i]
           /\ \A i \in 1 .. Len(t) : (s \o t)[Len(s) + i] = t[i]
<1>1. Len(s) \in Nat /\ Len(t) \in Nat /\ s \o t \in Seq(S) /\ Len(s \o t) = Len(s) + Len(t)
  OBVIOUS
<1>2. \A i \in 1 .. Len(s) : (s \o t)[i] = s[i]
  OBVIOUS
<1>3. ASSUME NEW i \in 1 .. Len(t) PROVE (s \o t)[Len(s) + i] = t[i]
  <2>1. /\ Len(s) + i \in 1 .. Len(s) + Len(t) /\ ~(Len(s) + i <= Len(s))
        /\ Len(s) + i - Len(s) = i
    BY <1>1
  <2> QED
    BY <2>1
<1> QED
  BY <1>1, <1>2, <1>3

(* The indices of Pipeline.                                                *)
LEMMA PipelineAt ==
    ASSUME AgentTypeOK
    PROVE  /\ Len(batchCh) \in Nat /\ DOMAIN batchCh = 1 .. Len(batchCh)
           /\ DOMAIN Pipeline = 1 .. Len(batchCh) + 5
           /\ Pipeline[1] = current
           /\ \A i \in 1 .. Len(batchCh) : Pipeline[i + 1] = batchCh[i]
           /\ Pipeline[Len(batchCh) + 2] = pending /\ Pipeline[Len(batchCh) + 3] = buf
           /\ Pipeline[Len(batchCh) + 4] = queue /\ Pipeline[Len(batchCh) + 5] = sampleCh
<1> DEFINE S == Seq(Items)
           P == <<current>>
           R == <<pending, buf, queue, sampleCh>>
           Q == P \o batchCh
           n == Len(batchCh)
<1>1. batchCh \in Seq(S) /\ P \in Seq(S) /\ R \in Seq(S)
  BY PlaceTypes
<1>2. /\ Len(P) = 1 /\ P[1] = current /\ Len(R) = 4 /\ R[1] = pending /\ R[2] = buf
      /\ R[3] = queue /\ R[4] = sampleCh
  OBVIOUS
<1>3. Pipeline = Q \o R
  BY DEF Pipeline
<1>4. DOMAIN batchCh = 1 .. n
  BY <1>1
<1> HIDE DEF S, P, R
<1>5. /\ n \in Nat /\ Q \in Seq(S) /\ Len(Q) = 1 + n
      /\ Q[1] = P[1] /\ \A i \in 1 .. n : Q[1 + i] = batchCh[i]
  <2>1. /\ n \in Nat /\ Q \in Seq(S) /\ Len(Q) = Len(P) + n
        /\ \A i \in 1 .. Len(P) : Q[i] = P[i]
        /\ \A i \in 1 .. n : Q[Len(P) + i] = batchCh[i]
    BY <1>1, ConcatAt
  <2> QED
    BY <1>2, <2>1
<1> HIDE DEF Q, n
<1>6. /\ Q \o R \in Seq(S) /\ Len(Q \o R) = 1 + n + 4
      /\ \A i \in 1 .. 1 + n : (Q \o R)[i] = Q[i]
      /\ \A i \in 1 .. 4 : (Q \o R)[1 + n + i] = R[i]
  <2>1. /\ Q \o R \in Seq(S) /\ Len(Q \o R) = Len(Q) + Len(R)
        /\ \A i \in 1 .. Len(Q) : (Q \o R)[i] = Q[i]
        /\ \A i \in 1 .. Len(R) : (Q \o R)[Len(Q) + i] = R[i]
    <3>1. Q \in Seq(S) /\ R \in Seq(S)
      BY <1>1, <1>5
    <3> QED
      BY ONLY <3>1, ConcatAt
  <2> QED
    BY <1>2, <1>5, <2>1
<1> DEFINE pl == Q \o R
<1> HIDE DEF pl
<1>7. DOMAIN pl = 1 .. n + 5
  <2>1. DOMAIN pl = 1 .. Len(pl) /\ Len(pl) = 1 + n + 4
    BY <1>6 DEF pl
  <2> QED
    BY <1>5, <2>1
<1>8. /\ \A i \in 1 .. 1 + n : pl[i] = Q[i]
      /\ pl[1 + n + 1] = R[1] /\ pl[1 + n + 2] = R[2]
      /\ pl[1 + n + 3] = R[3] /\ pl[1 + n + 4] = R[4]
  <2>1. 1 \in 1 .. 4 /\ 2 \in 1 .. 4 /\ 3 \in 1 .. 4 /\ 4 \in 1 .. 4
    OBVIOUS
  <2> QED
    BY <1>6, <2>1 DEF pl
<1>9. pl[1] = current /\ \A i \in 1 .. n : pl[i + 1] = batchCh[i]
  <2>1. 1 \in 1 .. 1 + n /\ \A i \in 1 .. n : i + 1 \in 1 .. 1 + n /\ i + 1 = 1 + i
    BY <1>5
  <2> QED
    BY <1>2, <1>5, <1>8, <2>1
<1>10. pl[n + 2] = pending /\ pl[n + 3] = buf /\ pl[n + 4] = queue /\ pl[n + 5] = sampleCh
  <2>1. 1 + n + 1 = n + 2 /\ 1 + n + 2 = n + 3 /\ 1 + n + 3 = n + 4 /\ 1 + n + 4 = n + 5
    BY <1>5
  <2> QED
    BY <1>2, <1>8, <2>1
<1> QED
  BY <1>3, <1>4, <1>5, <1>7, <1>9, <1>10 DEF n, pl

(* What the places of Pipeline hold, and in which order.                   *)
LEMMA PipelinePlaces ==
    ASSUME AgentTypeOK
    PROVE  /\ \A a \in DOMAIN Pipeline : Of(Pipeline[a]) \subseteq Kept
           /\ Held = Kept
<1>1. /\ Len(batchCh) \in Nat /\ DOMAIN batchCh = 1 .. Len(batchCh)
      /\ DOMAIN Pipeline = 1 .. Len(batchCh) + 5
      /\ Pipeline[1] = current
      /\ \A i \in 1 .. Len(batchCh) : Pipeline[i + 1] = batchCh[i]
      /\ Pipeline[Len(batchCh) + 2] = pending /\ Pipeline[Len(batchCh) + 3] = buf
      /\ Pipeline[Len(batchCh) + 4] = queue /\ Pipeline[Len(batchCh) + 5] = sampleCh
  BY PipelineAt
<1>2. ASSUME NEW a \in DOMAIN Pipeline PROVE Of(Pipeline[a]) \subseteq Kept
  <2>1. CASE a \in 2 .. Len(batchCh) + 1
    <3>1. a - 1 \in DOMAIN batchCh /\ Pipeline[a] = batchCh[a - 1]
      BY <1>1, <2>1
    <3> QED
      BY <3>1, InOfAll DEF Kept
  <2>2. CASE a \notin 2 .. Len(batchCh) + 1
    <3>1. a \in {1, Len(batchCh) + 2, Len(batchCh) + 3, Len(batchCh) + 4, Len(batchCh) + 5}
      BY <1>1, <2>2
    <3>2. Pipeline[a] \in {current, pending, buf, queue, sampleCh}
      BY <1>1, <3>1
    <3> QED
      BY <3>2 DEF Kept
  <2> QED
    BY <2>1, <2>2
<1>3. ASSUME NEW s \in Kept PROVE \E a \in DOMAIN Pipeline : s \in Of(Pipeline[a])
  <2>1. CASE s \in OfAll(batchCh)
    <3>1. PICK i \in DOMAIN batchCh : s \in Of(batchCh[i])
      BY <2>1, InOfAll
    <3>2. i + 1 \in DOMAIN Pipeline /\ Pipeline[i + 1] = batchCh[i]
      BY <1>1
    <3> QED
      BY <3>1, <3>2
  <2>2. CASE s \notin OfAll(batchCh)
    <3>1. {1, Len(batchCh) + 2, Len(batchCh) + 3, Len(batchCh) + 4, Len(batchCh) + 5}
            \subseteq DOMAIN Pipeline
      BY <1>1
    <3>2. \/ s \in Of(current) \/ s \in Of(pending) \/ s \in Of(buf) \/ s \in Of(queue)
          \/ s \in Of(sampleCh)
      BY <2>2 DEF Kept
    <3> QED
      BY <1>1, <3>1, <3>2
  <2> QED
    BY <2>1, <2>2
<1>4. \A s : s \in Held <=> \E a \in DOMAIN Pipeline : s \in Of(Pipeline[a])
  BY Zenon DEF Held, Of
<1> QED
  BY <1>2, <1>3, <1>4

LEMMA PipelineOrder ==
    ASSUME AgentTypeOK, OrderInv
    PROVE  /\ \A a \in DOMAIN Pipeline : InOrder(Pipeline[a])
           /\ \A a, b \in DOMAIN Pipeline : a < b => Earlier(Of(Pipeline[a]), Of(Pipeline[b]))
<1> DEFINE n == Len(batchCh)
<1>1. /\ n \in Nat /\ DOMAIN batchCh = 1 .. n
      /\ DOMAIN Pipeline = 1 .. n + 5
      /\ Pipeline[1] = current
      /\ \A i \in 1 .. n : Pipeline[i + 1] = batchCh[i]
      /\ Pipeline[n + 2] = pending /\ Pipeline[n + 3] = buf
      /\ Pipeline[n + 4] = queue /\ Pipeline[n + 5] = sampleCh
  BY PipelineAt
<1> HIDE DEF n
<1>2. \A a \in 2 .. n + 1 : a - 1 \in DOMAIN batchCh /\ Pipeline[a] = batchCh[a - 1]
  BY <1>1
<1>3. \A a \in DOMAIN Pipeline :
         a \in 2 .. n + 1 \/ a \in {1, n + 2, n + 3, n + 4, n + 5}
  BY <1>1
<1>4. ASSUME NEW a \in DOMAIN Pipeline PROVE InOrder(Pipeline[a])
  <2>1. CASE a \in 2 .. n + 1
    BY <1>2, <2>1 DEF OrderInv, SequencesInOrder, BatchesInOrder
  <2>2. CASE a \in {1, n + 2, n + 3, n + 4, n + 5}
    BY <1>1, <2>2 DEF OrderInv, SequencesInOrder
  <2> QED
    BY <1>3, <2>1, <2>2
<1>5. \A a \in 2 .. n + 1 : Of(Pipeline[a]) \subseteq OfAll(batchCh)
  BY <1>2, InOfAll
<1> DEFINE A == Of(current)
           B == OfAll(batchCh)
           C == Of(pending)
           D == Of(buf)
           E == Of(queue)
           F == Of(sampleCh)
<1>6. Chain(A, B, C, D, E, F)
  BY DEF OrderInv
<1>7. /\ Of(Pipeline[1]) = A /\ Of(Pipeline[n + 2]) = C /\ Of(Pipeline[n + 3]) = D
      /\ Of(Pipeline[n + 4]) = E /\ Of(Pipeline[n + 5]) = F
      /\ \A a \in 2 .. n + 1 : Of(Pipeline[a]) \subseteq B
  BY <1>1, <1>5
<1> HIDE DEF A, B, C, D, E, F
<1>8. ASSUME NEW a \in DOMAIN Pipeline, NEW b \in DOMAIN Pipeline, a < b
      PROVE  Earlier(Of(Pipeline[a]), Of(Pipeline[b]))
  <2>1. CASE a \in 2 .. n + 1 /\ b \in 2 .. n + 1
    <3>1. a - 1 < b - 1
      BY <1>1, <1>8
    <3> QED
      BY <1>2, <2>1, <3>1 DEF OrderInv, SequencesInOrder, BatchesInOrder
  <2>2. CASE a \in 2 .. n + 1 /\ b \notin 2 .. n + 1
    <3>1. b \in {n + 2, n + 3, n + 4, n + 5}
      BY <1>1, <1>3, <1>8, <2>2
    <3>2. Of(Pipeline[b]) \subseteq C \cup D \cup E \cup F
      BY <1>7, <3>1
    <3> QED
      BY <1>6, <1>7, <2>2, <3>2 DEF Chain, Earlier
  <2>3. CASE a = 1
    <3>1. b \in 2 .. n + 1 \/ b \in {n + 2, n + 3, n + 4, n + 5}
      BY <1>1, <1>3, <1>8, <2>3
    <3>2. Of(Pipeline[b]) \subseteq B \cup C \cup D \cup E \cup F
      BY <1>7, <3>1
    <3> QED
      BY <1>6, <1>7, <2>3, <3>2 DEF Chain, Earlier
  <2>4. CASE a = n + 2
    <3>1. b \in {n + 3, n + 4, n + 5}
      BY <1>1, <1>8, <2>4
    <3>2. Of(Pipeline[b]) \subseteq D \cup E \cup F
      BY <1>7, <3>1
    <3> QED
      BY <1>6, <1>7, <2>4, <3>2 DEF Chain, Earlier
  <2>5. CASE a = n + 3
    <3>1. b \in {n + 4, n + 5}
      BY <1>1, <1>8, <2>5
    <3>2. Of(Pipeline[b]) \subseteq E \cup F
      BY <1>7, <3>1
    <3> QED
      BY <1>6, <1>7, <2>5, <3>2 DEF Chain, Earlier
  <2>6. CASE a = n + 4
    <3>1. b = n + 5
      BY <1>1, <1>8, <2>6
    <3> QED
      BY <1>6, <1>7, <2>6, <3>1 DEF Chain
  <2>7. a # n + 5
    BY <1>1, <1>8
  <2> QED
    BY <1>3, <2>1, <2>2, <2>3, <2>4, <2>5, <2>6, <2>7
<1> QED
  BY <1>4, <1>8

(* The samples in the agent are in the order in which they entered, none   *)
(* of them twice, and every other sample that entered has exactly one      *)
(* fate: the server acknowledged it, Submit refused it, or it was given up *)
(* with its batch.                                                         *)
THEOREM EverySampleOnce == AgentSpec => []SamplesAccounted
<1> DEFINE I == ShapeInv /\ OrderInv /\ FateInv
<1>1. AgentInit => I
  BY ShapeInit, OrderInit
<1>2. I /\ [AgentNext]_vars => I'
  BY ShapeStep, OrderStep
<1>3. I => SamplesAccounted
  <2> SUFFICES ASSUME I PROVE SamplesAccounted
    OBVIOUS
  <2>0. AgentTypeOK
    BY DEF ShapeInv
  <2>1. ASSUME NEW a \in DOMAIN Pipeline, NEW b \in DOMAIN Pipeline,
               NEW i \in DOMAIN Pipeline[a], NEW k \in DOMAIN Pipeline[b],
               Precedes(a, i, b, k), FlushMark \notin {Pipeline[a][i], Pipeline[b][k]}
        PROVE  Pipeline[a][i] < Pipeline[b][k]
    <3>1. CASE a < b
      <4>1. Pipeline[a][i] \in Of(Pipeline[a]) /\ Pipeline[b][k] \in Of(Pipeline[b])
        BY <2>1 DEF Of, ToSet
      <4> QED
        BY <2>0, <3>1, <4>1, PipelineOrder DEF Earlier
    <3>2. CASE a = b /\ i < k
      <4>1. InOrder(Pipeline[a])
        BY <2>0, PipelineOrder
      <4> QED
        BY <2>1, <3>2, <4>1 DEF InOrder
    <3> QED
      BY <2>1, <3>1, <3>2 DEF Precedes
  <2>2. ASSUME NEW s \in 1 .. emitted
        PROVE  Cardinality({k \in 1 .. 4 : s \in <<Held, acked, dropped, lost>>[k]}) = 1
    <3> DEFINE T == {k \in 1 .. 4 : s \in <<Held, acked, dropped, lost>>[k]}
    <3>1. Held = Kept
      BY <2>0, PipelinePlaces
    <3>2. /\ 1 \in T <=> s \in Kept
          /\ 2 \in T <=> s \in acked
          /\ 3 \in T <=> s \in dropped
          /\ 4 \in T <=> s \in lost
          /\ T \subseteq {1, 2, 3, 4}
      BY <3>1
    <3>3. s \in Kept \/ s \in acked \/ s \in dropped \/ s \in lost
      BY <2>2 DEF FateInv
    <3> HIDE DEF T
    <3>4. T \in {{1}, {2}, {3}, {4}}
      <4>1. CASE s \in Kept
        BY <3>2, <4>1 DEF FateInv
      <4>2. CASE s \in acked
        BY <3>2, <4>2 DEF FateInv
      <4>3. CASE s \in dropped
        BY <3>2, <4>3 DEF FateInv
      <4>4. CASE s \in lost
        BY <3>2, <4>4 DEF FateInv
      <4> QED
        BY <3>3, <4>1, <4>2, <4>3, <4>4
    <3>5. Cardinality(T) = 1
      BY <3>4, FS_Singleton
    <3> QED
      BY <3>5 DEF T
  <2> QED
    BY <2>1, <2>2 DEF SamplesAccounted
<1> QED
  BY <1>1, <1>2, <1>3, PTL DEF AgentSpec

-----------------------------------------------------------------------------
(* StoredInv.  A post stores samples of the shipper's batch, each at most  *)
(* once more.                                                              *)
LEMMA StoredPost ==
    ASSUME ShapeInv, StoredInv, shipper = "post",
           NEW S, S \cap Samples \subseteq Of(current), Store(S)
    PROVE  /\ \A s \in Samples \ Of(current) : stored'[s] = stored[s]
           /\ \A s \in S \cap Samples : stored'[s] = stored[s] + 1
           /\ \A s \in Samples \ S : stored'[s] = stored[s]
           /\ \A s \in Of(current) : stored'[s] \in Nat /\ stored'[s] <= attempt + 1
           /\ \A s \in Of(current) : stored'[s] > 1 => s \in unsure
           /\ \A s \in Samples : stored'[s] >= stored[s] /\ stored'[s] <= RetryMax + 1
<1>1. /\ stored \in [Samples -> Nat] /\ attempt \in 0 .. RetryMax /\ RetryMax \in Nat
      /\ Of(current) \subseteq Samples
  BY AgentConstants, KeptSamples DEF ShapeInv, AgentTypeOK
<1>2. \A s \in Samples : stored'[s] = IF s \in S THEN stored[s] + 1 ELSE stored[s]
  BY DEF Store
<1>3. \A s \in Of(current) : stored[s] <= attempt /\ (stored[s] > 0 => s \in unsure)
  BY DEF StoredInv
<1>4. \A s \in Samples : stored[s] <= RetryMax + 1
  BY DEF StoredInv, DuplicatesOnlyByRetry
<1>5. \A s \in Of(current) : /\ stored'[s] \in Nat /\ stored'[s] <= attempt + 1
                             /\ stored'[s] > 1 => s \in unsure
  BY <1>1, <1>2, <1>3
<1>6. \A s \in Samples \ Of(current) : stored'[s] = stored[s]
  BY <1>2
<1>7. \A s \in Samples : stored'[s] >= stored[s]
  BY <1>1, <1>2
<1>8. \A s \in Samples : stored'[s] <= RetryMax + 1
  BY <1>1, <1>4, <1>5, <1>6
<1> QED
  BY <1>2, <1>5, <1>6, <1>7, <1>8

(* The server acknowledges the batch.                                      *)
LEMMA StoredOk ==
    ASSUME ShapeInv, StoredInv, PostOk
    PROVE  StoredInv'
<1>1. /\ shipper = "post" /\ Store(ToSet(current)) /\ current' = <<>>
      /\ acked' = acked \cup Of(current) /\ lost' = lost /\ unsure' = unsure
      /\ ToSet(current) \cap Samples = Of(current) /\ Of(current) \subseteq Samples
  BY PlaceTypes, OfSamples DEF ShapeInv, PostOk
<1>2. /\ \A s \in Samples \ Of(current) : stored'[s] = stored[s]
      /\ \A s \in Of(current) : stored'[s] = stored[s] + 1 /\ stored'[s] \in Nat
      /\ \A s \in Of(current) : stored'[s] > 1 => s \in unsure
      /\ \A s \in Samples : stored'[s] >= stored[s] /\ stored'[s] <= RetryMax + 1
  BY <1>1, StoredPost
<1>3. stored \in [Samples -> Nat] /\ acked \subseteq Samples
  BY DEF ShapeInv, AgentTypeOK
<1>4. Of(current') = {}
  BY <1>1, EmptyItems
<1>5. ASSUME NEW s \in Samples, stored'[s] > 0 PROVE s \in acked' \cup lost'
  BY <1>1, <1>2, <1>5 DEF StoredInv
<1>6. ASSUME NEW s \in Samples, stored'[s] > 1 PROVE s \in unsure'
  BY <1>1, <1>2, <1>6 DEF StoredInv, DuplicatesOnlyByRetry
<1>7. ASSUME NEW s \in acked' PROVE stored'[s] > 0
  <2>1. CASE s \in Of(current)
    BY <1>1, <1>2, <1>3, <2>1
  <2>2. CASE s \in acked \ Of(current)
    BY <1>2, <1>3, <2>2 DEF StoredInv, DuplicatesOnlyByRetry
  <2> QED
    BY <1>1, <2>1, <2>2
<1> QED
  BY <1>2, <1>4, <1>5, <1>6, <1>7 DEF StoredInv, DuplicatesOnlyByRetry

(* The post returns an error.                                              *)
LEMMA StoredError ==
    ASSUME ShapeInv, StoredInv, PostFails
    PROVE  StoredInv'
<1>1. /\ shipper = "post" /\ acked' = acked /\ attempt' = attempt /\ AfterError
      /\ ToSet(current) \cap Samples = Of(current) /\ Of(current) \subseteq Samples
      /\ stored \in [Samples -> Nat] /\ acked \subseteq Samples
  BY PlaceTypes, OfSamples DEF ShapeInv, PostFails, AgentTypeOK
<1>2. PICK S \in SUBSET Of(current) : Store(S) /\ unsure' = unsure \cup S
  BY <1>1 DEF PostFails
<1>3. /\ \A s \in Samples \ Of(current) : stored'[s] = stored[s]
      /\ \A s \in Samples \ S : stored'[s] = stored[s]
      /\ \A s \in Of(current) : stored'[s] <= attempt + 1
      /\ \A s \in Of(current) : stored'[s] > 1 => s \in unsure
      /\ \A s \in Samples : stored'[s] >= stored[s] /\ stored'[s] <= RetryMax + 1
  BY <1>1, <1>2, StoredPost
<1>4. \A s \in Of(current) : stored'[s] > 0 => s \in unsure'
  BY <1>1, <1>2, <1>3 DEF StoredInv
<1>5. \/ current' = current /\ shipper' = "backoff" /\ lost' = lost
      \/ current' = <<>> /\ lost' = lost \cup Of(current)
  BY <1>1 DEF AfterError, GiveUp
<1>6. ASSUME NEW s \in Samples, stored'[s] > 0 PROVE s \in Of(current') \cup acked' \cup lost'
  BY <1>1, <1>3, <1>5, <1>6 DEF StoredInv
<1>7. ASSUME NEW s \in Of(current')
      PROVE  /\ stored'[s] <= IF shipper' = "backoff" THEN attempt' + 1 ELSE attempt'
             /\ stored'[s] > 0 => s \in unsure'
  BY <1>1, <1>3, <1>4, <1>5, <1>7, EmptyItems
<1>8. ASSUME NEW s \in Samples, stored'[s] > 1 PROVE s \in unsure'
  BY <1>2, <1>3, <1>8 DEF StoredInv, DuplicatesOnlyByRetry
<1>9. ASSUME NEW s \in acked' PROVE stored'[s] > 0
  <2>1. s \in Samples /\ stored[s] > 0
    BY <1>1 DEF StoredInv, DuplicatesOnlyByRetry
  <2>2. stored'[s] >= stored[s] /\ (stored'[s] = stored[s] \/ stored'[s] = stored[s] + 1)
    BY <1>1, <1>2, <1>3, <2>1 DEF Store
  <2> QED
    BY <1>1, <2>1, <2>2
<1> QED
  BY <1>3, <1>6, <1>7, <1>8, <1>9 DEF StoredInv, DuplicatesOnlyByRetry

(* The shipper takes a batch that nobody has posted.                       *)
LEMMA StoredTake ==
    ASSUME ShapeInv, FateInv, StoredInv, ShipperTake
    PROVE  StoredInv'
<1>1. /\ UNCHANGED <<stored, unsure, acked, lost>> /\ attempt' = 0 /\ shipper' = "post"
      /\ batchCh # <<>> /\ current' = Head(batchCh) /\ current = <<>>
      /\ stored \in [Samples -> Nat]
  BY DEF ShipperTake, ShapeInv, AgentTypeOK, ShipperShape, serverVars
<1>2. Of(current) = {} /\ Of(current') \subseteq OfAll(batchCh) /\ OfAll(batchCh) \subseteq Samples
  BY <1>1, PlaceTypes, TailBatches, EmptyItems, KeptSamples DEF ShapeInv
<1>3. ASSUME NEW s \in Of(current') PROVE stored[s] = 0
  <2>1. s \in Samples /\ s \in Kept
    BY <1>2 DEF Kept
  <2>2. s \notin acked \cup lost
    BY <2>1 DEF FateInv
  <2> QED
    BY <1>1, <1>2, <2>1, <2>2 DEF StoredInv
<1> QED
  BY <1>1, <1>2, <1>3 DEF StoredInv, DuplicatesOnlyByRetry

(* Every step of the agent.                                                *)
LEMMA StoredStep ==
    ASSUME ShapeInv, FateInv, StoredInv, [AgentNext]_vars
    PROVE  StoredInv'
<1>1. CASE UNCHANGED vars \/ Cancel \/ Emit \/ MainStep \/ BatcherStep
  <2>1. UNCHANGED <<current, shipper, attempt, stored, unsure, acked>> /\ lost \subseteq lost'
    BY <1>1 DEF vars, Cancel, Emit, MainStep, TakeSample, Stopping, SendMark, WaitReturns,
         BatcherStep, BatcherStart, BatcherTake, BatcherTick, BatcherStops, BatcherSends,
         BatcherAbandons, shipperVars, serverVars
  <2> QED
    BY <2>1 DEF StoredInv, DuplicatesOnlyByRetry
<1>2. CASE ShipperStops
  <2>1. UNCHANGED <<current, attempt, stored, unsure, acked, lost>> /\ current = <<>>
    BY <1>2 DEF ShipperStops, serverVars, ShapeInv, ShipperShape
  <2>2. Of(current) = {}
    BY <2>1, EmptyItems
  <2> QED
    BY <2>1, <2>2 DEF StoredInv, DuplicatesOnlyByRetry
<1>3. CASE Retry
  <2>1. /\ UNCHANGED <<current, stored, unsure, acked, lost>>
        /\ shipper = "backoff" /\ shipper' = "post" /\ attempt' = attempt + 1
    BY <1>3 DEF Retry, serverVars
  <2> QED
    BY <2>1 DEF StoredInv, DuplicatesOnlyByRetry
<1>4. CASE MarshalFails \/ BackoffCancelled
  <2>1. /\ UNCHANGED <<stored, unsure, acked>> /\ current' = <<>>
        /\ lost' = lost \cup Of(current) /\ Of(current') = {}
    BY <1>4, EmptyItems, PlaceTypes, OfSamples
    DEF MarshalFails, BackoffCancelled, GiveUp, serverVars, ShapeInv
  <2> QED
    BY <2>1 DEF StoredInv, DuplicatesOnlyByRetry
<1> QED
  BY <1>1, <1>2, <1>3, <1>4, StoredTake, StoredOk, StoredError DEF AgentNext, ShipperStep

(* The server stores no sample more often than Send posts it, and stores   *)
(* one twice only when an earlier post stored it and returned an error; a  *)
(* sample the agent counts as delivered was stored.                        *)
THEOREM OnlyRetriesDuplicate == AgentSpec => []DuplicatesOnlyByRetry
<1> DEFINE I == ShapeInv /\ OrderInv /\ FateInv /\ StoredInv
<1>1. AgentInit => I
  <2> SUFFICES ASSUME AgentInit PROVE StoredInv
    BY ShapeInit, OrderInit
  <2>1. Of(current) = {} /\ acked = {} /\ \A s \in Samples : stored[s] = 0
    BY EmptyItems DEF AgentInit
  <2> QED
    BY <2>1, AgentConstants DEF StoredInv, DuplicatesOnlyByRetry
<1>2. I /\ [AgentNext]_vars => I'
  BY ShapeStep, OrderStep, StoredStep
<1>3. I => DuplicatesOnlyByRetry
  BY DEF StoredInv
<1> QED
  BY <1>1, <1>2, <1>3, PTL DEF AgentSpec
=============================================================================
