---------------------------- MODULE ServerProofs ----------------------------
(***************************************************************************)
(* Proofs about the server process, for any number of handlers, names,     *)
(* commands, flushes and processes, and every capacity of the channels.    *)
(***************************************************************************)
EXTENDS Server, FiniteSetTheorems, TLAPS

Requests == [kind : {"write", "flushDone", "other"}, name : Names]

Queued(c) == \E i \in DOMAIN cmdCh : cmdCh[i] = c

(* Each waiting caller has one command, in the queue or in the engine's    *)
(* hands, and nobody else has one.                                         *)
CallsInv ==
    /\ caller \in [Callers -> {"idle", "registered", "waiting"}]
    /\ request \in [Callers -> Requests]
    /\ cmdCh \in Seq(Callers) /\ Len(cmdCh) <= QueueCap
    /\ \A i, k \in DOMAIN cmdCh : cmdCh[i] = cmdCh[k] => i = k
    /\ current \in Callers \cup {Nobody}
    /\ \A c \in Callers : /\ caller[c] = "waiting" <=> (Queued(c) \/ current = c)
                          /\ ~(Queued(c) /\ current = c)
    /\ engine \in {"select", "forward"}
    /\ (engine = "forward") <=> (current # Nobody)

(* Types of the rest of the state.                                         *)
StateInv ==
    /\ main \in {"serving", "draining", "exited"} /\ life \in 1 .. MaxLives
    /\ index \subseteq Names /\ active \subseteq Names /\ frozen \subseteq Names
    /\ segments \subseteq Names
    /\ flushDoneCh \in Seq(SUBSET Names) /\ Len(flushDoneCh) <= FlushDoneCap
    /\ flushes \in 0 .. MaxFlushes
    /\ jobs \subseteq [number : 0 .. MaxFlushes, names : SUBSET Names]
    /\ silence \in 0 .. MaxSilence /\ tickIn \in 0 .. FlushInterval

(* The tail of a queue is the queue without its first place.               *)
LEMMA TailPlaces ==
    ASSUME NEW S, NEW q \in Seq(S), q # <<>>
    PROVE  /\ Head(q) = q[1] /\ Head(q) \in S /\ Tail(q) \in Seq(S) /\ Len(Tail(q)) = Len(q) - 1
           /\ Len(q) \in Nat \ {0} /\ DOMAIN q = 1 .. Len(q) /\ DOMAIN Tail(q) = 1 .. Len(q) - 1
           /\ \A i \in DOMAIN Tail(q) : Tail(q)[i] = q[i + 1] /\ i + 1 \in DOMAIN q
           /\ \A i \in DOMAIN q : i = 1 \/ (i - 1 \in DOMAIN Tail(q) /\ Tail(q)[i - 1] = q[i])
  OBVIOUS

(* A queue with one more place.                                            *)
LEMMA AppendPlaces ==
    ASSUME NEW S, NEW q \in Seq(S), NEW x \in S
    PROVE  /\ Append(q, x) \in Seq(S) /\ Len(Append(q, x)) = Len(q) + 1
           /\ Len(q) \in Nat /\ DOMAIN q = 1 .. Len(q) /\ DOMAIN Append(q, x) = 1 .. Len(q) + 1
           /\ Append(q, x)[Len(q) + 1] = x
           /\ \A i \in DOMAIN q : Append(q, x)[i] = q[i]
  OBVIOUS

(* The first name, of which NoRequest speaks, is a name.                   *)
LEMMA NoRequestType == NoRequest \in Requests /\ NoRequest.name \in Names
<1>1. (CHOOSE n \in Names : TRUE) \in Names
  BY ServerConstants
<1> QED BY <1>1 DEF NoRequest, Requests

(* Enqueue by a caller that has no command yet.                            *)
LEMMA EnqueueCalls ==
    ASSUME CallsInv, NEW c \in Callers, caller[c] # "waiting", Enqueue(c),
           UNCHANGED <<engine, current>>, request' \in [Callers -> Requests]
    PROVE  CallsInv'
<1> USE DEF CallsInv
<1>1. ~Queued(c) /\ current # c
  OBVIOUS
<1>2. CASE Len(cmdCh) < QueueCap
  <2>1. cmdCh' = Append(cmdCh, c) /\ caller' = [caller EXCEPT ![c] = "waiting"]
    BY <1>2 DEF Enqueue
  <2>2. /\ cmdCh' \in Seq(Callers) /\ Len(cmdCh') = Len(cmdCh) + 1 /\ Len(cmdCh) \in Nat
        /\ DOMAIN cmdCh = 1 .. Len(cmdCh) /\ DOMAIN cmdCh' = 1 .. Len(cmdCh) + 1
        /\ cmdCh'[Len(cmdCh) + 1] = c /\ \A i \in DOMAIN cmdCh : cmdCh'[i] = cmdCh[i]
    BY <2>1, AppendPlaces
  <2>3. \A i \in DOMAIN cmdCh' : i \in DOMAIN cmdCh \/ i = Len(cmdCh) + 1
    BY <2>2
  <2>4. \A i, k \in DOMAIN cmdCh' : cmdCh'[i] = cmdCh'[k] => i = k
    BY <1>1, <2>2, <2>3 DEF Queued
  <2>5. \A d \in Callers : Queued(d)' <=> (Queued(d) \/ d = c)
    BY <2>2, <2>3 DEF Queued
  <2>6. Len(cmdCh') <= QueueCap
    BY <1>2, <2>2, ServerConstants
  <2> QED BY <1>1, <2>1, <2>2, <2>4, <2>5, <2>6
<1>3. CASE ~(Len(cmdCh) < QueueCap)
  <2>1. cmdCh' = cmdCh /\ caller' = [caller EXCEPT ![c] = "idle"]
    BY <1>3 DEF Enqueue
  <2>2. \A d \in Callers : Queued(d)' <=> Queued(d)
    BY <2>1 DEF Queued
  <2> QED BY <1>1, <2>1, <2>2
<1> QED BY <1>2, <1>3

(* The engine takes the first command and answers it, or keeps it.         *)
LEMMA TakeCalls ==
    ASSUME CallsInv, cmdCh # <<>>, cmdCh' = Tail(cmdCh), request' = request, engine = "select",
           \/ Respond(Head(cmdCh)) /\ UNCHANGED <<engine, current>>
           \/ engine' = "forward" /\ current' = Head(cmdCh) /\ caller' = caller
    PROVE  CallsInv'
<1> USE DEF CallsInv
<1> DEFINE c == Head(cmdCh)
<1>1. /\ c = cmdCh[1] /\ c \in Callers /\ cmdCh' \in Seq(Callers)
      /\ Len(cmdCh') = Len(cmdCh) - 1 /\ Len(cmdCh) \in Nat \ {0}
      /\ DOMAIN cmdCh = 1 .. Len(cmdCh) /\ DOMAIN cmdCh' = 1 .. Len(cmdCh) - 1
      /\ \A i \in DOMAIN cmdCh' : cmdCh'[i] = cmdCh[i + 1] /\ i + 1 \in DOMAIN cmdCh
      /\ \A i \in DOMAIN cmdCh : i = 1 \/ (i - 1 \in DOMAIN cmdCh' /\ cmdCh'[i - 1] = cmdCh[i])
    BY TailPlaces
<1> HIDE DEF c
<1>2. 1 \in DOMAIN cmdCh /\ Queued(c) /\ c # Nobody
  BY <1>1, ServerConstants DEF Queued
<1>3. ASSUME NEW i \in DOMAIN cmdCh', NEW k \in DOMAIN cmdCh', cmdCh'[i] = cmdCh'[k] PROVE i = k
  <2>1. i + 1 = k + 1
    BY <1>1, <1>3
  <2> QED BY <1>1, <2>1
<1>4. ASSUME NEW d \in Callers PROVE Queued(d)' <=> (Queued(d) /\ d # c)
  <2>1. ASSUME NEW i \in DOMAIN cmdCh', cmdCh'[i] = c PROVE FALSE
    <3>1. i + 1 \in DOMAIN cmdCh /\ cmdCh[i + 1] = cmdCh[1]
      BY <1>1, <2>1
    <3>2. i + 1 = 1
      BY <1>2, <3>1
    <3> QED BY <1>1, <3>2
  <2>2. ASSUME Queued(d), d # c PROVE Queued(d)'
    <3>1. PICK i \in DOMAIN cmdCh : cmdCh[i] = d
      BY <2>2 DEF Queued
    <3>2. i # 1
      BY <1>1, <2>2, <3>1
    <3>3. i - 1 \in DOMAIN cmdCh' /\ cmdCh'[i - 1] = d
      BY <1>1, <3>1, <3>2
    <3> QED BY <3>3 DEF Queued
  <2>3. ASSUME Queued(d)' PROVE Queued(d)
    BY <1>1, <2>3 DEF Queued
  <2> QED BY <2>1, <2>2, <2>3 DEF Queued
<1>5. current = Nobody /\ Len(cmdCh') <= QueueCap
  BY <1>1, ServerConstants
<1>6. CASE Respond(c) /\ UNCHANGED <<engine, current>>
  <2>1. caller' = [caller EXCEPT ![c] = "idle"]
    BY <1>6 DEF Respond
  <2> QED BY <1>1, <1>2, <1>3, <1>4, <1>5, <1>6, <2>1
<1>7. CASE engine' = "forward" /\ current' = c /\ caller' = caller
  <2>1. \A d \in Callers : /\ caller'[d] = "waiting" <=> (Queued(d)' \/ current' = d)
                           /\ ~(Queued(d)' /\ current' = d)
    BY <1>2, <1>4, <1>5, <1>7, ServerConstants
  <2> HIDE DEF CallsInv
  <2>2. /\ caller' \in [Callers -> {"idle", "registered", "waiting"}]
        /\ request' \in [Callers -> Requests] /\ current' \in Callers \cup {Nobody}
        /\ engine' = "forward" /\ current' # Nobody
    BY <1>1, <1>2, <1>7 DEF CallsInv
  <2> QED BY <1>1, <1>3, <1>5, <2>1, <2>2 DEF CallsInv
<1> QED BY <1>6, <1>7 DEF c

(* Which steps leave the callers and their commands alone.                 *)
Elsewhere == Tick \/ FlushSend \/ ApplyFlushResult \/ Second \/ Signal \/ Restart

(* The end of the process, for whatever reason.                            *)
Ends == DrainDone \/ DrainTimeout \/ Crash

(* Every step keeps one command for each waiting caller.                   *)
LEMMA CallsStep ==
    ASSUME CallsInv, [ServerNext]_vars
    PROVE  CallsInv'
<1>1. ASSUME NEW c \in Callers, NEW n \in Names, Register(c, n) PROVE CallsInv'
  <2>1. /\ caller[c] = "idle" /\ caller' = [caller EXCEPT ![c] = "registered"]
        /\ request' = [request EXCEPT ![c] = [kind |-> "write", name |-> n]]
        /\ UNCHANGED <<cmdCh, engine, current>>
    BY <1>1 DEF Register, Begin, engineVars
  <2>2. [kind |-> "write", name |-> n] \in Requests
    BY DEF Requests
  <2>3. \A d \in Callers : Queued(d)' <=> Queued(d)
    BY <2>1 DEF Queued
  <2> QED BY <2>1, <2>2, <2>3 DEF CallsInv
<1>2. ASSUME NEW c \in Callers, SubmitWrite(c) PROVE CallsInv'
  <2>1. caller[c] # "waiting" /\ Enqueue(c) /\ UNCHANGED <<engine, current, request>>
    BY <1>2 DEF SubmitWrite, engineVars
  <2> QED BY <2>1, EnqueueCalls DEF CallsInv
<1>3. ASSUME NEW c \in Callers, NEW k \in {"flushDone", "other"}, Submit(c, k) PROVE CallsInv'
  <2>1. /\ caller[c] # "waiting" /\ Enqueue(c) /\ UNCHANGED <<engine, current>>
        /\ request' = [request EXCEPT ![c] = [kind |-> k, name |-> NoRequest.name]]
    BY <1>3 DEF Submit, Begin, engineVars
  <2>2. [kind |-> k, name |-> NoRequest.name] \in Requests
    BY NoRequestType DEF Requests
  <2>3. request' \in [Callers -> Requests]
    BY <2>1, <2>2 DEF CallsInv
  <2> QED BY <2>1, <2>3, EnqueueCalls
<1>4. CASE HandleWrite \/ HandleOther \/ DispatchFlushDone
  <2>1. /\ cmdCh # <<>> /\ cmdCh' = Tail(cmdCh) /\ request' = request /\ engine = "select"
        /\ \/ Respond(Head(cmdCh)) /\ UNCHANGED <<engine, current>>
           \/ engine' = "forward" /\ current' = Head(cmdCh) /\ caller' = caller
    BY <1>4 DEF HandleWrite, HandleOther, DispatchFlushDone, TakesCommand, engineVars
  <2> QED BY <2>1, TakeCalls
<1>5. CASE Forward
  <2>1. /\ engine = "forward" /\ engine' = "select" /\ current' = Nobody
        /\ caller' = [caller EXCEPT ![current] = "idle"] /\ UNCHANGED <<request, cmdCh>>
    BY <1>5 DEF Forward, Respond
  <2>2. \A d \in Callers : (Queued(d)' <=> Queued(d)) /\ d # Nobody
    BY <2>1, ServerConstants DEF Queued
  <2>3. current \in Callers
    BY <2>1 DEF CallsInv
  <2> QED BY <2>1, <2>2, <2>3 DEF CallsInv
<1>6. CASE Elsewhere \/ UNCHANGED vars
  <2>1. UNCHANGED <<caller, request, cmdCh, engine, current>>
    BY <1>6 DEF Elsewhere, Tick, FlushSend, ApplyFlushResult, Second, Signal, Restart, callVars,
                engineVars, vars
  <2>2. \A d \in Callers : Queued(d)' <=> Queued(d)
    BY <2>1 DEF Queued
  <2> QED BY <2>1, <2>2 DEF CallsInv
<1>7. CASE Ends
  <2>1. /\ caller' = [c \in Callers |-> "idle"] /\ request' = [c \in Callers |-> NoRequest]
        /\ cmdCh' = <<>> /\ engine' = "select" /\ current' = Nobody
    BY <1>7 DEF Ends, DrainDone, DrainTimeout, Crash, Exit
  <2>2. \A d \in Callers : ~Queued(d)' /\ d # Nobody
    BY <2>1, ServerConstants DEF Queued
  <2>3. 0 <= QueueCap
    BY ServerConstants
  <2> QED BY <2>1, <2>2, <2>3, NoRequestType DEF CallsInv
<1> QED BY <1>1, <1>2, <1>3, <1>4, <1>5, <1>6, <1>7
        DEF ServerNext, CallerStep, EngineStep, Commands, MainStep, Elsewhere, Ends

(* The smaller and the larger of two numbers.                              *)
LEMMA MinMax ==
    ASSUME NEW a \in Nat, NEW b \in Nat
    PROVE  /\ Min({a, b}) = IF a <= b THEN a ELSE b
           /\ Max({a, b}) = IF a <= b THEN b ELSE a
<1>1. \A x \in {a, b} : (\A y \in {a, b} : x =< y) <=> x = IF a <= b THEN a ELSE b
  OBVIOUS
<1>2. \A x \in {a, b} : (\A y \in {a, b} : x >= y) <=> x = IF a <= b THEN b ELSE a
  OBVIOUS
<1>3. Min({a, b}) = IF a <= b THEN a ELSE b
  BY <1>1 DEF Min
<1>4. Max({a, b}) = IF a <= b THEN b ELSE a
  BY <1>2 DEF Max
<1> QED BY <1>3, <1>4

(* Every step keeps the types of the rest of the state.                    *)
LEMMA StateStep ==
    ASSUME CallsInv, StateInv, [ServerNext]_vars
    PROVE  StateInv'
<1> USE DEF StateInv
<1>1. CASE CallerStep
  <2>1. /\ UNCHANGED <<main, life, active, frozen, segments, flushDoneCh, flushes, jobs, timeVars>>
        /\ index' = index \/ \E n \in Names : index' = index \cup {n}
    BY <1>1 DEF CallerStep, Register, SubmitWrite, Submit, engineVars, storeVars
  <2> QED BY <2>1 DEF timeVars
<1>2. CASE HandleWrite \/ HandleOther \/ DispatchFlushDone
  <2>1. /\ UNCHANGED <<main, life, index, frozen, segments, flushDoneCh, flushes, jobs, tickIn>>
        /\ silence' = 0 /\ cmdCh # <<>>
        /\ active' = active \/ active' = active \cup {request[Head(cmdCh)].name}
    BY <1>2 DEF HandleWrite, HandleOther, DispatchFlushDone, TakesCommand, engineVars, storeVars
  <2>2. Head(cmdCh) \in Callers
    BY <2>1, TailPlaces DEF CallsInv
  <2>3. request[Head(cmdCh)].name \in Names
    BY <2>2 DEF CallsInv, Requests
  <2> QED BY <2>1, <2>3, ServerConstants
<1>3. CASE Forward
  <2>1. /\ UNCHANGED <<main, life, index, storeVars, timeVars>>
        /\ flushDoneCh' = Append(flushDoneCh, {}) /\ Len(flushDoneCh) < FlushDoneCap
    BY <1>3 DEF Forward
  <2>2. /\ flushDoneCh' \in Seq(SUBSET Names) /\ Len(flushDoneCh') <= FlushDoneCap
    BY <2>1, AppendPlaces, ServerConstants
  <2> QED BY <2>1, <2>2 DEF storeVars, timeVars
<1>4. CASE Tick
  <2>1. /\ UNCHANGED <<main, life, index, flushDoneCh>> /\ tickIn' = FlushInterval /\ silence' = 0
    BY <1>4 DEF Tick
  <2>2. CASE UNCHANGED storeVars
    BY <2>1, <2>2, ServerConstants DEF storeVars
  <2>3. CASE /\ flushes < MaxFlushes /\ frozen' = active /\ active' = {}
             /\ jobs' = jobs \cup {[number |-> flushes, names |-> active]}
             /\ flushes' = flushes + 1 /\ UNCHANGED segments
    BY <2>1, <2>3, ServerConstants
  <2> QED BY <1>4, <2>2, <2>3 DEF Tick
<1>5. CASE FlushSend
  <2>1. /\ UNCHANGED <<main, life, index, active, frozen, segments, flushes, timeVars>>
        /\ Len(flushDoneCh) < FlushDoneCap
    BY <1>5 DEF FlushSend
  <2>2. PICK j \in jobs : jobs' = jobs \ {j} /\ (\/ flushDoneCh' = Append(flushDoneCh, j.names)
                                                 \/ flushDoneCh' = Append(flushDoneCh, {}))
    BY <1>5 DEF FlushSend
  <2>3. j.names \in SUBSET Names
    BY <2>2
  <2>4. ASSUME NEW x \in SUBSET Names
        PROVE  /\ Append(flushDoneCh, x) \in Seq(SUBSET Names)
               /\ Len(Append(flushDoneCh, x)) <= FlushDoneCap
    BY <2>1, AppendPlaces, ServerConstants
  <2> QED BY <2>1, <2>2, <2>3, <2>4 DEF timeVars
<1>6. CASE ApplyFlushResult
  <2>1. /\ UNCHANGED <<main, life, index, active, flushes, jobs, tickIn>> /\ flushDoneCh # <<>>
        /\ flushDoneCh' = Tail(flushDoneCh) /\ silence' = 0
        /\ segments' = segments \cup Head(flushDoneCh) /\ frozen' = {}
    BY <1>6 DEF ApplyFlushResult
  <2>2. /\ Head(flushDoneCh) \in SUBSET Names /\ flushDoneCh' \in Seq(SUBSET Names)
        /\ Len(flushDoneCh) \in Nat /\ Len(flushDoneCh') = Len(flushDoneCh) - 1
    BY <2>1, TailPlaces
  <2> QED BY <2>1, <2>2, ServerConstants
<1>7. CASE Second
  <2>1. /\ UNCHANGED <<main, life, index, active, frozen, segments, flushDoneCh, flushes, jobs>>
        /\ silence' = Min({silence + 1, MaxSilence}) /\ tickIn' = Max({tickIn, 1}) - 1
    BY <1>7 DEF Second, engineVars, storeVars
  <2>2. silence' \in 0 .. MaxSilence
    BY <2>1, MinMax, ServerConstants
  <2>3. tickIn' \in 0 .. FlushInterval
    <3>1. tickIn \in Nat /\ tickIn <= FlushInterval /\ FlushInterval \in Nat \ {0}
      BY ServerConstants
    <3>2. Max({tickIn, 1}) = IF tickIn <= 1 THEN 1 ELSE tickIn
      BY <3>1, MinMax
    <3> QED BY <2>1, <3>1, <3>2
  <2> QED BY <2>1, <2>2, <2>3
<1>8. CASE Signal \/ Restart \/ UNCHANGED vars
  <2>1. /\ UNCHANGED <<index, active, frozen, segments, flushDoneCh, flushes, jobs, timeVars>>
        /\ main' \in {main, "serving", "draining"}
        /\ life' = life \/ (life < MaxLives /\ life' = life + 1)
    BY <1>8 DEF Signal, Restart, vars, engineVars, storeVars
  <2> QED BY <2>1, ServerConstants DEF timeVars
<1>9. CASE Ends
  <2>1. /\ main' = "exited" /\ index' = {} /\ active' = {} /\ frozen' = {} /\ jobs' = {}
        /\ flushes' = 0 /\ flushDoneCh' = <<>> /\ silence' = 0 /\ tickIn' = FlushInterval
        /\ UNCHANGED <<life, segments>>
    BY <1>9 DEF Ends, DrainDone, DrainTimeout, Crash, Exit
  <2> QED BY <2>1, ServerConstants
<1> QED BY <1>1, <1>2, <1>3, <1>4, <1>5, <1>6, <1>7, <1>8, <1>9
        DEF ServerNext, EngineStep, Commands, MainStep, Ends

(* The queue and the types hold in every reachable state.                  *)
LEMMA ServerInvariants == ServerSpec => [](CallsInv /\ StateInv)
<1>1. ASSUME ServerInit PROVE CallsInv /\ StateInv
  <2>1. CallsInv
    <3>1. \A d \in Callers : ~Queued(d) /\ d # Nobody
      BY <1>1, ServerConstants DEF ServerInit, Queued
    <3> QED BY <1>1, <3>1, NoRequestType, ServerConstants DEF ServerInit, CallsInv
  <2>2. StateInv
    BY <1>1, ServerConstants DEF ServerInit, StateInv
  <2> QED BY <2>1, <2>2
<1> QED BY <1>1, CallsStep, StateStep, PTL DEF ServerSpec

(* How many places of the queue one caller has.                            *)
LEMMA OnePlaceInQueue ==
    ASSUME CallsInv, NEW c \in Callers
    PROVE  Cardinality({i \in DOMAIN cmdCh : cmdCh[i] = c}) = IF Queued(c) THEN 1 ELSE 0
<1> DEFINE P == {i \in DOMAIN cmdCh : cmdCh[i] = c}
<1>1. CASE Queued(c)
  <2>1. PICK i \in DOMAIN cmdCh : cmdCh[i] = c
    BY <1>1 DEF Queued
  <2>2. P = {i}
    BY <2>1 DEF CallsInv
  <2>3. Cardinality({i}) = 1
    BY FS_Singleton
  <2> QED BY <1>1, <2>2, <2>3
<1>2. CASE ~Queued(c)
  <2>1. P = {}
    BY <1>2 DEF Queued
  <2> QED BY <1>2, <2>1, FS_EmptySet
<1> QED BY <1>1, <1>2

(* Each handler that waits for an answer has exactly one command in the    *)
(* queue or in the engine's hands, and the channels never hold more than   *)
(* they can, for any number of handlers and any capacities.                *)
THEOREM ServerTypeCorrect == ServerSpec => []ServerTypeOK
<1>1. ASSUME CallsInv, StateInv PROVE ServerTypeOK
  <2>1. ASSUME NEW c \in Callers
        PROVE  (caller[c] = "waiting") <=> (Cardinality({i \in DOMAIN cmdCh : cmdCh[i] = c})
                                              + (IF current = c THEN 1 ELSE 0) = 1)
    <3>1. Cardinality({i \in DOMAIN cmdCh : cmdCh[i] = c}) = IF Queued(c) THEN 1 ELSE 0
      BY <1>1, OnePlaceInQueue
    <3>2. /\ caller[c] = "waiting" <=> (Queued(c) \/ current = c)
          /\ ~(Queued(c) /\ current = c)
      BY <1>1 DEF CallsInv
    <3> QED BY <3>1, <3>2
  <2> QED BY <1>1, <2>1 DEF CallsInv, StateInv, ServerTypeOK
<1> QED BY <1>1, ServerInvariants, PTL
-----------------------------------------------------------------------------
(* QueryFindsAcked is not inductive by itself: a write is acknowledged     *)
(* long after its name was entered into the index, by a handler that may   *)
(* have waited through any number of other steps.                          *)

(* The names of writes on their way, and of acknowledged ones, resolve.    *)
NamesResolve ==
    /\ acked \subseteq index
    /\ \A c \in Callers : caller[c] # "idle" /\ request[c].kind = "write"
                            => request[c].name \in index

(* Acknowledged names are in a memtable, a segment or a flush, or dropped. *)
NamesStored == acked \subseteq active \cup segments \cup Pending \cup dropped

(* Every step keeps the names of writes in the index.                      *)
LEMMA ResolveStep ==
    ASSUME CallsInv, NamesResolve, [ServerNext]_vars
    PROVE  NamesResolve'
<1> USE DEF NamesResolve
<1>0. caller \in [Callers -> {"idle", "registered", "waiting"}] /\ request \in [Callers -> Requests]
  BY DEF CallsInv
<1>1. ASSUME NEW c \in Callers, NEW n \in Names, Register(c, n) PROVE NamesResolve'
  <2>1. /\ caller' = [caller EXCEPT ![c] = "registered"] /\ index' = index \cup {n}
        /\ request' = [request EXCEPT ![c] = [kind |-> "write", name |-> n]] /\ acked' = acked
    BY <1>1 DEF Register, Begin
  <2> QED BY <1>0, <2>1
<1>2. ASSUME NEW c \in Callers, SubmitWrite(c) PROVE NamesResolve'
  <2>1. /\ caller[c] = "registered" /\ UNCHANGED <<request, index, acked>>
        /\ \A d \in Callers \ {c} : caller'[d] = caller[d]
    BY <1>0, <1>2 DEF SubmitWrite, Enqueue
  <2> QED BY <2>1
<1>3. ASSUME NEW c \in Callers, NEW k \in {"flushDone", "other"}, Submit(c, k) PROVE NamesResolve'
  <2>1. /\ UNCHANGED <<index, acked>> /\ \A d \in Callers \ {c} : caller'[d] = caller[d]
        /\ request' = [request EXCEPT ![c] = [kind |-> k, name |-> NoRequest.name]]
    BY <1>0, <1>3 DEF Submit, Begin, Enqueue
  <2>2. request'[c].kind # "write" /\ \A d \in Callers \ {c} : request'[d] = request[d]
    BY <1>0, <2>1
  <2> QED BY <2>1, <2>2
<1>4. CASE HandleWrite \/ HandleOther \/ DispatchFlushDone
  <2>1. /\ UNCHANGED <<request, index>> /\ cmdCh # <<>>
        /\ \/ caller' = [caller EXCEPT ![Head(cmdCh)] = "idle"]
           \/ caller' = caller
        /\ \/ acked' = acked
           \/ /\ acked' = acked \cup {request[Head(cmdCh)].name}
              /\ request[Head(cmdCh)].kind = "write"
    BY <1>4 DEF HandleWrite, HandleOther, DispatchFlushDone, TakesCommand, Respond
  <2>2. Head(cmdCh) \in Callers /\ Head(cmdCh) = cmdCh[1] /\ 1 \in DOMAIN cmdCh
    BY <2>1, TailPlaces DEF CallsInv
  <2>3. caller[Head(cmdCh)] = "waiting"
    BY <2>2 DEF CallsInv, Queued
  <2>4. request[Head(cmdCh)].kind = "write" => request[Head(cmdCh)].name \in index
    BY <2>2, <2>3
  <2> QED BY <1>0, <2>1, <2>2, <2>4
<1>5. CASE Forward
  <2>1. caller' = [caller EXCEPT ![current] = "idle"] /\ UNCHANGED <<request, index, acked>>
    BY <1>5 DEF Forward, Respond
  <2> QED BY <1>0, <2>1
<1>6. CASE Elsewhere \/ UNCHANGED vars
  <2>1. UNCHANGED <<caller, request, index, acked>>
    BY <1>6 DEF Elsewhere, Tick, FlushSend, ApplyFlushResult, Second, Signal, Restart, callVars, vars
  <2> QED BY <2>1
<1>7. CASE Ends
  <2>1. acked' = {} /\ caller' = [c \in Callers |-> "idle"]
    BY <1>7 DEF Ends, DrainDone, DrainTimeout, Crash, Exit
  <2> QED BY <2>1
<1> QED BY <1>1, <1>2, <1>3, <1>4, <1>5, <1>6, <1>7
        DEF ServerNext, CallerStep, EngineStep, Commands, MainStep, Elsewhere, Ends

(* Pending is what the jobs and the channel hold.                          *)
LEMMA PendingIs ==
    \A n : n \in Pending <=> \/ \E j \in jobs : n \in j.names
                             \/ \E i \in DOMAIN flushDoneCh : n \in flushDoneCh[i]
  BY DEF Pending

(* Every step keeps acknowledged names where a query, or a flush that will *)
(* be applied, has them.                                                   *)
LEMMA StoredStep ==
    ASSUME StateInv, NamesStored, [ServerNext]_vars
    PROVE  NamesStored'
<1>0. flushDoneCh \in Seq(SUBSET Names)
  BY DEF StateInv
<1>p. \A n : n \in Pending' <=> \/ \E j \in jobs' : n \in j.names
                                \/ \E i \in DOMAIN flushDoneCh' : n \in flushDoneCh'[i]
  BY DEF Pending
<1>1. CASE UNCHANGED <<flushDoneCh, storeVars, acked>>
  BY <1>1 DEF NamesStored, Pending, storeVars
<1>2. CASE HandleWrite
  <2>1. /\ UNCHANGED <<flushDoneCh, segments, jobs, dropped>>
        /\ \/ \E n : active' = active \cup {n} /\ acked' = acked \cup {n}
           \/ UNCHANGED <<active, acked>>
    BY <1>2 DEF HandleWrite
  <2>2. Pending' = Pending
    BY <2>1 DEF Pending
  <2> QED BY <2>1, <2>2 DEF NamesStored
<1>3. CASE Forward
  <2>1. flushDoneCh' = Append(flushDoneCh, {}) /\ UNCHANGED <<storeVars, acked>>
    BY <1>3 DEF Forward
  <2>2. /\ DOMAIN flushDoneCh' = 1 .. Len(flushDoneCh) + 1 /\ Len(flushDoneCh) \in Nat
        /\ DOMAIN flushDoneCh = 1 .. Len(flushDoneCh)
        /\ \A i \in DOMAIN flushDoneCh : flushDoneCh'[i] = flushDoneCh[i]
    BY <1>0, <2>1, AppendPlaces
  <2>3. Pending \subseteq Pending'
    BY <1>p, <2>1, <2>2, PendingIs DEF storeVars
  <2> QED BY <2>1, <2>3 DEF NamesStored, storeVars
<1>4. CASE Tick
  <2>1. CASE UNCHANGED storeVars
    BY <1>1, <1>4, <2>1 DEF Tick
  <2>2. CASE /\ active' = {} /\ jobs' = jobs \cup {[number |-> flushes, names |-> active]}
             /\ UNCHANGED <<segments, dropped>>
    <3>1. UNCHANGED <<flushDoneCh, acked>>
      BY <1>4 DEF Tick
    <3>2. [number |-> flushes, names |-> active].names = active
      OBVIOUS
    <3>3. active \subseteq Pending' /\ Pending \subseteq Pending'
      BY <1>p, <2>2, <3>1, <3>2, PendingIs
    <3> QED BY <2>2, <3>1, <3>3 DEF NamesStored
  <2> QED BY <1>4, <2>1, <2>2 DEF Tick
<1>5. CASE FlushSend
  <2>1. PICK j \in jobs :
            /\ jobs' = jobs \ {j}
            /\ \/ flushDoneCh' = Append(flushDoneCh, j.names) /\ UNCHANGED dropped
               \/ flushDoneCh' = Append(flushDoneCh, {}) /\ dropped' = dropped \cup j.names
    BY <1>5 DEF FlushSend
  <2>2. UNCHANGED <<active, segments, acked>> /\ j.names \in SUBSET Names
    BY <1>5, <2>1 DEF FlushSend, StateInv
  <2>3. ASSUME NEW x \in SUBSET Names, flushDoneCh' = Append(flushDoneCh, x)
        PROVE  /\ \A i \in DOMAIN flushDoneCh : i \in DOMAIN flushDoneCh' /\ flushDoneCh'[i] = flushDoneCh[i]
               /\ Len(flushDoneCh) + 1 \in DOMAIN flushDoneCh' /\ flushDoneCh'[Len(flushDoneCh) + 1] = x
    BY <1>0, <2>3, AppendPlaces
  <2>4. CASE flushDoneCh' = Append(flushDoneCh, j.names) /\ UNCHANGED dropped
    <3>1. Pending \subseteq Pending'
      BY <1>p, <2>1, <2>2, <2>3, <2>4, PendingIs
    <3> QED BY <2>2, <2>4, <3>1 DEF NamesStored
  <2>5. CASE flushDoneCh' = Append(flushDoneCh, {}) /\ dropped' = dropped \cup j.names
    <3>1. Pending \subseteq Pending' \cup j.names
      BY <1>p, <2>1, <2>3, <2>5, PendingIs
    <3> QED BY <2>2, <2>5, <3>1 DEF NamesStored
  <2> QED BY <2>1, <2>4, <2>5
<1>6. CASE ApplyFlushResult
  <2>1. /\ UNCHANGED <<active, jobs, dropped, acked>> /\ flushDoneCh # <<>>
        /\ flushDoneCh' = Tail(flushDoneCh) /\ segments' = segments \cup Head(flushDoneCh)
    BY <1>6 DEF ApplyFlushResult
  <2>2. /\ Head(flushDoneCh) = flushDoneCh[1]
        /\ \A i \in DOMAIN flushDoneCh :
              i = 1 \/ (i - 1 \in DOMAIN flushDoneCh' /\ flushDoneCh'[i - 1] = flushDoneCh[i])
    BY <1>0, <2>1, TailPlaces
  <2>3. Pending \subseteq Pending' \cup segments'
    BY <1>p, <2>1, <2>2, PendingIs
  <2> QED BY <2>1, <2>3 DEF NamesStored
<1>7. CASE Ends
  BY <1>7 DEF Ends, DrainDone, DrainTimeout, Crash, Exit, NamesStored
<1>8. CASE CallerStep \/ HandleOther \/ DispatchFlushDone \/ Second \/ Signal \/ Restart \/ UNCHANGED vars
  <2>1. UNCHANGED <<flushDoneCh, storeVars, acked>>
    BY <1>8 DEF CallerStep, Register, SubmitWrite, Submit, HandleOther, DispatchFlushDone, Second,
                Signal, Restart, vars, engineVars
  <2> QED BY <1>1, <2>1
<1> QED BY <1>2, <1>3, <1>4, <1>5, <1>6, <1>7, <1>8
        DEF ServerNext, EngineStep, Commands, MainStep, Ends

(* A query finds every name of which this process acknowledged a write,    *)
(* unless its flush is still to be applied or has failed, for any number   *)
(* of handlers that register, submit and wait in any order.                *)
THEOREM AckedNamesAreFound == ServerSpec => []QueryFindsAcked
<1>1. ASSUME ServerInit PROVE NamesResolve /\ NamesStored
  BY <1>1 DEF ServerInit, NamesResolve, NamesStored
<1>2. NamesResolve /\ NamesStored => QueryFindsAcked
  BY DEF NamesResolve, NamesStored, QueryFindsAcked, Found
<1> QED BY <1>1, <1>2, ResolveStep, StoredStep, ServerInvariants, PTL DEF ServerSpec

(* An engine that waits for its own channel stays stuck: no step of any    *)
(* other goroutine makes room, so only the end of the process helps.       *)
StuckStays == [][Stuck /\ Up' => Stuck']_vars

(* The exception of EveryRequestAnswered is final: once dispatch waits for *)
(* the full channel of its own engine, it waits until the process ends.    *)
(* Only a program that embeds the engine can submit the FlushDoneCmd that  *)
(* leads there; no handler of api/http does.                               *)
THEOREM StuckUntilExit == ServerSpec => StuckStays
<1>1. ASSUME StateInv, [ServerNext]_vars, Stuck, Up' PROVE Stuck'
  <2>1. engine = "forward" /\ Len(flushDoneCh) = FlushDoneCap /\ FlushDoneCap \in Nat
    BY <1>1, ServerConstants DEF Stuck
  <2>2. UNCHANGED <<engine, flushDoneCh>>
    <3>1. ~Ends
      BY <1>1 DEF Ends, DrainDone, DrainTimeout, Crash, Exit, Up
    <3>2. ~Forward /\ ~FlushSend
      BY <2>1 DEF Forward, FlushSend
    <3>3. ~HandleWrite /\ ~HandleOther /\ ~DispatchFlushDone /\ ~Tick /\ ~ApplyFlushResult
      BY <2>1 DEF HandleWrite, HandleOther, DispatchFlushDone, TakesCommand, Tick, ApplyFlushResult
    <3>4. CASE CallerStep \/ Second \/ Signal \/ Restart \/ UNCHANGED vars
      BY <3>4 DEF CallerStep, Register, SubmitWrite, Submit, Second, Signal, Restart, vars, engineVars
    <3> QED BY <1>1, <3>1, <3>2, <3>3, <3>4
            DEF ServerNext, EngineStep, Commands, MainStep, Ends
  <2> QED BY <2>1, <2>2 DEF Stuck
<1> QED BY <1>1, ServerInvariants, PTL DEF ServerSpec, StuckStays
=============================================================================
