------------------------------- MODULE Server -------------------------------
(***************************************************************************)
(* cmd/chronodb as a process: HTTP handlers that submit commands and wait  *)
(* for the answers, the select loop of Engine.Run with its channels, the   *)
(* health probe, the stop on a signal and the next process                 *)
(* (cmd/chronodb/main.go, api/http, internal/engine).                      *)
(*                                                                         *)
(* Storage is reduced to the names that have points in the active          *)
(* memtable, in the frozen one and in listed segments; modules Engine and  *)
(* Maintenance have what happens to the points and the files.              *)
(***************************************************************************)
EXTENDS Naturals, Sequences, FiniteSets, FiniteSetsExt

CONSTANTS
    Callers,        \* HTTP handlers, or other goroutines that call Submit
    Names,          \* series names
    QueueCap,       \* capacity of cmdCh (10000)
    FlushDoneCap,   \* capacity of flushDoneCh (10)
    LivenessLimit,  \* seconds of silence that make Liveness false (5)
    FlushInterval,  \* seconds between two ticks of flushTicker (10)
    MaxRequests,    \* bound: commands submitted
    MaxFlushes,     \* bound: flush goroutines of one process
    MaxLives,       \* bound: processes
    MaxSilence      \* bound: seconds of silence that are counted

Nobody == "nobody"

ASSUME ServerConstants ==
    /\ QueueCap \in Nat \ {0} /\ FlushDoneCap \in Nat \ {0}
    /\ LivenessLimit \in Nat \ {0} /\ FlushInterval \in Nat \ {0}
    /\ MaxRequests \in Nat /\ MaxFlushes \in Nat /\ MaxLives \in Nat \ {0}
    /\ MaxSilence \in Nat
    /\ Names # {} /\ Nobody \notin Callers

VARIABLES
    main,        \* "serving", "draining" (Shutdown waits), "exited"
    life,        \* number of this process
    caller,      \* each caller: "idle", "registered", "waiting"
    request,     \* kind and name of its command
    cmdCh,       \* callers whose commands are queued
    engine,      \* "select", or "forward": dispatch sends on flushDoneCh
    current,     \* the caller whose command is being forwarded
    index,       \* names the index resolves
    active, frozen, segments,
    jobs,        \* flush goroutines: number and names of the memtable
    flushes,     \* flush goroutines started by this process
    flushDoneCh, \* results: the names of the segment, none on an error
    silence,     \* seconds since lastActivity, up to MaxSilence
    tickIn,      \* seconds until flushTicker fires
    submitted,   \* commands so far
    acked,       \* history: names whose writes this process acknowledged
    dropped      \* history: names in memtables of failed flushes

storeVars == <<active, frozen, segments, jobs, flushes, dropped>>
engineVars == <<engine, current, flushDoneCh, storeVars>>
timeVars == <<silence, tickIn>>
callVars == <<caller, request, cmdCh, submitted>>
vars == <<main, life, callVars, engineVars, index, timeVars, acked>>

NoRequest == [kind |-> "other", name |-> CHOOSE n \in Names : TRUE]

(* A process starts: main makes a new registry and a new index, and calls  *)
(* New but not Recover.                                                    *)
ServerInit ==
    /\ main = "serving" /\ life = 1
    /\ caller = [c \in Callers |-> "idle"] /\ request = [c \in Callers |-> NoRequest]
    /\ cmdCh = <<>> /\ engine = "select" /\ current = Nobody /\ index = {}
    /\ active = {} /\ frozen = {} /\ segments = {} /\ jobs = {} /\ flushes = 0
    /\ flushDoneCh = <<>> /\ silence = 0 /\ tickIn = FlushInterval
    /\ submitted = 0 /\ acked = {} /\ dropped = {}

Up == main # "exited"
-----------------------------------------------------------------------------
Begin(c, k, n) ==
    /\ main = "serving" /\ caller[c] = "idle" /\ submitted < MaxRequests
    /\ request' = [request EXCEPT ![c] = [kind |-> k, name |-> n]]
    /\ submitted' = submitted + 1

(* Faulty variant: handleWrite leaves the name to the engine.              *)
RegisterNothing(c, n) ==
    /\ Begin(c, "write", n)
    /\ caller' = [caller EXCEPT ![c] = "registered"]
    /\ UNCHANGED <<main, life, cmdCh, engineVars, index, timeVars, acked>>

(* handleWrite and handleBatchAdd enter the name into registry and index   *)
(* before they submit the command.                                         *)
Register(c, n) ==
    /\ Begin(c, "write", n)
    /\ caller' = [caller EXCEPT ![c] = "registered"]
    /\ index' = index \cup {n}
    /\ UNCHANGED <<main, life, cmdCh, engineVars, timeVars, acked>>

(* Faulty variant: Submit accepts one command too many.                    *)
EnqueueOneMore(c) ==
    IF Len(cmdCh) <= QueueCap
      THEN cmdCh' = Append(cmdCh, c) /\ caller' = [caller EXCEPT ![c] = "waiting"]
      ELSE cmdCh' = cmdCh /\ caller' = [caller EXCEPT ![c] = "idle"]

(* Submit queues the command, and the caller waits for RespCh, or refuses. *)
Enqueue(c) ==
    IF Len(cmdCh) < QueueCap
      THEN cmdCh' = Append(cmdCh, c) /\ caller' = [caller EXCEPT ![c] = "waiting"]
      ELSE cmdCh' = cmdCh /\ caller' = [caller EXCEPT ![c] = "idle"]

SubmitWrite(c) ==
    /\ Up /\ caller[c] = "registered" /\ Enqueue(c)
    /\ UNCHANGED <<main, life, request, submitted, engineVars, index, timeVars, acked>>

(* All other commands are submitted at once.                               *)
Submit(c, k) ==
    /\ Begin(c, k, NoRequest.name) /\ Enqueue(c)
    /\ UNCHANGED <<main, life, engineVars, index, timeVars, acked>>
-----------------------------------------------------------------------------
(* Engine.Run takes a command and stores the time of its activity.         *)
TakesCommand(k) ==
    /\ Up /\ engine = "select" /\ cmdCh # <<>> /\ request[Head(cmdCh)].kind = k
    /\ cmdCh' = Tail(cmdCh) /\ silence' = 0
    /\ UNCHANGED <<main, life, request, submitted, index, tickIn>>

Respond(c) == caller' = [caller EXCEPT ![c] = "idle"]

(* The log may refuse the write, which is answered with the error.         *)
HandleWrite ==
    /\ TakesCommand("write") /\ Respond(Head(cmdCh))
    /\ LET n == request[Head(cmdCh)].name
       IN  \/ active' = active \cup {n} /\ acked' = acked \cup {n}
           \/ UNCHANGED <<active, acked>>
    /\ UNCHANGED <<engine, current, flushDoneCh, frozen, segments, jobs, flushes, dropped>>

(* Queries, compaction, retention and unknown commands are answered at     *)
(* once; what compaction and retention do is in module Maintenance.        *)
HandleOther ==
    /\ TakesCommand("other") /\ Respond(Head(cmdCh))
    /\ UNCHANGED <<engineVars, acked>>

(* FlushDoneCmd: the engine sends the payload on its own channel, which    *)
(* only the engine receives from, and then answers.                        *)
DispatchFlushDone ==
    /\ TakesCommand("flushDone")
    /\ engine' = "forward" /\ current' = Head(cmdCh)
    /\ UNCHANGED <<caller, flushDoneCh, storeVars, acked>>

(* Faulty variant: the caller of FlushDoneCmd is not answered.             *)
ForwardSilently ==
    /\ Up /\ engine = "forward" /\ Len(flushDoneCh) < FlushDoneCap
    /\ flushDoneCh' = Append(flushDoneCh, {})
    /\ engine' = "select" /\ current' = Nobody
    /\ UNCHANGED <<main, life, callVars, index, storeVars, timeVars, acked>>

Forward ==
    /\ Up /\ engine = "forward" /\ Len(flushDoneCh) < FlushDoneCap
    /\ flushDoneCh' = Append(flushDoneCh, {})
    /\ engine' = "select" /\ current' = Nobody /\ Respond(current)
    /\ UNCHANGED <<main, life, request, cmdCh, submitted, index, storeVars, timeVars, acked>>

(* Faulty variant: the case of flushTicker does not store the activity.    *)
TickQuiet ==
    /\ Up /\ engine = "select" /\ tickIn = 0
    /\ tickIn' = FlushInterval /\ silence' = silence
    /\ \/ UNCHANGED storeVars
       \/ /\ active # {} /\ flushes < MaxFlushes
          /\ frozen' = active /\ active' = {}
          /\ jobs' = jobs \cup {[number |-> flushes, names |-> active]}
          /\ flushes' = flushes + 1
          /\ UNCHANGED <<segments, dropped>>
    /\ UNCHANGED <<main, life, callVars, engine, current, flushDoneCh, index, acked>>

(* The ticker fires: a large enough memtable is frozen and flushed.        *)
Tick ==
    /\ Up /\ engine = "select" /\ tickIn = 0
    /\ tickIn' = FlushInterval /\ silence' = 0
    /\ \/ UNCHANGED storeVars
       \/ /\ active # {} /\ flushes < MaxFlushes
          /\ frozen' = active /\ active' = {}
          /\ jobs' = jobs \cup {[number |-> flushes, names |-> active]}
          /\ flushes' = flushes + 1
          /\ UNCHANGED <<segments, dropped>>
    /\ UNCHANGED <<main, life, callVars, engine, current, flushDoneCh, index, acked>>

(* A flush goroutine reports: its segment is written, or it failed.        *)
FlushSend ==
    /\ Up /\ Len(flushDoneCh) < FlushDoneCap
    /\ \E j \in jobs :
          /\ jobs' = jobs \ {j}
          /\ \/ flushDoneCh' = Append(flushDoneCh, j.names) /\ UNCHANGED dropped
             \/ flushDoneCh' = Append(flushDoneCh, {}) /\ dropped' = dropped \cup j.names
    /\ UNCHANGED <<main, life, callVars, engine, current, active, frozen, segments, flushes,
                   index, timeVars, acked>>

ApplyFlushResult ==
    /\ Up /\ engine = "select" /\ flushDoneCh # <<>>
    /\ flushDoneCh' = Tail(flushDoneCh) /\ silence' = 0
    /\ segments' = segments \cup Head(flushDoneCh) /\ frozen' = {}
    /\ UNCHANGED <<main, life, callVars, engine, current, active, jobs, flushes, dropped,
                   index, tickIn, acked>>
-----------------------------------------------------------------------------
(* What the probe of handleHealthz asks.                                   *)
Liveness == silence < LivenessLimit

Second ==
    /\ Up
    /\ silence' = Min({silence + 1, MaxSilence}) /\ tickIn' = Max({tickIn, 1}) - 1
    /\ <<silence, tickIn>>' # <<silence, tickIn>>
    /\ UNCHANGED <<main, life, callVars, engineVars, index, acked>>

(* A signal: Shutdown closes the listener and waits for the handlers.      *)
Signal ==
    /\ main = "serving" /\ main' = "draining"
    /\ UNCHANGED <<life, callVars, engineVars, index, timeVars, acked>>

(* The end of the process takes its goroutines and memory.                 *)
Exit ==
    /\ main' = "exited"
    /\ caller' = [c \in Callers |-> "idle"] /\ request' = [c \in Callers |-> NoRequest]
    /\ cmdCh' = <<>> /\ engine' = "select" /\ current' = Nobody
    /\ index' = {} /\ active' = {} /\ frozen' = {} /\ jobs' = {} /\ flushes' = 0
    /\ flushDoneCh' = <<>> /\ silence' = 0 /\ tickIn' = FlushInterval
    /\ acked' = {} /\ dropped' = {}
    /\ UNCHANGED <<life, segments, submitted>>

(* Faulty variant: Shutdown without a deadline.                            *)
DrainTimeoutNever == FALSE /\ UNCHANGED vars

(* Shutdown returns when no handler is left, or after five seconds; main   *)
(* cancels the engine's context and returns without waiting for it.        *)
DrainDone == main = "draining" /\ (\A c \in Callers : caller[c] = "idle") /\ Exit
DrainTimeout == main = "draining" /\ (\E c \in Callers : caller[c] # "idle") /\ Exit

Crash == Up /\ life < MaxLives /\ Exit

(* Restarting is ServerInit again, with what is on disk.                   *)
Restart ==
    /\ main = "exited" /\ life < MaxLives
    /\ main' = "serving" /\ life' = life + 1
    /\ UNCHANGED <<callVars, engineVars, index, timeVars, acked>>

CallerStep ==
    \E c \in Callers :
        \/ \E n \in Names : Register(c, n)
        \/ SubmitWrite(c)
        \/ \E k \in {"flushDone", "other"} : Submit(c, k)
Commands == HandleWrite \/ HandleOther \/ DispatchFlushDone \/ Forward
EngineStep == Commands \/ Tick \/ ApplyFlushResult
MainStep == Signal \/ DrainDone \/ DrainTimeout \/ Crash \/ Restart

ServerNext == CallerStep \/ EngineStep \/ FlushSend \/ Second \/ MainStep

(* Time passes, and the engine's select receives something if anything is  *)
(* ready; as it picks among ready cases at random, it takes a command that *)
(* stays available although ticks and results keep coming. A handler goes  *)
(* on to Submit; Shutdown returns.                                         *)
ServerFairness ==
    /\ WF_vars(Commands) /\ WF_vars(EngineStep) /\ WF_vars(Second)
    /\ \A c \in Callers : WF_vars(SubmitWrite(c))
    /\ WF_vars(DrainDone \/ DrainTimeout)

ServerSpec == ServerInit /\ [][ServerNext]_vars /\ ServerFairness
-----------------------------------------------------------------------------
(* Type invariant. A command is queued once, for a caller that waits, and  *)
(* nobody else waits.                                                      *)
ServerTypeOK ==
    /\ main \in {"serving", "draining", "exited"} /\ life \in 1 .. MaxLives
    /\ caller \in [Callers -> {"idle", "registered", "waiting"}]
    /\ cmdCh \in Seq(Callers) /\ Len(cmdCh) <= QueueCap
    /\ \A c \in Callers :
          (caller[c] = "waiting") <=> (Cardinality({i \in DOMAIN cmdCh : cmdCh[i] = c})
                                        + (IF current = c THEN 1 ELSE 0) = 1)
    /\ (engine = "forward") <=> (current # Nobody)
    /\ index \subseteq Names /\ active \subseteq Names /\ frozen \subseteq Names
    /\ segments \subseteq Names /\ Len(flushDoneCh) <= FlushDoneCap
    /\ jobs \subseteq [number : 0 .. MaxFlushes, names : SUBSET Names]
    /\ silence \in 0 .. MaxSilence /\ tickIn \in 0 .. FlushInterval

(* What handleQuery finds if a query of n comes now.                       *)
Found(n) == n \in index /\ n \in active \cup frozen \cup segments

(* Names in flushes that have not been applied.                            *)
Pending == UNION ({j.names : j \in jobs} \cup {flushDoneCh[i] : i \in DOMAIN flushDoneCh})

(* The engine waits for its own channel.                                   *)
Stuck == engine = "forward" /\ Len(flushDoneCh) = FlushDoneCap

(* A query finds every name of which this process acknowledged a write,    *)
(* whatever handlers, rotations and flush results come in between. The     *)
(* exceptions are a flush not yet applied, whose memtable another rotation *)
(* or result took out of sight, and a flush that failed.                   *)
QueryFindsAcked == \A n \in acked : Found(n) \/ n \in Pending \cup dropped

(* Every handler gets its answer (it waits for RespCh without a timeout)   *)
(* or the process ends, unless a FlushDoneCmd met a full flushDoneCh.      *)
EveryRequestAnswered ==
    \A c \in Callers : (caller[c] # "idle") ~> (caller[c] = "idle" \/ Stuck)

(* A signal ends the process even if handlers wait forever.                *)
StopCompletes == (main = "draining") ~> (main = "exited")

(* README.md promises crash recovery: what a listed segment holds can be   *)
(* queried, also in the process after the one that wrote it.               *)
StoredIsFound == Up => \A n \in segments : Found(n)

(* An engine with nothing to do is unhealthy to the probe between two      *)
(* ticks, the limit being below the interval; the next tick, or whatever   *)
(* else the select receives, makes it healthy again, whatever commands,    *)
(* flushes and signals come in between. The exceptions are the end of the  *)
(* process and an engine that waits for its own channel.                   *)
ProbeRecovers == (Up /\ ~Liveness) ~> (Liveness \/ Stuck \/ ~Up)
=============================================================================
