------------------------------- MODULE Engine -------------------------------
(***************************************************************************)
(* The storage engine: the goroutine that runs Engine.Run, the goroutines  *)
(* it starts to flush frozen memtables, the manifest and the segment files *)
(* (internal/engine, internal/memtable, internal/manifest, and             *)
(* internal/segment as the engine uses it), on top of the write-ahead log. *)
(*                                                                         *)
(* A write is a WritePayload, numbered by the order in which it reaches    *)
(* wal.Append; a memtable or a segment file is the set of writes in it.    *)
(* Path n stands for the file seg-<n>.seg, and a file that is missing,     *)
(* empty or cut short is {}: query.ReadSegments skips all three alike.     *)
(***************************************************************************)
EXTENDS WAL, Integers, FiniteSets

CONSTANTS
    MemtableSize,    \* EngineConfig.MemtableSize, in writes
    FlushDoneCap,    \* capacity of flushDoneCh (10 in New)
    TimeOf,          \* timestamp of each write
    CallsRecover,    \* whether the program calls Recover after New
    MaxFlushes,      \* bound: rotations of one process
    MaxBatch,        \* bound: payloads of a BatchWriteCmd
    MaxIOFaults      \* bound: failing segment and manifest writes

Writes == 1 .. MaxRecords
Paths == 0 .. MaxFlushes - 1

ASSUME EngineConstants ==
    /\ MemtableSize \in Nat /\ FlushDoneCap \in Nat \ {0}
    /\ TimeOf \in [Writes -> Int] /\ CallsRecover \in BOOLEAN
    /\ MaxFlushes \in Nat /\ MaxBatch \in Nat /\ MaxIOFaults \in Nat

VARIABLES
    active,          \* Engine.active
    frozen,          \* Engine.frozen, {} for nil
    batch,           \* the BatchWriteCmd in progress: payloads left, first one
    flushCount,      \* Engine.flushCount
    job,             \* the flush goroutine of each path and its outcome
    flushDoneCh,     \* Engine.flushDoneCh: paths of the finished jobs
    dir,             \* content of each segment file
    manifest,        \* Engine.manifest in memory
    manifestFile,    \* the manifest on disk
    ioFaults,        \* failures of segment and manifest writes so far
    acked,           \* history: writes this process answered without error
    failed,          \* history: writes ever answered with an error
    dropped,         \* history: writes whose flush ended in an error
    taints           \* history: which of Hazards have happened

memVars == <<active, frozen, batch, flushCount, job, flushDoneCh, manifest>>
diskVars == <<dir, manifestFile, ioFaults>>
histVars == <<acked, failed, dropped, taints>>
engineVars == <<memVars, diskVars, histVars>>
vars == <<walVars, engineVars>>

(* The events after which the engine no longer keeps every promise.        *)
Hazards == {"overlap",     \* rotation while an earlier flush is unfinished
            "flushError",  \* a flush ended in an error
            "pathReuse",   \* a flush truncates a segment the manifest lists
            "torn",        \* the log is reopened behind a torn record
            "shortLog"}    \* the log is reopened shorter than the checkpoint

NoBatch == [left |-> 0, first |-> 0]
NoJob == [pc |-> "none", data |-> {}, off |-> 0, lo |-> 0, hi |-> 0]
Finished == {"written", "errored", "empty"}

(* Faulty variant: the goroutine reads e.flushCount, not its argument.     *)
EntryLate(n) == [path |-> flushCount, lo |-> job[n].lo, hi |-> job[n].hi]

Entry(n) == [path |-> n, lo |-> job[n].lo, hi |-> job[n].hi]

Entries(m) == {m.segs[i] : i \in DOMAIN m.segs}

(* All writes in the files a manifest lists.                               *)
InSegments(m) == UNION {dir[e.path] : e \in Entries(m)}

EngineInit ==
    /\ WALInit
    /\ active = {} /\ frozen = {} /\ batch = NoBatch
    /\ flushCount = 0 /\ job = [n \in Paths |-> NoJob] /\ flushDoneCh = <<>>
    /\ dir = [n \in Paths |-> {}]
    /\ manifest = [segs |-> <<>>, wal |-> 0] /\ manifestFile = manifest
    /\ ioFaults = 0
    /\ acked = {} /\ failed = {} /\ dropped = {} /\ taints = {}
-----------------------------------------------------------------------------
(* The engine goroutine takes its next command, tick or result.            *)
Idle == ~closed /\ batch = NoBatch

(* handleWrite: log first, then the memtable, then the answer.             *)
HandleWrite ==
    /\ Idle
    /\ WriterAppend
    /\ active' = active \cup {sent + 1}
    /\ acked' = acked \cup {sent + 1}
    /\ UNCHANGED <<frozen, batch, flushCount, job, flushDoneCh, manifest,
                   diskVars, failed, dropped, taints>>

(* Faulty variant: the memtable is updated although the log refused.       *)
HandleWriteFailsInserts ==
    /\ Idle
    /\ WriterAppendFails
    /\ active' = active \cup {sent + 1}
    /\ failed' = failed \cup {sent + 1}
    /\ UNCHANGED <<frozen, batch, flushCount, job, flushDoneCh, manifest,
                   diskVars, acked, dropped, taints>>

HandleWriteFails ==
    /\ Idle
    /\ WriterAppendFails
    /\ failed' = failed \cup {sent + 1}
    /\ UNCHANGED <<memVars, diskVars, acked, dropped, taints>>

(* handleBatchWrite: the payloads go one by one, and the fsync and flush   *)
(* goroutines run between them; one answer for all at the end.             *)
HandleBatchWrite ==
    /\ Idle
    /\ \E k \in 2 .. MaxBatch :
          /\ sent + k <= MaxRecords
          /\ batch' = [left |-> k, first |-> sent + 1]
    /\ UNCHANGED <<walVars, active, frozen, flushCount, job, flushDoneCh,
                   manifest, diskVars, histVars>>

BatchAppend ==
    /\ batch.left > 0
    /\ WriterAppend
    /\ active' = active \cup {sent + 1}
    /\ IF batch.left = 1
         THEN /\ batch' = NoBatch
              /\ acked' = acked \cup (batch.first .. sent + 1)
         ELSE /\ batch' = [batch EXCEPT !.left = @ - 1]
              /\ acked' = acked
    /\ UNCHANGED <<frozen, flushCount, job, flushDoneCh, manifest,
                   diskVars, failed, dropped, taints>>

(* The error ends the batch; the payloads before it stay applied.          *)
BatchAppendFails ==
    /\ batch.left > 0
    /\ WriterAppendFails
    /\ batch' = NoBatch
    /\ failed' = failed \cup {sent + 1}
    /\ UNCHANGED <<active, frozen, flushCount, job, flushDoneCh, manifest,
                   diskVars, acked, dropped, taints>>

LogSync == Sync /\ UNCHANGED engineVars
LogFsyncTick == FsyncTick /\ UNCHANGED engineVars
LogFsyncFails == FsyncFails /\ UNCHANGED engineVars

(* Jobs that were started and whose result was not applied yet.            *)
Unapplied == {n \in Paths : job[n].pc \notin {"none", "applied"}}

(* A segment or manifest write that fails.                                 *)
IOFault == ioFaults < MaxIOFaults /\ ioFaults' = ioFaults + 1

(* Faulty variant: the checkpoint is the count of unflushed bytes.         *)
NewJobSinceFlush ==
    [pc |-> "start", data |-> active, off |-> bytesSinceFlush, lo |-> 0, hi |-> 0]

(* The arguments of the flush goroutine, evaluated when it is started.     *)
NewJob == [pc |-> "start", data |-> active, off |-> offset, lo |-> 0, hi |-> 0]

(* Faulty variant: flushCount is not incremented.                          *)
MaybeRotateNoCount ==
    /\ Idle /\ flushCount < MaxFlushes
    /\ Cardinality(active) >= MemtableSize
    /\ frozen' = active /\ active' = {}
    /\ job' = [job EXCEPT ![flushCount] = NewJob]
    /\ taints' = taints \cup IF Unapplied = {} THEN {} ELSE {"overlap"}
    /\ UNCHANGED <<walVars, batch, flushCount, flushDoneCh, manifest, diskVars,
                   acked, failed, dropped>>

(* maybeRotateMemtable, on a tick of flushTicker: e.frozen is overwritten  *)
(* whether or not an earlier frozen memtable has reached its segment, and  *)
(* the checkpoint is the offset of the writer at this moment.              *)
MaybeRotateMemtable ==
    /\ Idle /\ flushCount < MaxFlushes
    /\ Cardinality(active) >= MemtableSize
    /\ frozen' = active /\ active' = {}
    /\ job' = [job EXCEPT ![flushCount] = NewJob]
    /\ flushCount' = flushCount + 1
    /\ taints' = taints \cup IF Unapplied = {} THEN {} ELSE {"overlap"}
    /\ UNCHANGED <<walVars, batch, flushDoneCh, manifest, diskVars,
                   acked, failed, dropped>>

(* The flush goroutine of path n: nothing to write.                        *)
FlushNothing(n) ==
    /\ job[n].pc = "start" /\ job[n].data = {}
    /\ job' = [job EXCEPT ![n].pc = "empty"]
    /\ UNCHANGED <<walVars, active, frozen, batch, flushCount, flushDoneCh,
                   manifest, diskVars, histVars>>

(* Faulty variant: blockEnd is the last timestamp of any one series.       *)
BlockRangeNoMax(S, lo, hi) ==
    /\ lo \in {TimeOf[w] : w \in S} /\ hi \in {TimeOf[w] : w \in S}
    /\ \A w \in S : lo <= TimeOf[w]

(* The block range is the least and the greatest timestamp of the data.    *)
BlockRange(S, lo, hi) ==
    /\ lo \in {TimeOf[w] : w \in S} /\ hi \in {TimeOf[w] : w \in S}
    /\ \A w \in S : lo <= TimeOf[w] /\ TimeOf[w] <= hi

(* Block range, then segment.NewWriter, which truncates an existing file.  *)
FlushCreate(n) ==
    /\ job[n].pc = "start" /\ job[n].data # {}
    /\ \E lo, hi \in {TimeOf[w] : w \in job[n].data} :
          /\ BlockRange(job[n].data, lo, hi)
          /\ job' = [job EXCEPT ![n] = [@ EXCEPT !.pc = "created", !.lo = lo, !.hi = hi]]
    /\ dir' = [dir EXCEPT ![n] = {}]
    /\ taints' = taints \cup
                   IF \E e \in Entries(manifest) : e.path = n THEN {"pathReuse"} ELSE {}
    /\ UNCHANGED <<walVars, active, frozen, batch, flushCount, flushDoneCh,
                   manifest, manifestFile, ioFaults, acked, failed, dropped>>

(* segment.Writer.Write: header, series, index and footer.                 *)
FlushWrite(n) ==
    /\ job[n].pc = "created"
    /\ dir' = [dir EXCEPT ![n] = job[n].data]
    /\ job' = [job EXCEPT ![n].pc = "written"]
    /\ UNCHANGED <<walVars, active, frozen, batch, flushCount, flushDoneCh,
                   manifest, manifestFile, ioFaults, histVars>>

(* NewWriter or Write returns an error; a file cut short is unreadable.    *)
FlushFailsAt(n) ==
    /\ \/ job[n].pc = "start" /\ job[n].data # {}
       \/ job[n].pc = "created"
    /\ IOFault
    /\ job' = [job EXCEPT ![n].pc = "errored"]
    /\ UNCHANGED <<walVars, active, frozen, batch, flushCount, flushDoneCh,
                   manifest, dir, manifestFile, histVars>>

(* Faulty variant: the error paths return without sending.                 *)
FlushSendOnlyOk(n) ==
    /\ job[n].pc = "written"
    /\ Len(flushDoneCh) < FlushDoneCap
    /\ \A i \in DOMAIN flushDoneCh : flushDoneCh[i] # n
    /\ flushDoneCh' = Append(flushDoneCh, n)
    /\ UNCHANGED <<walVars, active, frozen, batch, flushCount, job, manifest,
                   diskVars, histVars>>

(* The send on flushDoneCh, which blocks while the channel is full.        *)
FlushSend(n) ==
    /\ job[n].pc \in Finished
    /\ Len(flushDoneCh) < FlushDoneCap
    /\ \A i \in DOMAIN flushDoneCh : flushDoneCh[i] # n
    /\ flushDoneCh' = Append(flushDoneCh, n)
    /\ UNCHANGED <<walVars, active, frozen, batch, flushCount, job, manifest,
                   diskVars, histVars>>

(* The engine goroutine receives the result of path n.                     *)
TakesResult(n) ==
    /\ Idle
    /\ flushDoneCh # <<>> /\ n = Head(flushDoneCh)
    /\ flushDoneCh' = Tail(flushDoneCh)
    /\ job' = [job EXCEPT ![n].pc = "applied"]
    /\ frozen' = {}

(* applyFlushResult with an error, and with nothing flushed.               *)
ApplyFlushError(n) ==
    /\ TakesResult(n) /\ job[n].pc = "errored"
    /\ dropped' = dropped \cup job[n].data
    /\ taints' = taints \cup {"flushError"}
    /\ UNCHANGED <<walVars, active, batch, flushCount, manifest, diskVars,
                   acked, failed>>

ApplyFlushEmpty(n) ==
    /\ TakesResult(n) /\ job[n].pc = "empty"
    /\ UNCHANGED <<walVars, active, batch, flushCount, manifest, diskVars, histVars>>

(* manifest.Add and manifest.SetWALOffset, each of which saves the file.   *)
Added(n) == [manifest EXCEPT !.segs = Append(@, Entry(n))]

(* Faulty variant: the checkpoint is read when the result is applied.      *)
CheckpointedLate(n) == [Added(n) EXCEPT !.wal = offset]

Checkpointed(n) == [Added(n) EXCEPT !.wal = job[n].off]

ApplyFlushResult(n) ==
    /\ TakesResult(n) /\ job[n].pc = "written"
    /\ manifest' = Checkpointed(n)
    /\ manifestFile' = Checkpointed(n)
    /\ UNCHANGED <<walVars, active, batch, flushCount, dir, ioFaults, histVars>>

(* Errors of the two saves are dropped: the second fails, after a first    *)
(* one that succeeded or failed as well.                                   *)
ApplyFlushSaveFails(n) ==
    /\ TakesResult(n) /\ job[n].pc = "written"
    /\ IOFault
    /\ manifest' = Checkpointed(n)
    /\ manifestFile' \in {manifestFile, Added(n)}
    /\ UNCHANGED <<walVars, active, batch, flushCount, dir, histVars>>
-----------------------------------------------------------------------------
(* What the end of the process takes with it.                              *)
ProcessGone ==
    /\ active' = {} /\ frozen' = {} /\ batch' = NoBatch /\ flushCount' = 0
    /\ job' = [n \in Paths |-> NoJob] /\ flushDoneCh' = <<>>

CrashEngine ==
    /\ Crash
    /\ ProcessGone
    /\ acked' = {}
    /\ UNCHANGED <<manifest, diskVars, failed, dropped, taints>>

(* The process stops between manifest.Add and manifest.SetWALOffset.       *)
CrashInApply ==
    /\ Idle /\ flushDoneCh # <<>> /\ job[Head(flushDoneCh)].pc = "written"
    /\ Crash
    /\ ProcessGone
    /\ manifestFile' = Added(Head(flushDoneCh))
    /\ acked' = {}
    /\ UNCHANGED <<manifest, dir, ioFaults, failed, dropped, taints>>

(* ctx.Done: shutdown() closes the log and Run returns; flush goroutines   *)
(* go on until the process exits, but nobody receives their results.       *)
Shutdown ==
    /\ Idle
    /\ Close
    /\ acked' = {}
    /\ UNCHANGED <<memVars, diskVars, failed, dropped, taints>>

TornTail == log # <<>> /\ log[Len(log)].part = "head"

(* Faulty variant: Recover starts at the end of the log.                   *)
RecoveredNothing == IF CallsRecover THEN Replay(log, Len(log), Len(log)) ELSE {}

(* Recover: replay from the checkpoint of the manifest just loaded.        *)
Recovered ==
    IF CallsRecover THEN Replay(log, Len(log), manifestFile.wal) ELSE {}

(* New, then Recover if the program calls it, before Run.                  *)
Restart ==
    /\ NewWriter
    /\ manifest' = manifestFile
    /\ active' = Recovered
    /\ frozen' = {} /\ batch' = NoBatch /\ flushCount' = 0
    /\ job' = [n \in Paths |-> NoJob] /\ flushDoneCh' = <<>>
    /\ taints' = taints \cup (IF TornTail THEN {"torn"} ELSE {})
                        \cup (IF Len(log) < manifestFile.wal THEN {"shortLog"} ELSE {})
    /\ UNCHANGED <<diskVars, acked, failed, dropped>>

FlushStep(n) ==
    \/ FlushNothing(n) \/ FlushCreate(n) \/ FlushWrite(n) \/ FlushSend(n)

Apply(n) == ApplyFlushError(n) \/ ApplyFlushEmpty(n) \/ ApplyFlushResult(n)

EngineNext ==
    \/ HandleWrite \/ HandleWriteFails
    \/ HandleBatchWrite \/ BatchAppend \/ BatchAppendFails
    \/ LogSync \/ LogFsyncTick \/ LogFsyncFails
    \/ MaybeRotateMemtable
    \/ \E n \in Paths : \/ FlushStep(n) \/ FlushFailsAt(n)
                        \/ Apply(n) \/ ApplyFlushSaveFails(n)
    \/ CrashEngine \/ CrashInApply \/ Shutdown \/ Restart

(* Goroutines that can run do run, and Run's select takes a result that    *)
(* stays available.  Nothing is assumed of clients, ticks or faults.       *)
EngineFairness ==
    /\ WF_vars(LogFsyncTick)
    /\ WF_vars(BatchAppend \/ BatchAppendFails)
    /\ \A n \in Paths : WF_vars(FlushStep(n)) /\ WF_vars(Apply(n))

EngineSafety == EngineInit /\ [][EngineNext]_vars
EngineSpec == EngineSafety /\ EngineFairness
-----------------------------------------------------------------------------
Visible == active \cup frozen \cup InSegments(manifest)

(* What New and Recover would find on disk, and the part of it that does   *)
(* not depend on cells of the log that were never fsynced.                 *)
Stored == InSegments(manifestFile) \cup Replay(log, Len(log), manifestFile.wal)
Durable == (InSegments(manifestFile) \cup Replay(log, synced, manifestFile.wal)) \ failed

(* handleQuery over the range s..e reads a write from source 0 (active),   *)
(* -1 (frozen), or the i-th segment of the manifest if its block overlaps. *)
Reads(i, w, s, e) ==
    \/ i = 0 /\ w \in active
    \/ i = -1 /\ w \in frozen
    \/ /\ i \in DOMAIN manifest.segs
       /\ manifest.segs[i].lo <= e /\ manifest.segs[i].hi >= s
       /\ w \in dir[manifest.segs[i].path]

Sources == -1 .. Len(manifest.segs)
Times == {TimeOf[w] : w \in Writes}
-----------------------------------------------------------------------------
Manifests == [segs : Seq([path : Paths, lo : Int, hi : Int]), wal : Nat]

(* Type invariant of the engine.                                           *)
EngineTypeOK ==
    /\ WALTypeOK
    /\ active \in SUBSET Writes /\ frozen \in SUBSET Writes
    /\ batch \in [left : Nat, first : Nat]
    /\ flushCount \in 0 .. MaxFlushes
    /\ job \in [Paths -> [pc : {"none", "start", "created", "applied"} \cup Finished,
                          data : SUBSET Writes, off : Nat, lo : Int, hi : Int]]
    /\ flushDoneCh \in Seq(Paths)
    /\ dir \in [Paths -> SUBSET Writes]
    /\ manifest \in Manifests /\ manifestFile \in Manifests
    /\ acked \in SUBSET Writes /\ failed \in SUBSET Writes
    /\ dropped \in SUBSET Writes /\ taints \in SUBSET Hazards
    /\ ioFaults \in 0 .. MaxIOFaults

(* A query returns every write this process acknowledged in its range once *)
(* and only once while the write moves from active to frozen to a segment, *)
(* as long as flushes do not overlap, fail or overwrite a segment.         *)
QueryExact ==
    taints \cap {"overlap", "flushError", "pathReuse"} = {} =>
        \A w \in acked, s, e \in Times :
            (s <= TimeOf[w] /\ TimeOf[w] <= e) =>
                \E i \in Sources :
                    /\ Reads(i, w, s, e)
                    /\ \A k \in Sources : Reads(k, w, s, e) => k = i

(* A write acknowledged by this process is never lost from it, even when   *)
(* flushes overlap or finish out of order: it is in the active memtable,   *)
(* with a flush whose result is still to be applied, in a segment that the *)
(* manifest lists, or it was dropped by a flush that failed.               *)
Accounted ==
    \A w \in acked :
        \/ w \in active
        \/ \E n \in Unapplied : w \in job[n].data
        \/ w \in InSegments(manifest)
        \/ w \in dropped

(* Every record that was fsynced and not answered with an error is in a    *)
(* segment on disk or behind the checkpoint where Recover will read it,    *)
(* whatever save failed and wherever the process stopped.                  *)
Recoverable ==
    taints = {} =>
        \A p \in 1 .. synced :
            (log[p].part = "body" /\ log[p].rec \notin failed)
                => log[p].rec \in Durable

(* A running engine serves everything that survived the last stop.         *)
DurableVisible == taints = {} /\ ~closed => Durable \subseteq Visible

(* The checkpoint on disk never moves back, unless flushes overlap (they   *)
(* finish in either order) or the log was cut below it. It may lag behind  *)
(* the segments: after a stop between engine.go:414 and 415, or a failed   *)
(* second save, the writes of a segment that is listed lie behind the old  *)
(* checkpoint and are replayed too.                                        *)
CheckpointMonotone ==
    [][taints' \cap {"overlap", "shortLog"} = {}
        => manifestFile'.wal >= manifestFile.wal]_vars

(* The engine is the abstract store until one of the hazards happens.      *)
AbstractStore == INSTANCE Store WITH
    points <- IF closed THEN Stored ELSE Visible,
    durable <- Durable,
    limbo <- failed,
    up <- ~closed,
    degraded <- (taints # {})
ImplementsStore == AbstractStore!StoreSpec

(* Every step of the engine is a step of the log or leaves it alone.       *)
ImplementsWAL == WALSafety

(* A rotated memtable ends up in a listed segment, or its flush fails, or  *)
(* the engine stops: a flush is never stuck, not even when flushDoneCh is  *)
(* full or the engine is in the middle of a batch.                         *)
EveryFlushEnds ==
    \A n \in Paths : (~closed /\ n \in Unapplied) ~> (n \notin Unapplied \/ closed)

(* Overlapping flushes hide writes from queries only for a while.          *)
EventuallyVisible ==
    \A w \in Writes :
        (w \in acked) ~> (w \notin acked \/ w \in Visible \/ w \in dropped)

(* README: segments are immutable binary files.  The content of a file the *)
(* manifest lists does not change.                                         *)
SegmentImmutable ==
    [][\A e \in Entries(manifest) : dir'[e.path] = dir[e.path]]_vars
=============================================================================
