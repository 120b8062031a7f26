---------------------------- MODULE Maintenance ----------------------------
(***************************************************************************)
(* Compaction and retention: CompactionCmd and RetentionCmd in the engine  *)
(* goroutine, the goroutines that merge segments, the manifest and the     *)
(* segment files they rewrite and delete (internal/compaction,             *)
(* internal/retention, internal/manifest, internal/engine).                *)
(*                                                                         *)
(* A file is a bag of points, because Compact concatenates what it reads.  *)
(* A file that is missing or unreadable is the empty bag: OpenReader fails *)
(* on both.  Flushes, whose goroutines are the subject of module Engine,   *)
(* are one step here: nobody else knows their file before it is listed.    *)
(***************************************************************************)
EXTENDS Integers, Sequences, FiniteSets

CONSTANTS
    TimeOf,            \* timestamp of each point
    SeriesOf,          \* series of each point
    Cutoffs,           \* cutoffs of RetentionCmd
    MaxCount,          \* candidates of a compaction (5 in handleCompaction)
    DoneCap,           \* capacity of compactionDoneCh (10 in New)
    MaxPoints,         \* bound: flushes, each of one point
    MaxCompactions,    \* bound: compactions started
    MaxLives,          \* bound: starts of the process
    MaxIOFaults        \* bound: steps in which writing a segment or manifest fails

Points == 1 .. MaxPoints
Jobs == 1 .. MaxCompactions

ASSUME MaintenanceConstants ==
    /\ TimeOf \in [Points -> Int] /\ Cutoffs \subseteq Int
    /\ SeriesOf \in [Points -> Nat]
    /\ MaxCount \in Nat \ {0, 1} /\ DoneCap \in Nat \ {0}
    /\ MaxPoints \in Nat /\ MaxCompactions \in Nat
    /\ MaxLives \in Nat \ {0} /\ MaxIOFaults \in Nat

(* File names: seg-<n>.seg and compacted-<k>.seg.                          *)
SegPath(n) == <<"seg", n>>
OutPath(k) == <<"compacted", k>>
Paths == ({"seg"} \X (0 .. MaxPoints - 1)) \cup ({"compacted"} \X (2 .. MaxCount))

VARIABLES
    manifest,          \* Manifest.Segments in memory
    manifestFile,      \* the manifest on disk
    dir,               \* content of each file
    flushCount,        \* Engine.flushCount
    job,               \* the goroutine of each compaction
    doneCh,            \* Engine.compactionDoneCh
    written,           \* points flushed so far
    started,           \* compactions started so far
    lives, ioFaults,   \* starts of the process, failing writes
    swept,             \* history: points a sweep removed
    cutoffs,           \* history: cutoffs of the sweeps
    unsaved,           \* history: points of flushes that no save has listed yet
    dropped,           \* history: those that a stop took out of the manifest
    taints             \* history: which of Hazards have happened

vars == <<manifest, manifestFile, dir, flushCount, job, doneCh, written,
          started, lives, ioFaults, swept, cutoffs, unsaved, dropped, taints>>

(* The events after which a query may miss or repeat a point.              *)
Hazards == {"reuse",        \* a file in use is truncated
            "staleEntry",   \* a file that only the manifest on disk lists is
            "concurrent",   \* a compaction starts before another has ended
            "saveError",    \* saving the manifest failed
            "halfApplied",  \* the process stopped between Add and RemoveBatch
            "sweptInput"}   \* a sweep removed a candidate of a compaction

NoPoints == [p \in Points |-> 0]
In(f) == {p \in Points : f[p] > 0}
NoJob == [pc |-> "none", cands |-> <<>>, next |-> 1, data |-> NoPoints]

(* Faulty variant: blockStart and blockEnd are swapped.                    *)
EntryOfSwapped(path, f, e) ==
    /\ e.path = path
    /\ e.lo \in {TimeOf[p] : p \in In(f)} /\ e.hi \in {TimeOf[p] : p \in In(f)}
    /\ \A p \in In(f) : e.hi <= TimeOf[p] /\ TimeOf[p] <= e.lo
    /\ e.n = Cardinality({SeriesOf[p] : p \in In(f)})

(* The entry of a file with the points of f: block range and SeriesCount.  *)
EntryOf(path, f, e) ==
    /\ e.path = path
    /\ e.lo \in {TimeOf[p] : p \in In(f)} /\ e.hi \in {TimeOf[p] : p \in In(f)}
    /\ \A p \in In(f) : e.lo <= TimeOf[p] /\ TimeOf[p] <= e.hi
    /\ e.n = Cardinality({SeriesOf[p] : p \in In(f)})

EntriesFor(path, f) ==
    LET times == {TimeOf[p] : p \in In(f)}
    IN  {e \in [path : {path}, lo : times, hi : times, n : 1 .. MaxPoints] :
            EntryOf(path, f, e)}

Listed(m) == {m[i].path : i \in DOMAIN m}

(* RemoveBatch: the loop that keeps the entries with other paths.          *)
RemoveBatch(m, paths) ==
    LET updated[i \in 0 .. Len(m)] ==
            IF i = 0
              THEN <<>>
              ELSE IF m[i].path \in paths THEN updated[i - 1]
                                          ELSE Append(updated[i - 1], m[i])
    IN  updated[Len(m)]

MaintenanceInit ==
    /\ manifest = <<>> /\ manifestFile = <<>>
    /\ dir = [q \in Paths |-> NoPoints]
    /\ flushCount = 0 /\ job = [j \in Jobs |-> NoJob] /\ doneCh = <<>>
    /\ written = 0 /\ started = 0 /\ lives = 1 /\ ioFaults = 0
    /\ swept = {} /\ cutoffs = {} /\ unsaved = {} /\ dropped = {} /\ taints = {}

IOFault == ioFaults < MaxIOFaults /\ ioFaults' = ioFaults + 1
-----------------------------------------------------------------------------
PathsOf(cands) == {cands[i].path : i \in DOMAIN cands}
Out(j) == OutPath(Len(job[j].cands))
Running == {j \in Jobs : job[j].pc # "none"}

(* File q is listed, or a compaction will list it or delete it.            *)
InUse(q) ==
    \/ q \in Listed(manifest)
    \/ \E j \in Running :
          \/ q \in PathsOf(job[j].cands)
          \/ job[j].pc \in {"created", "written"} /\ Out(j) = q

Reuse(q) ==
    (IF InUse(q) THEN {"reuse"} ELSE {})
      \cup (IF q \in Listed(manifestFile) \ Listed(manifest) THEN {"staleEntry"} ELSE {})

(* A rotated memtable reaches its segment, whose entry applyFlushResult    *)
(* appends to the manifest in memory.                                      *)
SegmentAdded ==
    /\ written < MaxPoints
    /\ LET q == SegPath(flushCount)
           f == [NoPoints EXCEPT ![written + 1] = 1]
       IN  /\ dir' = [dir EXCEPT ![q] = f]
           /\ \E e \in EntriesFor(q, f) : manifest' = Append(manifest, e)
    /\ flushCount' = flushCount + 1 /\ written' = written + 1
    /\ UNCHANGED <<job, doneCh, started, lives, swept, cutoffs, dropped>>

(* One of the saves, in Add or in SetWALOffset, is enough for the file.    *)
FlushSegment ==
    /\ SegmentAdded
    /\ manifestFile' = manifest' /\ unsaved' = {}
    /\ taints' = taints \cup Reuse(SegPath(flushCount))
    /\ UNCHANGED ioFaults

(* Both fail: applyFlushResult ignores the errors, so the entry is in the  *)
(* manifest in memory only, until the next save.                           *)
FlushSegmentSavesFail ==
    /\ SegmentAdded /\ IOFault
    /\ UNCHANGED manifestFile /\ unsaved' = unsaved \cup {written + 1}
    /\ taints' = taints \cup Reuse(SegPath(flushCount)) \cup {"saveError"}

(* The possible results of SelectCandidates: the first maxCount entries by *)
(* SeriesCount, where the unstable sort orders equal counts arbitrarily.   *)
SelectCandidates(entries, maxCount) ==
    LET k == IF maxCount > Len(entries) THEN Len(entries) ELSE maxCount
        Picks == {f \in [1 .. k -> DOMAIN entries] :
                    \A a, b \in 1 .. k : a < b =>
                        f[a] # f[b] /\ entries[f[a]].n <= entries[f[b]].n}
        Smallest(f) == \A i \in DOMAIN entries \ {f[a] : a \in 1 .. k} :
                          \A a \in 1 .. k : entries[f[a]].n <= entries[i].n
    IN  IF Len(entries) <= 1 \/ maxCount <= 1
          THEN {}
          ELSE {[a \in 1 .. k |-> entries[f[a]]] : f \in {g \in Picks : Smallest(g)}}

(* handleCompaction: pick the candidates and start the goroutine.          *)
HandleCompaction ==
    /\ started < MaxCompactions
    /\ \E cands \in SelectCandidates(manifest, MaxCount) :
          job' = [job EXCEPT ![started + 1] =
                     [pc |-> "read", cands |-> cands, next |-> 1, data |-> NoPoints]]
    /\ started' = started + 1
    /\ taints' = taints \cup IF Running = {} THEN {} ELSE {"concurrent"}
    /\ UNCHANGED <<manifest, manifestFile, dir, flushCount, doneCh, written,
                   lives, ioFaults, swept, cutoffs, unsaved, dropped>>

(* Faulty variant: merged[id] is assigned, not appended to.                *)
CompactReadOverwrites(j) ==
    /\ job[j].pc = "read" /\ job[j].next <= Len(job[j].cands)
    /\ LET f == dir[job[j].cands[job[j].next].path]
       IN  job' = IF f = NoPoints
                    THEN [job EXCEPT ![j].pc = "errored"]
                    ELSE [job EXCEPT ![j].data = f, ![j].next = @ + 1]
    /\ UNCHANGED <<manifest, manifestFile, dir, flushCount, doneCh, written,
                   started, lives, ioFaults, swept, cutoffs, unsaved, dropped, taints>>

(* Compact, the loop over the candidates: OpenReader and ReadAll of one.   *)
CompactRead(j) ==
    /\ job[j].pc = "read" /\ job[j].next <= Len(job[j].cands)
    /\ LET f == dir[job[j].cands[job[j].next].path]
       IN  job' = IF f = NoPoints
                    THEN [job EXCEPT ![j].pc = "errored"]
                    ELSE [job EXCEPT ![j].data = [p \in Points |-> @[p] + f[p]],
                                     ![j].next = @ + 1]
    /\ UNCHANGED <<manifest, manifestFile, dir, flushCount, doneCh, written,
                   started, lives, ioFaults, swept, cutoffs, unsaved, dropped, taints>>

(* segment.NewWriter on the output path, which truncates an existing file. *)
CompactCreate(j) ==
    /\ job[j].pc = "read" /\ job[j].next > Len(job[j].cands)
    /\ job' = [job EXCEPT ![j].pc = "created"]
    /\ dir' = [dir EXCEPT ![Out(j)] = NoPoints]
    /\ taints' = taints \cup Reuse(Out(j))
    /\ UNCHANGED <<manifest, manifestFile, flushCount, doneCh, written,
                   started, lives, ioFaults, swept, cutoffs, unsaved, dropped>>

(* Writer.Write.  Two goroutines that write one file from its beginning    *)
(* leave the content of the last one, or a mixture that cannot be read.    *)
CompactWrite(j) ==
    /\ job[j].pc = "created"
    /\ job' = [job EXCEPT ![j].pc = "written"]
    /\ \E f \in {job[j].data} \cup
                IF dir[Out(j)] \in {NoPoints, job[j].data} THEN {} ELSE {NoPoints} :
          dir' = [dir EXCEPT ![Out(j)] = f]
    /\ UNCHANGED <<manifest, manifestFile, flushCount, doneCh, written,
                   started, lives, ioFaults, swept, cutoffs, unsaved, dropped, taints>>

(* NewWriter fails, or Write fails and Compact removes the output file.    *)
CompactFails(j) ==
    /\ IOFault
    /\ \/ /\ job[j].pc = "read" /\ job[j].next > Len(job[j].cands)
          /\ dir' = dir
       \/ /\ job[j].pc = "created"
          /\ dir' = [dir EXCEPT ![Out(j)] = NoPoints]
    /\ job' = [job EXCEPT ![j].pc = "errored"]
    /\ UNCHANGED <<manifest, manifestFile, flushCount, doneCh, written,
                   started, lives, swept, cutoffs, unsaved, dropped, taints>>

(* Faulty variant: the goroutine returns on an error without sending.      *)
CompactSendOnlyOk(j) ==
    /\ job[j].pc = "written"
    /\ Len(doneCh) < DoneCap
    /\ \A i \in DOMAIN doneCh : doneCh[i] # j
    /\ doneCh' = Append(doneCh, j)
    /\ UNCHANGED <<manifest, manifestFile, dir, flushCount, job, written,
                   started, lives, ioFaults, swept, cutoffs, unsaved, dropped, taints>>

(* The send on compactionDoneCh, which blocks while the channel is full.   *)
CompactSend(j) ==
    /\ job[j].pc \in {"written", "errored"}
    /\ Len(doneCh) < DoneCap
    /\ \A i \in DOMAIN doneCh : doneCh[i] # j
    /\ doneCh' = Append(doneCh, j)
    /\ UNCHANGED <<manifest, manifestFile, dir, flushCount, job, written,
                   started, lives, ioFaults, swept, cutoffs, unsaved, dropped, taints>>
-----------------------------------------------------------------------------
(* The engine goroutine receives the result of compaction j.               *)
TakesResult(j) ==
    /\ doneCh # <<>> /\ j = Head(doneCh)
    /\ doneCh' = Tail(doneCh)
    /\ job' = [job EXCEPT ![j] = NoJob]

ApplyCompactionError(j) ==
    /\ TakesResult(j) /\ job[j].pc = "errored"
    /\ UNCHANGED <<manifest, manifestFile, dir, flushCount, written, started,
                   lives, ioFaults, swept, cutoffs, unsaved, dropped, taints>>

(* manifest.Add of the result, and manifest.RemoveBatch of the candidates. *)
AddedEntries(j) == {Append(manifest, e) : e \in EntriesFor(Out(j), job[j].data)}

Replaced(j, m) == RemoveBatch(m, PathsOf(job[j].cands))

Without(paths) == [q \in Paths |-> IF q \in paths THEN NoPoints ELSE dir[q]]

(* applyCompactionResult: add, remove, then delete the input files.        *)
ApplyCompactionResult(j) ==
    /\ TakesResult(j) /\ job[j].pc = "written"
    /\ \E m \in AddedEntries(j) : manifest' = Replaced(j, m)
    /\ manifestFile' = manifest' /\ unsaved' = {}
    /\ dir' = Without(PathsOf(job[j].cands))
    /\ UNCHANGED <<flushCount, written, started, lives, ioFaults, swept, cutoffs,
                   dropped, taints>>

(* Faulty variant: the files are deleted although the save failed.         *)
ApplyCompactionSaveFailsDeletes(j) ==
    /\ TakesResult(j) /\ job[j].pc = "written"
    /\ IOFault
    /\ \E m \in AddedEntries(j) :
          \/ manifest' = m /\ UNCHANGED <<manifestFile, unsaved>>
          \/ manifest' = Replaced(j, m) /\ manifestFile' = m /\ unsaved' = {}
    /\ dir' = Without(PathsOf(job[j].cands))
    /\ taints' = taints \cup {"saveError"}
    /\ UNCHANGED <<flushCount, written, started, lives, swept, cutoffs, dropped>>

(* Either save fails: applyCompactionResult returns with the manifest in   *)
(* memory already changed, and the input files stay.                       *)
ApplyCompactionSaveFails(j) ==
    /\ TakesResult(j) /\ job[j].pc = "written"
    /\ IOFault
    /\ \E m \in AddedEntries(j) :
          \/ manifest' = m /\ UNCHANGED <<manifestFile, unsaved>>
          \/ manifest' = Replaced(j, m) /\ manifestFile' = m /\ unsaved' = {}
    /\ taints' = taints \cup {"saveError"}
    /\ UNCHANGED <<dir, flushCount, written, started, lives, swept, cutoffs, dropped>>

(* Faulty variant: a block that starts before the cutoff is expired.       *)
SweepStarts(entries, cutoff) ==
    {entries[i] : i \in {k \in DOMAIN entries : entries[k].lo < cutoff}}

(* Sweep: the entries whose whole block is older than the cutoff.          *)
Sweep(entries, cutoff) ==
    {entries[i] : i \in {k \in DOMAIN entries : entries[k].hi < cutoff}}

(* What a sweep does to the history variables.                             *)
SweepHistory(cutoff, paths) ==
    /\ swept' = swept \cup UNION {In(dir[q]) : q \in paths}
    /\ cutoffs' = cutoffs \cup {cutoff}

SweptInput(paths) ==
    IF \E j \in Running : paths \cap PathsOf(job[j].cands) # {} THEN {"sweptInput"} ELSE {}

(* handleRetention: RemoveBatch, then DeleteFiles.                         *)
HandleRetention ==
    /\ \E cutoff \in Cutoffs :
          LET paths == {e.path : e \in Sweep(manifest, cutoff)}
          IN  /\ paths # {}
              /\ manifest' = RemoveBatch(manifest, paths)
              /\ dir' = Without(paths)
              /\ SweepHistory(cutoff, paths)
              /\ taints' = taints \cup SweptInput(paths)
    /\ manifestFile' = manifest' /\ unsaved' = {}
    /\ UNCHANGED <<flushCount, job, doneCh, written, started, lives, ioFaults, dropped>>

(* The save fails: the answer is an error and the files stay, but the      *)
(* manifest in memory has lost the entries.                                *)
HandleRetentionSaveFails ==
    /\ IOFault
    /\ \E cutoff \in Cutoffs :
          LET paths == {e.path : e \in Sweep(manifest, cutoff)}
          IN  /\ paths # {}
              /\ manifest' = RemoveBatch(manifest, paths)
              /\ SweepHistory(cutoff, paths)
    /\ taints' = taints \cup {"saveError"}
    /\ UNCHANGED <<manifestFile, dir, flushCount, job, doneCh, written, started, lives,
                   unsaved, dropped>>
-----------------------------------------------------------------------------
(* The process stops and New starts again from the manifest file m.        *)
RestartFrom(m) ==
    /\ lives < MaxLives /\ lives' = lives + 1
    /\ manifest' = m /\ manifestFile' = m
    /\ flushCount' = 0 /\ job' = [j \in Jobs |-> NoJob] /\ doneCh' = <<>>
    /\ unsaved' = {}
    /\ UNCHANGED <<dir, written, started, ioFaults>>

(* A segment that no save has listed is not in the manifest any more. Its  *)
(* writes are behind the checkpoint on disk, which no save moved past them.*)
Crash ==
    /\ RestartFrom(manifestFile) /\ dropped' = dropped \cup unsaved
    /\ UNCHANGED <<swept, cutoffs, taints>>

(* The process stops inside applyCompactionResult: after Add, or after     *)
(* RemoveBatch and before the input files are deleted.                     *)
CrashInApply ==
    /\ doneCh # <<>> /\ job[Head(doneCh)].pc = "written"
    /\ \E m \in AddedEntries(Head(doneCh)) :
          \/ RestartFrom(m) /\ taints' = taints \cup {"halfApplied"}
          \/ RestartFrom(Replaced(Head(doneCh), m)) /\ taints' = taints
    /\ UNCHANGED <<swept, cutoffs, dropped>>

(* The process stops inside handleRetention, before DeleteFiles.           *)
CrashInRetention ==
    /\ \E cutoff \in Cutoffs :
          LET paths == {e.path : e \in Sweep(manifest, cutoff)}
          IN  /\ paths # {}
              /\ RestartFrom(RemoveBatch(manifest, paths))
              /\ SweepHistory(cutoff, paths)
    /\ UNCHANGED <<dropped, taints>>

CompactStep(j) ==
    \/ CompactRead(j) \/ CompactCreate(j) \/ CompactWrite(j) \/ CompactSend(j)

Apply(j) == ApplyCompactionError(j) \/ ApplyCompactionResult(j)

MaintenanceNext ==
    \/ FlushSegment \/ FlushSegmentSavesFail \/ HandleCompaction
    \/ \E j \in Jobs : \/ CompactStep(j) \/ CompactFails(j)
                       \/ Apply(j) \/ ApplyCompactionSaveFails(j)
    \/ HandleRetention \/ HandleRetentionSaveFails
    \/ Crash \/ CrashInApply \/ CrashInRetention

(* Goroutines that can run do run, and Run's select takes a result that    *)
(* stays available.                                                        *)
MaintenanceFairness ==
    \A j \in Jobs : WF_vars(CompactStep(j)) /\ WF_vars(Apply(j))

MaintenanceSafety == MaintenanceInit /\ [][MaintenanceNext]_vars
MaintenanceSpec == MaintenanceSafety /\ MaintenanceFairness
-----------------------------------------------------------------------------
Entries == {e \in [path : Paths, lo : Int, hi : Int, n : Nat] : e.lo <= e.hi}

(* Type invariant of the maintenance of segments.                          *)
MaintenanceTypeOK ==
    /\ manifest \in Seq(Entries) /\ manifestFile \in Seq(Entries)
    /\ dir \in [Paths -> [Points -> Nat]]
    /\ flushCount \in 0 .. MaxPoints
    /\ job \in [Jobs -> [pc : {"none", "read", "created", "written", "errored"},
                         cands : Seq(Entries), next : Nat, data : [Points -> Nat]]]
    /\ doneCh \in Seq(Jobs)
    /\ written \in 0 .. MaxPoints /\ started \in 0 .. MaxCompactions
    /\ lives \in 1 .. MaxLives /\ ioFaults \in 0 .. MaxIOFaults
    /\ swept \in SUBSET Points /\ cutoffs \in SUBSET Cutoffs
    /\ unsaved \in SUBSET Points /\ dropped \in SUBSET Points
    /\ taints \in SUBSET Hazards

Found(m, p) == \E i \in DOMAIN m : dir[m[i].path][p] > 0

(* The flushed points that neither a sweep nor a stop took away.           *)
Remaining == (1 .. written) \ (swept \cup dropped)

(* A flushed point that no sweep removed is in a readable file that both   *)
(* the manifest in memory and the one on disk list, whatever compactions   *)
(* run at the same time, whichever save of theirs fails and wherever the   *)
(* process stops, as long as no compaction writes a file that is in use.   *)
(* If both saves of its flush failed, it is in the one in memory, and in   *)
(* the one on disk from the next save on; a stop before that drops it.     *)
NothingLost ==
    "reuse" \notin taints =>
        \A p \in Remaining : Found(manifest, p) /\ (p \notin unsaved => Found(manifestFile, p))

(* Queries see every point exactly once before, during and after a         *)
(* compaction, and never again after a sweep.                              *)
ExactlyOnce ==
    taints = {} =>
        \A p \in 1 .. written :
            IF p \in swept
              THEN ~Found(manifest, p)
              ELSE \E i \in DOMAIN manifest :
                      /\ dir[manifest[i].path][p] = 1
                      /\ \A k \in DOMAIN manifest \ {i} : dir[manifest[k].path][p] = 0

(* Retention deletes no point at or after the latest cutoff, not even from *)
(* a compacted file that mixes old and new blocks: the range of an entry   *)
(* is that of its file, as long as no file that a manifest lists, in       *)
(* memory or on disk, gets another content.                                *)
SweepsOnlyExpired ==
    taints \cap {"reuse", "staleEntry"} = {} =>
        \A p \in swept : \E c \in cutoffs : TimeOf[p] < c

(* A compaction ends, also when the sends on compactionDoneCh have to wait *)
(* for one another.                                                        *)
EveryCompactionEnds == \A j \in Jobs : (job[j].pc # "none") ~> (job[j].pc = "none")

(* README: compaction merges small segments into larger ones.  What was    *)
(* flushed and not swept can be read after compactions that run one after  *)
(* the other.                                                              *)
CompactionKeepsData ==
    Running = {} /\ "concurrent" \notin taints => \A p \in Remaining : Found(manifest, p)
=============================================================================
