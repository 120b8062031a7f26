# ChronoDB in TLA+

A verification project for ChronoDB, a single-node time-series database with an
agent that ships samples to it. The modules are translated from the Go source;
`PROJECT.json` maps every definition to the lines it stands for. TLC checks small
instances. The theorems of the `*Proofs` modules are checked by TLAPS and hold for
every value of the constants.

## The system

| part | state | operations | who calls it |
|---|---|---|---|
| write-ahead log (`internal/wal`) | file, bufio buffer, offset, bytes since the last flush | Append, Sync, fsync ticker goroutine, Close, NewWriter, Replay | engine goroutine, its own ticker |
| engine (`internal/engine`) | active and frozen memtable, flush counter, `cmdCh`, `flushDoneCh`, `compactionDoneCh` | write, batch, query, rotate, apply results, compaction, retention, recover, shutdown | HTTP handlers through `Submit` |
| flush goroutine | a frozen memtable, its path and log offset | create, write and close a segment, report | started by a rotation |
| compaction goroutine | candidates, merged points | read all, sort, write, report | started by CompactionCmd |
| manifest (`internal/manifest`) | list of segments and log offset, in memory and on disk | Add, RemoveBatch, SetWALOffset (each saves), Load | engine goroutine |
| segment files (`internal/segment`) | header, series data, index, footer | Writer.Write, ReadSeries, ReadAll | flush, compaction, query |
| memtable (`internal/memtable`) | sorted points of each series | Insert, Freeze, Get, GetAll | engine, flush |
| query (`internal/query`) | none | Merge, Filter, Aggregate, ReadSegments | engine |
| retention (`internal/retention`) | none | Sweep, DeleteFiles | engine |
| registry and index (`internal/series`, `internal/index`) | names by id, postings by metric and tag | GetOrCreate, Insert, Resolve | HTTP handlers, engine |
| agent (`internal/agent`, `batcher`, `shipper`) | two sample queues, a buffer, a queue of batches, the batch being sent | emit, Submit, flush, Send with retries, shutdown | collectors, signals |
| file tailer (`internal/collector`) | size and inode of the last poll | poll, read new lines, stop | agent |
| server (`cmd/chronodb`, `api/http`) | queue of commands, waiting handlers, index of this process | handlers, health probe, drain on a signal | clients, signals |
| other collectors, parsers, configuration | mostly none | read /proc, sockets | agent |

The engine is one goroutine that takes commands, ticks and results from
channels. Everything hard happens around it: flush and compaction goroutines
overlap with commands and with one another, their results arrive later and are
applied to a state that has moved on; the log, the manifest and the segments are
three things on disk that a crash can leave in disagreement; file names are
reused; errors of saves are ignored. The agent has three goroutines, bounded
channels and one context that stops all of them at once. Handlers wait for the
engine without a timeout; a restarted process knows no names. The file tailer
compares what it remembers with a file that another program changes meanwhile.
The codecs pack numbers into fixed widths and read back without knowing where a
series ends.

What makes each part correct:

* log: the offset is where the next record starts; replay returns the whole
  records up to the first torn one; what stable storage has it keeps; bytes get
  fsynced.
* engine: an acknowledged write is visible exactly once while it moves from
  memtable to frozen to segment; what was fsynced is recovered; the checkpoint
  does not move back; every flush ends.
* compaction and retention: no point is lost or repeated, only expired points
  are swept, every compaction ends.
* names and queries: the index finds exactly the matching series; a query
  returns the points of its range, sorted, once; buckets partition them.
* agent: every sample is delivered, refused or given up, once; duplicates come
  from lost answers only; a stopped agent returns.
* file tailer: a line of the file arrives, once; what counts as read was read.
* codecs: a series comes back as it was written, whatever follows it.
* server: a request is answered, an acknowledged write is found, a signal ends
  the process; a probe that fails on an idle engine recovers.

## Modules

| module | models | run by |
|---|---|---|
| `WAL` | log writer, fsync goroutine, reader | `wal` |
| `Store` | abstract: a set of visible writes, a durable part of it | refined by `Engine` |
| `Engine` (extends `WAL`) | engine goroutine, flush goroutines, manifest, segments, crash and restart | `engine`, `engine_flush`, `engine_path_reuse` |
| `Maintenance` | compaction and retention over manifest and files | `maintenance`, `maintenance_reuse` |
| `GoSort` | sort.Search and the sorted list of ids, from Go's package sort | `query_path` |
| `Catalog` (extends `GoSort`) | registry and inverted index | `query_path` |
| `SegmentFile` (extends `GoSort`) | layout of a version 1 segment and its reader | `query_path` |
| `QueryPath` (extends both) | points from Insert to the answer of a query | `query_path` |
| `Agent` | collectors, batcher, shipper, unreliable server | `agent` |
| `FileTailer` | file tailer beside a program that writes and rotates the file | `tailer` |
| `SegmentCodec` | the bytes of a series, versions 1 and 2, encoder and decoder | `codec` |
| `Server` | process: handlers, command queue, select loop, probe, drain, restart | `server`, `server_restart` |
| `LoopProofs` | lemmas that several proof modules use: least elements, loops, division | TLAPS |
| `EngineProofs` | theorems about `WAL`, `Engine` and the refinement of `Store` | TLAPS |
| `QueryProofs` | theorems about `Catalog`, `SegmentFile` and `QueryPath` | TLAPS |
| `CodecProofs` | theorems about `SegmentCodec` | TLAPS |
| `MaintenanceProofs`, `AgentProofs`, `TailerProofs`, `ServerProofs` | theorems about the module of that name | TLAPS |
| `MC*` | values of the constants for TLC | |

Definitions named "Faulty variant" are not part of the model: each is the
mutated form of the definition behind it, and the property listed with it in
`PROJECT.json` fails when it takes that definition's place.

### WAL

`log` is the file followed by what the bufio.Writer buffers; `synced` is how much
of it a successful fsync has covered. A record is two cells, a head (length and
CRC) and a body, so that a crash can cut between them. `Crash` keeps the fsynced
cells and any longer prefix; `NewWriter` reopens whatever is there. A failing
write makes the bufio.Writer refuse everything after it (`broken`); a failing
Append may leave its record in the buffer. Replay is a predicate on positions, not
a recursion, so that it can be proved about.

### Engine

One action per handler or step: `HandleWrite`, `HandleBatchWrite` with
`BatchAppend` per payload (other goroutines run in between, and the engine takes
nothing else), `MaybeRotateMemtable`, the flush goroutine of path n
(`FlushCreate`, `FlushWrite`, `FlushNothing`, `FlushSend`, `FlushFailsAt`), the
application of its result including Add and SetWALOffset, with failing saves
and with a stop between the two, `Shutdown`, `CrashEngine` and `Restart` (New and,
if `CallsRecover`, Recover). A write is a number; a memtable or file is the set
of writes in it. A missing, empty or cut file is `{}`, because the reader skips
all of these.

`taints` records the events after which the code no longer keeps all of its
promises: overlapping flushes, a failed flush, a truncated segment, a log
reopened behind a torn record or shorter than the checkpoint. Properties that
need an excuse name exactly the events that excuse them; `Accounted` needs none.
`engine_path_reuse` shows one of them happen; a torn tail behind which nothing is
replayed is what `ReplayUpToTear` says exactly, and `EventuallyVisible` says for how
long overlapping flushes hide a write.

`ImplementsStore` maps the engine to `Store`: writes appear one at a time,
nothing disappears while the process runs, a stop keeps all that is durable and
invents nothing, and the next process serves exactly what the stop left.

### Maintenance

A file is a bag of points. `HandleCompaction` selects candidates as SelectCandidates
does, the goroutine reads them one by one (others may delete or truncate them
meanwhile), truncates its output, writes it and reports; the result is applied with
Add, RemoveBatch and the deletion of the inputs, each of which may fail or be cut
off by a crash. A flush is one step of one point here; its own goroutine is in
`Engine`. It lists the segment in memory and saves twice, in Add and in
SetWALOffset, and ignores both errors: one save is enough for the manifest on disk,
and if both fail (`FlushSegmentSavesFail`) the point is `unsaved` until the next
save, `dropped` if the process stops before it. What becomes of its record in the
log is `Engine`'s question (`Recoverable`). RemoveBatch is the loop of the code, as
a recursive function.

Two events concern the names of files. A flush or compaction that truncates a file
still in use (`reuse`) can lose points. One that truncates a file which only the
manifest on disk lists (`staleEntry`, after a failed save) loses none, but after a
crash the old entry, with its old block range, stands for the new content, and the
next sweep can delete points that have not expired. The proof of
`SweepsOnlyExpired` asked for this case; TLC needs four points and two compactions
for it, more than the `maintenance` run has, so that the theorem and not the run
shows the property to be right about it.

### Catalog, SegmentFile, QueryPath

Names get ids by an arbitrary function: the hash runs over metric and tags
without a separator that a name could not contain, and in the checked instance two
names hash the same bytes: `cpu{core="1,host=a"}` and `cpu{core="1",host="a"}`. They are
one series, which has the tags of both. A posting is the string `k=v`, so the key
`core=1,host` with value `a` and the key `core` with value `1,host=a` are one tag, in the
instance under two metrics. `CatalogExact` says what Resolve finds in these terms.
Handlers register a name at any time, the engine inserts points later.
Points are kept as sorted slices; sort.Slice is any sorted permutation. A
segment file is a flat sequence of words with running offsets, an index in id
order that ReadSeries searches by bisection, and delta-encoded timestamps.
Compact reads whole files back and writes a new one. The references of the
properties are set comprehensions over all inserted points. The loops of the code
(bisection, the rounds of Merge, the segments of a query, the writer's series, sums)
are recursive functions of the number of rounds done, of which a loop invariant can
be proved.

### Agent

Samples are numbers. Submit refuses when the queue is full; the batcher's flush
sends or, after cancellation, drops its batch; Send tries `RetryMax + 1` times; a
post that returns an error may have stored any part of the batch. The mark that
Batcher.Flush enqueues travels through the queue like a sample, as in the code,
which gives it no special treatment. `Alive` ends when Agent.Run returns. `Pipeline`
lists the places of samples in the order in which they are passed, `Held` is what
they hold; `SamplesAccounted` says that a sample is in one of them or has one fate,
and that samples do not overtake one another (`Precedes`).

### FileTailer

The program that owns the file writes a line in up to three parts, takes the file
away, creates it again (with another inode or a freed one) or truncates it, before
any step of the tailer. One iteration of Run is a Stat, an open and a read. While
its buffer holds no newline, the bufio.Reader fills it with the next bytes of the
file, in steps (4096 bytes in the code) that end anywhere, with the program at work
in between. A fill may fail with another error than io.EOF (`ReadFails`): what came
with it is parsed like a last line, Run logs the error and moves its offset on. The
parser is the constant `Valid`: whole lines are accepted or not, a part of a line is
either. Stop and the context are one flag, `stopped`.

The code does lose and repeat lines, and the properties name exactly when: a line
written between the Stat and the end of the read is read again by the next poll
because readNewLines ignores its `end` (`raced`), one that was seen half written is
parsed in pieces (`split`), so is one of which the reader holds a part when the file
is truncated or a fill fails (`torn`), the lines that a failed read has not returned
are passed over for good (`missed`), and a file exchanged for one with the same
inode and at least the old size, a failed open, or an open that finds another file
than the Stat goes unnoticed (`taints`).

### SegmentCodec

Data is a sequence of bits, widths are constants, and the model keeps the order
of tests and the reads past the end as the code has them. A state is a sorted
series and what lies behind it in the file; the properties compare the decoder's
answer with the series. Three things the decoder does not undo are stated: an
escape of a timestamp (the varint is looked for 8 bytes too early), more than
`2^LeadBits - 1` leading zeros, and a series whose bytes exceed what decodeSeriesAt
reads. In version 1 the last one ends the process; in version 2 it is every
series of one point. The engine writes version 1 only.

### Server

A caller is an HTTP handler, or a goroutine of a program that embeds the engine:
compaction, retention and FlushDoneCmd have no HTTP handler. Write handlers
register the name and submit later, everybody waits for the answer. The engine
takes a command, a tick or a result; FlushDoneCmd makes it send on its own channel,
which is a step of its own because it can wait there forever (`Stuck`). Its payload
is modelled without a segment. Storage is reduced to sets of names; the end of the
process clears all but `segments`. Time is counted in seconds, up to `MaxSilence`. The
probe's limit (5 s) is below the tick interval (10 s), so an idle engine is
reported as unhealthy (503) until its next tick: `ProbeRecovers`. That a stuck engine
is noticed is no property, because only an embedding program can make it stuck.

## Runs

| run | shows |
|---|---|
| `wal` | offsets, replay, monotone stable storage and eventual fsync with 4 records, 3 writers, 2 faults |
| `engine` | the engine's invariants, the monotone checkpoint and the refinement of `Store`, with 3 writes, 2 rotations, one restart, one log fault and one file fault |
| `engine_flush` | three overlapping flushes and a channel of capacity 1: every flush ends, hidden writes become visible again |
| `engine_path_reuse` (violation) | the flush counter restarts at 0: a listed segment is truncated |
| `maintenance` | two compactions, flushes, sweeps, failing saves of each of them, a crash anywhere |
| `maintenance_reuse` (violation) | two compactions of as many segments, one after the other, leave an empty manifest |
| `query_path` | index, files, merge, filter and buckets against their references |
| `agent` | the pipeline with queues of capacity 1, two attempts, a cancellation anywhere |
| `tailer` | two lines, one of them written in parts, two files or contents, two inodes, fills that end anywhere and fail: lines arrive, once, and none is passed over |
| `codec` | every sorted series of up to four points from 7 timestamps and 3 values, followed by nothing or by ones |
| `server` | two callers, a queue of 1, four commands, two flushes, two processes |
| `server_restart` (violation) | a query of the restarted process does not find what a listed segment holds |

Two more disagreements are not runs of their own, because the passing properties
state them exactly: Agent.Run hangs in Flush when the batcher has gone with its queue
full (`StopsUnlessStuck`), and a record fsynced behind a torn one is never replayed
(`ReplayUpToTear`). `engine_flush` has CallsRecover FALSE, as in `cmd/chronodb`; the
`engine` run has it TRUE, as in the tests, because recovery is what it asks about.
With FALSE there `DurableVisible` is violated: a process that does not call Recover
serves nothing of what is only in the log, not even after an orderly shutdown.

Deadlock is not checked: all these systems may stop (the bounds are used up, the
process was shut down). What must not get stuck is stated as liveness instead.

### Bounds

All bounds are constants named "bound" in the modules. They are small, and
enough for the cases that matter:

* `wal`: three writers allow a torn tail, records behind it and one more crash;
  a `ByteThreshold` of 5 cells makes some Appends spill the buffer and others not.
* `engine`: three writes and two rotations allow flushes that overlap and end in
  either order, and a restart that reuses the path of the first; timestamps are
  out of order and tie, so block ranges are not trivial.
* `engine_flush`: `MemtableSize` 0 also rotates empty memtables; three jobs for a
  channel of one make senders wait.
* `maintenance`: three segments and two compactions of at most three candidates
  are what one compaction overlapping or following another needs; the cutoff
  lies between the points.
* `query_path`: three points reach active, frozen and a segment at once, and
  two or three segments with a compaction in between; timestamps lie on both
  sides of 0, in common and separate buckets, and at the largest integer; of the
  three names two share an id and two have tags that join to the same string.
* `agent`: with capacity 1 everywhere each channel is full, empty and blocked;
  four samples fill all of them.
* `tailer`: two contents are one rotation or truncation, two lines one before and
  one behind it; with two inodes the new file has another one or the old one.
  Line 1 may be written in up to three parts (`InParts`), line 2 is written whole.
* `codec`: bytes of 4 bits and words of 2 bytes keep the relations of the code
  (buckets narrower than a word, leading zeros that do not fit, a varint longer
  than a word); timestamps give every bucket, both of its ends, the escape and an
  overflowing delta.
* `server`: one queued command and one being forwarded make the third refused;
  FlushDoneCap 1 is filled by a flush or by an earlier FlushDoneCmd; two flushes
  overlap. `LivenessLimit` is below `FlushInterval` as in the code, and `MaxSilence`
  above it.

### Fairness

Weak fairness of goroutines that can run, nothing else: the fsync ticker keeps
firing (`WALFairness`); flush and compaction goroutines run, and the select of
Engine.Run takes a result that stays available (a Go select picks among ready
cases at random); a batch in progress goes on; the three goroutines of the agent
run, its tickers fire, and a post ends because the HTTP client has a timeout.
The tailer goroutine runs (its ticker fires, samples are taken from `out`). In
`Server` the select takes a command that stays available although ticks and results
keep coming, and receives something if anything is ready, a handler that has
registered goes on to Submit, time passes, and Shutdown returns at its deadline.
Nothing is assumed of clients, rotations, faults or signals.

## Proofs

Every theorem holds for all values of the constants that satisfy the `ASSUME`s
of the modules (`WALConstants`, `EngineConstants`, ...), which say no more than that
bounds are natural numbers, capacities and sizes positive where `make` or the
configuration has them so, and names distinct (`Nobody` is no caller). TLC evaluates
them in every run. Each proof has the same shape: an invariant that is inductive,
one lemma per action or group of actions that says the action keeps it, and a
last step by temporal logic. Inductive invariants were checked by TLC on the
instances of the runs before they were proved.

A loop of the code is a recursive function over the number of its round. That
it exists and steps as its definition says is `LoopExists` and `LoopRound` in
`LoopProofs`; what holds after every round is shown through the least round at
which it does not (`Least`, `UpTo`, from the well-foundedness of < on the
natural numbers).

`EngineProofs`, about the log:

* `WALTypeCorrect`; `StableStorageMonotone` from it with the lemmas that a step
  keeps the fsynced cells (`SyncedKept`) and that replay of a longer log returns
  no less (`ReplayMonotone`); `OffsetCorrect`; `NoInventedRecords`.
* `ReplayCorrect`: replay finds exactly the whole records before the first tear.
  The inductive invariant is `LogInStep`: before the first tear heads stand at
  even and bodies at odd positions. Cutting the log and appending heads and
  bodies each keep it (`InStepCut`, `InStepHead`, `InStepBody`).

`EngineProofs`, about the engine:

* `EngineImplementsWAL`: every step of the engine is a step of the log or leaves
  it alone, so the theorems above hold inside the engine.
* `EngineTypeCorrect`, with the range of the batch in progress as strengthening.
* `AcknowledgedWritesAccounted`: an acknowledged write is in the active memtable,
  in an unapplied flush, in a listed segment, or was dropped by a failed flush,
  for any number of overlapping flushes, faults and restarts. `Accounted` is not
  inductive: a flush truncates and fills files, and its result replaces its
  data. `AccountedInv` adds that nothing holds a write of the future (`OnlyOld`),
  that the applied part of a batch is in active (`BatchApplied`), that a path not
  yet written by this process holds nothing this process acknowledged
  (`FreshPaths`, `UnusedPaths`), and that a reported result is what the file holds
  (`HonestResults`).
* `CheckpointNeverMovesBack`, an action property: without overlap there is at most
  one unapplied flush (`OneFlush`), and the checkpoints on disk and in memory, the
  offset of that flush and the writer's offset ascend (`CheckpointOrder`). The one
  thing that breaks the chain otherwise is a log reopened shorter than the
  checkpoint.
* `QueriesExact`: a query finds each acknowledged write exactly once. `PlacesInv`
  says that a write of this process is in one place only (`OnePlace`), that files
  get their content when the job writes them (`Unwritten`), that block ranges cover
  what is behind them (`JobRange`, `ListedRange`), that no path is listed twice, and
  that the frozen memtable is the data of the flush under way.

The steps of the flush goroutine and of the application of its result are
summarised by `FlushMoves` and `ApplyMoves`, which the lemmas use in place of the
actions.

The theorems about recovery have the hypothesis `CallsRecover`: a process
that does not call Recover after New, as `cmd/chronodb` does not, serves nothing of
what is only in the log, and none of the three would be true of it. The `engine`
run checks them under the same value.

* `SyncedIsRecoverable` and `RestartServesDurable` rest on what the checkpoints
  cover. `LogRegular`: until the log is reopened behind a torn record, heads and
  bodies alternate in the whole log and all offsets stand between records.
  `CoverInv`: what lies before a checkpoint, on disk (`FileCovered`), in memory
  (`MemoryCovered`) or of an unapplied flush (`JobsCovered`), is in the segments
  behind it, and the whole log is visible (`LogCovered`). Replay from the
  checkpoint therefore returns all the rest.
* `EngineImplementsStore`: the initial state maps to that of `Store`, and each
  engine step to Put, Refuse, Harden, Stop, Start, Degrade or a stutter. The
  mapped points are `Visible` while the process runs and `Stored` while it does not;
  that both agree across Restart is what `CoverInv` is needed for.

`MaintenanceProofs`:

* `MaintenanceTypeCorrect`, with the shape of a running job (`JobShape`).
* `CompactionLosesNothing` (`KeepInv`): until a file in use is truncated, the
  output of each compaction belongs to it alone and holds its data
  (`OutputsOwned`), a compaction has read what its candidates still hold
  (`ReadsCover`), and each point that remains is in a file that the manifest in
  memory and, unless no save has come since its flush, the one on disk list
  (`ListedTwice`), although compactions overlap, inputs vanish under them, saves
  fail and the process stops.
* `RetentionDeletesOnlyExpired` (`SpanInv`): the block range of every entry, in both
  manifests, reaches to the end of its file. This was false of an earlier form of
  the property, see `staleEntry` above.
* `EachPointOnce` (`OnceInv`): while nothing of `Hazards` has happened, the two
  manifests agree, one compaction runs, no two listed files share a point, and
  its data are exactly the points of the candidates it has read.
* Lemmas on RemoveBatch: it keeps exactly the entries with other paths
  (`RemoveBatchKeeps`), and no path twice if none was listed twice.

`AgentProofs`:

* `AgentTypeCorrect`, with the shapes of the batcher and shipper states.
* `EverySampleOnce`: `OrderInv` says that the places of the pipeline are each in
  order and that everything in one came before everything in the next (`Chain`);
  with it no sample can be in two places. `FateInv` adds the fates.
* `OnlyRetriesDuplicate` (`StoredInv`): the server has stored only samples that are
  in the batch being sent or have left the agent, those of the current batch at
  most once per attempt made.

`TailerProofs`, the longest: the file is changed by another program before any
step of the tailer.

* `TailerTypeCorrect`, with files used in order and the latest under the path.
* `FilesInv` is about the program alone: files hold consecutive pieces of the
  lines, in order (`WrittenInOrder`), and where a file begins or ends within a
  line, that line is `split` (`HalvesAreSplit`).
* `LinesArriveOnce` (`TailInv`): the remembered size and inode are those of the file
  of the last Stat (`Followed`); what lies behind the Stat of a poll is `raced`
  (`BehindStat`); the reader's buffer is a piece of that file up to the read
  position, or, once the file was truncated, what is in it is `raced` or a piece of a
  line that is `torn` (`BufferInv`); a line that was sent is
  behind the tailer and no longer in the buffer (`ArrivedOnce`, `SendingInv`).
* `OffsetWasRead` (`ReadInv`): while the tailer follows the file, each complete line
  in front of what it has consumed was sent or is about to be, unless a failed
  read passed over it (`ConsumedArrives`, `RestMissed`).

`ServerProofs`:

* `ServerTypeCorrect` with `CallsInv`: each waiting caller has exactly one command,
  in the queue or in the engine's hands.
* `AckedNamesAreFound`: handlers register before they submit (`NamesResolve`), and
  what was acknowledged is in a memtable, a flush under way, a segment or a
  dropped flush (`NamesStored`), over overlapping flushes.
* `StuckUntilExit`: an engine that waits on its own channel waits until the process
  ends, so the exception of `EveryRequestAnswered` is no passing state.

`QueryProofs`, about what queries stand on:

* `IndexExact`. `CatalogInv` says that registry and postings are functions of the
  set of registered names, in whatever order the handlers registered them. A
  filter then selects the matching ids (`FoundMatches`), also when ids or joined
  tags coincide, and a finite set of ids has an ascending order
  (`OrderExists`, by the least cardinality without one).
* `SearchFinds`: a bisection ends at the first index at which a monotone predicate
  holds.
* The segment file, in words: the writer's offsets are where the blocks begin and
  the index ascends (`WriterWrites`), header, data, index and footer are where the
  reader looks for them (`SegmentPlaces`), decoding a block undoes encoding it
  (`DecodeAt`), so reading a series gives what was written or, for other ids,
  nothing (`SegmentReads`), and ReadAll gives the map back without its empty
  series (`SegmentReadAll`).

`QueryProofs`, about queries, for any number of series, points, segments and any widths:

* `PointsPlaced` (`PointsInv`): for each id the points of the active memtable, of the
  frozen memtable and of each listed file are a partition of the points inserted
  (`Partition`); each is a sorted slice without repetition; each file is one that the
  writer made, with a block range around its points (`SegmentSet`). Insert, Freeze,
  Flush and Compact each move sets of the partition; `Compacted` says where segments
  stand after two have been taken out of the list. `QueryTyped` follows.
* `QueryExact`: what a list has in front of its index is in the output, nothing else
  is, and no point in the output is later than one that is still to come
  (`MergeInv`), so each round of Merge takes a least point and the last has taken
  all below math.MaxInt64 (`MergeMerges`); Filter cuts a sorted slice at both bounds
  (`FilterKeeps`); a segment that the block range excludes has no point of the range
  (`OverlappingChosen`, `SegmentsAnswer`). The lists that are merged are disjoint
  because the places are.
* `AggregateCounts` and `AggregateExact`: every quotient lies between 0 and the number of
  buckets, which needs the points sorted and truncating division to be monotone
  (`QuotRange`, also for negative timestamps), so each point has exactly one bucket
  and the counts add up (`CountsAll`). For timestamps that are not negative a bucket is
  the interval from its start (`BucketOf`); its sum, over the positions of a sorted
  slice, is that of its values, each of which occurs once (`SumAtIs`).

`CodecProofs`, for any number of points and any widths that satisfy
`CodecConstants` (words fit into the timestamps and values they encode, the
numbers of zeros into the bits they are given, a series into the length that
stands in front of it; 8, 8, <<7, 9, 12>>, 5 and 6 of the code do). It rests on
one predicate: `Holds(d, p, s)`, the bits s stand in the data d behind the first p.

* Bits and numbers: `NumberBits` and `BitsNumber` (the digits of a number are its
  bits, and back), `ReadsWord` (bytes low first), `ReadsUvarint` (groups low first; the
  reader finds the last group, whatever follows) and `ReadsVarint` (the sign).
* A buffer that a loop appends to is held by every longer buffer, so each part
  stands where the length of the buffer before it says (`BufferHolds`,
  `ChainHolds`). The invariant of each decoding loop is that the reader stands
  where the writer stood and has what the writer had: the offset and the timestamp
  (`ReadsDeltas`), the position, the delta and the timestamp (`ReadsTimestamps`, with
  `ReadsDod` for the buckets), the position, the window of zeros and the value
  (`ReadsValues`, with `ReadsXor`, `InWindow` and `OwnIs` for the middle bits and `Cancels`
  for the exclusive or).
* `V1RoundTripHolds`: a buffer within what decodeSeriesAt reads is the series, and
  for a longer one the loop over the deltas still succeeds and the values slice
  past the end (`V1Reads`).
* `V2RoundTripHolds`: its three parts are `ComesBack`, `AloneCorrupt` (one point takes a
  byte more than is read, so its values are short of a word) and `NeverComesBack`:
  with too many leading zeros the reader sees fewer of them than the writer, takes
  more middle bits, and the first of them, a one, lands further to the left than
  it was (`ReadsNarrow`, `LosesValue`).

Only model-checked:

* Liveness (`EventuallyVisible`, `LinesArrive`, the answers of the server, ...): it
  needs fairness and ENABLED, which TLAPS does not handle.

## Limits of the model

* Only the log distinguishes written from fsynced bytes. Segments and the
  manifest are not fsynced by the code; a power failure that loses them is not
  modelled, a stop of the process at any step is.
* The modules of the storage path use cells and words; byte widths and overflow
  of timestamps are in `SegmentCodec` only (narrow in its run, any in its proofs). The checksum of a
  segment, which no reader looks at, is left out.
* The hash is any function. Metrics are left out.
* `Server` identifies names and not points; that a restarted process truncates a
  listed segment or fails to save the manifest is in `Engine`.
* The unlocked index maps: a detected race stops the process, which is a crash.

### Not modelled

* Line parsers: JSON and regular expressions over strings, without state.
* StatsD listener and Docker collector: one loop each that reads a socket or an
  HTTP API, parses and sends; no state survives an iteration. Their samples
  enter the model as `Emit` of `Agent`.
* System collector beyond `emit`: arithmetic over two snapshots of /proc.
* Configuration, request decoding, listings and embedded pages of the HTTP API.

## Plan

Done: all modules of the table; the theorems above, which state every safety
property of a passing run. What could come next is one level below the models:
the grouping of samples into series in the shipper and the snapshots of the
system collector.
