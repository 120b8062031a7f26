-------------------------------- MODULE WAL --------------------------------
(***************************************************************************)
(* The write-ahead log: wal.Writer, its fsync goroutine, and wal.Replay    *)
(* (internal/wal/wal.go).                                                  *)
(*                                                                         *)
(* A record is two cells: its "head" (length and CRC, and any first part   *)
(* of the bytes) and its "body" (the rest).  A record cut by a crash is a  *)
(* head without its body.  Byte counts are counted in cells.               *)
(*                                                                         *)
(* `log' is the file followed by what the bufio.Writer still buffers: the  *)
(* writer appends to both in one order, and only a crash tells them apart. *)
(* Payloads are numbered by the order in which they are handed to Append.  *)
(***************************************************************************)
EXTENDS Naturals, Sequences

CONSTANTS
    ByteThreshold,   \* Writer.byteThreshold, also the size of Writer.buf
    MaxRecords,      \* bound: payloads handed to Append
    MaxLives,        \* bound: number of writers opened on the file
    MaxFaults        \* bound: failing write, fsync and save calls

ASSUME WALConstants ==
    /\ ByteThreshold \in Nat \ {0}
    /\ MaxRecords \in Nat /\ MaxLives \in Nat \ {0} /\ MaxFaults \in Nat

VARIABLES
    log,             \* cells of the file, then cells of the bufio buffer
    synced,          \* how many of them a successful fsync has covered
    offset,          \* Writer.offset
    start,           \* history: the file size NewWriter found
    bytesSinceFlush, \* Writer.bytesSinceFlush
    closed,          \* Writer.closed, or there is no process
    broken,          \* the sticky error of the bufio.Writer is set
    sent,            \* payloads handed to Append so far
    lives,           \* writers opened so far
    faults           \* faults injected so far

walVars == <<log, synced, offset, start, bytesSinceFlush, closed, broken,
             sent, lives, faults>>

HeadCell(r) == [rec |-> r, part |-> "head"]
BodyCell(r) == [rec |-> r, part |-> "body"]
Cells == [rec : Nat \ {0}, part : {"head", "body"}]

RecordCells == 2
-----------------------------------------------------------------------------
(* Faulty variant: a reader that trusts the length and skips the CRC.      *)
RecordAtNoCRC(l, n, p) ==
    /\ p + RecordCells <= n
    /\ l[p + 1].part = "head"

(* Reading.  Reader.Read succeeds at position p (0 based) iff a head is    *)
(* followed by the body its length and CRC were computed from; a short     *)
(* read and a CRC mismatch are both reported as EOF.                       *)
RecordAt(l, n, p) ==
    /\ p + RecordCells <= n
    /\ l[p + 1].part = "head"
    /\ l[p + 2] = BodyCell(l[p + 1].rec)

(* Replay of the first n cells of l from offset off: records are read one  *)
(* after the other until the first Read that returns EOF.                  *)
ReplayedAt(l, n, off, p) ==
    /\ RecordAt(l, n, p)
    /\ \E k \in 0 .. n : /\ p = off + RecordCells * k
                         /\ \A i \in 0 .. k : RecordAt(l, n, off + RecordCells * i)

Replay(l, n, off) ==
    {l[p + 1].rec : p \in {q \in off .. n : ReplayedAt(l, n, off, q)}}
-----------------------------------------------------------------------------
WALInit ==
    /\ log = <<>> /\ synced = 0 /\ offset = 0 /\ start = 0 /\ bytesSinceFlush = 0
    /\ closed = FALSE /\ broken = FALSE
    /\ sent = 0 /\ lives = 1 /\ faults = 0

(* A call into the operating system that fails.                            *)
Fault == faults < MaxFaults /\ faults' = faults + 1

WithRecord(r) == Append(Append(log, HeadCell(r)), BodyCell(r))

(* Append of the next payload that returns nil, with the flush that the    *)
(* byte threshold asks for.                                                *)
WriterAppend ==
    /\ ~closed /\ ~broken /\ sent < MaxRecords
    /\ sent' = sent + 1
    /\ log' = WithRecord(sent + 1)
    /\ offset' = offset + RecordCells
    /\ IF bytesSinceFlush + RecordCells >= ByteThreshold
         THEN synced' = Len(log) + RecordCells /\ bytesSinceFlush' = 0
         ELSE synced' = synced /\ bytesSinceFlush' = bytesSinceFlush + RecordCells
    /\ UNCHANGED <<start, closed, broken, lives, faults>>

(* buf.Write refuses at once: an earlier write error is sticky.            *)
AppendOnBroken ==
    /\ broken
    /\ UNCHANGED <<log, offset, bytesSinceFlush, broken, faults>>

(* buf.Write has to write the full buffer out first and that fails: at     *)
(* most the start of the record is in the buffer, and it is not counted.   *)
AppendSpillFails ==
    /\ ~broken /\ bytesSinceFlush + RecordCells > ByteThreshold
    /\ Fault
    /\ log' \in {log, Append(log, HeadCell(sent + 1))}
    /\ broken' = TRUE
    /\ UNCHANGED <<offset, bytesSinceFlush>>

(* The record is buffered and counted, then the threshold flush fails: in  *)
(* the write (sticky) or in the fsync (retried by the next flush).         *)
AppendFlushFails ==
    /\ ~broken /\ bytesSinceFlush + RecordCells >= ByteThreshold
    /\ Fault
    /\ log' = WithRecord(sent + 1)
    /\ offset' = offset + RecordCells
    /\ bytesSinceFlush' = bytesSinceFlush + RecordCells
    /\ broken' \in BOOLEAN

(* Append that returns an error.                                           *)
WriterAppendFails ==
    /\ ~closed /\ sent < MaxRecords
    /\ sent' = sent + 1
    /\ AppendOnBroken \/ AppendSpillFails \/ AppendFlushFails
    /\ UNCHANGED <<synced, start, closed, lives>>

(* flush(): write the buffer out, fsync, reset the counter.                *)
Flush ==
    /\ ~broken
    /\ synced' = Len(log) /\ bytesSinceFlush' = 0
    /\ UNCHANGED <<broken, faults>>

(* Faulty variant: the counter is reset although the flush failed.         *)
FlushFailsResets ==
    /\ \/ broken /\ UNCHANGED <<broken, faults>>
       \/ ~broken /\ Fault /\ broken' \in BOOLEAN
    /\ bytesSinceFlush' = 0
    /\ UNCHANGED synced

FlushFails ==
    /\ \/ broken /\ UNCHANGED <<broken, faults>>
       \/ ~broken /\ Fault /\ broken' \in BOOLEAN
    /\ UNCHANGED <<synced, bytesSinceFlush>>

(* Sync(), called by whoever holds the engine.                             *)
Sync ==
    /\ ~closed
    /\ Flush
    /\ UNCHANGED <<log, offset, start, closed, sent, lives>>

(* One tick of the fsyncLoop goroutine; it drops the error of flush().     *)
FsyncTick ==
    /\ ~closed /\ bytesSinceFlush > 0
    /\ Flush
    /\ UNCHANGED <<log, offset, start, closed, sent, lives>>

FsyncFails ==
    /\ ~closed
    /\ FlushFails
    /\ UNCHANGED <<log, offset, start, closed, sent, lives>>

(* What a stop that does not flush leaves of the log: everything fsynced   *)
(* and any part of the rest.                                               *)
LosesTail ==
    \E n \in synced .. Len(log) : log' = SubSeq(log, 1, n)

(* Close(): closed is set first, the error of flush() is dropped.          *)
Close ==
    /\ ~closed
    /\ closed' = TRUE
    /\ \/ Flush /\ log' = log
       \/ FlushFails /\ LosesTail
    /\ UNCHANGED <<offset, start, sent, lives>>

(* The process or the machine stops.                                       *)
Crash ==
    /\ ~closed
    /\ closed' = TRUE
    /\ LosesTail
    /\ UNCHANGED <<synced, offset, start, bytesSinceFlush, broken, sent, lives, faults>>

(* Faulty variants: the offset restarts at 0; the file is truncated, and   *)
(* taken for fsynced as it was, or not.                                    *)
NewWriterOffsetZero ==
    /\ closed /\ lives < MaxLives
    /\ closed' = FALSE /\ broken' = FALSE
    /\ lives' = lives + 1
    /\ offset' = 0 /\ start' = Len(log)
    /\ bytesSinceFlush' = 0
    /\ UNCHANGED <<log, synced, sent, faults>>

NewWriterTruncates ==
    /\ closed /\ lives < MaxLives
    /\ closed' = FALSE /\ broken' = FALSE
    /\ lives' = lives + 1
    /\ log' = <<>>
    /\ offset' = 0 /\ start' = 0
    /\ bytesSinceFlush' = 0
    /\ UNCHANGED <<synced, sent, faults>>

NewWriterDiscards ==
    /\ closed /\ lives < MaxLives
    /\ closed' = FALSE /\ broken' = FALSE
    /\ lives' = lives + 1
    /\ log' = <<>> /\ synced' = 0
    /\ offset' = 0 /\ start' = 0
    /\ bytesSinceFlush' = 0
    /\ UNCHANGED <<sent, faults>>

(* NewWriter on the existing file: O_APPEND, whatever the tail is.         *)
NewWriter ==
    /\ closed /\ lives < MaxLives
    /\ closed' = FALSE /\ broken' = FALSE
    /\ lives' = lives + 1
    /\ offset' = Len(log) /\ start' = Len(log)
    /\ bytesSinceFlush' = 0
    /\ UNCHANGED <<log, synced, sent, faults>>

WALNext ==
    \/ WriterAppend
    \/ WriterAppendFails
    \/ Sync
    \/ FsyncTick
    \/ FsyncFails
    \/ Close
    \/ Crash
    \/ NewWriter

(* The ticker keeps firing, so the fsync goroutine gets its turn.          *)
WALFairness == WF_walVars(FsyncTick)

WALSafety == WALInit /\ [][WALNext]_walVars
WALSpec == WALSafety /\ WALFairness
-----------------------------------------------------------------------------
(* Type invariant of the log.                                              *)
WALTypeOK ==
    /\ log \in Seq(Cells)
    /\ synced \in 0 .. Len(log)
    /\ offset \in Nat /\ start \in Nat /\ bytesSinceFlush \in Nat
    /\ closed \in BOOLEAN /\ broken \in BOOLEAN
    /\ sent \in 0 .. MaxRecords /\ lives \in 1 .. MaxLives
    /\ faults \in 0 .. MaxFaults

(* Offset() is the checkpoint the engine stores with a segment: while the  *)
(* writer works it must be exactly where the next record will start, over  *)
(* failed flushes, crashes and reopening of a file with a torn tail.       *)
OffsetIsEnd == ~closed /\ ~broken => offset = Len(log)

(* A head whose body was lost, with something appended behind it.          *)
TornAt(l, p) ==
    /\ p + RecordCells <= Len(l)
    /\ l[p + 1].part = "head"
    /\ l[p + 2] # BodyCell(l[p + 1].rec)

WholeAt(l, p) ==
    /\ p + RecordCells <= Len(l)
    /\ l[p + 1].part = "head"
    /\ l[p + 2] = BodyCell(l[p + 1].rec)

(* Replay from the start returns exactly the records that are whole in the *)
(* log and lie before the first torn one: nothing invented, nothing lost   *)
(* by misreading lengths, whatever the crashes and failed writes were.     *)
ReplayUpToTear ==
    \A p \in 0 .. Len(log) :
        (WholeAt(log, p) /\ \A q \in 0 .. p : ~TornAt(log, q))
            <=> ReplayedAt(log, Len(log), 0, p)

(* What replay would return after a crash right now never shrinks: fsync   *)
(* failures, crashes, reopening and torn tails never take back a record    *)
(* that was replayable from stable storage.                                *)
StableMonotone ==
    [][Replay(log, synced, 0) \subseteq Replay(log', synced', 0)]_walVars

(* Every record this writer put in the log reaches stable storage unless a *)
(* write error made the writer refuse everything or the process stopped:   *)
(* the fsync goroutine must not overlook bytes after a failed flush.       *)
(* (What an earlier writer left is not counted: the code fsyncs it only    *)
(* together with the next record.)                                         *)
EventuallySynced ==
    \A r \in 1 .. MaxRecords :
        (\E p \in start + 1 .. Len(log) : p > synced /\ log[p] = BodyCell(r))
            ~> \/ broken \/ closed
               \/ \E p \in 1 .. synced : log[p] = BodyCell(r)
=============================================================================
