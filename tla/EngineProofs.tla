---------------------------- MODULE EngineProofs ----------------------------
(***************************************************************************)
(* Proofs about the storage engine, for every number of writes, flushes,   *)
(* restarts and faults, every memtable size and channel capacity: what     *)
(* its write-ahead log keeps on stable storage, what a running engine      *)
(* keeps and serves and, for a program that calls Recover after New, that  *)
(* what is on stable storage is never lost and is served again.            *)
(***************************************************************************)
EXTENDS Engine, TLAPS

-----------------------------------------------------------------------------
(* The write-ahead log, for every threshold and number of writers.         *)

(* Cells are added behind the fsynced ones and cut only behind them.       *)
LEMMA TypeStep == WALTypeOK /\ [WALNext]_walVars => WALTypeOK'
<1> SUFFICES ASSUME WALTypeOK, [WALNext]_walVars PROVE WALTypeOK'
  OBVIOUS
<1> USE WALConstants DEF WALTypeOK, RecordCells
<1>c. \A r \in Nat \ {0} : HeadCell(r) \in Cells /\ BodyCell(r) \in Cells
  BY DEF HeadCell, BodyCell, Cells
<1>r. ASSUME sent < MaxRecords
      PROVE  /\ WithRecord(sent + 1) \in Seq(Cells)
             /\ Len(WithRecord(sent + 1)) = Len(log) + 2
             /\ Append(log, HeadCell(sent + 1)) \in Seq(Cells)
             /\ Len(Append(log, HeadCell(sent + 1))) = Len(log) + 1
  BY <1>c, <1>r DEF WithRecord
<1>t. ASSUME LosesTail PROVE log' \in Seq(Cells) /\ synced \in 0 .. Len(log')
  BY <1>t DEF LosesTail
<1>1. CASE WriterAppend
  BY <1>1, <1>r DEF WriterAppend
<1>2. CASE WriterAppendFails
  <2>1. sent < MaxRecords
    BY <1>2 DEF WriterAppendFails
  <2>2. CASE AppendOnBroken
    BY <1>2, <2>2 DEF WriterAppendFails, AppendOnBroken
  <2>3. CASE AppendSpillFails
    BY SMTT(30), <1>2, <1>r, <2>1, <2>3 DEF WriterAppendFails, AppendSpillFails, Fault
  <2>4. CASE AppendFlushFails
    BY <1>2, <1>r, <2>1, <2>4 DEF WriterAppendFails, AppendFlushFails, Fault
  <2> QED BY <1>2, <2>2, <2>3, <2>4 DEF WriterAppendFails
<1>3. CASE Sync
  BY <1>3 DEF Sync, Flush
<1>4. CASE FsyncTick
  BY <1>4 DEF FsyncTick, Flush
<1>5. CASE FsyncFails
  BY <1>5 DEF FsyncFails, FlushFails, Fault
<1>6. CASE Close
  <2>1. CASE Flush /\ log' = log
    <3>1. closed' \in BOOLEAN /\ broken' \in BOOLEAN
      BY <1>6, <2>1 DEF Close, Flush
    <3>2. synced' \in 0 .. Len(log') /\ bytesSinceFlush' \in Nat
      BY <2>1 DEF Flush
    <3> QED BY <1>6, <2>1, <3>1, <3>2 DEF Close, Flush
  <2>2. CASE FlushFails /\ LosesTail
    BY <1>6, <2>2, <1>t DEF Close, FlushFails, Fault
  <2> QED BY <1>6, <2>1, <2>2 DEF Close
<1>7. CASE Crash
  BY <1>7, <1>t DEF Crash
<1>8. CASE NewWriter
  <2>1. closed' \in BOOLEAN /\ broken' \in BOOLEAN
    BY <1>8 DEF NewWriter
  <2>2. /\ offset' \in Nat /\ start' \in Nat
        /\ lives' \in 1 .. MaxLives
    BY <1>8 DEF NewWriter
  <2>3. bytesSinceFlush' = 0 /\ UNCHANGED <<log, synced, sent, faults>>
    BY <1>8 DEF NewWriter
  <2> QED BY <2>1, <2>2, <2>3
<1>9. CASE UNCHANGED walVars
  BY <1>9 DEF walVars
<1> QED BY <1>1, <1>2, <1>3, <1>4, <1>5, <1>6, <1>7, <1>8, <1>9 DEF WALNext

(* The log has its type in every reachable state: in particular no fsync   *)
(* is ever claimed for bytes that a crash or a reopening took away.        *)
THEOREM WALTypeCorrect == WALSafety => []WALTypeOK
<1>1. ASSUME WALInit PROVE WALTypeOK
  <2>1. log \in Seq(Cells) /\ Len(log) = 0
    BY <1>1 DEF WALInit
  <2>2. closed \in BOOLEAN /\ broken \in BOOLEAN
    BY <1>1 DEF WALInit
  <2> QED BY <1>1, <2>1, <2>2, WALConstants DEF WALInit, WALTypeOK
<1> QED BY <1>1, TypeStep, PTL DEF WALSafety
-----------------------------------------------------------------------------
(* How one step may change the log.                                        *)
LEMMA LogStep ==
    ASSUME WALTypeOK, [WALNext]_walVars
    PROVE  \/ log' = log
           \/ sent < MaxRecords /\ log' = Append(log, HeadCell(sent + 1))
           \/ sent < MaxRecords /\ log' = WithRecord(sent + 1)
           \/ LosesTail
<1>1. CASE WriterAppend
  BY <1>1 DEF WriterAppend
<1>2. CASE WriterAppendFails
  BY <1>2 DEF WriterAppendFails, AppendOnBroken, AppendSpillFails, AppendFlushFails
<1>3. CASE Sync \/ FsyncTick \/ FsyncFails
  BY <1>3 DEF Sync, FsyncTick, FsyncFails
<1>4. CASE Close \/ Crash
  BY <1>4 DEF Close, Crash
<1>5. CASE NewWriter
  BY <1>5 DEF NewWriter
<1>6. CASE UNCHANGED walVars
  BY <1>6 DEF walVars
<1> QED BY <1>1, <1>2, <1>3, <1>4, <1>5, <1>6 DEF WALNext

(* The fsynced cells stay where they are, and stay fsynced.                *)
LEMMA SyncedKept ==
    ASSUME WALTypeOK, [WALNext]_walVars
    PROVE  /\ synced <= synced'
           /\ synced <= Len(log')
           /\ \A p \in 1 .. synced : log'[p] = log[p]
<1> USE DEF WALTypeOK
<1>1. synced <= synced'
  <2>1. CASE WriterAppend
    BY <2>1 DEF WriterAppend, RecordCells
  <2>2. CASE WriterAppendFails
    BY <2>2 DEF WriterAppendFails
  <2>3. CASE Sync \/ FsyncTick \/ FsyncFails
    BY <2>3 DEF Sync, FsyncTick, FsyncFails, Flush, FlushFails
  <2>4. CASE Close \/ Crash
    BY <2>4 DEF Close, Crash, Flush, FlushFails
  <2>5. CASE NewWriter
    BY <2>5 DEF NewWriter
  <2>6. CASE UNCHANGED walVars
    BY <2>6 DEF walVars
  <2> QED BY <2>1, <2>2, <2>3, <2>4, <2>5, <2>6 DEF WALNext
<1>c. \A r \in Nat \ {0} : HeadCell(r) \in Cells /\ BodyCell(r) \in Cells
  BY DEF HeadCell, BodyCell, Cells
<1>2. CASE log' = log
  BY <1>1, <1>2
<1>3. CASE sent < MaxRecords /\ log' = Append(log, HeadCell(sent + 1))
  BY <1>1, <1>3, <1>c, WALConstants
<1>4. CASE sent < MaxRecords /\ log' = WithRecord(sent + 1)
  BY <1>1, <1>4, <1>c, WALConstants DEF WithRecord
<1>5. CASE LosesTail
  BY <1>1, <1>5 DEF LosesTail
<1> QED BY <1>2, <1>3, <1>4, <1>5, LogStep

(* Replay of a longer log returns at least what replay of its prefix does. *)
LEMMA ReplayMonotone ==
    ASSUME NEW l \in Seq(Cells), NEW a \in 0 .. Len(l),
           NEW m \in Seq(Cells), NEW b \in 0 .. Len(m),
           a <= b, \A p \in 1 .. a : m[p] = l[p],
           NEW off \in Nat
    PROVE  Replay(l, a, off) \subseteq Replay(m, b, off)
<1>1. ASSUME NEW p \in Nat, RecordAt(l, a, p)
      PROVE  RecordAt(m, b, p) /\ m[p + 1] = l[p + 1]
  BY <1>1 DEF RecordAt, RecordCells
<1>2. SUFFICES ASSUME NEW q \in off .. a, ReplayedAt(l, a, off, q)
               PROVE  q \in off .. b /\ ReplayedAt(m, b, off, q) /\ m[q + 1] = l[q + 1]
  BY DEF Replay
<1>3. PICK k \in 0 .. a : /\ q = off + RecordCells * k
                          /\ \A i \in 0 .. k : RecordAt(l, a, off + RecordCells * i)
  BY <1>2 DEF ReplayedAt
<1>4. \A i \in 0 .. k : RecordAt(m, b, off + RecordCells * i)
  <2> TAKE i \in 0 .. k
  <2>1. off + RecordCells * i \in Nat
    BY DEF RecordCells
  <2> QED BY <1>1, <1>3, <2>1
<1>5. RecordAt(m, b, q) /\ m[q + 1] = l[q + 1]
  BY <1>1, <1>2 DEF ReplayedAt
<1>6. k \in 0 .. b /\ q \in off .. b
  BY <1>2
<1> QED BY <1>3, <1>4, <1>5, <1>6 DEF ReplayedAt

(* Stable storage never takes a replayable record back: for every run of   *)
(* Appends, failed flushes, crashes and reopened writers.                  *)
THEOREM StableStorageMonotone == WALSafety => StableMonotone
<1>1. ASSUME WALTypeOK, WALTypeOK', [WALNext]_walVars
      PROVE  Replay(log, synced, 0) \subseteq Replay(log', synced', 0)
  <2>1. synced <= synced' /\ \A p \in 1 .. synced : log'[p] = log[p]
    BY <1>1, SyncedKept
  <2> QED BY <1>1, <2>1, ReplayMonotone DEF WALTypeOK
<1> QED BY <1>1, WALTypeCorrect, PTL DEF WALSafety, StableMonotone
-----------------------------------------------------------------------------
(* Offset() of a working writer is the end of its log.                     *)
THEOREM OffsetCorrect == WALSafety => []OffsetIsEnd
<1>1. WALInit => OffsetIsEnd
  BY DEF WALInit, OffsetIsEnd
<1>2. ASSUME WALTypeOK, OffsetIsEnd, [WALNext]_walVars PROVE OffsetIsEnd'
  <2> USE <1>2 DEF OffsetIsEnd, WALTypeOK
  <2>r. ASSUME sent < MaxRecords PROVE Len(WithRecord(sent + 1)) = Len(log) + 2
    BY <2>r, WALConstants DEF WithRecord, HeadCell, BodyCell, Cells
  <2>1. CASE WriterAppend
    BY <2>1, <2>r DEF WriterAppend, RecordCells
  <2>2. CASE WriterAppendFails
    BY <2>2, <2>r DEF WriterAppendFails, AppendOnBroken, AppendSpillFails,
                      AppendFlushFails, RecordCells
  <2>3. CASE Sync \/ FsyncTick \/ FsyncFails
    BY <2>3 DEF Sync, FsyncTick, FsyncFails, Flush, FlushFails
  <2>4. CASE Close \/ Crash
    BY <2>4 DEF Close, Crash
  <2>5. CASE NewWriter
    BY <2>5 DEF NewWriter
  <2>6. CASE UNCHANGED walVars
    BY <2>6 DEF walVars
  <2> QED BY <2>1, <2>2, <2>3, <2>4, <2>5, <2>6 DEF WALNext
<1> QED BY <1>1, <1>2, WALTypeCorrect, PTL DEF WALSafety
-----------------------------------------------------------------------------
(* Before the first torn record heads and bodies alternate: the reader is  *)
(* never out of step with the writer.                                      *)
InStep(l) ==
    \A p \in 0 .. Len(l) - 1 :
        (\A q \in 0 .. p - 1 : ~TornAt(l, q))
            => (l[p + 1].part = "head" <=> p % 2 = 0)

LogInStep == InStep(log)

(* Neighbours of a number differ from it in parity.                        *)
LEMMA Parity ==
    ASSUME NEW x \in Nat
    PROVE  /\ x % 2 # 0 => x >= 1 /\ (x - 1) % 2 = 0
           /\ x >= 1 /\ (x - 1) % 2 = 0 => x % 2 # 0
  OBVIOUS

(* A prefix of a log that is in step is in step: what a crash leaves.      *)
LEMMA InStepCut ==
    ASSUME NEW l \in Seq(Cells), InStep(l), NEW n \in 0 .. Len(l)
    PROVE  InStep(SubSeq(l, 1, n))
<1> DEFINE m == SubSeq(l, 1, n)
<1>1. Len(m) = n /\ \A p \in 1 .. n : m[p] = l[p]
  OBVIOUS
<1>2. SUFFICES ASSUME NEW p \in 0 .. n - 1, \A q \in 0 .. p - 1 : ~TornAt(m, q)
               PROVE  m[p + 1].part = "head" <=> p % 2 = 0
  BY <1>1 DEF InStep
<1>3. \A q \in 0 .. p - 1 : ~TornAt(l, q)
  BY <1>1, <1>2 DEF TornAt, RecordCells
<1>4. l[p + 1].part = "head" <=> p % 2 = 0
  BY <1>3 DEF InStep
<1> QED BY <1>1, <1>4

(* A log in step stays in step when a head is appended.                    *)
LEMMA InStepHead ==
    ASSUME NEW l \in Seq(Cells), InStep(l), NEW r \in Nat \ {0}
    PROVE  InStep(Append(l, HeadCell(r)))
<1> DEFINE m == Append(l, HeadCell(r))
           L == Len(l)
<1>1. /\ L \in Nat /\ Len(m) = L + 1 /\ m[L + 1] = HeadCell(r)
      /\ \A p \in 1 .. L : m[p] = l[p]
  BY DEF HeadCell, Cells
<1>2. SUFFICES ASSUME NEW p \in 0 .. Len(m) - 1, \A q \in 0 .. p - 1 : ~TornAt(m, q)
               PROVE  m[p + 1].part = "head" <=> p % 2 = 0
  BY DEF InStep
<1> HIDE DEF m, L
<1>p. p \in 0 .. L
  BY <1>1
<1>3. ASSUME NEW q \in Nat, TornAt(l, q) PROVE TornAt(m, q)
  BY <1>1, <1>3 DEF TornAt, RecordCells, L
<1>4. \A q \in 0 .. p - 1 : ~TornAt(l, q)
  BY <1>2, <1>3
<1>5. CASE p < L
  <2>1. l[p + 1].part = "head" <=> p % 2 = 0
    BY <1>1, <1>4, <1>5 DEF InStep, L
  <2> QED BY <1>1, <1>5, <2>1
<1>6. CASE p = L /\ L % 2 = 0
  BY <1>1, <1>6 DEF HeadCell
<1>7. CASE p = L /\ L % 2 # 0
  <2>1. L >= 1 /\ (L - 1) % 2 = 0
    BY <1>1, <1>7, Parity
  <2>2. l[L].part = "head"
    <3>1. \A q \in 0 .. (L - 1) - 1 : ~TornAt(l, q)
      BY <1>1, <1>4, <1>7
    <3>2. L - 1 \in 0 .. Len(l) - 1 /\ (L - 1) + 1 = L
      BY <1>1, <2>1 DEF L
    <3>3. l[(L - 1) + 1].part = "head" <=> (L - 1) % 2 = 0
      BY <3>1, <3>2 DEF InStep
    <3> QED BY <2>1, <3>2, <3>3
  <2>3. TornAt(m, L - 1)
    <3>1. m[L].part = "head" /\ m[L + 1] = HeadCell(r)
      BY <1>1, <2>1, <2>2
    <3>2. HeadCell(r) # BodyCell(m[L].rec)
      BY DEF HeadCell, BodyCell
    <3> QED BY <1>1, <2>1, <3>1, <3>2 DEF TornAt, RecordCells
  <2> QED BY <1>1, <1>2, <1>7, <2>1, <2>3
<1> QED BY <1>1, <1>p, <1>5, <1>6, <1>7

(* A log in step stays in step when a body follows its head.               *)
LEMMA InStepBody ==
    ASSUME NEW l \in Seq(Cells), InStep(l), NEW r \in Nat \ {0},
           Len(l) > 0, l[Len(l)] = HeadCell(r)
    PROVE  InStep(Append(l, BodyCell(r)))
<1> DEFINE m == Append(l, BodyCell(r))
           L == Len(l)
<1>1. /\ L \in Nat /\ Len(m) = L + 1 /\ m[L + 1] = BodyCell(r)
      /\ \A p \in 1 .. L : m[p] = l[p]
  BY DEF BodyCell, Cells
<1>2. SUFFICES ASSUME NEW p \in 0 .. Len(m) - 1, \A q \in 0 .. p - 1 : ~TornAt(m, q)
               PROVE  m[p + 1].part = "head" <=> p % 2 = 0
  BY DEF InStep
<1> HIDE DEF m, L
<1>p. p \in 0 .. L
  BY <1>1
<1>3. ASSUME NEW q \in Nat, TornAt(l, q) PROVE TornAt(m, q)
  BY <1>1, <1>3 DEF TornAt, RecordCells, L
<1>4. \A q \in 0 .. p - 1 : ~TornAt(l, q)
  BY <1>2, <1>3
<1>5. CASE p < L
  <2>1. l[p + 1].part = "head" <=> p % 2 = 0
    BY <1>1, <1>4, <1>5 DEF InStep, L
  <2> QED BY <1>1, <1>5, <2>1
<1>6. CASE p = L
  <2>1. L > 0 /\ l[L].part = "head"
    BY DEF HeadCell, L
  <2>2. (L - 1) % 2 = 0
    <3>1. \A q \in 0 .. (L - 1) - 1 : ~TornAt(l, q)
      BY <1>1, <1>4, <1>6
    <3>2. L - 1 \in 0 .. Len(l) - 1 /\ (L - 1) + 1 = L
      BY <1>1, <2>1 DEF L
    <3>3. l[(L - 1) + 1].part = "head" <=> (L - 1) % 2 = 0
      BY <3>1, <3>2 DEF InStep
    <3> QED BY <2>1, <3>2, <3>3
  <2>3. p % 2 # 0
    BY <1>1, <1>6, <2>1, <2>2, Parity
  <2> QED BY <1>1, <1>6, <2>3 DEF BodyCell
<1> QED BY <1>1, <1>p, <1>5, <1>6

(* In a log that is in step, replay reads exactly up to the first tear.    *)
LEMMA InStepReplay ==
    ASSUME WALTypeOK, InStep(log)
    PROVE  ReplayUpToTear
<1> DEFINE n == Len(log)
<1>0. n \in Nat
  BY DEF WALTypeOK
<1>1. ASSUME NEW p \in 0 .. n, WholeAt(log, p), \A q \in 0 .. p : ~TornAt(log, q)
      PROVE  ReplayedAt(log, n, 0, p)
  <2>1. p % 2 = 0
    BY <1>0, <1>1 DEF WholeAt, InStep, RecordCells
  <2>2. PICK k \in 0 .. n : p = 2 * k
    BY <1>0, <2>1
  <2>3. ASSUME NEW i \in 0 .. k PROVE RecordAt(log, n, 2 * i)
    <3>1. 2 * i \in 0 .. p /\ (2 * i) % 2 = 0
      BY <2>2
    <3>2. p + 2 <= n
      BY <1>1 DEF WholeAt, RecordCells
    <3>3. log[2 * i + 1].part = "head"
      BY <1>0, <1>1, <3>1, <3>2 DEF InStep
    <3> QED BY <1>0, <1>1, <3>1, <3>2, <3>3 DEF TornAt, RecordAt, RecordCells
  <2>4. RecordAt(log, n, p)
    BY <1>1 DEF WholeAt, RecordAt
  <2> QED BY <2>2, <2>3, <2>4 DEF ReplayedAt, RecordCells
<1>2. ASSUME NEW p \in 0 .. n, ReplayedAt(log, n, 0, p)
      PROVE  WholeAt(log, p) /\ \A q \in 0 .. p : ~TornAt(log, q)
  <2>1. PICK k \in 0 .. n : p = 2 * k /\ \A i \in 0 .. k : RecordAt(log, n, 2 * i)
    BY <1>2 DEF ReplayedAt, RecordCells
  <2>2. WholeAt(log, p)
    BY <1>2 DEF ReplayedAt, WholeAt, RecordAt
  <2>3. ASSUME NEW q \in 0 .. p PROVE ~TornAt(log, q)
    <3>1. CASE q % 2 = 0
      <4>1. PICK i \in 0 .. k : q = 2 * i
        BY <2>1, <3>1
      <4> QED BY <2>1, <4>1 DEF TornAt, RecordAt, RecordCells
    <3>2. CASE q % 2 # 0
      <4>1. PICK i \in 0 .. k : q = 2 * i + 1
        BY <2>1, <3>2
      <4>2. log[2 * i + 2] = BodyCell(log[2 * i + 1].rec)
        BY <2>1 DEF RecordAt, RecordCells
      <4> QED BY <4>1, <4>2 DEF TornAt, RecordCells, BodyCell
    <3> QED BY <3>1, <3>2
  <2> QED BY <2>2, <2>3
<1> QED BY <1>1, <1>2 DEF ReplayUpToTear

(* Recovery reads every whole record before the first tear and nothing     *)
(* else, whatever crashes and failed writes came before.                   *)
THEOREM ReplayCorrect == WALSafety => []ReplayUpToTear
<1>1. WALInit => LogInStep
  BY DEF WALInit, LogInStep, InStep
<1>2. ASSUME WALTypeOK, LogInStep, [WALNext]_walVars PROVE LogInStep'
  <2> USE <1>2 DEF WALTypeOK, LogInStep
  <2>1. CASE log' = log
    BY <2>1
  <2>2. CASE sent < MaxRecords /\ log' = Append(log, HeadCell(sent + 1))
    BY <2>2, InStepHead
  <2>3. CASE sent < MaxRecords /\ log' = WithRecord(sent + 1)
    <3> DEFINE m == Append(log, HeadCell(sent + 1))
    <3>1. InStep(m)
      BY InStepHead
    <3>2. m \in Seq(Cells) /\ Len(m) > 0 /\ m[Len(m)] = HeadCell(sent + 1)
      BY DEF HeadCell, Cells
    <3> HIDE DEF m
    <3>3. InStep(Append(m, BodyCell(sent + 1)))
      BY <3>1, <3>2, InStepBody
    <3> QED BY <2>3, <3>3 DEF WithRecord, m
  <2>4. CASE LosesTail
    BY <2>4, InStepCut DEF LosesTail
  <2> QED BY <2>1, <2>2, <2>3, <2>4, LogStep
<1>3. WALTypeOK /\ LogInStep => ReplayUpToTear
  BY InStepReplay DEF LogInStep
<1> QED BY <1>1, <1>2, <1>3, WALTypeCorrect, PTL DEF WALSafety
-----------------------------------------------------------------------------
(* The log holds no record that was not handed to Append.                  *)
OnlySent == \A p \in 1 .. Len(log) : log[p].rec \in 1 .. sent

(* Whatever replay may find in the log was handed to Append, also behind   *)
(* torn records and failed writes.                                         *)
THEOREM NoInventedRecords == WALSafety => []OnlySent
<1>1. WALInit => OnlySent
  BY DEF WALInit, OnlySent
<1>2. ASSUME WALTypeOK, OnlySent, [WALNext]_walVars PROVE OnlySent'
  <2> USE <1>2, WALConstants DEF WALTypeOK, OnlySent
  <2>s. sent' \in Nat /\ sent <= sent'
    BY DEF WALNext, walVars, WriterAppend, WriterAppendFails, Sync, FsyncTick,
           FsyncFails, Close, Crash, NewWriter
  <2>n. ASSUME log' # log, ~LosesTail PROVE sent' = sent + 1
    BY <2>n DEF WALNext, walVars, WriterAppend, WriterAppendFails, Sync, FsyncTick,
                FsyncFails, Close, Crash, NewWriter
  <2>c. /\ HeadCell(sent + 1) \in Cells /\ BodyCell(sent + 1) \in Cells
        /\ HeadCell(sent + 1).rec = sent + 1 /\ BodyCell(sent + 1).rec = sent + 1
    BY DEF HeadCell, BodyCell, Cells
  <2>1. CASE log' = log
    BY <2>1, <2>s
  <2>2. CASE LosesTail
    BY <2>2, <2>s DEF LosesTail
  <2>3. CASE ~LosesTail /\ log' = Append(log, HeadCell(sent + 1))
    BY <2>1, <2>3, <2>n, <2>c
  <2>4. CASE ~LosesTail /\ log' = WithRecord(sent + 1)
    BY <2>1, <2>4, <2>n, <2>c DEF WithRecord
  <2> QED BY <2>1, <2>2, <2>3, <2>4, LogStep
<1> QED BY <1>1, <1>2, WALTypeCorrect, PTL DEF WALSafety

-----------------------------------------------------------------------------
(* The engine and its log.                                                 *)

(* Every step of the engine is a step of the log or leaves it alone.       *)
LEMMA EngineStepsLog == ASSUME [EngineNext]_vars PROVE [WALNext]_walVars
<1>1. CASE HandleWrite \/ BatchAppend
  BY <1>1 DEF HandleWrite, BatchAppend, WALNext
<1>2. CASE HandleWriteFails \/ BatchAppendFails
  BY <1>2 DEF HandleWriteFails, BatchAppendFails, WALNext
<1>3. CASE HandleBatchWrite
  BY <1>3 DEF HandleBatchWrite
<1>4. CASE LogSync \/ LogFsyncTick \/ LogFsyncFails
  BY <1>4 DEF LogSync, LogFsyncTick, LogFsyncFails, WALNext
<1>5. CASE MaybeRotateMemtable
  BY <1>5 DEF MaybeRotateMemtable
<1>6. ASSUME NEW n \in Paths,
             FlushStep(n) \/ FlushFailsAt(n) \/ Apply(n) \/ ApplyFlushSaveFails(n)
      PROVE  UNCHANGED walVars
  BY <1>6 DEF FlushStep, FlushNothing, FlushCreate, FlushWrite, FlushSend,
              FlushFailsAt, Apply, ApplyFlushError, ApplyFlushEmpty,
              ApplyFlushResult, ApplyFlushSaveFails
<1>7. CASE CrashEngine \/ CrashInApply
  BY <1>7 DEF CrashEngine, CrashInApply, WALNext
<1>8. CASE Shutdown
  BY <1>8 DEF Shutdown, WALNext
<1>9. CASE Restart
  BY <1>9 DEF Restart, WALNext
<1>10. CASE UNCHANGED vars
  BY <1>10 DEF vars
<1> QED BY <1>1, <1>2, <1>3, <1>4, <1>5, <1>6, <1>7, <1>8, <1>9, <1>10 DEF EngineNext

(* The engine implements the log, so what is proved of the log holds       *)
(* inside the engine.                                                      *)
THEOREM EngineImplementsWAL == EngineSafety => ImplementsWAL
<1>1. EngineInit => WALInit
  BY DEF EngineInit
<1> QED BY <1>1, EngineStepsLog, PTL DEF EngineSafety, ImplementsWAL, WALSafety

(* The invariants of the log, inside the engine.                           *)
LogInv == WALTypeOK /\ OnlySent

(* What is proved of the log holds in every state of the engine.           *)
LEMMA EngineLogInv == EngineSafety => []LogInv
BY EngineImplementsWAL, WALTypeCorrect, NoInventedRecords, PTL DEF ImplementsWAL, LogInv
-----------------------------------------------------------------------------
Pcs == {"none", "start", "created", "applied"} \cup Finished
Jobs == [pc : Pcs, data : SUBSET Writes, off : Nat, lo : Int, hi : Int]
SegEntries == [path : Paths, lo : Int, hi : Int]

(* The batch in progress is a range of writes that starts at a real one.   *)
BatchOK == batch.left > 0 => batch.first \in Nat \ {0}

TypeInv == EngineTypeOK /\ BatchOK

(* Recover reads only writes that were handed to Append.                   *)
LEMMA ReplayRange ==
    ASSUME LogInv, NEW n \in 0 .. Len(log), NEW off \in Nat
    PROVE  Replay(log, n, off) \subseteq 1 .. sent
<1>1. ASSUME NEW q \in off .. n, ReplayedAt(log, n, off, q)
      PROVE  log[q + 1].rec \in 1 .. sent
  <2>1. q + 1 \in 1 .. Len(log)
    <3>1. q + 2 <= n
      BY <1>1 DEF ReplayedAt, RecordAt, RecordCells
    <3>2. n \in Nat /\ Len(log) \in Nat /\ n <= Len(log) /\ q \in Nat
      BY <1>1 DEF LogInv, WALTypeOK
    <3> QED BY <3>1, <3>2
  <2> QED BY <2>1 DEF LogInv, OnlySent
<1> QED BY <1>1 DEF Replay

(* Changing one field of a manifest, and of the job of one path.           *)
LEMMA ManifestExcept ==
    ASSUME NEW S, NEW m \in [segs : S, wal : Nat], NEW s, NEW k
    PROVE  /\ [m EXCEPT !.segs = s] = [segs |-> s, wal |-> m.wal]
           /\ [m EXCEPT !.wal = k] = [segs |-> m.segs, wal |-> k]
  OBVIOUS

(* A job that changes its state keeps its arguments and its block range,   *)
(* and the other jobs stay as they are.                                    *)
LEMMA JobMoves ==
    ASSUME NEW f \in [Paths -> Jobs], NEW n \in Paths, NEW x \in Pcs
    PROVE  /\ [f EXCEPT ![n].pc = x] \in [Paths -> Jobs]
           /\ [f EXCEPT ![n].pc = x][n].pc = x
           /\ [f EXCEPT ![n].pc = x][n].data = f[n].data
           /\ [f EXCEPT ![n].pc = x][n].off = f[n].off
           /\ [f EXCEPT ![n].pc = x][n].lo = f[n].lo
           /\ [f EXCEPT ![n].pc = x][n].hi = f[n].hi
           /\ \A k \in Paths \ {n} : [f EXCEPT ![n].pc = x][k] = f[k]
<1>1. f[n] \in Jobs
  OBVIOUS
<1>2. /\ [f[n] EXCEPT !.pc = x] \in Jobs
      /\ [f[n] EXCEPT !.pc = x].pc = x
      /\ [f[n] EXCEPT !.pc = x].data = f[n].data
      /\ [f[n] EXCEPT !.pc = x].off = f[n].off
      /\ [f[n] EXCEPT !.pc = x].lo = f[n].lo
      /\ [f[n] EXCEPT !.pc = x].hi = f[n].hi
  BY <1>1 DEF Jobs
<1>3. /\ [f EXCEPT ![n].pc = x] \in [Paths -> Jobs]
      /\ [f EXCEPT ![n].pc = x][n] = [f[n] EXCEPT !.pc = x]
      /\ \A k \in Paths \ {n} : [f EXCEPT ![n].pc = x][k] = f[k]
  BY <1>2
<1> QED BY <1>2, <1>3

(* The types of the jobs and of the manifest in memory.                    *)
LEMMA JobType == EngineTypeOK => job \in [Paths -> Jobs] /\ manifest \in Manifests
  BY DEF EngineTypeOK, Jobs, Pcs

(* The states that a flush job ends in.                                    *)
LEMMA PcNames ==
    "applied" \in Pcs /\ "empty" \in Pcs /\ "written" \in Pcs /\ "errored" \in Pcs
  BY DEF Pcs, Finished

(* The manifest entry of a job has its type.                               *)
LEMMA EntryType ==
    ASSUME EngineTypeOK, NEW n \in Paths
    PROVE  Entry(n) \in SegEntries /\ Added(n) \in Manifests /\ Checkpointed(n) \in Manifests
<1>1. Entry(n) \in SegEntries
  BY DEF EngineTypeOK, Entry, SegEntries
<1>2. manifest.segs \in Seq(SegEntries) /\ manifest.wal \in Nat /\ job[n].off \in Nat
  BY DEF EngineTypeOK, Manifests, SegEntries
<1>3. Append(manifest.segs, Entry(n)) \in Seq(SegEntries)
  BY <1>1, <1>2
<1>4. Added(n) = [segs |-> Append(manifest.segs, Entry(n)), wal |-> manifest.wal]
  BY JobType, ManifestExcept DEF Added, Manifests
<1>5. Checkpointed(n) = [segs |-> Append(manifest.segs, Entry(n)), wal |-> job[n].off]
  <2>1. Added(n) \in [segs : Seq(SegEntries), wal : Nat]
    BY <1>2, <1>3, <1>4
  <2>2. Added(n).segs = Append(manifest.segs, Entry(n))
    BY <1>4
  <2>3. [Added(n) EXCEPT !.wal = job[n].off]
          = [segs |-> Added(n).segs, wal |-> job[n].off]
    BY <2>1, ManifestExcept
  <2> QED BY <2>2, <2>3 DEF Checkpointed
<1> QED BY <1>1, <1>2, <1>3, <1>4, <1>5 DEF Manifests, SegEntries

(* The listed entries have their type.                                     *)
LEMMA EntriesType ==
    ASSUME EngineTypeOK, NEW e \in Entries(manifest)
    PROVE  e.path \in Paths
<1>1. manifest.segs \in Seq(SegEntries)
  BY JobType DEF Manifests, SegEntries
<1>2. \A i \in DOMAIN manifest.segs : manifest.segs[i] \in SegEntries
  BY <1>1
<1> QED BY <1>2 DEF Entries, SegEntries

(* Setting the checkpoint leaves the listed segments alone.                *)
LEMMA CheckpointedSegs ==
    ASSUME EngineTypeOK, NEW n \in Paths
    PROVE  /\ Added(n).segs = Append(manifest.segs, Entry(n))
           /\ Added(n).wal = manifest.wal
           /\ Checkpointed(n).segs = Append(manifest.segs, Entry(n))
           /\ Checkpointed(n).wal = job[n].off
<1>1. Added(n) = [segs |-> Append(manifest.segs, Entry(n)), wal |-> manifest.wal]
  BY JobType, ManifestExcept DEF Added, Manifests
<1>2. Added(n) \in Manifests
  BY EntryType
<1>3. [Added(n) EXCEPT !.wal = job[n].off] = [segs |-> Added(n).segs, wal |-> job[n].off]
  BY <1>2, ManifestExcept DEF Manifests
<1> QED BY <1>1, <1>3 DEF Checkpointed

(* Every step of the engine keeps the types.                               *)
LEMMA EngineTypeStep ==
    ASSUME TypeInv, LogInv, LogInv', [EngineNext]_vars
    PROVE  TypeInv'
<1> USE EngineConstants, WALConstants DEF TypeInv, LogInv
<1>l. WALTypeOK' /\ sent \in 0 .. MaxRecords /\ sent' \in 0 .. MaxRecords
  BY DEF WALTypeOK
<1>1. CASE HandleWrite
  <2>1. sent + 1 \in Writes
    BY <1>1, <1>l DEF HandleWrite, WriterAppend, Writes
  <2> QED BY <1>1, <1>l, <2>1 DEF HandleWrite, EngineTypeOK, BatchOK, diskVars
<1>2. CASE HandleWriteFails
  <2>1. sent + 1 \in Writes
    BY <1>2, <1>l DEF HandleWriteFails, WriterAppendFails, Writes
  <2> QED BY <1>2, <1>l, <2>1 DEF HandleWriteFails, EngineTypeOK, BatchOK, diskVars, memVars
<1>3. CASE HandleBatchWrite
  <2>1. batch' \in [left : Nat, first : Nat] /\ BatchOK'
    BY <1>3, <1>l DEF HandleBatchWrite, BatchOK
  <2> QED BY <1>3, <1>l, <2>1 DEF HandleBatchWrite, EngineTypeOK, diskVars, histVars
<1>4. CASE BatchAppend
  <2>1. sent + 1 \in Writes
    BY <1>4, <1>l DEF BatchAppend, WriterAppend, Writes
  <2>2. batch.left \in Nat \ {0} /\ batch.first \in Nat \ {0}
    BY <1>4 DEF BatchAppend, EngineTypeOK, BatchOK
  <2>3. batch' \in [left : Nat, first : Nat] /\ BatchOK'
    BY SMTT(30), <1>4, <2>2 DEF BatchAppend, EngineTypeOK, BatchOK, NoBatch
  <2>4. acked' \in SUBSET Writes
    <3>1. batch.first .. sent + 1 \subseteq Writes
      BY <1>l, <2>1, <2>2 DEF Writes
    <3>2. acked' = acked \/ acked' = acked \cup (batch.first .. sent + 1)
      BY <1>4 DEF BatchAppend
    <3> QED BY <3>1, <3>2 DEF EngineTypeOK
  <2> QED BY <1>4, <1>l, <2>1, <2>3, <2>4 DEF BatchAppend, EngineTypeOK, diskVars
<1>5. CASE BatchAppendFails
  <2>1. sent + 1 \in Writes
    BY <1>5, <1>l DEF BatchAppendFails, WriterAppendFails, Writes
  <2>2. batch' \in [left : Nat, first : Nat] /\ BatchOK'
    BY <1>5 DEF BatchAppendFails, BatchOK, NoBatch
  <2> QED BY <1>5, <1>l, <2>1, <2>2 DEF BatchAppendFails, EngineTypeOK, diskVars
<1>6. CASE LogSync \/ LogFsyncTick \/ LogFsyncFails
  BY <1>6, <1>l DEF LogSync, LogFsyncTick, LogFsyncFails, engineVars, memVars, diskVars,
                    histVars, EngineTypeOK, BatchOK
<1>7. CASE MaybeRotateMemtable
  <2>1. offset \in Nat
    BY DEF WALTypeOK
  <2>2. NewJob \in Jobs
    BY <2>1 DEF NewJob, Jobs, Pcs, EngineTypeOK
  <2>3. job' \in [Paths -> Jobs]
    BY <1>7, <2>2, JobType DEF MaybeRotateMemtable
  <2>4. flushCount' \in 0 .. MaxFlushes
    BY <1>7 DEF MaybeRotateMemtable, EngineTypeOK
  <2>5. taints' \in SUBSET Hazards
    BY <1>7 DEF MaybeRotateMemtable, EngineTypeOK, Hazards
  <2> QED BY <1>7, <1>l, <2>3, <2>4, <2>5
          DEF MaybeRotateMemtable, EngineTypeOK, BatchOK, diskVars, Jobs, Pcs
<1>8. ASSUME NEW n \in Paths, FlushStep(n) PROVE TypeInv'
  <2>1. CASE FlushNothing(n)
    <3>1. job' \in [Paths -> Jobs]
      BY <2>1, JobType, JobMoves, PcNames DEF FlushNothing
    <3> QED BY <1>l, <2>1, <3>1 DEF FlushNothing, EngineTypeOK, BatchOK, diskVars, histVars, Jobs, Pcs
  <2>2. CASE FlushCreate(n)
    <3>1. job' \in [Paths -> Jobs]
      <4>1. PICK lo, hi \in {TimeOf[w] : w \in job[n].data} :
              job' = [job EXCEPT ![n] = [@ EXCEPT !.pc = "created", !.lo = lo, !.hi = hi]]
        BY <2>2 DEF FlushCreate
      <4>3. job[n] \in Jobs
        BY JobType
      <4>2. lo \in Int /\ hi \in Int
        BY <4>3 DEF Jobs
      <4>4. [job[n] EXCEPT !.pc = "created", !.lo = lo, !.hi = hi] \in Jobs
        BY <4>2, <4>3 DEF Jobs, Pcs
      <4> QED BY <4>1, <4>4, JobType
    <3>2. dir' \in [Paths -> SUBSET Writes] /\ taints' \in SUBSET Hazards
      BY <2>2 DEF FlushCreate, EngineTypeOK, Hazards
    <3> QED BY <1>l, <2>2, <3>1, <3>2 DEF FlushCreate, EngineTypeOK, BatchOK, Jobs, Pcs
  <2>3. CASE FlushWrite(n)
    <3>1. job' \in [Paths -> Jobs]
      BY <2>3, JobType, JobMoves, PcNames DEF FlushWrite
    <3>2. dir' \in [Paths -> SUBSET Writes]
      BY <2>3 DEF FlushWrite, EngineTypeOK
    <3> QED BY <1>l, <2>3, <3>1, <3>2 DEF FlushWrite, EngineTypeOK, BatchOK, histVars, Jobs, Pcs
  <2>4. CASE FlushSend(n)
    <3>1. flushDoneCh' \in Seq(Paths)
      BY <2>4 DEF FlushSend, EngineTypeOK
    <3> QED BY <1>l, <2>4, <3>1 DEF FlushSend, EngineTypeOK, BatchOK, diskVars, histVars
  <2> QED BY <1>8, <2>1, <2>2, <2>3, <2>4 DEF FlushStep
<1>9. ASSUME NEW n \in Paths, FlushFailsAt(n) PROVE TypeInv'
  <2>1. job' \in [Paths -> Jobs]
    BY <1>9, JobType, JobMoves, PcNames DEF FlushFailsAt
  <2>2. ioFaults' \in 0 .. MaxIOFaults
    <3>1. IOFault
      BY <1>9 DEF FlushFailsAt
    <3> QED BY <3>1 DEF IOFault, EngineTypeOK
  <2> QED BY <1>9, <1>l, <2>1, <2>2 DEF FlushFailsAt, EngineTypeOK, BatchOK, histVars, Jobs, Pcs
<1>10. ASSUME NEW n \in Paths, Apply(n) \/ ApplyFlushSaveFails(n) PROVE TypeInv'
  <2>1. TakesResult(n)
    BY <1>10 DEF Apply, ApplyFlushError, ApplyFlushEmpty, ApplyFlushResult, ApplyFlushSaveFails
  <2>2. job' \in [Paths -> Jobs] /\ frozen' = {}
    <3>1. job \in [Paths -> Jobs] /\ "applied" \in Pcs
      BY JobType, PcNames
    <3>2. [job EXCEPT ![n].pc = "applied"] \in [Paths -> Jobs]
      BY <3>1, JobMoves
    <3> QED BY <2>1, <3>2 DEF TakesResult
  <2>3. flushDoneCh' \in Seq(Paths)
    BY <2>1 DEF TakesResult, EngineTypeOK
  <2>4. Added(n) \in Manifests /\ Checkpointed(n) \in Manifests
    BY EntryType
  <2>5. CASE ApplyFlushError(n)
    <3>1. dropped' \in SUBSET Writes /\ taints' \in SUBSET Hazards
      BY <2>5 DEF ApplyFlushError, EngineTypeOK, Hazards
    <3> QED BY <1>l, <2>2, <2>3, <2>5, <3>1
            DEF ApplyFlushError, EngineTypeOK, BatchOK, diskVars, Jobs, Pcs
  <2>6. CASE ApplyFlushEmpty(n)
    BY <1>l, <2>2, <2>3, <2>6 DEF ApplyFlushEmpty, EngineTypeOK, BatchOK, diskVars, histVars, Jobs, Pcs
  <2>7. CASE ApplyFlushResult(n)
    BY <1>l, <2>2, <2>3, <2>4, <2>7 DEF ApplyFlushResult, EngineTypeOK, BatchOK, histVars, Jobs, Pcs
  <2>8. CASE ApplyFlushSaveFails(n)
    <3>1. ioFaults' \in 0 .. MaxIOFaults
      BY <2>8 DEF ApplyFlushSaveFails, IOFault, EngineTypeOK
    <3>2. manifest' \in Manifests /\ manifestFile' \in Manifests
      BY <2>4, <2>8 DEF ApplyFlushSaveFails, EngineTypeOK
    <3> QED BY <1>l, <2>2, <2>3, <2>8, <3>1, <3>2
            DEF ApplyFlushSaveFails, EngineTypeOK, BatchOK, histVars, Jobs, Pcs
  <2> QED BY <1>10, <2>5, <2>6, <2>7, <2>8 DEF Apply
<1>g. /\ [n \in Paths |-> NoJob] \in [Paths -> Jobs]
      /\ NoBatch \in [left : Nat, first : Nat]
      /\ ~(NoBatch.left > 0)
  BY DEF NoJob, Jobs, Pcs, NoBatch
<1>11. CASE CrashEngine \/ CrashInApply
  <2>1. ProcessGone /\ acked' = {} /\ manifest' = manifest
        /\ UNCHANGED <<dir, ioFaults, failed, dropped, taints>>
    BY <1>11 DEF CrashEngine, CrashInApply, diskVars
  <2>2. manifestFile' \in Manifests
    <3>1. CASE CrashEngine
      BY <3>1 DEF CrashEngine, diskVars, EngineTypeOK
    <3>2. CASE CrashInApply
      <4>1. Head(flushDoneCh) \in Paths
        BY <3>2 DEF CrashInApply, EngineTypeOK
      <4> QED BY <3>2, <4>1, EntryType DEF CrashInApply
    <3> QED BY <1>11, <3>1, <3>2
  <2>3. flushDoneCh' \in Seq(Paths)
    BY <2>1 DEF ProcessGone
  <2> QED BY <1>l, <1>g, <2>1, <2>2, <2>3 DEF ProcessGone, EngineTypeOK, BatchOK, Jobs, Pcs
<1>12. CASE Shutdown
  BY <1>12, <1>l DEF Shutdown, EngineTypeOK, BatchOK, memVars, diskVars
<1>13. CASE Restart
  <2>1. Recovered \in SUBSET Writes
    <3>1. Len(log) \in 0 .. Len(log) /\ manifestFile.wal \in Nat
      BY DEF WALTypeOK, EngineTypeOK, Manifests
    <3>2. 1 .. sent \subseteq Writes
      BY <1>l DEF Writes
    <3> QED BY <3>1, <3>2, ReplayRange DEF Recovered
  <2>2. flushDoneCh' \in Seq(Paths)
    BY <1>13 DEF Restart
  <2>3. taints' \in SUBSET Hazards
    BY <1>13 DEF Restart, EngineTypeOK, Hazards
  <2> QED BY <1>13, <1>l, <1>g, <2>1, <2>2, <2>3 DEF Restart, EngineTypeOK, BatchOK, diskVars, Jobs, Pcs
<1>14. CASE UNCHANGED vars
  BY <1>14, <1>l DEF vars, engineVars, memVars, diskVars, histVars, EngineTypeOK, BatchOK
<1> QED BY <1>1, <1>2, <1>3, <1>4, <1>5, <1>6, <1>7, <1>8, <1>9, <1>10, <1>11, <1>12, <1>13, <1>14
        DEF EngineNext

(* The initial state has its type.                                         *)
LEMMA InitType ==
    ASSUME EngineInit, LogInv
    PROVE  TypeInv
<1> USE EngineConstants
<1>1. job \in [Paths -> Jobs] /\ batch \in [left : Nat, first : Nat] /\ BatchOK
  BY DEF EngineInit, NoJob, Jobs, Pcs, NoBatch, BatchOK
<1>2. <<>> \in Seq(SegEntries)
  OBVIOUS
<1>3. manifest \in Manifests /\ manifestFile \in Manifests
  BY <1>2 DEF EngineInit, Manifests, SegEntries
<1>4. flushDoneCh \in Seq(Paths) /\ dir \in [Paths -> SUBSET Writes]
  BY DEF EngineInit
<1> QED BY <1>1, <1>3, <1>4 DEF EngineInit, TypeInv, EngineTypeOK, LogInv, Jobs, Pcs

(* The types and the range of a batch hold in every reachable state.       *)
LEMMA TypeInvariant == EngineSafety => []TypeInv
BY InitType, EngineTypeStep, EngineLogInv, PTL DEF EngineSafety

(* Every variable of the engine keeps its type.                            *)
THEOREM EngineTypeCorrect == EngineSafety => []EngineTypeOK
<1>1. TypeInv => EngineTypeOK
  BY DEF TypeInv
<1> QED BY <1>1, TypeInvariant, PTL
-----------------------------------------------------------------------------
(* Accounted is not inductive by itself.  What a flush goroutine does to a *)
(* file can take an acknowledged write away only if the file already held  *)
(* one, and the result of a flush replaces its data only if the file holds *)
(* them: the conjuncts below say why neither can go wrong.                 *)

(* Nothing holds a write that was not handed to the log yet.               *)
OnlyOld ==
    /\ active \subseteq 1 .. sent /\ acked \subseteq 1 .. sent
    /\ \A n \in Paths : dir[n] \subseteq 1 .. sent /\ job[n].data \subseteq 1 .. sent

(* The payloads of the batch in progress that were applied are in active.  *)
BatchApplied ==
    batch.left > 0 => /\ ~closed
                      /\ \A w \in batch.first .. sent : w \in active

(* A path no flush of this process has written yet holds nothing that this *)
(* process acknowledged or is about to acknowledge.                        *)
InBatch == IF batch.left > 0 THEN batch.first .. sent ELSE {}
FreshPaths ==
    \A n \in Paths : job[n].pc \in {"none", "start", "created"}
                        => dir[n] \cap (acked \cup InBatch) = {}

(* Paths from flushCount on have no job.                                   *)
UnusedPaths == \A n \in Paths : n >= flushCount => job[n].pc = "none"

(* The outcome that a job reports is the one its file shows.               *)
HonestResults ==
    \A n \in Paths : /\ job[n].pc = "written" => dir[n] = job[n].data
                     /\ job[n].pc = "empty" => job[n].data = {}

AccountedInv ==
    /\ TypeInv /\ LogInv
    /\ OnlyOld /\ BatchApplied /\ FreshPaths /\ UnusedPaths /\ HonestResults
    /\ (closed => acked = {})
    /\ Accounted

(* Steps that leave the files, the jobs, the manifest and `dropped' alone  *)
(* and do not take writes out of active keep the rest accounted for.       *)
LEMMA AccountedFrame ==
    ASSUME Accounted, active \subseteq active',
           UNCHANGED <<dir, job, manifest, dropped>>,
           \A w \in acked' : w \in acked \/ w \in active'
    PROVE  Accounted'
<1>1. InSegments(manifest)' = InSegments(manifest) /\ Unapplied' = Unapplied
  BY DEF InSegments, Entries, Unapplied
<1> QED BY <1>1 DEF Accounted

(* A write adds itself to what this process acknowledges, now or later.    *)
LEMMA OneWriteMore ==
    ASSUME TypeInv, LogInv, HandleWrite \/ BatchAppend
    PROVE  \A w \in acked' \cup InBatch' : w \in acked \cup InBatch \/ w = sent + 1
<1>1. sent \in Nat /\ sent' = sent + 1
  BY DEF HandleWrite, BatchAppend, WriterAppend, LogInv, WALTypeOK
<1>2. CASE HandleWrite
  BY <1>2 DEF HandleWrite, Idle, NoBatch, InBatch
<1>3. CASE BatchAppend
  <2>1. batch.left > 0 /\ batch.first \in Nat
    BY <1>3 DEF BatchAppend, TypeInv, EngineTypeOK
  <2>2. \A w \in batch.first .. sent + 1 : w \in InBatch \/ w = sent + 1
    BY <1>1, <2>1 DEF InBatch
  <2>3. acked' = acked \/ acked' = acked \cup (batch.first .. sent + 1)
    BY <1>3 DEF BatchAppend
  <2>4. batch' = NoBatch \/ batch'.first = batch.first
    BY <1>3 DEF BatchAppend, TypeInv, EngineTypeOK
  <2>5. InBatch' = {} \/ InBatch' = batch.first .. sent + 1
    BY <1>1, <2>4 DEF InBatch, NoBatch
  <2> QED BY <2>2, <2>3, <2>5
<1> QED BY <1>2, <1>3

(* A write of an open writer, single or in a batch.                        *)
LEMMA AccountedWrite ==
    ASSUME AccountedInv, TypeInv', LogInv', HandleWrite \/ BatchAppend
    PROVE  AccountedInv'
<1> USE DEF AccountedInv
<1>1. /\ sent \in Nat /\ sent' = sent + 1 /\ ~closed /\ ~closed'
      /\ active' = active \cup {sent + 1}
      /\ UNCHANGED <<dir, job, manifest, dropped, flushCount>>
  BY DEF HandleWrite, BatchAppend, WriterAppend, diskVars, LogInv, WALTypeOK
<1>2. \A w \in acked' : w \in acked \/ (w \in active' /\ w \in 1 .. sent + 1)
  <2>1. CASE HandleWrite
    BY <1>1, <2>1 DEF HandleWrite
  <2>2. CASE BatchAppend
    <3>1. /\ batch.first \in Nat \ {0} /\ \A w \in batch.first .. sent : w \in active
          /\ (acked' = acked \/ acked' = acked \cup (batch.first .. sent + 1))
      BY <2>2 DEF BatchAppend, BatchApplied, TypeInv, BatchOK
    <3>2. ASSUME NEW w \in batch.first .. sent + 1
          PROVE  w \in active' /\ w \in 1 .. sent + 1
      BY <1>1, <3>1, <3>2
    <3> QED BY <3>1, <3>2
  <2> QED BY <2>1, <2>2
<1>4. OnlyOld'
  <2>1. \A w \in 1 .. sent : w \in 1 .. sent'
    BY <1>1
  <2>2. sent + 1 \in 1 .. sent'
    BY <1>1
  <2>3. active' \subseteq 1 .. sent'
    BY <1>1, <2>1, <2>2 DEF OnlyOld
  <2>4. acked' \subseteq 1 .. sent'
    BY <1>1, <1>2, <2>1 DEF OnlyOld
  <2> QED BY <1>1, <2>1, <2>3, <2>4 DEF OnlyOld
<1>5. BatchApplied'
  <2>1. CASE HandleWrite
    BY <2>1 DEF HandleWrite, Idle, NoBatch, BatchApplied
  <2>2. CASE BatchAppend
    <3>1. CASE batch' = NoBatch
      <4>1. ~(batch'.left > 0)
        BY <3>1 DEF NoBatch
      <4> QED BY <4>1 DEF BatchApplied
    <3>2. CASE batch' = [batch EXCEPT !.left = @ - 1]
      <4>1. batch'.first = batch.first /\ batch.first \in Nat
        BY <3>2 DEF TypeInv, EngineTypeOK
      <4>2. \A w \in batch.first .. sent : w \in active
        BY <2>2 DEF BatchAppend, BatchApplied
      <4>3. \A w \in batch.first .. sent + 1 : w \in batch.first .. sent \/ w = sent + 1
        BY <1>1, <4>1
      <4> QED BY <1>1, <4>1, <4>2, <4>3 DEF BatchApplied
    <3> QED BY <2>2, <3>1, <3>2 DEF BatchAppend
  <2> QED BY <2>1, <2>2
<1>6. FreshPaths'
  <2>1. \A w \in acked' \cup InBatch' : w \in acked \cup InBatch \/ w = sent + 1
    BY OneWriteMore
  <2>2. \A n \in Paths : sent + 1 \notin dir[n]
    BY <1>1 DEF OnlyOld
  <2> QED BY <1>1, <2>1, <2>2 DEF FreshPaths
<1>7. UnusedPaths' /\ HonestResults'
  BY <1>1 DEF UnusedPaths, HonestResults
<1>8. Accounted'
  BY <1>1, <1>2, AccountedFrame
<1> QED BY <1>1, <1>4, <1>5, <1>6, <1>7, <1>8

(* Steps of the engine goroutine and of the log that touch no data.        *)
LEMMA AccountedQuiet ==
    ASSUME AccountedInv, TypeInv', LogInv', sent <= sent',
           UNCHANGED <<dir, job, manifest, dropped, flushCount, active, acked>>,
           closed' => closed, InBatch' \subseteq InBatch,
           BatchApplied'
    PROVE  AccountedInv'
<1> USE DEF AccountedInv
<1>1. OnlyOld'
  <2>1. \A w \in 1 .. sent : w \in 1 .. sent'
    BY DEF LogInv, WALTypeOK
  <2> QED BY <2>1 DEF OnlyOld
<1>2. FreshPaths' /\ UnusedPaths' /\ HonestResults'
  BY DEF FreshPaths, UnusedPaths, HonestResults
<1>3. Accounted'
  BY AccountedFrame
<1> QED BY <1>1, <1>2, <1>3

(* A rotation hands the writes of the memtable to a new flush job.         *)
LEMMA AccountedRotate ==
    ASSUME AccountedInv, TypeInv', LogInv', MaybeRotateMemtable
    PROVE  AccountedInv'
<1> USE DEF AccountedInv
<1>1. /\ flushCount \in Paths /\ flushCount \in Nat /\ flushCount' = flushCount + 1
      /\ active' = {} /\ ~closed /\ batch = NoBatch
      /\ job' = [job EXCEPT ![flushCount] = NewJob]
      /\ UNCHANGED <<dir, manifest, dropped, acked, sent, closed, batch>>
  BY EngineConstants
     DEF MaybeRotateMemtable, Idle, walVars, diskVars, TypeInv, EngineTypeOK, Paths
<1>2. /\ job'[flushCount] = NewJob /\ NewJob.pc = "start" /\ NewJob.data = active
      /\ \A n \in Paths \ {flushCount} : job'[n] = job[n]
  BY <1>1, JobType DEF NewJob, TypeInv
<1>3. job[flushCount].pc = "none"
  BY <1>1 DEF UnusedPaths
<1>4. OnlyOld'
  <2>1. \A n \in Paths : job'[n].data \subseteq 1 .. sent
    BY <1>1, <1>2 DEF OnlyOld
  <2> QED BY <1>1, <2>1 DEF OnlyOld
<1>5. BatchApplied'
  BY <1>1 DEF BatchApplied, NoBatch
<1>6. FreshPaths'
  <2>1. InBatch' = InBatch
    BY <1>1 DEF InBatch
  <2> QED BY <1>1, <1>2, <1>3, <2>1 DEF FreshPaths
<1>7. UnusedPaths'
  BY <1>1, <1>2 DEF UnusedPaths, Paths
<1>8. HonestResults'
  BY <1>1, <1>2 DEF HonestResults
<1>9. Accounted'
  <2>1. InSegments(manifest)' = InSegments(manifest)
    BY <1>1 DEF InSegments, Entries
  <2>2. ASSUME NEW n \in Unapplied PROVE n \in Unapplied' /\ job'[n] = job[n]
    BY <1>2, <1>3, <2>2 DEF Unapplied
  <2>3. flushCount \in Unapplied'
    BY <1>1, <1>2 DEF Unapplied
  <2> QED BY <1>1, <1>2, <2>1, <2>2, <2>3 DEF Accounted
<1> QED BY <1>1, <1>4, <1>5, <1>6, <1>7, <1>8, <1>9

(* What a flush goroutine does to its job and its file, besides sending.   *)
FlushMoves(n) ==
    /\ job[n].pc \notin {"none", "applied"} /\ job'[n].pc \notin {"none", "applied"}
    /\ job'[n].data = job[n].data /\ job'[n].off = job[n].off
    /\ \A k \in Paths \ {n} : job'[k] = job[k] /\ dir'[k] = dir[k]
    /\ \/ job[n].pc = "start" /\ job[n].data = {} /\ job'[n].pc = "empty" /\ dir' = dir
       \/ /\ job[n].pc = "start" /\ job'[n].pc = "created" /\ dir'[n] = {}
          /\ BlockRange(job[n].data, job'[n].lo, job'[n].hi)
       \/ /\ job[n].pc = "created" /\ job'[n].pc = "written" /\ dir'[n] = job[n].data
          /\ job'[n].lo = job[n].lo /\ job'[n].hi = job[n].hi
       \/ job[n].pc \in {"start", "created"} /\ job'[n].pc = "errored" /\ dir' = dir

(* Every step of a flush goroutine is such a move or the send.             *)
LEMMA FlushEffect ==
    ASSUME TypeInv, NEW n \in Paths, FlushStep(n) \/ FlushFailsAt(n), ~FlushSend(n)
    PROVE  FlushMoves(n)
<1> USE DEF FlushMoves
<1>j. job \in [Paths -> Jobs] /\ dir \in [Paths -> SUBSET Writes]
  BY JobType DEF TypeInv, EngineTypeOK
<1>1. CASE FlushNothing(n)
  BY <1>j, <1>1, JobMoves, PcNames DEF FlushNothing, diskVars
<1>2. CASE FlushCreate(n)
  <2>1. PICK lo, hi \in {TimeOf[w] : w \in job[n].data} :
          /\ BlockRange(job[n].data, lo, hi)
          /\ job' = [job EXCEPT ![n] = [@ EXCEPT !.pc = "created", !.lo = lo, !.hi = hi]]
    BY <1>2 DEF FlushCreate
  <2>2. /\ job'[n] = [job[n] EXCEPT !.pc = "created", !.lo = lo, !.hi = hi]
        /\ \A k \in Paths \ {n} : job'[k] = job[k]
    BY <1>j, <2>1
  <2>3. job[n] \in Jobs
    BY <1>j
  <2>4. /\ job'[n].pc = "created" /\ job'[n].data = job[n].data /\ job'[n].off = job[n].off
        /\ job'[n].lo = lo /\ job'[n].hi = hi
    BY <2>2, <2>3 DEF Jobs
  <2>5. dir'[n] = {} /\ \A k \in Paths \ {n} : dir'[k] = dir[k]
    BY <1>j, <1>2 DEF FlushCreate
  <2>6. job[n].pc = "start"
    BY <1>2 DEF FlushCreate
  <2> QED BY <2>1, <2>2, <2>4, <2>5, <2>6
<1>3. CASE FlushWrite(n)
  <2>1. dir'[n] = job[n].data /\ \A k \in Paths \ {n} : dir'[k] = dir[k]
    BY <1>j, <1>3 DEF FlushWrite
  <2> QED BY <1>j, <1>3, <2>1, JobMoves, PcNames DEF FlushWrite
<1>4. CASE FlushFailsAt(n)
  <2>1. job' = [job EXCEPT ![n].pc = "errored"] /\ job[n].pc \in {"start", "created"}
        /\ dir' = dir
    BY <1>4 DEF FlushFailsAt
  <2> QED BY <1>j, <2>1, JobMoves, PcNames
<1> QED BY <1>1, <1>2, <1>3, <1>4 DEF FlushStep

(* A step of a flush goroutine.                                            *)
LEMMA AccountedFlush ==
    ASSUME AccountedInv, TypeInv', LogInv', NEW n \in Paths,
           FlushStep(n) \/ FlushFailsAt(n)
    PROVE  AccountedInv'
<1> USE DEF AccountedInv
<1>1. UNCHANGED <<active, batch, flushCount, manifest, dropped, acked, sent, closed>>
  BY DEF FlushStep, FlushNothing, FlushCreate, FlushWrite, FlushSend, FlushFailsAt,
         walVars, histVars
<1>2. InBatch' = InBatch /\ BatchApplied'
  BY <1>1 DEF InBatch, BatchApplied
<1>3. CASE FlushSend(n)
  <2>1. UNCHANGED <<dir, job>>
    BY <1>3 DEF FlushSend, diskVars
  <2> QED BY SMTT(30), <1>1, <1>2, <2>1, AccountedQuiet DEF LogInv, WALTypeOK
<1>4. CASE ~FlushSend(n)
  <2>m. FlushMoves(n)
    BY <1>4, FlushEffect
  <2>1. OnlyOld'
    BY <1>1, <2>m DEF OnlyOld, FlushMoves
  <2>2. FreshPaths'
    BY <1>1, <1>2, <2>m DEF FreshPaths, FlushMoves
  <2>3. UnusedPaths'
    BY <1>1, <2>m DEF UnusedPaths, FlushMoves
  <2>4. HonestResults'
    BY <2>m DEF HonestResults, FlushMoves
  <2>5. Accounted'
    <3>1. Unapplied' = Unapplied
      BY <2>m DEF Unapplied, FlushMoves
    <3>2. \A k \in Unapplied : job'[k].data = job[k].data
      BY <2>m DEF Unapplied, FlushMoves
    <3>3. ASSUME NEW w \in acked, w \in InSegments(manifest)
          PROVE  w \in InSegments(manifest)'
      <4>1. PICK e \in Entries(manifest) : w \in dir[e.path]
        BY <3>3 DEF InSegments
      <4>2. e.path \in Paths /\ e \in Entries(manifest)'
        BY <1>1, EntriesType DEF Entries, TypeInv
      <4>3. CASE e.path # n
        BY <2>m, <4>1, <4>2, <4>3 DEF InSegments, FlushMoves
      <4>4. CASE e.path = n
        <5>1. dir[n] \cap acked # {}
          BY <4>1, <4>4
        <5>2. job[n].pc \notin {"none", "start", "created"}
          BY <5>1 DEF FreshPaths
        <5> QED BY <2>m, <5>2 DEF FlushMoves
      <4> QED BY <4>3, <4>4
    <3> QED BY <1>1, <3>1, <3>2, <3>3 DEF Accounted
  <2> QED BY <1>1, <1>2, <2>1, <2>2, <2>3, <2>4, <2>5
<1> QED BY <1>3, <1>4

(* The engine goroutine applies a result.                                  *)
LEMMA AccountedApply ==
    ASSUME AccountedInv, TypeInv', LogInv', NEW n \in Paths,
           Apply(n) \/ ApplyFlushSaveFails(n)
    PROVE  AccountedInv'
<1> USE DEF AccountedInv
<1>j. job \in [Paths -> Jobs] /\ manifest \in Manifests
  BY JobType DEF TypeInv
<1>1. /\ UNCHANGED <<active, batch, flushCount, acked, sent, closed, dir>>
      /\ job' = [job EXCEPT ![n].pc = "applied"]
  BY DEF Apply, ApplyFlushError, ApplyFlushEmpty, ApplyFlushResult, ApplyFlushSaveFails,
         TakesResult, walVars, histVars, diskVars
<1>2. /\ job'[n].pc = "applied" /\ job'[n].data = job[n].data
      /\ \A k \in Paths \ {n} : job'[k] = job[k]
  BY <1>j, <1>1, JobMoves, PcNames
<1>3. job[n].pc \in Finished
  BY DEF Apply, ApplyFlushError, ApplyFlushEmpty, ApplyFlushResult, ApplyFlushSaveFails, Finished
<1>4. /\ InBatch' = InBatch /\ BatchApplied'
      /\ OnlyOld' /\ FreshPaths' /\ HonestResults'
  BY <1>1, <1>2 DEF InBatch, BatchApplied, OnlyOld, FreshPaths, HonestResults
<1>5. UnusedPaths'
  BY <1>1, <1>2, <1>3 DEF UnusedPaths, Finished
<1>6. \A k \in Unapplied \ {n} : k \in Unapplied' /\ job'[k] = job[k]
  BY <1>2 DEF Unapplied
<1>7. Accounted'
  <2>1. CASE ApplyFlushError(n)
    <3>1. dropped' = dropped \cup job[n].data /\ manifest' = manifest
      BY <2>1 DEF ApplyFlushError
    <3>2. InSegments(manifest)' = InSegments(manifest)
      BY <1>1, <3>1 DEF InSegments, Entries
    <3> QED BY <1>1, <1>6, <3>1, <3>2 DEF Accounted
  <2>2. CASE ApplyFlushEmpty(n)
    <3>1. job[n].data = {} /\ dropped' = dropped /\ manifest' = manifest
      BY <2>2 DEF ApplyFlushEmpty, HonestResults, histVars
    <3>2. InSegments(manifest)' = InSegments(manifest)
      BY <1>1, <3>1 DEF InSegments, Entries
    <3> QED BY <1>1, <1>6, <3>1, <3>2 DEF Accounted
  <2>3. CASE ApplyFlushResult(n) \/ ApplyFlushSaveFails(n)
    <3>1. dir[n] = job[n].data /\ dropped' = dropped /\ manifest' = Checkpointed(n)
      BY <2>3 DEF ApplyFlushResult, ApplyFlushSaveFails, HonestResults, histVars
    <3>2. manifest'.segs = Append(manifest.segs, Entry(n))
      BY <3>1, CheckpointedSegs DEF TypeInv
    <3>3. Entry(n).path = n
      BY DEF Entry
    <3>4. manifest.segs \in Seq(SegEntries) /\ Entry(n) \in SegEntries
      BY <1>j, EntryType DEF Manifests, SegEntries, TypeInv
    <3>5. Entries(manifest) \subseteq Entries(manifest)' /\ Entry(n) \in Entries(manifest)'
      <4> DEFINE s == manifest.segs
                 t == manifest'.segs
      <4>1. /\ \A i \in DOMAIN s : i \in DOMAIN t /\ t[i] = s[i]
            /\ Len(s) + 1 \in DOMAIN t /\ t[Len(s) + 1] = Entry(n)
        BY <3>2, <3>4
      <4> QED BY <4>1 DEF Entries
    <3>6. dir[n] \subseteq InSegments(manifest)' /\ InSegments(manifest) \subseteq InSegments(manifest)'
      BY <1>1, <3>3, <3>5 DEF InSegments
    <3> QED BY <1>1, <1>6, <3>1, <3>6 DEF Accounted
  <2> QED BY <2>1, <2>2, <2>3 DEF Apply
<1> QED BY <1>1, <1>4, <1>5, <1>7

(* A stop and a restart: the new process has acknowledged nothing yet.     *)
LEMMA AccountedStop ==
    ASSUME AccountedInv, TypeInv', LogInv', CrashEngine \/ CrashInApply \/ Shutdown \/ Restart
    PROVE  AccountedInv'
<1> USE DEF AccountedInv
<1>1. acked' = {} /\ UNCHANGED <<dir, sent>>
  BY DEF CrashEngine, CrashInApply, Shutdown, Restart, Crash, Close, NewWriter, diskVars
<1>2. ~(batch'.left > 0)
  <2>1. batch' = NoBatch
    BY DEF CrashEngine, CrashInApply, Shutdown, Restart, ProcessGone, Idle, memVars
  <2> QED BY <2>1 DEF NoBatch
<1>3. CASE Shutdown
  <2>1. UNCHANGED <<active, job, flushCount>>
    BY <1>3 DEF Shutdown, memVars
  <2> QED BY <1>1, <1>2, <2>1 DEF OnlyOld, BatchApplied, FreshPaths, InBatch, UnusedPaths,
                                 HonestResults, Accounted
<1>4. CASE CrashEngine \/ CrashInApply \/ Restart
  <2>1. flushCount' = 0 /\ \A n \in Paths : job'[n] = NoJob
    BY <1>4 DEF CrashEngine, CrashInApply, Restart, ProcessGone
  <2>2. NoJob.pc = "none" /\ NoJob.data = {}
    BY DEF NoJob
  <2>3. active' \subseteq 1 .. sent
    <3>1. CASE Restart
      <4>1. Len(log) \in 0 .. Len(log) /\ manifestFile.wal \in Nat
        BY DEF LogInv, WALTypeOK, TypeInv, EngineTypeOK, Manifests
      <4> QED BY <3>1, <4>1, ReplayRange DEF Restart, Recovered
    <3>2. CASE CrashEngine \/ CrashInApply
      BY <3>2 DEF CrashEngine, CrashInApply, ProcessGone
    <3> QED BY <1>4, <3>1, <3>2
  <2>4. OnlyOld'
    BY <1>1, <2>1, <2>2, <2>3 DEF OnlyOld
  <2> QED BY <1>1, <1>2, <2>1, <2>2, <2>4 DEF BatchApplied, FreshPaths, InBatch, UnusedPaths,
                                             HonestResults, Accounted
<1> QED BY <1>3, <1>4

(* Every step keeps the inductive invariant.                               *)
LEMMA AccountedStep ==
    ASSUME AccountedInv, TypeInv', LogInv', [EngineNext]_vars
    PROVE  AccountedInv'
<1> USE DEF AccountedInv
<1>1. CASE HandleWrite \/ BatchAppend
  BY <1>1, AccountedWrite
<1>2. CASE HandleWriteFails \/ BatchAppendFails
  <2>1. /\ sent \in Nat /\ sent' = sent + 1 /\ closed' = closed /\ batch' = NoBatch
        /\ UNCHANGED <<dir, job, manifest, dropped, flushCount, active, acked>>
    BY <1>2 DEF HandleWriteFails, BatchAppendFails, WriterAppendFails, Idle, memVars, diskVars,
                LogInv, WALTypeOK
  <2>2. ~(batch'.left > 0)
    BY <2>1 DEF NoBatch
  <2>3. InBatch' \subseteq InBatch /\ BatchApplied'
    BY <2>2 DEF InBatch, BatchApplied
  <2> QED BY <2>1, <2>3, AccountedQuiet
<1>3. CASE HandleBatchWrite
  <2>1. /\ sent \in Nat /\ ~closed /\ UNCHANGED <<sent, closed>>
        /\ UNCHANGED <<dir, job, manifest, dropped, flushCount, active, acked>>
        /\ batch'.first = sent + 1
    <3>1. batch'.first = sent + 1
      BY <1>3 DEF HandleBatchWrite
    <3> QED BY <1>3, <3>1 DEF HandleBatchWrite, Idle, walVars, diskVars, histVars, LogInv, WALTypeOK
  <2>2. \A w \in batch'.first .. sent' : FALSE
    BY <2>1
  <2>3. InBatch' \subseteq InBatch /\ BatchApplied'
    BY <2>1, <2>2 DEF InBatch, BatchApplied
  <2> QED BY <2>1, <2>3, AccountedQuiet
<1>4. CASE LogSync \/ LogFsyncTick \/ LogFsyncFails \/ UNCHANGED vars
  <2>1. UNCHANGED engineVars
    BY <1>4 DEF LogSync, LogFsyncTick, LogFsyncFails, vars
  <2>2. UNCHANGED <<sent, closed>>
    BY <1>4 DEF LogSync, LogFsyncTick, LogFsyncFails, Sync, FsyncTick, FsyncFails, Flush,
                FlushFails, LosesTail, vars, walVars
  <2>3. sent \in Nat
    BY DEF LogInv, WALTypeOK
  <2>4. UNCHANGED <<dir, job, manifest, dropped, flushCount, active, acked, batch>>
    BY <2>1 DEF engineVars, memVars, diskVars, histVars
  <2>5. InBatch' \subseteq InBatch /\ BatchApplied'
    BY <2>2, <2>4 DEF InBatch, BatchApplied
  <2> QED BY <2>2, <2>3, <2>4, <2>5, AccountedQuiet
<1>5. CASE MaybeRotateMemtable
  BY <1>5, AccountedRotate
<1>6. ASSUME NEW n \in Paths, FlushStep(n) \/ FlushFailsAt(n) PROVE AccountedInv'
  BY <1>6, AccountedFlush
<1>7. ASSUME NEW n \in Paths, Apply(n) \/ ApplyFlushSaveFails(n) PROVE AccountedInv'
  BY <1>7, AccountedApply
<1>8. CASE CrashEngine \/ CrashInApply \/ Shutdown \/ Restart
  BY <1>8, AccountedStop
<1> QED BY <1>1, <1>2, <1>3, <1>4, <1>5, <1>6, <1>7, <1>8 DEF EngineNext

(* The inductive invariant holds in every reachable state.                 *)
LEMMA AccountedInvariant == EngineSafety => []AccountedInv
<1>1. ASSUME EngineInit, TypeInv, LogInv PROVE AccountedInv
  <2> USE <1>1 DEF EngineInit
  <2>1. ~(batch.left > 0) /\ closed = FALSE /\ sent = 0 /\ active = {} /\ acked = {}
    BY DEF NoBatch, WALInit
  <2>2. \A n \in Paths : job[n].pc = "none" /\ job[n].data = {} /\ dir[n] = {}
    BY DEF NoJob
  <2> QED BY <2>1, <2>2 DEF AccountedInv, OnlyOld, BatchApplied, FreshPaths, UnusedPaths,
                           HonestResults, Accounted
<1> QED BY <1>1, AccountedStep, TypeInvariant, EngineLogInv, PTL DEF EngineSafety

(* A write that this process acknowledged is in its memory, on its way     *)
(* into a segment, in a listed segment, or was dropped by a failed flush:  *)
(* for any number of overlapping flushes, faults and restarts.             *)
THEOREM AcknowledgedWritesAccounted == EngineSafety => []Accounted
<1>1. AccountedInv => Accounted
  BY DEF AccountedInv
<1> QED BY <1>1, AccountedInvariant, PTL
-----------------------------------------------------------------------------
(* Flushing: what the checkpoint and a query may rely on while memtables   *)
(* are frozen, written to segments and listed.                             *)

(* What the engine goroutine does when it takes the result of path n.      *)
ApplyMoves(n) ==
    /\ ~closed /\ job[n].pc \in Finished
    /\ job'[n].pc = "applied" /\ job'[n].data = job[n].data /\ job'[n].off = job[n].off
    /\ \A k \in Paths \ {n} : job'[k] = job[k]
    /\ frozen' = {} /\ taints \subseteq taints'
    /\ UNCHANGED <<walVars, active, batch, flushCount, acked, failed, dir>>
    /\ \/ /\ job[n].pc = "errored" /\ "flushError" \in taints'
          /\ UNCHANGED <<manifest, manifestFile>>
       \/ /\ job[n].pc = "empty"
          /\ UNCHANGED <<manifest, manifestFile, dropped, taints>>
       \/ /\ job[n].pc = "written" /\ manifest' = Checkpointed(n)
          /\ manifestFile' \in {manifestFile, Added(n), Checkpointed(n)}
          /\ UNCHANGED <<dropped, taints>>

(* Every way to take a result is such a move.                              *)
LEMMA ApplyEffect ==
    ASSUME TypeInv, NEW n \in Paths, Apply(n) \/ ApplyFlushSaveFails(n)
    PROVE  ApplyMoves(n)
<1>1. /\ ~closed /\ frozen' = {} /\ job' = [job EXCEPT ![n].pc = "applied"]
      /\ UNCHANGED <<walVars, active, batch, flushCount, acked, failed, dir>>
  BY DEF Apply, ApplyFlushError, ApplyFlushEmpty, ApplyFlushResult, ApplyFlushSaveFails,
         TakesResult, Idle, histVars, diskVars
<1>2. /\ job'[n].pc = "applied" /\ job'[n].data = job[n].data /\ job'[n].off = job[n].off
      /\ \A k \in Paths \ {n} : job'[k] = job[k]
  BY <1>1, JobType, JobMoves, PcNames DEF TypeInv
<1>3. CASE ApplyFlushError(n)
  BY <1>1, <1>2, <1>3 DEF ApplyFlushError, ApplyMoves, Finished, diskVars
<1>4. CASE ApplyFlushEmpty(n)
  BY <1>1, <1>2, <1>4 DEF ApplyFlushEmpty, ApplyMoves, Finished, diskVars, histVars
<1>5. CASE ApplyFlushResult(n) \/ ApplyFlushSaveFails(n)
  BY <1>1, <1>2, <1>5
     DEF ApplyFlushResult, ApplyFlushSaveFails, ApplyMoves, Finished, histVars
<1> QED BY <1>3, <1>4, <1>5 DEF Apply
-----------------------------------------------------------------------------
(* Unless rotations overlap, at most one flush is under way.               *)
OneFlush == "overlap" \notin taints => \A m, n \in Unapplied : m = n

(* The checkpoint on disk, the one in memory, those of the flushes under   *)
(* way and the end of the log come in this order.                          *)
CheckpointOrder ==
    taints \cap {"overlap", "shortLog"} = {} =>
        /\ manifestFile.wal <= manifest.wal
        /\ ~closed => /\ manifest.wal <= offset
                      /\ \A n \in Unapplied : manifest.wal <= job[n].off /\ job[n].off <= offset

CheckpointInv == TypeInv /\ LogInv /\ OneFlush /\ CheckpointOrder

(* Steps that leave flushes and manifests alone and do not move the end of *)
(* the log back.                                                           *)
LEMMA CheckpointQuiet ==
    ASSUME CheckpointInv, TypeInv', LogInv',
           UNCHANGED <<job, manifest, manifestFile, taints>>,
           ~closed' => ~closed /\ offset <= offset'
    PROVE  CheckpointInv'
<1>1. Unapplied' = Unapplied
  BY DEF Unapplied
<1>2. OneFlush'
  BY <1>1 DEF CheckpointInv, OneFlush
<1>3. CheckpointOrder'
  <2>1. \A n \in Unapplied : job[n].off \in Nat
    BY JobType DEF Unapplied, Jobs, CheckpointInv, TypeInv
  <2>2. offset \in Nat /\ offset' \in Nat /\ manifest.wal \in Nat
    BY DEF CheckpointInv, LogInv, WALTypeOK, TypeInv, EngineTypeOK, Manifests
  <2> QED BY <1>1, <2>1, <2>2 DEF CheckpointInv, CheckpointOrder
<1> QED BY <1>2, <1>3 DEF CheckpointInv

(* Every step keeps the order of the checkpoints, and moves the one on     *)
(* disk only forward.                                                      *)
LEMMA CheckpointStep ==
    ASSUME CheckpointInv, TypeInv', LogInv', [EngineNext]_vars
    PROVE  /\ CheckpointInv'
           /\ taints' \cap {"overlap", "shortLog"} = {} => manifestFile'.wal >= manifestFile.wal
<1> USE DEF CheckpointInv
<1>t. /\ offset \in Nat /\ offset' \in Nat /\ Len(log) \in Nat
      /\ manifest.wal \in Nat /\ manifestFile.wal \in Nat
      /\ manifest'.wal \in Nat /\ manifestFile'.wal \in Nat
      /\ \A n \in Paths : job[n].off \in Nat /\ job'[n].off \in Nat
  <2>1. job \in [Paths -> Jobs] /\ job' \in [Paths -> Jobs]
    BY JobType DEF TypeInv, EngineTypeOK, Jobs, Pcs
  <2>2. \A n \in Paths : job[n].off \in Nat /\ job'[n].off \in Nat
    BY <2>1 DEF Jobs
  <2>3. offset \in Nat /\ offset' \in Nat /\ Len(log) \in Nat
    BY DEF LogInv, WALTypeOK
  <2> QED BY <2>2, <2>3 DEF TypeInv, EngineTypeOK, Manifests
<1>1. CASE HandleWrite \/ HandleWriteFails \/ HandleBatchWrite \/ BatchAppend \/ BatchAppendFails
  <2>1. /\ UNCHANGED <<job, manifest, manifestFile, taints, closed>>
        /\ offset' \in {offset, offset + RecordCells}
    BY <1>1 DEF HandleWrite, HandleWriteFails, HandleBatchWrite, BatchAppend, BatchAppendFails,
                WriterAppend, WriterAppendFails, AppendOnBroken, AppendSpillFails,
                AppendFlushFails, memVars, diskVars, histVars, walVars
  <2>2. offset <= offset'
    BY <1>t, <2>1 DEF RecordCells
  <2> QED BY <1>t, <2>1, <2>2, CheckpointQuiet
<1>2. CASE LogSync \/ LogFsyncTick \/ LogFsyncFails \/ UNCHANGED vars
  <2>1. UNCHANGED <<job, manifest, manifestFile, taints, closed, offset>>
    BY <1>2 DEF LogSync, LogFsyncTick, LogFsyncFails, Sync, FsyncTick, FsyncFails, vars,
                engineVars, memVars, diskVars, histVars, walVars
  <2> QED BY <1>t, <2>1, CheckpointQuiet
<1>3. CASE MaybeRotateMemtable
  <2>1. /\ ~closed /\ UNCHANGED <<manifest, manifestFile, offset, closed>>
        /\ flushCount \in Paths
        /\ job' = [job EXCEPT ![flushCount] = NewJob]
        /\ taints \subseteq taints' /\ (Unapplied # {} => "overlap" \in taints')
    BY <1>3, EngineConstants
       DEF MaybeRotateMemtable, Idle, walVars, diskVars, TypeInv, EngineTypeOK, Paths
  <2>2. job'[flushCount].off = offset /\ \A n \in Paths \ {flushCount} : job'[n] = job[n]
    BY <2>1, JobType DEF NewJob, TypeInv
  <2>3. \A n \in Unapplied' : n = flushCount \/ n \in Unapplied
    BY <2>2 DEF Unapplied
  <2>4. OneFlush'
    BY <2>1, <2>3 DEF OneFlush
  <2>5. CheckpointOrder'
    BY <1>t, <2>1, <2>2, <2>3 DEF CheckpointOrder
  <2> QED BY <1>t, <2>1, <2>4, <2>5
<1>4. ASSUME NEW n \in Paths, FlushStep(n) \/ FlushFailsAt(n)
      PROVE  CheckpointInv' /\ manifestFile' = manifestFile
  <2>1. /\ UNCHANGED <<manifest, manifestFile, offset, closed>> /\ taints \subseteq taints'
        /\ (FlushSend(n) => UNCHANGED <<job, taints>>)
    BY <1>4 DEF FlushStep, FlushNothing, FlushCreate, FlushWrite, FlushSend, FlushFailsAt,
                walVars, histVars, diskVars
  <2>2. CASE FlushSend(n)
    BY <1>t, <2>1, <2>2, CheckpointQuiet
  <2>3. CASE ~FlushSend(n)
    <3>1. FlushMoves(n)
      BY <1>4, <2>3, FlushEffect
    <3>2. Unapplied' = Unapplied /\ \A k \in Paths : job'[k].off = job[k].off
      BY <3>1 DEF Unapplied, FlushMoves
    <3>3. OneFlush'
      BY <2>1, <3>2 DEF OneFlush
    <3>4. CheckpointOrder'
      <4>1. Unapplied \subseteq Paths
        BY DEF Unapplied
      <4> QED BY <2>1, <3>2, <4>1 DEF CheckpointOrder
    <3> QED BY <2>1, <3>3, <3>4
  <2> QED BY <2>2, <2>3
<1>5. ASSUME NEW n \in Paths, Apply(n) \/ ApplyFlushSaveFails(n)
      PROVE  /\ CheckpointInv'
             /\ taints' \cap {"overlap", "shortLog"} = {} => manifestFile'.wal >= manifestFile.wal
  <2>1. ApplyMoves(n)
    BY <1>5, ApplyEffect
  <2>2. n \in Unapplied /\ Unapplied' = Unapplied \ {n}
    BY <2>1 DEF ApplyMoves, Unapplied, Finished
  <2>3. \A k \in Unapplied' : job'[k].off = job[k].off
    BY <2>1, <2>2 DEF ApplyMoves, Unapplied
  <2>4. OneFlush'
    BY <2>1, <2>2 DEF OneFlush, ApplyMoves
  <2>5. UNCHANGED <<closed, offset>> /\ ~closed /\ taints \subseteq taints'
    BY <2>1 DEF ApplyMoves, walVars
  <2>6. ASSUME taints' \cap {"overlap", "shortLog"} = {}
        PROVE  /\ Unapplied' = {} /\ manifestFile.wal <= manifest.wal
               /\ manifest.wal <= job[n].off /\ job[n].off <= offset /\ manifest.wal <= offset
    BY <2>2, <2>5, <2>6 DEF OneFlush, CheckpointOrder
  <2>7. \/ UNCHANGED <<manifest, manifestFile>>
        \/ /\ manifest'.wal = job[n].off
           /\ manifestFile'.wal \in {manifestFile.wal, manifest.wal, job[n].off}
    BY <2>1, CheckpointedSegs DEF ApplyMoves, TypeInv
  <2>8. CheckpointOrder'
    BY <1>t, <2>5, <2>6, <2>7 DEF CheckpointOrder
  <2> QED BY <1>t, <2>4, <2>6, <2>7, <2>8
<1>6. CASE CrashEngine \/ CrashInApply \/ Shutdown
  <2>1. closed' /\ UNCHANGED <<manifest, taints>>
    BY <1>6 DEF CrashEngine, CrashInApply, Shutdown, Crash, Close, memVars
  <2>2. OneFlush'
    <3>1. CASE CrashEngine \/ CrashInApply
      <4>1. \A n \in Paths : job'[n] = NoJob
        BY <3>1 DEF CrashEngine, CrashInApply, ProcessGone
      <4>2. Unapplied' = {}
        BY <4>1 DEF Unapplied, NoJob
      <4> QED BY <4>2 DEF OneFlush
    <3>2. CASE Shutdown
      BY <3>2, <2>1 DEF Shutdown, memVars, OneFlush, Unapplied
    <3> QED BY <1>6, <3>1, <3>2
  <2>3. manifestFile'.wal \in {manifestFile.wal, manifest.wal}
    <3>1. CASE CrashInApply
      <4>1. Head(flushDoneCh) \in Paths /\ manifestFile' = Added(Head(flushDoneCh))
        BY <3>1 DEF CrashInApply, TypeInv, EngineTypeOK
      <4> QED BY <4>1, CheckpointedSegs DEF TypeInv
    <3>2. CASE CrashEngine \/ Shutdown
      BY <3>2 DEF CrashEngine, Shutdown, diskVars
    <3> QED BY <1>6, <3>1, <3>2
  <2>4. CheckpointOrder'
    BY <1>t, <2>1, <2>3 DEF CheckpointOrder
  <2> QED BY <1>t, <2>1, <2>2, <2>3, <2>4 DEF CheckpointOrder
<1>7. CASE Restart
  <2>1. /\ manifest' = manifestFile /\ manifestFile' = manifestFile /\ taints \subseteq taints'
        /\ offset' = Len(log)
        /\ (Len(log) < manifestFile.wal => "shortLog" \in taints')
        /\ \A n \in Paths : job'[n] = NoJob
    BY <1>7 DEF Restart, NewWriter, diskVars
  <2>2. Unapplied' = {}
    BY <2>1 DEF Unapplied, NoJob
  <2>3. OneFlush' /\ CheckpointOrder'
    BY <1>t, <2>1, <2>2 DEF OneFlush, CheckpointOrder
  <2> QED BY <1>t, <2>1, <2>3
<1> QED BY <1>t, <1>1, <1>2, <1>3, <1>4, <1>5, <1>6, <1>7 DEF EngineNext

(* The order of the checkpoints holds in every reachable state.            *)
LEMMA CheckpointInvariant == EngineSafety => []CheckpointInv
<1>1. ASSUME EngineInit, TypeInv, LogInv PROVE CheckpointInv
  <2>1. \A n \in Paths : job[n] = NoJob
    BY <1>1 DEF EngineInit
  <2>2. Unapplied = {}
    BY <2>1 DEF Unapplied, NoJob
  <2>3. manifestFile.wal = 0 /\ manifest.wal = 0 /\ offset = 0
    BY <1>1 DEF EngineInit, WALInit
  <2> QED BY <1>1, <2>2, <2>3 DEF CheckpointInv, OneFlush, CheckpointOrder
<1> QED BY <1>1, CheckpointStep, TypeInvariant, EngineLogInv, PTL DEF EngineSafety

(* The checkpoint that applyFlushResult saves and Recover starts from      *)
(* never moves back, for any number of flushes, failing saves, crashes     *)
(* between the two saves and restarts, unless flushes overlap or the log   *)
(* was cut below it.                                                       *)
THEOREM CheckpointNeverMovesBack == EngineSafety => CheckpointMonotone
BY CheckpointStep, CheckpointInvariant, TypeInvariant, EngineLogInv, PTL
   DEF EngineSafety, CheckpointMonotone
-----------------------------------------------------------------------------
(* The writes of this process that were or will be acknowledged.           *)
Mine == acked \cup InBatch
Listed(m) == {e.path : e \in Entries(m)}
Clean == taints \cap {"overlap", "flushError", "pathReuse"} = {}

(* Each write of this process is in one place only: in active or in the    *)
(* data of one job, and in no file but that of its job.                    *)
OnePlace ==
    /\ \A n \in Paths : active \cap job[n].data \cap Mine = {}
    /\ \A m, n \in Paths : m # n => job[m].data \cap job[n].data \cap Mine = {}
    /\ \A n \in Paths : dir[n] \cap Mine \subseteq job[n].data

(* The file of a job gets its data when the job writes it, not before.     *)
Unwritten == \A n \in Paths : job[n].pc \notin {"written", "applied"} => dir[n] \cap Mine = {}

(* The block range of a job covers its data, and that of a listed segment  *)
(* the writes of this process in it.                                       *)
JobRange ==
    \A n \in Paths : job[n].pc \in {"created", "written"} =>
        \A w \in job[n].data : job[n].lo <= TimeOf[w] /\ TimeOf[w] <= job[n].hi
ListedRange ==
    Clean => \A e \in Entries(manifest) : \A w \in dir[e.path] \cap Mine :
                e.lo <= TimeOf[w] /\ TimeOf[w] <= e.hi

(* No path is listed twice, and none that is being written.                *)
ListedOnce(m) == \A i, k \in DOMAIN m.segs : m.segs[i].path = m.segs[k].path => i = k
ListedOnceInv ==
    Clean => /\ ListedOnce(manifest) /\ ListedOnce(manifestFile)
             /\ \A n \in Paths : job[n].pc \in {"created", "written"} => n \notin Listed(manifest)

(* The frozen memtable is the data of the flush under way.                 *)
FrozenIsUnapplied ==
    Clean /\ ~closed => frozen = UNION {job[n].data : n \in Unapplied}

NoDrops == "flushError" \notin taints => dropped = {}

PlacesInv ==
    /\ OnePlace /\ Unwritten /\ JobRange /\ ListedRange /\ ListedOnceInv
    /\ FrozenIsUnapplied /\ NoDrops

(* The theorems so far, on which the following rest.                       *)
Known == AccountedInv /\ CheckpointInv

(* A write of an open writer, single or in a batch.                        *)
LEMMA PlacesWrite ==
    ASSUME Known, PlacesInv, HandleWrite \/ BatchAppend
    PROVE  PlacesInv'
<1> USE DEF PlacesInv
<1>1. /\ active' = active \cup {sent + 1} /\ sent \in Nat
      /\ UNCHANGED <<dir, job, manifest, manifestFile, frozen, dropped, taints, closed>>
  BY DEF HandleWrite, BatchAppend, WriterAppend, diskVars, Known, AccountedInv, LogInv, WALTypeOK
<1>2. \A w \in Mine' : w \in Mine \/ w = sent + 1
  BY OneWriteMore DEF Mine, Known, AccountedInv
<1>3. \A n \in Paths : sent + 1 \notin dir[n] /\ sent + 1 \notin job[n].data
  BY <1>1 DEF Known, AccountedInv, OnlyOld
<1>4. OnePlace'
  BY <1>1, <1>2, <1>3 DEF OnePlace
<1>5. Unwritten'
  BY <1>1, <1>2, <1>3 DEF Unwritten
<1>6. JobRange' /\ ListedOnceInv' /\ NoDrops' /\ FrozenIsUnapplied'
  BY <1>1 DEF JobRange, ListedOnceInv, NoDrops, FrozenIsUnapplied, ListedOnce, Listed, Entries,
              Clean, Unapplied
<1>7. ListedRange'
  <2>1. \A e \in Entries(manifest) : e.path \in Paths
    BY EntriesType DEF Known, AccountedInv, TypeInv
  <2> QED BY <1>1, <1>2, <1>3, <2>1 DEF ListedRange, Entries, Clean
<1> QED BY <1>4, <1>5, <1>6, <1>7

(* Steps that move no data and acknowledge nothing.                        *)
LEMMA PlacesQuiet ==
    ASSUME PlacesInv, Mine' \subseteq Mine, ~closed' => ~closed,
           UNCHANGED <<active, dir, job, manifest, manifestFile, frozen, dropped, taints>>
    PROVE  PlacesInv'
<1> USE DEF PlacesInv
<1>1. OnePlace'
  BY DEF OnePlace
<1>2. Unwritten'
  BY DEF Unwritten
<1>3. JobRange' /\ ListedOnceInv' /\ NoDrops' /\ FrozenIsUnapplied'
  BY DEF JobRange, ListedOnceInv, NoDrops, FrozenIsUnapplied, ListedOnce, Listed, Entries,
         Clean, Unapplied
<1>4. ListedRange'
  BY DEF ListedRange, Entries, Clean
<1> QED BY <1>1, <1>2, <1>3, <1>4

(* A rotation moves the writes of active to a job of their own.            *)
LEMMA PlacesRotate ==
    ASSUME Known, PlacesInv, MaybeRotateMemtable
    PROVE  PlacesInv'
<1> USE DEF PlacesInv
<1>1. /\ ~closed /\ UNCHANGED <<manifest, manifestFile, dir, dropped, acked, batch, sent, closed>>
      /\ active' = {} /\ frozen' = active
      /\ flushCount \in Paths /\ flushCount \in Nat
      /\ job' = [job EXCEPT ![flushCount] = NewJob]
      /\ taints \subseteq taints' /\ (Unapplied # {} => "overlap" \in taints')
  BY EngineConstants DEF MaybeRotateMemtable, Idle, walVars, diskVars, Known, AccountedInv,
                         TypeInv, EngineTypeOK, Paths
<1>2. /\ job'[flushCount].data = active /\ job'[flushCount].pc = "start"
      /\ \A n \in Paths \ {flushCount} : job'[n] = job[n]
  BY <1>1, JobType DEF NewJob, Known, AccountedInv, TypeInv
<1>3. Mine' = Mine /\ (Clean' => Clean)
  BY <1>1 DEF Mine, InBatch, Clean
<1>4. dir[flushCount] \cap Mine = {}
  BY <1>1 DEF Unwritten, Known, AccountedInv, UnusedPaths
<1>5. OnePlace'
  BY <1>1, <1>2, <1>3, <1>4 DEF OnePlace
<1>6. Unwritten'
  BY <1>1, <1>2, <1>3, <1>4 DEF Unwritten
<1>7. JobRange'
  BY <1>2 DEF JobRange
<1>8. ListedOnceInv' /\ ListedRange' /\ NoDrops'
  BY <1>1, <1>2, <1>3 DEF ListedOnceInv, ListedOnce, Listed, ListedRange, Entries, NoDrops
<1>9. FrozenIsUnapplied'
  <2>1. ASSUME Clean' PROVE Unapplied' = {flushCount}
    BY <1>1, <1>2, <2>1 DEF Clean, Unapplied
  <2> QED BY <1>1, <1>2, <2>1 DEF FrozenIsUnapplied
<1> QED BY <1>5, <1>6, <1>7, <1>8, <1>9

(* Creating the file of a listed path is recorded.                         *)
LEMMA ReuseTaints ==
    ASSUME TypeInv, NEW n \in Paths, FlushStep(n) \/ FlushFailsAt(n), ~FlushSend(n),
           job'[n].pc = "created", n \in Listed(manifest)
    PROVE  ~Clean'
<1>1. job \in [Paths -> Jobs]
  BY JobType DEF TypeInv
<1>2. CASE FlushNothing(n)
  BY <1>1, <1>2, JobMoves, PcNames DEF FlushNothing
<1>3. CASE FlushWrite(n)
  BY <1>1, <1>3, JobMoves, PcNames DEF FlushWrite
<1>4. CASE FlushFailsAt(n)
  BY <1>1, <1>4, JobMoves, PcNames DEF FlushFailsAt
<1>5. CASE FlushCreate(n)
  BY <1>5 DEF FlushCreate, Listed, Clean
<1> QED BY <1>2, <1>3, <1>4, <1>5 DEF FlushStep

(* A flush goroutine writes the file of its path.                          *)
LEMMA PlacesFlush ==
    ASSUME Known, PlacesInv, NEW n \in Paths, FlushStep(n) \/ FlushFailsAt(n)
    PROVE  PlacesInv'
<1> USE DEF PlacesInv
<1>1. /\ UNCHANGED <<active, frozen, manifest, manifestFile, dropped, acked, batch, sent, closed>>
      /\ taints \subseteq taints'
  BY DEF FlushStep, FlushNothing, FlushCreate, FlushWrite, FlushSend, FlushFailsAt,
         walVars, histVars, diskVars
<1>2. Mine' = Mine /\ (Clean' => Clean)
  BY <1>1 DEF Mine, InBatch, Clean
<1>3. CASE FlushSend(n)
  BY <1>1, <1>2, <1>3, PlacesQuiet DEF FlushSend, diskVars, histVars
<1>4. CASE ~FlushSend(n)
  <2>1. FlushMoves(n)
    BY <1>4, FlushEffect DEF Known, AccountedInv
  <2>2. \A k \in Paths : job'[k].data = job[k].data
    BY <2>1 DEF FlushMoves
  <2>3. \A k \in Paths : dir'[k] = dir[k] \/ dir'[k] = {} \/ dir'[k] = job[k].data
    BY <2>1 DEF FlushMoves
  <2>4. OnePlace'
    BY <1>1, <1>2, <2>2, <2>3 DEF OnePlace
  <2>5. Unwritten'
    BY <1>2, <2>1 DEF Unwritten, FlushMoves
  <2>6. JobRange'
    BY <2>1 DEF JobRange, FlushMoves, BlockRange
  <2>7. ASSUME job'[n].pc = "created", n \in Listed(manifest) PROVE ~Clean'
    BY <1>4, <2>7, ReuseTaints DEF Known, AccountedInv
  <2>8. ListedOnceInv'
    <3>1. Listed(manifest)' = Listed(manifest)
      BY <1>1 DEF Listed, Entries
    <3>2. ASSUME Clean', NEW k \in Paths, job'[k].pc \in {"created", "written"}
          PROVE  k \notin Listed(manifest)
      BY <1>2, <2>1, <2>7, <3>2 DEF ListedOnceInv, FlushMoves
    <3> QED BY <1>1, <1>2, <3>1, <3>2 DEF ListedOnceInv, ListedOnce
  <2>9. ListedRange'
    <3> SUFFICES ASSUME Clean', NEW e \in Entries(manifest), NEW w \in dir'[e.path] \cap Mine
                 PROVE  e.lo <= TimeOf[w] /\ TimeOf[w] <= e.hi
      BY <1>1, <1>2 DEF ListedRange, Entries
    <3>1. e.path \in Paths /\ e.path \in Listed(manifest)
      BY EntriesType DEF Known, AccountedInv, TypeInv, Listed
    <3>2. dir'[e.path] = dir[e.path]
      BY <1>2, <2>1, <3>1 DEF FlushMoves, ListedOnceInv
    <3> QED BY <1>2, <3>2 DEF ListedRange
  <2>10. FrozenIsUnapplied'
    <3>1. Unapplied' = Unapplied /\ Unapplied \subseteq Paths
      BY <2>1 DEF Unapplied, FlushMoves
    <3>2. UNION {job'[k].data : k \in Unapplied'} = UNION {job[k].data : k \in Unapplied}
      BY <2>2, <3>1
    <3> QED BY <1>1, <1>2, <3>2 DEF FrozenIsUnapplied
  <2>11. NoDrops'
    BY <1>1 DEF NoDrops
  <2> QED BY <2>4, <2>5, <2>6, <2>8, <2>9, <2>10, <2>11
<1> QED BY <1>3, <1>4

(* Appending an entry: the old ones stay, and the new one comes last.      *)
LEMMA EntriesAppend ==
    ASSUME TypeInv, NEW n \in Paths, NEW m \in {Added(n), Checkpointed(n)}
    PROVE  /\ Entries(m) = Entries(manifest) \cup {Entry(n)}
           /\ Entry(n).path = n
           /\ ListedOnce(manifest) /\ n \notin Listed(manifest) => ListedOnce(m)
<1>1. m.segs = Append(manifest.segs, Entry(n))
  BY CheckpointedSegs DEF TypeInv
<1>2. manifest.segs \in Seq(SegEntries) /\ Entry(n) \in SegEntries
  BY JobType, EntryType DEF Manifests, SegEntries, TypeInv
<1>3. Entry(n).path = n
  BY DEF Entry
<1> DEFINE s == manifest.segs
           t == m.segs
<1>4. /\ Len(s) \in Nat /\ DOMAIN s = 1 .. Len(s) /\ DOMAIN t = 1 .. Len(s) + 1
      /\ \A i \in DOMAIN s : t[i] = s[i]
      /\ t[Len(s) + 1] = Entry(n)
  BY <1>1, <1>2
<1>5. Entries(m) = Entries(manifest) \cup {Entry(n)}
  <2>1. \A i \in DOMAIN t : i \in DOMAIN s \/ i = Len(s) + 1
    BY <1>4
  <2>2. \A i \in DOMAIN s : i \in DOMAIN t
    BY <1>4
  <2>3. Len(s) + 1 \in DOMAIN t
    BY <1>4
  <2> QED BY <1>4, <2>1, <2>2, <2>3 DEF Entries
<1>6. ASSUME ListedOnce(manifest), n \notin Listed(manifest) PROVE ListedOnce(m)
  <2>1. \A i \in DOMAIN s : s[i].path # n
    BY <1>6 DEF Listed, Entries
  <2>2. ASSUME NEW i \in DOMAIN t, NEW k \in DOMAIN t, t[i].path = t[k].path PROVE i = k
    <3>1. (i \in DOMAIN s /\ k \in DOMAIN s) \/ i = Len(s) + 1 \/ k = Len(s) + 1
      BY <1>4
    <3>2. CASE i \in DOMAIN s /\ k \in DOMAIN s
      BY <1>4, <1>6, <2>2, <3>2 DEF ListedOnce
    <3>3. CASE i = Len(s) + 1
      BY <1>3, <1>4, <2>1, <2>2, <3>3
    <3>4. CASE k = Len(s) + 1
      BY <1>3, <1>4, <2>1, <2>2, <3>4
    <3> QED BY <3>1, <3>2, <3>3, <3>4
  <2> QED BY <2>2 DEF ListedOnce
<1> QED BY <1>3, <1>5, <1>6

(* The engine goroutine lists the segment of a job.                        *)
LEMMA PlacesApply ==
    ASSUME Known, PlacesInv, NEW n \in Paths, Apply(n) \/ ApplyFlushSaveFails(n)
    PROVE  PlacesInv'
<1> USE DEF PlacesInv
<1>1. ApplyMoves(n)
  BY ApplyEffect DEF Known, AccountedInv
<1>2. /\ UNCHANGED <<active, dir, acked, batch, sent, closed>> /\ ~closed /\ frozen' = {}
      /\ taints \subseteq taints' /\ job[n].pc \in Finished
  BY <1>1 DEF ApplyMoves, walVars
<1>3. Mine' = Mine /\ (Clean' => Clean)
  BY <1>2 DEF Mine, InBatch, Clean
<1>4. /\ \A k \in Paths : job'[k].data = job[k].data
      /\ job'[n].pc = "applied" /\ \A k \in Paths \ {n} : job'[k] = job[k]
  BY <1>1 DEF ApplyMoves
<1>5. ASSUME Clean' PROVE Unapplied' = {}
  <2>1. n \in Unapplied
    BY <1>2 DEF Unapplied, Finished
  <2>2. \A k \in Unapplied : k = n
    BY <1>2, <1>5, <2>1 DEF Clean, Known, CheckpointInv, OneFlush
  <2> QED BY <1>4, <2>2 DEF Unapplied
<1>6. OnePlace'
  BY <1>2, <1>3, <1>4 DEF OnePlace
<1>7. Unwritten'
  BY <1>2, <1>3, <1>4 DEF Unwritten
<1>8. JobRange'
  BY <1>4 DEF JobRange
<1>9. FrozenIsUnapplied'
  BY <1>2, <1>5 DEF FrozenIsUnapplied
<1>10. NoDrops'
  BY <1>1 DEF NoDrops, ApplyMoves
<1>11. ASSUME Clean', NEW k \in Paths PROVE job'[k].pc \notin {"created", "written"}
  BY <1>5, <1>11 DEF Unapplied
<1>12. CASE job[n].pc # "written"
  <2>1. UNCHANGED <<manifest, manifestFile>>
    BY <1>1, <1>12 DEF ApplyMoves
  <2>2. ListedRange'
    BY <1>2, <1>3, <2>1 DEF ListedRange, Entries
  <2>3. ListedOnceInv'
    BY <1>3, <1>11, <2>1 DEF ListedOnceInv, ListedOnce, Listed, Entries
  <2> QED BY <1>6, <1>7, <1>8, <1>9, <1>10, <2>2, <2>3
<1>13. CASE job[n].pc = "written"
  <2>1. manifest' = Checkpointed(n) /\ manifestFile' \in {manifestFile, Added(n), Checkpointed(n)}
    BY <1>1, <1>13 DEF ApplyMoves
  <2>2. Clean => n \notin Listed(manifest)
    BY <1>13 DEF ListedOnceInv
  <2>3. ListedRange'
    <3> SUFFICES ASSUME Clean', NEW e \in Entries(manifest'), NEW w \in dir[e.path] \cap Mine
                 PROVE  e.lo <= TimeOf[w] /\ TimeOf[w] <= e.hi
      BY <1>2, <1>3 DEF ListedRange, Entries
    <3>1. e \in Entries(manifest) \/ e = Entry(n)
      BY <2>1, EntriesAppend DEF Known, AccountedInv
    <3>2. CASE e \in Entries(manifest)
      BY <1>3, <3>2 DEF ListedRange
    <3>3. CASE e = Entry(n)
      <4>1. e.path = n /\ e.lo = job[n].lo /\ e.hi = job[n].hi
        BY <3>3 DEF Entry
      <4>2. w \in job[n].data
        BY <4>1 DEF OnePlace
      <4> QED BY <1>13, <4>1, <4>2 DEF JobRange
    <3> QED BY <3>1, <3>2, <3>3
  <2>4. ListedOnceInv'
    <3> SUFFICES ASSUME Clean' PROVE ListedOnce(manifest') /\ ListedOnce(manifestFile')
      BY <1>11 DEF ListedOnceInv, ListedOnce
    <3>1. ListedOnce(manifest) /\ ListedOnce(manifestFile)
      BY <1>3 DEF ListedOnceInv
    <3>2. ListedOnce(Checkpointed(n)) /\ ListedOnce(Added(n))
      BY <1>3, <2>2, <3>1, EntriesAppend DEF Known, AccountedInv
    <3> QED BY <2>1, <3>1, <3>2
  <2> QED BY <1>6, <1>7, <1>8, <1>9, <1>10, <2>3, <2>4
<1> QED BY <1>12, <1>13

(* A process that ends or starts: it has acknowledged nothing.             *)
LEMMA PlacesStop ==
    ASSUME Known, PlacesInv, CrashEngine \/ CrashInApply \/ Restart
    PROVE  PlacesInv'
<1> USE DEF PlacesInv
<1>1. /\ acked' = {} /\ ~(batch'.left > 0) /\ frozen' = {} /\ UNCHANGED <<dir, dropped>>
      /\ \A n \in Paths : job'[n] = NoJob
      /\ taints \subseteq taints'
  BY DEF CrashEngine, CrashInApply, Restart, ProcessGone, NoBatch, diskVars, NewWriter,
         Known, AccountedInv
<1>2. Mine' = {} /\ (Clean' => Clean) /\ Unapplied' = {}
  BY <1>1 DEF Mine, InBatch, Clean, Unapplied, NoJob
<1>3. \A n \in Paths : job'[n].pc = "none" /\ job'[n].data = {}
  BY <1>1 DEF NoJob
<1>4. /\ OnePlace' /\ Unwritten' /\ JobRange' /\ ListedRange' /\ FrozenIsUnapplied' /\ NoDrops'
  BY <1>1, <1>2, <1>3
     DEF OnePlace, Unwritten, JobRange, ListedRange, FrozenIsUnapplied, NoDrops
<1>5. ListedOnceInv'
  <2> SUFFICES ASSUME Clean PROVE ListedOnce(manifest') /\ ListedOnce(manifestFile')
    BY <1>2, <1>3 DEF ListedOnceInv, ListedOnce
  <2>1. ListedOnce(manifest) /\ ListedOnce(manifestFile)
    BY DEF ListedOnceInv
  <2>2. CASE CrashEngine
    BY <2>1, <2>2 DEF CrashEngine, diskVars
  <2>3. CASE Restart
    BY <2>1, <2>3 DEF Restart, diskVars
  <2>4. CASE CrashInApply
    <3> DEFINE n == Head(flushDoneCh)
    <3>1. /\ n \in Paths /\ job[n].pc = "written" /\ manifest' = manifest
          /\ manifestFile' = Added(n)
      BY <2>4 DEF CrashInApply, Known, AccountedInv, TypeInv, EngineTypeOK
    <3>2. n \notin Listed(manifest)
      BY <3>1 DEF ListedOnceInv
    <3>3. ListedOnce(Added(n))
      BY <2>1, <3>1, <3>2, EntriesAppend DEF Known, AccountedInv
    <3> QED BY <2>1, <3>1, <3>3
  <2> QED BY <2>2, <2>3, <2>4
<1> QED BY <1>4, <1>5

(* Every step keeps each write in its place.                               *)
LEMMA PlacesStep ==
    ASSUME Known, PlacesInv, [EngineNext]_vars
    PROVE  PlacesInv'
<1>1. CASE HandleWrite \/ BatchAppend
  BY <1>1, PlacesWrite
<1>2. CASE HandleWriteFails \/ BatchAppendFails \/ HandleBatchWrite \/ Shutdown
  <2>1. /\ UNCHANGED <<active, dir, job, manifest, manifestFile, frozen, dropped, taints>>
        /\ (~closed' => ~closed) /\ acked' \subseteq acked
    BY <1>2 DEF HandleWriteFails, BatchAppendFails, HandleBatchWrite, Shutdown, WriterAppendFails,
                Close, memVars, diskVars, histVars, walVars
  <2>2. InBatch' = {}
    <3>1. CASE HandleBatchWrite
      <4>1. batch'.first = sent + 1 /\ sent' = sent /\ sent \in Nat
        BY <3>1 DEF HandleBatchWrite, walVars, Known, AccountedInv, LogInv, WALTypeOK
      <4> QED BY <4>1 DEF InBatch
    <3>2. CASE HandleWriteFails \/ BatchAppendFails \/ Shutdown
      <4>1. batch' = NoBatch
        BY <3>2 DEF HandleWriteFails, BatchAppendFails, Shutdown, Idle, memVars
      <4> QED BY <4>1 DEF InBatch, NoBatch
    <3> QED BY <1>2, <3>1, <3>2
  <2> QED BY <2>1, <2>2, PlacesQuiet DEF Mine
<1>3. CASE LogSync \/ LogFsyncTick \/ LogFsyncFails \/ UNCHANGED vars
  <2>1. UNCHANGED engineVars /\ UNCHANGED <<sent, closed>>
    BY <1>3 DEF LogSync, LogFsyncTick, LogFsyncFails, Sync, FsyncTick, FsyncFails, vars, walVars
  <2>2. UNCHANGED <<active, dir, job, manifest, manifestFile, frozen, dropped, taints, acked, batch>>
    BY <2>1 DEF engineVars, memVars, diskVars, histVars
  <2> QED BY <2>1, <2>2, PlacesQuiet DEF Mine, InBatch
<1>4. CASE MaybeRotateMemtable
  BY <1>4, PlacesRotate
<1>5. ASSUME NEW n \in Paths, FlushStep(n) \/ FlushFailsAt(n) PROVE PlacesInv'
  BY <1>5, PlacesFlush
<1>6. ASSUME NEW n \in Paths, Apply(n) \/ ApplyFlushSaveFails(n) PROVE PlacesInv'
  BY <1>6, PlacesApply
<1>7. CASE CrashEngine \/ CrashInApply \/ Restart
  BY <1>7, PlacesStop
<1> QED BY <1>1, <1>2, <1>3, <1>4, <1>5, <1>6, <1>7 DEF EngineNext

(* Each write is in its place in every reachable state.                    *)
LEMMA PlacesInvariant == EngineSafety => []PlacesInv
<1>1. ASSUME EngineInit PROVE PlacesInv
  <2>1. \A n \in Paths : job[n] = NoJob
    BY <1>1 DEF EngineInit
  <2>2. Unapplied = {} /\ \A n \in Paths : job[n].pc = "none"
    BY <2>1 DEF Unapplied, NoJob
  <2>3. Mine = {} /\ frozen = {} /\ dropped = {}
    BY <1>1 DEF EngineInit, Mine, InBatch, NoBatch
  <2>4. manifest.segs = <<>> /\ manifestFile.segs = <<>>
    BY <1>1 DEF EngineInit
  <2>5. ListedOnce(manifest) /\ ListedOnce(manifestFile)
    BY <2>4 DEF ListedOnce
  <2> QED BY <2>2, <2>3, <2>5 DEF PlacesInv, OnePlace, Unwritten, JobRange, ListedRange,
             ListedOnceInv, FrozenIsUnapplied, NoDrops
<1>2. AccountedInv /\ CheckpointInv => Known
  BY DEF Known
<1> QED BY <1>1, <1>2, PlacesStep, AccountedInvariant, CheckpointInvariant, PTL DEF EngineSafety

(* Where a query finds a write that this process acknowledged, and that it *)
(* finds it nowhere else.                                                  *)
LEMMA PlacesGiveQuery ==
    ASSUME Known, PlacesInv PROVE QueryExact
<1> SUFFICES ASSUME Clean, NEW w \in acked, NEW s \in Times, NEW e \in Times,
                    s <= TimeOf[w], TimeOf[w] <= e
             PROVE  \E i \in Sources : /\ Reads(i, w, s, e)
                                       /\ \A k \in Sources : Reads(k, w, s, e) => k = i
  BY DEF QueryExact, Clean
<1> USE DEF PlacesInv
<1>1. w \in Mine /\ w \in Writes /\ ~closed
  BY DEF Mine, Known, AccountedInv, TypeInv, EngineTypeOK
<1>2. manifest.segs \in Seq(SegEntries)
  BY JobType DEF Known, AccountedInv, TypeInv, Manifests, SegEntries
<1>3. Len(manifest.segs) \in Nat /\ DOMAIN manifest.segs = 1 .. Len(manifest.segs)
  BY <1>2
<1>4. s \in Int /\ e \in Int /\ TimeOf[w] \in Int
  BY <1>1, EngineConstants DEF Times
<1>5. ASSUME NEW i \in DOMAIN manifest.segs
      PROVE  /\ manifest.segs[i].path \in Paths /\ manifest.segs[i] \in Entries(manifest)
             /\ manifest.segs[i].lo \in Int /\ manifest.segs[i].hi \in Int
  <2>1. manifest.segs[i] \in SegEntries
    BY <1>2, <1>5
  <2>2. manifest.segs[i] \in Entries(manifest)
    BY <1>5 DEF Entries
  <2> QED BY <2>1, <2>2 DEF SegEntries
<1>7. ASSUME NEW n \in Unapplied PROVE frozen = job[n].data
  <2>1. Unapplied = {n}
    BY <1>7 DEF Known, CheckpointInv, OneFlush, Clean
  <2>2. frozen = UNION {job[k].data : k \in Unapplied}
    BY <1>1 DEF FrozenIsUnapplied
  <2> QED BY <2>1, <2>2
(* The sources exclude each other.                                         *)
<1>8. ASSUME w \in active PROVE w \notin frozen
  <2>1. ASSUME w \in frozen PROVE FALSE
    <3>1. PICK n \in Unapplied : w \in job[n].data
      BY <1>1, <2>1 DEF FrozenIsUnapplied
    <3> QED BY <1>1, <1>8, <3>1 DEF OnePlace, Unapplied
  <2> QED BY <2>1
<1>9. ASSUME NEW i \in DOMAIN manifest.segs, w \in dir[manifest.segs[i].path]
      PROVE  /\ w \notin active /\ w \notin frozen
             /\ \A k \in DOMAIN manifest.segs : w \in dir[manifest.segs[k].path] => k = i
  <2> DEFINE p == manifest.segs[i].path
  <2>1. p \in Paths /\ p \in Listed(manifest) /\ w \in job[p].data
    BY <1>1, <1>5, <1>9 DEF Listed, OnePlace
  <2>2. w \notin active
    BY <1>1, <2>1 DEF OnePlace
  <2>3. ASSUME w \in frozen PROVE FALSE
    <3>1. PICK n \in Unapplied : w \in job[n].data
      BY <1>1, <2>3 DEF FrozenIsUnapplied
    <3>2. n = p
      BY <1>1, <2>1, <3>1 DEF OnePlace, Unapplied
    <3>3. job[n].pc # "applied" /\ job[n].pc # "written"
      BY <2>1, <3>1, <3>2 DEF Unapplied, ListedOnceInv
    <3> QED BY <1>1, <1>9, <2>1, <3>2, <3>3 DEF Unwritten
  <2>4. ASSUME NEW k \in DOMAIN manifest.segs, w \in dir[manifest.segs[k].path] PROVE k = i
    <3>1. manifest.segs[k].path \in Paths /\ w \in job[manifest.segs[k].path].data
      BY <1>1, <1>5, <2>4 DEF OnePlace
    <3>2. manifest.segs[k].path = p
      BY <1>1, <2>1, <3>1 DEF OnePlace
    <3> QED BY <3>2 DEF ListedOnceInv, ListedOnce
  <2> QED BY <2>2, <2>3, <2>4
(* One of them has the write.                                              *)
<1>10. CASE w \in active
  <2>1. Reads(0, w, s, e) /\ 0 \in Sources
    BY <1>3, <1>10 DEF Reads, Sources
  <2>2. \A k \in Sources : Reads(k, w, s, e) => k = 0
    BY <1>8, <1>9, <1>10 DEF Reads
  <2> QED BY <2>1, <2>2
<1>11. CASE \E n \in Unapplied : w \in job[n].data
  <2>1. w \in frozen
    BY <1>7, <1>11
  <2>2. Reads(-1, w, s, e) /\ -1 \in Sources
    BY <1>3, <2>1 DEF Reads, Sources
  <2>3. \A k \in Sources : Reads(k, w, s, e) => k = -1
    BY <1>8, <1>9, <2>1 DEF Reads
  <2> QED BY <2>2, <2>3
<1>12. CASE w \in InSegments(manifest)
  <2>1. PICK i \in DOMAIN manifest.segs : w \in dir[manifest.segs[i].path]
    BY <1>12 DEF InSegments, Entries
  <2>2. manifest.segs[i].lo <= TimeOf[w] /\ TimeOf[w] <= manifest.segs[i].hi
    BY <1>1, <1>5, <2>1 DEF ListedRange
  <2>3. manifest.segs[i].lo <= e /\ manifest.segs[i].hi >= s
    BY <1>4, <1>5, <2>2
  <2>4. Reads(i, w, s, e) /\ i \in Sources
    BY <1>3, <2>1, <2>3 DEF Reads, Sources
  <2>5. \A k \in Sources : Reads(k, w, s, e) => k = i
    BY <1>9, <2>1 DEF Reads
  <2> QED BY <2>4, <2>5
<1>13. w \notin dropped
  BY DEF NoDrops, Clean
<1> QED BY <1>10, <1>11, <1>12, <1>13 DEF Known, AccountedInv, Accounted

(* A query returns each write that this process acknowledged once and only *)
(* once, whatever way between memtable, frozen memtable and segment the    *)
(* write is on, for any number of writes, flushes, failing saves and       *)
(* restarts, as long as no flush overlaps another, fails or overwrites a   *)
(* listed segment.                                                         *)
THEOREM QueriesExact == EngineSafety => []QueryExact
<1>1. AccountedInv /\ CheckpointInv => Known
  BY DEF Known
<1> QED BY <1>1, PlacesGiveQuery, PlacesInvariant, AccountedInvariant, CheckpointInvariant, PTL
-----------------------------------------------------------------------------
(* Heads and bodies alternate, and each body belongs to its head: the log  *)
(* as long as it was never reopened behind a torn record.                  *)
Regular(l) ==
    \A p \in 1 .. Len(l) : IF p % 2 = 1 THEN l[p].part = "head"
                                        ELSE l[p] = BodyCell(l[p - 1].rec)

(* What a crash leaves of a regular log is regular.                        *)
LEMMA RegularCut ==
    ASSUME NEW l \in Seq(Cells), Regular(l), NEW n \in 0 .. Len(l)
    PROVE  Regular(SubSeq(l, 1, n)) /\ SubSeq(l, 1, n) \in Seq(Cells) /\ Len(SubSeq(l, 1, n)) = n
<1> DEFINE m == SubSeq(l, 1, n)
<1>1. m \in Seq(Cells) /\ Len(m) = n /\ \A p \in 1 .. n : m[p] = l[p]
  OBVIOUS
<1> HIDE DEF m
<1>2. ASSUME NEW p \in 1 .. n
      PROVE  IF p % 2 = 1 THEN m[p].part = "head" ELSE m[p] = BodyCell(m[p - 1].rec)
  <2>1. IF p % 2 = 1 THEN l[p].part = "head" ELSE l[p] = BodyCell(l[p - 1].rec)
    BY DEF Regular
  <2>2. p % 2 # 1 => p - 1 \in 1 .. n
    OBVIOUS
  <2> QED BY <1>1, <2>1, <2>2
<1> QED BY <1>1, <1>2 DEF Regular, m

(* A head, and a whole record, at the end of a regular log of whole        *)
(* records.                                                                *)
LEMMA RegularAppend ==
    ASSUME NEW l \in Seq(Cells), Regular(l), Len(l) % 2 = 0, NEW r \in Nat \ {0}
    PROVE  LET h == Append(l, HeadCell(r))
               m == Append(h, BodyCell(r))
           IN  /\ Regular(h) /\ Len(h) = Len(l) + 1
               /\ Regular(m) /\ Len(m) = Len(l) + 2
               /\ \A p \in 1 .. Len(l) : h[p] = l[p] /\ m[p] = l[p]
               /\ h[Len(l) + 1] = HeadCell(r)
               /\ m[Len(l) + 1] = HeadCell(r) /\ m[Len(l) + 2] = BodyCell(r)
<1> DEFINE h == Append(l, HeadCell(r))
           m == Append(h, BodyCell(r))
           L == Len(l)
<1>1. HeadCell(r) \in Cells /\ BodyCell(r) \in Cells
  BY DEF HeadCell, BodyCell, Cells
<1>2. /\ L \in Nat /\ h \in Seq(Cells) /\ Len(h) = L + 1 /\ h[L + 1] = HeadCell(r)
      /\ \A p \in 1 .. L : h[p] = l[p]
  BY <1>1
<1> HIDE DEF h
<1>3. /\ Len(m) = L + 2 /\ m[L + 2] = BodyCell(r) /\ \A p \in 1 .. L + 1 : m[p] = h[p]
  BY <1>1, <1>2
<1> HIDE DEF m, L
<1>4. ASSUME NEW p \in 1 .. L
      PROVE  IF p % 2 = 1 THEN l[p].part = "head" ELSE l[p] = BodyCell(l[p - 1].rec)
  BY DEF Regular, L
<1>5. \A p \in 1 .. L : p % 2 # 1 => p - 1 \in 1 .. L
  BY <1>2
<1>6. Regular(h)
  <2>1. ASSUME NEW p \in 1 .. L + 1
        PROVE  IF p % 2 = 1 THEN h[p].part = "head" ELSE h[p] = BodyCell(h[p - 1].rec)
    <3>1. CASE p \in 1 .. L
      BY <1>2, <1>4, <1>5, <3>1
    <3>2. CASE p = L + 1
      <4>1. p % 2 = 1
        BY <1>2, <3>2 DEF L
      <4> QED BY <1>2, <3>2, <4>1 DEF HeadCell
    <3> QED BY <1>2, <3>1, <3>2
  <2> QED BY <1>2, <2>1 DEF Regular
<1>7. Regular(m)
  <2>1. ASSUME NEW p \in 1 .. L + 2
        PROVE  IF p % 2 = 1 THEN m[p].part = "head" ELSE m[p] = BodyCell(m[p - 1].rec)
    <3>1. CASE p \in 1 .. L + 1
      <4>1. IF p % 2 = 1 THEN h[p].part = "head" ELSE h[p] = BodyCell(h[p - 1].rec)
        BY <1>2, <1>6, <3>1 DEF Regular
      <4>2. p % 2 # 1 => p - 1 \in 1 .. L + 1
        BY <1>2, <3>1
      <4> QED BY <1>3, <3>1, <4>1, <4>2
    <3>2. CASE p = L + 2
      <4>1. p % 2 # 1 /\ p - 1 = L + 1 /\ L + 1 \in 1 .. L + 1
        BY <1>2, <3>2 DEF L
      <4>2. m[p - 1] = HeadCell(r)
        BY <1>2, <1>3, <4>1
      <4> QED BY <1>3, <3>2, <4>1, <4>2 DEF HeadCell
    <3> QED BY <1>2, <3>1, <3>2
  <2> QED BY <1>3, <2>1 DEF Regular
<1>8. \A p \in 1 .. L : m[p] = l[p]
  BY <1>2, <1>3
<1>9. m[L + 1] = HeadCell(r)
  BY <1>2, <1>3
<1> QED BY <1>2, <1>3, <1>6, <1>7, <1>8, <1>9 DEF h, m, L

(* In a regular log Recover reads every record behind a record boundary.   *)
LEMMA ReplayRegular ==
    ASSUME NEW l \in Seq(Cells), Regular(l), NEW n \in 0 .. Len(l),
           NEW off \in Nat, off % 2 = 0,
           NEW p \in 1 .. n, off < p, l[p].part = "body"
    PROVE  l[p].rec \in Replay(l, n, off)
<1>1. p % 2 = 0 /\ l[p] = BodyCell(l[p - 1].rec)
  BY DEF Regular
<1>2. PICK k \in 0 .. n : p - 2 = off + 2 * k
  <2>1. (p - 2 - off) % 2 = 0 /\ p - 2 - off \in Nat
    BY <1>1
  <2>2. p - 2 - off = 2 * ((p - 2 - off) \div 2) /\ (p - 2 - off) \div 2 \in 0 .. n
    BY <2>1
  <2> QED BY <2>1, <2>2
<1>3. ASSUME NEW i \in 0 .. k PROVE RecordAt(l, n, off + 2 * i)
  <2> DEFINE q == off + 2 * i
  <2>0. k \in Nat /\ i \in Nat /\ i <= k
    BY <1>2
  <2>1. q \in Nat /\ q + 2 <= p /\ (q + 1) % 2 = 1 /\ (q + 2) % 2 = 0
    BY <1>2, <2>0
  <2>2. q + 1 \in 1 .. Len(l) /\ q + 2 \in 1 .. Len(l)
    BY <2>1
  <2> HIDE DEF q
  <2>3. l[q + 1].part = "head" /\ l[q + 2] = BodyCell(l[(q + 2) - 1].rec)
    BY <2>1, <2>2 DEF Regular
  <2>4. (q + 2) - 1 = q + 1
    BY <2>1
  <2> QED BY <2>1, <2>3, <2>4 DEF RecordAt, RecordCells, q
<1>4. p - 2 \in off .. n /\ ReplayedAt(l, n, off, p - 2)
  <2>1. p - 2 \in off .. n
    BY <1>2
  <2>2. RecordAt(l, n, p - 2)
    BY <1>2, <1>3
  <2> QED BY <1>2, <1>3, <2>1, <2>2 DEF ReplayedAt, RecordCells
<1>5. l[(p - 2) + 1].rec = l[p].rec
  <2>1. l[p].rec = l[p - 1].rec
    BY <1>1 DEF BodyCell
  <2> QED BY <2>1
<1> QED BY <1>4, <1>5 DEF Replay

(* What Recover reads is the record of a body behind the offset.           *)
LEMMA ReplayBody ==
    ASSUME NEW l \in Seq(Cells), NEW n \in 0 .. Len(l), NEW off \in Nat,
           NEW r \in Replay(l, n, off)
    PROVE  \E p \in 1 .. n : off < p /\ l[p].part = "body" /\ l[p].rec = r
<1>1. PICK q \in off .. n : ReplayedAt(l, n, off, q) /\ r = l[q + 1].rec
  BY DEF Replay
<1>2. q + 2 <= n /\ l[q + 2] = BodyCell(l[q + 1].rec)
  BY <1>1 DEF ReplayedAt, RecordAt, RecordCells
<1>3. q + 2 \in 1 .. n /\ off < q + 2
  BY <1>1, <1>2
<1> QED BY <1>1, <1>2, <1>3 DEF BodyCell

(* Then every offset that the engine handles is a record boundary.         *)
LogRegular ==
    "torn" \notin taints =>
        /\ Regular(log) /\ synced % 2 = 0
        /\ ~closed => /\ offset % 2 = 0 /\ offset <= Len(log) /\ Len(log) <= offset + 1
                      /\ ~broken => offset = Len(log)
        /\ manifest.wal % 2 = 0 /\ manifestFile.wal % 2 = 0
        /\ \A n \in Paths : job[n].off % 2 = 0

(* Every step keeps the log regular and the offsets on record boundaries.  *)
LEMMA RegularStep ==
    ASSUME TypeInv, LogInv, LogRegular, [EngineNext]_vars
    PROVE  LogRegular'
<1> USE DEF LogRegular
<1>t. /\ log \in Seq(Cells) /\ Len(log) \in Nat /\ synced \in 0 .. Len(log) /\ offset \in Nat
      /\ closed \in BOOLEAN /\ broken \in BOOLEAN /\ sent \in Nat
  BY DEF LogInv, WALTypeOK
<1>1. CASE HandleWrite \/ BatchAppend \/ HandleWriteFails \/ BatchAppendFails
  <2>1. /\ UNCHANGED <<job, manifest, manifestFile, taints>>
        /\ WriterAppend \/ WriterAppendFails
    BY <1>1 DEF HandleWrite, BatchAppend, HandleWriteFails, BatchAppendFails, memVars, diskVars
  <2> SUFFICES ASSUME "torn" \notin taints
               PROVE  /\ Regular(log') /\ synced' % 2 = 0 /\ closed' = closed
                      /\ offset' % 2 = 0 /\ offset' <= Len(log') /\ Len(log') <= offset' + 1
                      /\ ~broken' => offset' = Len(log')
    BY <2>1
  <2>2. /\ Regular(log) /\ synced % 2 = 0 /\ ~closed /\ closed' = closed
        /\ offset % 2 = 0 /\ offset <= Len(log) /\ Len(log) <= offset + 1
        /\ ~broken => offset = Len(log)
    BY <2>1 DEF WriterAppend, WriterAppendFails
  <2>3. ASSUME ~broken
        PROVE  LET h == Append(log, HeadCell(sent + 1))
                   m == WithRecord(sent + 1)
               IN  Regular(h) /\ Len(h) = Len(log) + 1 /\ Regular(m) /\ Len(m) = Len(log) + 2
    BY <1>t, <2>2, <2>3, RegularAppend DEF WithRecord
  <2>4. CASE WriterAppend
    <3>1. /\ ~broken /\ ~broken' /\ log' = WithRecord(sent + 1) /\ offset' = offset + 2
          /\ synced' = Len(log) + 2 \/ synced' = synced
      BY <2>4 DEF WriterAppend, RecordCells
    <3> QED BY <1>t, <2>2, <2>3, <3>1
  <2>5. CASE WriterAppendFails /\ AppendOnBroken
    BY <2>2, <2>5 DEF WriterAppendFails, AppendOnBroken
  <2>6. CASE WriterAppendFails /\ AppendSpillFails
    <3>1. /\ ~broken /\ broken' = TRUE /\ UNCHANGED <<offset, synced>>
          /\ log' = log \/ log' = Append(log, HeadCell(sent + 1))
      BY <2>6 DEF WriterAppendFails, AppendSpillFails
    <3>2. CASE log' = log
      BY <2>2, <3>1, <3>2
    <3>3. CASE log' = Append(log, HeadCell(sent + 1))
      <4>1. Regular(log') /\ Len(log') = Len(log) + 1
        BY <2>3, <3>1, <3>3
      <4> QED BY <1>t, <2>2, <3>1, <4>1
    <3> QED BY <3>1, <3>2, <3>3
  <2>7. CASE WriterAppendFails /\ AppendFlushFails
    <3>1. /\ ~broken /\ log' = WithRecord(sent + 1) /\ offset' = offset + 2 /\ synced' = synced
      BY <2>7 DEF WriterAppendFails, AppendFlushFails, RecordCells
    <3> QED BY <1>t, <2>2, <2>3, <3>1
  <2> QED BY <2>1, <2>4, <2>5, <2>6, <2>7 DEF WriterAppendFails
<1>2. CASE LogSync \/ LogFsyncTick \/ LogFsyncFails
  <2>1. UNCHANGED <<log, offset, closed, job, manifest, manifestFile, taints>> /\ ~closed
    BY <1>2 DEF LogSync, LogFsyncTick, LogFsyncFails, Sync, FsyncTick, FsyncFails,
                engineVars, memVars, diskVars, histVars
  <2>2. \/ ~broken /\ broken' = broken /\ synced' = Len(log)
        \/ (broken => broken') /\ synced' = synced
    BY <1>2, <1>t DEF LogSync, LogFsyncTick, LogFsyncFails, Sync, FsyncTick, FsyncFails,
                     Flush, FlushFails
  <2> QED BY <2>1, <2>2
<1>3. CASE HandleBatchWrite \/ UNCHANGED vars
  BY <1>3 DEF HandleBatchWrite, walVars, vars, engineVars, memVars, diskVars, histVars
<1>4. CASE MaybeRotateMemtable
  <2>1. /\ ~closed /\ UNCHANGED <<walVars, manifest, manifestFile>>
        /\ flushCount \in Paths /\ job' = [job EXCEPT ![flushCount] = NewJob]
        /\ taints \subseteq taints'
    BY <1>4, EngineConstants
       DEF MaybeRotateMemtable, Idle, diskVars, TypeInv, EngineTypeOK, Paths
  <2>2. job'[flushCount].off = offset /\ \A n \in Paths \ {flushCount} : job'[n] = job[n]
    BY <2>1, JobType DEF NewJob, TypeInv
  <2> QED BY <2>1, <2>2 DEF walVars
<1>5. ASSUME NEW n \in Paths, FlushStep(n) \/ FlushFailsAt(n) PROVE LogRegular'
  <2>1. UNCHANGED <<walVars, manifest, manifestFile>> /\ taints \subseteq taints'
    BY <1>5 DEF FlushStep, FlushNothing, FlushCreate, FlushWrite, FlushSend, FlushFailsAt,
                histVars, diskVars
  <2>2. \A k \in Paths : job'[k].off = job[k].off
    <3>1. CASE FlushSend(n)
      BY <3>1 DEF FlushSend
    <3>2. CASE ~FlushSend(n)
      BY <1>5, <3>2, FlushEffect DEF FlushMoves
    <3> QED BY <3>1, <3>2
  <2> QED BY <2>1, <2>2 DEF walVars
<1>6. ASSUME NEW n \in Paths, Apply(n) \/ ApplyFlushSaveFails(n) PROVE LogRegular'
  <2>1. ApplyMoves(n)
    BY <1>6, ApplyEffect
  <2>2. UNCHANGED walVars /\ taints \subseteq taints'
        /\ \A k \in Paths : job'[k].off = job[k].off
    BY <2>1 DEF ApplyMoves
  <2>3. /\ manifest'.wal \in {manifest.wal, job[n].off}
        /\ manifestFile'.wal \in {manifestFile.wal, manifest.wal, job[n].off}
    BY <2>1, CheckpointedSegs DEF ApplyMoves, TypeInv
  <2> QED BY <2>2, <2>3 DEF walVars
<1>7. CASE CrashEngine \/ CrashInApply \/ Shutdown
  <2>1. closed' /\ UNCHANGED <<manifest, taints>>
    BY <1>7 DEF CrashEngine, CrashInApply, Shutdown, Crash, Close, memVars
  <2>2. manifestFile'.wal \in {manifestFile.wal, manifest.wal}
    <3>1. CASE CrashInApply
      <4>1. Head(flushDoneCh) \in Paths /\ manifestFile' = Added(Head(flushDoneCh))
        BY <3>1 DEF CrashInApply, TypeInv, EngineTypeOK
      <4> QED BY <4>1, CheckpointedSegs DEF TypeInv
    <3>2. CASE CrashEngine \/ Shutdown
      BY <3>2 DEF CrashEngine, Shutdown, diskVars
    <3> QED BY <1>7, <3>1, <3>2
  <2>3. \A n \in Paths : job'[n].off = job[n].off \/ job'[n].off = 0
    BY <1>7 DEF CrashEngine, CrashInApply, Shutdown, ProcessGone, NoJob, memVars
  <2>4. \/ log' = log /\ ~closed /\ ~broken /\ synced' = Len(log)
        \/ synced' = synced /\ LosesTail
    BY <1>7 DEF CrashEngine, CrashInApply, Shutdown, Crash, Close, Flush, FlushFails
  <2>5. ASSUME "torn" \notin taints PROVE Regular(log') /\ synced' % 2 = 0
    <3>1. Regular(log) /\ synced % 2 = 0
      BY <2>5
    <3>2. CASE log' = log /\ ~closed /\ ~broken /\ synced' = Len(log)
      BY <2>5, <3>1, <3>2
    <3>3. CASE synced' = synced /\ LosesTail
      <4>1. PICK n \in synced .. Len(log) : log' = SubSeq(log, 1, n)
        BY <3>3 DEF LosesTail
      <4>2. n \in 0 .. Len(log)
        BY <1>t
      <4> QED BY <1>t, <3>1, <3>3, <4>1, <4>2, RegularCut
    <3> QED BY <2>4, <3>2, <3>3
  <2> QED BY <2>1, <2>2, <2>3, <2>5
<1>8. CASE Restart
  <2>1. /\ UNCHANGED <<log, synced, manifestFile>> /\ offset' = Len(log) /\ closed' = FALSE
        /\ manifest' = manifestFile /\ \A n \in Paths : job'[n] = NoJob
        /\ taints \subseteq taints' /\ (TornTail => "torn" \in taints')
    BY <1>8 DEF Restart, NewWriter, diskVars
  <2>2. ASSUME "torn" \notin taints' PROVE Len(log) % 2 = 0
    <3>1. Regular(log) /\ ~TornTail
      BY <2>1, <2>2
    <3>2. CASE Len(log) # 0
      BY <1>t, <3>1, <3>2 DEF Regular, TornTail
    <3> QED BY <3>2
  <2> QED BY <1>t, <2>1, <2>2 DEF NoJob
<1> QED BY <1>1, <1>2, <1>3, <1>4, <1>5, <1>6, <1>7, <1>8 DEF EngineNext

(* Offsets stay on record boundaries in every reachable state.             *)
LEMMA RegularInvariant == EngineSafety => []LogRegular
<1>1. ASSUME EngineInit PROVE LogRegular
  <2>1. /\ log = <<>> /\ synced = 0 /\ offset = 0
        /\ manifest.wal = 0 /\ manifestFile.wal = 0
        /\ \A n \in Paths : job[n].off = 0
    BY <1>1 DEF EngineInit, WALInit, NoJob
  <2> QED BY <2>1 DEF LogRegular, Regular
<1> QED BY <1>1, RegularStep, TypeInvariant, EngineLogInv, PTL DEF EngineSafety
-----------------------------------------------------------------------------
(* The records that end in the first n cells of l are in S.                *)
Covered(l, n, S) ==
    \A p \in 1 .. Len(l) : p <= n /\ l[p].part = "body" => l[p].rec \in S

(* The manifest on disk lists nothing that the one in memory does not,     *)
(* until the process dies between the two saves.                           *)
FileListed ==
    \/ Entries(manifestFile) \subseteq Entries(manifest)
    \/ closed /\ \A n \in Paths : job[n].pc = "none"

(* Every checkpoint is behind records that the segments listed with it     *)
(* hold, and a running engine sees all records of the log; a record that   *)
(* was answered with an error may be missing.                              *)
FileCovered == Covered(log, manifestFile.wal, InSegments(manifestFile) \cup failed)
MemoryCovered == Covered(log, manifest.wal, InSegments(manifest) \cup failed)
LogCovered == Covered(log, Len(log), Visible \cup failed)
JobsCovered ==
    \A n \in Unapplied : Covered(log, job[n].off, InSegments(manifest) \cup job[n].data \cup failed)

CoverInv ==
    taints = {} => /\ FileListed /\ FileCovered
                   /\ ~closed => MemoryCovered /\ LogCovered /\ JobsCovered

(* A shorter prefix of a log with the same cells, and a larger set.        *)
LEMMA CoveredWeaker ==
    ASSUME NEW l, NEW m, NEW k, NEW n, NEW S, NEW T, Covered(l, k, S), S \subseteq T,
           \A p \in 1 .. Len(m) : p <= n => p \in 1 .. Len(l) /\ p <= k /\ m[p] = l[p]
    PROVE  Covered(m, n, T)
  BY DEF Covered

(* The same log and the same offset, and a larger set.                     *)
LEMMA CoveredMore ==
    ASSUME NEW l, NEW n, NEW S, NEW T, Covered(l, n, S), S \subseteq T
    PROVE  Covered(l, n, T)
  BY DEF Covered

(* The theorems so far, on which the following rest.                       *)
Settled == Known /\ PlacesInv /\ LogRegular

(* While the engine runs no checkpoint is past the end of the log.         *)
LEMMA OffsetsInLog ==
    ASSUME Settled, taints = {}, ~closed
    PROVE  /\ manifestFile.wal <= Len(log) /\ manifest.wal <= Len(log)
           /\ \A n \in Unapplied : job[n].off <= Len(log)
<1>1. /\ offset \in Nat /\ Len(log) \in Nat /\ manifest.wal \in Nat /\ manifestFile.wal \in Nat
  BY DEF Settled, Known, AccountedInv, LogInv, WALTypeOK, TypeInv, EngineTypeOK, Manifests
<1>2. \A n \in Unapplied : job[n].off \in Nat
  BY JobType DEF Unapplied, Jobs, Settled, Known, AccountedInv, TypeInv
<1>3. /\ manifestFile.wal <= manifest.wal /\ manifest.wal <= offset
      /\ \A n \in Unapplied : job[n].off <= offset
  BY DEF Settled, Known, CheckpointInv, CheckpointOrder
<1>4. offset <= Len(log)
  BY DEF Settled, LogRegular
<1> QED BY <1>1, <1>2, <1>3, <1>4

(* How a write, good or bad, extends the log.                              *)
LEMMA LogGrows ==
    ASSUME LogInv, WriterAppend \/ WriterAppendFails
    PROVE  /\ Len(log) \in Nat /\ Len(log') \in Nat /\ Len(log) <= Len(log')
           /\ \A p \in 1 .. Len(log) : p \in 1 .. Len(log') /\ log'[p] = log[p]
           /\ \A p \in 1 .. Len(log') : p \notin 1 .. Len(log) => log'[p].rec = sent + 1
<1>1. log \in Seq(Cells) /\ sent + 1 \in Nat \ {0} /\ Len(log) \in Nat
  BY DEF LogInv, WALTypeOK
<1>2. /\ HeadCell(sent + 1) \in Cells /\ BodyCell(sent + 1) \in Cells
      /\ HeadCell(sent + 1).rec = sent + 1 /\ BodyCell(sent + 1).rec = sent + 1
  BY <1>1 DEF HeadCell, BodyCell, Cells
<1>3. \/ log' = log \/ log' = Append(log, HeadCell(sent + 1)) \/ log' = WithRecord(sent + 1)
  BY DEF WriterAppend, WriterAppendFails, AppendOnBroken, AppendSpillFails, AppendFlushFails
<1> HIDE DEF HeadCell, BodyCell
<1>4. CASE log' = log
  BY <1>1, <1>4
<1>5. CASE log' = Append(log, HeadCell(sent + 1))
  <2>1. /\ Len(log') = Len(log) + 1 /\ log'[Len(log) + 1] = HeadCell(sent + 1)
        /\ \A p \in 1 .. Len(log) : log'[p] = log[p]
    BY <1>1, <1>2, <1>5
  <2> QED BY <1>1, <1>2, <2>1
<1>6. CASE log' = WithRecord(sent + 1)
  <2> DEFINE h == Append(log, HeadCell(sent + 1))
  <2>1. /\ h \in Seq(Cells) /\ Len(h) = Len(log) + 1 /\ h[Len(log) + 1] = HeadCell(sent + 1)
        /\ \A p \in 1 .. Len(log) : h[p] = log[p]
    BY <1>1, <1>2
  <2> HIDE DEF h
  <2>2. log' = Append(h, BodyCell(sent + 1))
    BY <1>6 DEF WithRecord, h
  <2>3. /\ Len(log') = Len(log) + 2 /\ log'[Len(log) + 2] = BodyCell(sent + 1)
        /\ \A p \in 1 .. Len(log) + 1 : log'[p] = h[p]
    BY <1>1, <1>2, <2>1, <2>2
  <2>4. \A p \in 1 .. Len(log) + 2 : p \in 1 .. Len(log) \/ p = Len(log) + 1 \/ p = Len(log) + 2
    BY <1>1
  <2> QED BY <1>1, <1>2, <2>1, <2>3, <2>4
<1> QED BY <1>3, <1>4, <1>5, <1>6

(* Nothing that CoverInv speaks of changes.                                *)
LEMMA CoverQuiet ==
    ASSUME CoverInv, closed' = closed,
           UNCHANGED <<log, manifest, manifestFile, taints, failed, dir, job, active, frozen>>
    PROVE  CoverInv'
<1>1. /\ InSegments(manifest)' = InSegments(manifest) /\ Visible' = Visible
      /\ InSegments(manifestFile)' = InSegments(manifestFile) /\ Unapplied' = Unapplied
      /\ FileListed' = FileListed
  BY DEF InSegments, Entries, Visible, Unapplied, FileListed
<1> QED BY <1>1 DEF CoverInv, FileCovered, MemoryCovered, LogCovered, JobsCovered

(* A write, good or bad: the new record is in active or in failed.         *)
LEMMA CoverWrite ==
    ASSUME Settled, CoverInv,
           HandleWrite \/ BatchAppend \/ HandleWriteFails \/ BatchAppendFails
    PROVE  CoverInv'
<1>1. /\ UNCHANGED <<manifest, manifestFile, taints, dir, job, frozen>> /\ closed' = closed /\ ~closed
      /\ active \subseteq active' /\ failed \subseteq failed'
      /\ sent + 1 \in active' \cup failed'
      /\ WriterAppend \/ WriterAppendFails
  BY DEF HandleWrite, BatchAppend, HandleWriteFails, BatchAppendFails, WriterAppend,
         WriterAppendFails, memVars, diskVars
<1>2. /\ Len(log) \in Nat /\ Len(log') \in Nat /\ Len(log) <= Len(log')
      /\ \A p \in 1 .. Len(log) : log'[p] = log[p]
      /\ \A p \in 1 .. Len(log') : p \notin 1 .. Len(log) => log'[p].rec = sent + 1
  BY <1>1, LogGrows DEF Settled, Known, AccountedInv
<1>3. /\ InSegments(manifest)' = InSegments(manifest)
      /\ InSegments(manifestFile)' = InSegments(manifestFile)
      /\ Unapplied' = Unapplied /\ FileListed' = FileListed
  BY <1>1 DEF InSegments, Entries, Unapplied, FileListed
<1>4. Visible \subseteq Visible' /\ active' \subseteq Visible'
  BY <1>1, <1>3 DEF Visible
<1> SUFFICES ASSUME taints = {}
             PROVE  FileListed' /\ FileCovered' /\ MemoryCovered' /\ LogCovered' /\ JobsCovered'
  BY <1>1 DEF CoverInv
<1>5. /\ manifestFile.wal <= Len(log) /\ manifest.wal <= Len(log)
      /\ \A n \in Unapplied : job[n].off <= Len(log)
  BY <1>1, OffsetsInLog
<1>6. /\ manifest.wal \in Nat /\ manifestFile.wal \in Nat
      /\ \A n \in Unapplied : job[n].off \in Nat
  <2>1. \A n \in Unapplied : job[n].off \in Nat
    BY JobType DEF Unapplied, Jobs, Settled, Known, AccountedInv, TypeInv
  <2> QED BY <2>1 DEF Settled, Known, AccountedInv, TypeInv, EngineTypeOK, Manifests
<1>7. ASSUME NEW n \in Nat, n <= Len(log), NEW S, NEW T, S \subseteq T, Covered(log, n, S)
      PROVE  Covered(log', n, T)
  BY <1>2, <1>7 DEF Covered
<1>8. FileCovered' /\ MemoryCovered'
  BY <1>1, <1>3, <1>5, <1>6, <1>7 DEF CoverInv, FileCovered, MemoryCovered
<1>9. JobsCovered'
  <2>1. ASSUME NEW n \in Unapplied
        PROVE  Covered(log', job[n].off, InSegments(manifest) \cup job[n].data \cup failed')
    <3>1. Covered(log, job[n].off, InSegments(manifest) \cup job[n].data \cup failed)
      BY <1>1 DEF CoverInv, JobsCovered
    <3> QED BY <1>1, <1>5, <1>6, <1>7, <3>1
  <2> QED BY <1>1, <1>3, <2>1 DEF JobsCovered
<1>10. LogCovered'
  <2>1. ASSUME NEW p \in 1 .. Len(log'), log'[p].part = "body"
        PROVE  log'[p].rec \in Visible' \cup failed'
    <3>1. CASE p \in 1 .. Len(log)
      <4>1. log[p].rec \in Visible \cup failed
        BY <1>1, <1>2, <2>1, <3>1 DEF CoverInv, LogCovered, Covered
      <4> QED BY <1>1, <1>2, <1>4, <3>1, <4>1
    <3>2. CASE p \notin 1 .. Len(log)
      BY <1>1, <1>2, <1>4, <3>2
    <3> QED BY <3>1, <3>2
  <2> QED BY <2>1 DEF LogCovered, Covered
<1> QED BY <1>1, <1>3, <1>8, <1>9, <1>10 DEF CoverInv

(* A rotation hands the data of active, with the end of the log, to a job. *)
LEMMA CoverRotate ==
    ASSUME Settled, CoverInv, MaybeRotateMemtable
    PROVE  CoverInv'
<1>1. /\ ~closed /\ UNCHANGED <<log, manifest, manifestFile, dir, failed, closed>>
      /\ active' = {} /\ frozen' = active /\ flushCount \in Paths
      /\ job' = [job EXCEPT ![flushCount] = NewJob]
      /\ taints \subseteq taints' /\ (Unapplied # {} => "overlap" \in taints')
  BY EngineConstants DEF MaybeRotateMemtable, Idle, walVars, diskVars, Settled, Known,
                         AccountedInv, TypeInv, EngineTypeOK, Paths
<1>2. /\ job'[flushCount].data = active
      /\ \A n \in Paths \ {flushCount} : job'[n] = job[n]
  BY <1>1, JobType DEF NewJob, Settled, Known, AccountedInv, TypeInv
<1> SUFFICES ASSUME taints' = {}
             PROVE  FileListed' /\ FileCovered' /\ MemoryCovered' /\ LogCovered' /\ JobsCovered'
  BY DEF CoverInv
<1>3. taints = {} /\ Unapplied = {} /\ frozen = {}
  <2>1. taints = {} /\ Unapplied = {}
    BY <1>1
  <2> QED BY <1>1, <2>1 DEF Settled, PlacesInv, FrozenIsUnapplied, Clean
<1>4. /\ FileListed /\ FileCovered /\ MemoryCovered /\ LogCovered
      /\ InSegments(manifest)' = InSegments(manifest)
      /\ InSegments(manifestFile)' = InSegments(manifestFile)
  BY <1>1, <1>3 DEF CoverInv, InSegments, Entries
<1>5. Visible' = active \cup InSegments(manifest) /\ Visible = active \cup InSegments(manifest)
  BY <1>1, <1>3, <1>4 DEF Visible
<1>6. FileListed'
  BY <1>1, <1>4 DEF FileListed, Entries
<1>7. FileCovered' /\ MemoryCovered' /\ LogCovered'
  BY <1>1, <1>4, <1>5 DEF FileCovered, MemoryCovered, LogCovered
<1>8. JobsCovered'
  <2>1. \A n \in Unapplied' : n = flushCount
    BY <1>2, <1>3 DEF Unapplied
  <2>2. Len(log) \in Nat
    BY DEF Settled, Known, AccountedInv, LogInv, WALTypeOK
  <2>3. Covered(log, job'[flushCount].off, InSegments(manifest) \cup active \cup failed)
    BY <1>4, <1>5, <2>2 DEF LogCovered, Covered
  <2> QED BY <1>1, <1>2, <1>4, <2>1, <2>3 DEF JobsCovered
<1> QED BY <1>6, <1>7, <1>8

(* While nothing goes wrong, no flush goroutine touches a listed file.     *)
LEMMA ListedKept ==
    ASSUME Settled, NEW n \in Paths, FlushStep(n) \/ FlushFailsAt(n), ~FlushSend(n), Clean',
           NEW k \in Listed(manifest)
    PROVE  dir'[k] = dir[k]
<1>1. FlushMoves(n)
  BY FlushEffect DEF Settled, Known, AccountedInv
<1>2. Clean
  BY DEF FlushStep, FlushNothing, FlushCreate, FlushWrite, FlushSend, FlushFailsAt,
         histVars, Clean
<1>3. k \in Paths
  BY EntriesType DEF Listed, Settled, Known, AccountedInv, TypeInv
<1>4. CASE k # n
  BY <1>1, <1>3, <1>4 DEF FlushMoves
<1>5. CASE k = n
  <2>1. job'[n].pc # "created"
    BY <1>5, ReuseTaints DEF Settled, Known, AccountedInv
  <2>2. job[n].pc # "created"
    BY <1>2, <1>5 DEF Settled, PlacesInv, ListedOnceInv
  <2> QED BY <1>1, <1>5, <2>1, <2>2 DEF FlushMoves
<1> QED BY <1>4, <1>5

(* A flush goroutine writes a file that no manifest lists.                 *)
LEMMA CoverFlush ==
    ASSUME Settled, CoverInv, NEW n \in Paths, FlushStep(n) \/ FlushFailsAt(n)
    PROVE  CoverInv'
<1>1. /\ UNCHANGED <<log, closed, active, frozen, manifest, manifestFile, failed>>
      /\ taints \subseteq taints'
  BY DEF FlushStep, FlushNothing, FlushCreate, FlushWrite, FlushSend, FlushFailsAt,
         walVars, histVars, diskVars
<1>2. CASE FlushSend(n)
  BY <1>1, <1>2, CoverQuiet DEF FlushSend, diskVars, histVars
<1>3. CASE ~FlushSend(n)
  <2> SUFFICES ASSUME taints' = {}
               PROVE  /\ FileListed' /\ FileCovered'
                      /\ ~closed => MemoryCovered' /\ LogCovered' /\ JobsCovered'
    BY <1>1 DEF CoverInv
  <2>1. FlushMoves(n)
    BY <1>3, FlushEffect DEF Settled, Known, AccountedInv
  <2>2. /\ taints = {} /\ FileListed /\ FileCovered
        /\ ~closed => MemoryCovered /\ LogCovered /\ JobsCovered
    BY <1>1 DEF CoverInv
  <2>3. \A k \in Listed(manifest) : dir'[k] = dir[k]
    BY <1>3, ListedKept DEF Clean
  <2>4. Entries(manifestFile) \subseteq Entries(manifest)
    BY <2>1, <2>2 DEF FileListed, FlushMoves
  <2>5. /\ \A e \in Entries(manifest) : dir'[e.path] = dir[e.path]
        /\ \A e \in Entries(manifestFile) : dir'[e.path] = dir[e.path]
    BY <2>3, <2>4 DEF Listed
  <2>6. /\ InSegments(manifest)' = InSegments(manifest)
        /\ InSegments(manifestFile)' = InSegments(manifestFile)
    <3>1. Entries(manifest)' = Entries(manifest) /\ Entries(manifestFile)' = Entries(manifestFile)
      BY <1>1 DEF Entries
    <3> QED BY <2>5, <3>1 DEF InSegments
  <2>7. /\ Unapplied' = Unapplied /\ Unapplied \subseteq Paths
        /\ \A k \in Paths : job'[k].off = job[k].off /\ job'[k].data = job[k].data
    BY <2>1 DEF FlushMoves, Unapplied
  <2>8. FileListed'
    BY <1>1, <2>4 DEF FileListed, Entries
  <2>9. FileCovered' /\ (~closed => MemoryCovered')
    BY <1>1, <2>2, <2>6 DEF FileCovered, MemoryCovered
  <2>10. ~closed => LogCovered'
    BY <1>1, <2>2, <2>6 DEF LogCovered, Visible
  <2>11. ~closed => JobsCovered'
    BY <1>1, <2>2, <2>6, <2>7 DEF JobsCovered
  <2> QED BY <2>8, <2>9, <2>10, <2>11
<1> QED BY <1>2, <1>3

(* What listing the segment of a job adds to what the segments hold.       *)
LEMMA SegmentsAppend ==
    ASSUME TypeInv, NEW n \in Paths, NEW m \in {Added(n), Checkpointed(n)}
    PROVE  InSegments(m) = InSegments(manifest) \cup dir[n]
<1>1. Entries(m) = Entries(manifest) \cup {Entry(n)} /\ Entry(n).path = n
  BY EntriesAppend
<1>2. \A w : w \in InSegments(m) <=> w \in InSegments(manifest) \/ w \in dir[n]
  BY <1>1 DEF InSegments
<1> QED BY <1>2

(* The frozen memtable is the data of any flush under way.                 *)
LEMMA FrozenIsTheFlush ==
    ASSUME Settled, Clean, ~closed, NEW n \in Unapplied
    PROVE  frozen = job[n].data /\ Unapplied = {n}
<1>1. Unapplied = {n}
  BY DEF Settled, Known, CheckpointInv, OneFlush, Clean
<1>2. frozen = UNION {job[k].data : k \in Unapplied}
  BY DEF Settled, PlacesInv, FrozenIsUnapplied
<1> QED BY <1>1, <1>2

(* The engine goroutine takes the data of a job over into the manifest.    *)
LEMMA CoverApply ==
    ASSUME Settled, CoverInv, NEW n \in Paths, Apply(n) \/ ApplyFlushSaveFails(n)
    PROVE  CoverInv'
<1>0. TypeInv /\ HonestResults
  BY DEF Settled, Known, AccountedInv
<1>1. ApplyMoves(n)
  BY <1>0, ApplyEffect
<1>2. /\ UNCHANGED <<log, closed, active, dir, failed>> /\ ~closed /\ frozen' = {}
      /\ taints \subseteq taints' /\ job[n].pc \in Finished
      /\ job'[n].pc = "applied" /\ \A k \in Paths \ {n} : job'[k] = job[k]
  BY <1>1 DEF ApplyMoves, walVars
<1> SUFFICES ASSUME taints' = {}
             PROVE  FileListed' /\ FileCovered' /\ MemoryCovered' /\ LogCovered' /\ JobsCovered'
  BY DEF CoverInv
<1>3. /\ FileListed /\ FileCovered /\ MemoryCovered /\ LogCovered /\ JobsCovered /\ Clean
      /\ taints = {}
  BY <1>2 DEF CoverInv, Clean
<1>4. Unapplied = {n} /\ Unapplied' = {}
  <2>1. n \in Unapplied
    BY <1>2 DEF Unapplied, Finished
  <2>2. Unapplied = {n}
    BY <1>2, <1>3, <2>1, FrozenIsTheFlush
  <2> QED BY <1>2, <2>2 DEF Unapplied
<1>5. frozen = job[n].data
  BY <1>2, <1>3, <1>4, FrozenIsTheFlush
<1>6. JobsCovered'
  BY <1>4 DEF JobsCovered
<1>7. Entries(manifestFile) \subseteq Entries(manifest)
  BY <1>2, <1>3 DEF FileListed
<1>9. CASE job[n].pc # "written"
  <2>1. UNCHANGED <<manifest, manifestFile>> /\ job[n].pc = "empty"
    BY <1>1, <1>9 DEF ApplyMoves
  <2>2. frozen = {}
    BY <1>0, <1>5, <2>1 DEF HonestResults
  <2>3. /\ InSegments(manifest)' = InSegments(manifest)
        /\ InSegments(manifestFile)' = InSegments(manifestFile)
    BY <1>2, <2>1 DEF InSegments, Entries
  <2>4. Visible' = Visible
    BY <1>2, <2>2, <2>3 DEF Visible
  <2>5. FileListed'
    BY <1>7, <2>1 DEF FileListed, Entries
  <2>6. FileCovered' /\ MemoryCovered' /\ LogCovered'
    BY <1>2, <1>3, <2>1, <2>3, <2>4 DEF FileCovered, MemoryCovered, LogCovered
  <2> QED BY <1>6, <2>5, <2>6
<1>10. CASE job[n].pc = "written"
  <2>1. manifest' = Checkpointed(n) /\ manifestFile' \in {manifestFile, Added(n), Checkpointed(n)}
    BY <1>1, <1>10 DEF ApplyMoves
  <2>2. dir[n] = job[n].data
    BY <1>0, <1>10 DEF HonestResults
  <2>3. /\ InSegments(Checkpointed(n)) = InSegments(manifest) \cup job[n].data
        /\ InSegments(Added(n)) = InSegments(manifest) \cup job[n].data
    BY <1>0, <2>2, SegmentsAppend
  <2>4. /\ InSegments(manifest)' = InSegments(manifest')
        /\ InSegments(manifestFile)' = InSegments(manifestFile')
    BY <1>2 DEF InSegments, Entries
  <2>5. /\ Entries(Checkpointed(n)) = Entries(manifest) \cup {Entry(n)}
        /\ Entries(Added(n)) = Entries(manifest) \cup {Entry(n)}
    BY <1>0, EntriesAppend
  <2>6. FileListed'
    <3>1. Entries(manifestFile') \subseteq Entries(manifest')
      BY <1>7, <2>1, <2>5
    <3>2. /\ Entries(manifest)' = Entries(manifest')
          /\ Entries(manifestFile)' = Entries(manifestFile')
      BY DEF Entries
    <3> QED BY <3>1, <3>2 DEF FileListed
  <2>7. Checkpointed(n).wal = job[n].off /\ Added(n).wal = manifest.wal
    BY <1>0, CheckpointedSegs DEF TypeInv
  <2>8. Covered(log, job[n].off, InSegments(manifest) \cup job[n].data \cup failed)
    BY <1>3, <1>4 DEF JobsCovered
  <2>9. MemoryCovered'
    BY <1>2, <2>1, <2>3, <2>4, <2>7, <2>8 DEF MemoryCovered
  <2>10. FileCovered'
    <3>1. CASE manifestFile' = manifestFile
      BY <1>2, <1>3, <2>4, <3>1 DEF FileCovered
    <3>2. CASE manifestFile' = Checkpointed(n)
      BY <1>2, <2>3, <2>4, <2>7, <2>8, <3>2 DEF FileCovered
    <3>3. CASE manifestFile' = Added(n)
      <4>1. Covered(log, manifest.wal, InSegments(manifest) \cup job[n].data \cup failed)
        BY <1>3, CoveredMore DEF MemoryCovered
      <4> QED BY <1>2, <2>3, <2>4, <2>7, <3>3, <4>1 DEF FileCovered
    <3> QED BY <2>1, <3>1, <3>2, <3>3
  <2>11. Visible' = Visible
    BY <1>2, <1>5, <2>1, <2>3, <2>4 DEF Visible
  <2>12. LogCovered'
    BY <1>2, <1>3, <2>11 DEF LogCovered
  <2> QED BY <1>6, <2>6, <2>9, <2>10, <2>12
<1> QED BY <1>9, <1>10

(* What a process that ends leaves of the log is a prefix.                 *)
LEMMA StopCuts ==
    ASSUME LogInv, CrashEngine \/ CrashInApply \/ Shutdown
    PROVE  /\ Len(log') \in Nat /\ Len(log') <= Len(log)
           /\ \A p \in 1 .. Len(log') : p \in 1 .. Len(log) /\ log'[p] = log[p]
<1>0. log \in Seq(Cells) /\ Len(log) \in Nat /\ synced \in 0 .. Len(log)
  BY DEF LogInv, WALTypeOK
<1>1. log' = log \/ LosesTail
  BY DEF CrashEngine, CrashInApply, Shutdown, Crash, Close
<1>2. CASE log' = log
  BY <1>0, <1>2
<1>3. CASE LosesTail
  <2>1. PICK n \in synced .. Len(log) : log' = SubSeq(log, 1, n)
    BY <1>3 DEF LosesTail
  <2>2. n \in 0 .. Len(log)
    BY <1>0
  <2> QED BY <1>0, <2>1, <2>2
<1> QED BY <1>1, <1>2, <1>3

(* A process that ends: its checkpoints cover what is left.                *)
LEMMA CoverStop ==
    ASSUME Settled, CoverInv, CrashEngine \/ CrashInApply \/ Shutdown
    PROVE  CoverInv'
<1>0. TypeInv /\ HonestResults /\ log \in Seq(Cells) /\ Len(log) \in Nat /\ synced \in 0 .. Len(log)
  BY DEF Settled, Known, AccountedInv, LogInv, WALTypeOK
<1>1. ~closed /\ closed' /\ UNCHANGED <<manifest, dir, failed, taints>>
  BY DEF CrashEngine, CrashInApply, Shutdown, Crash, Close, memVars, diskVars
<1>2. /\ Len(log') \in Nat /\ Len(log') <= Len(log)
      /\ \A p \in 1 .. Len(log') : p \in 1 .. Len(log) /\ log'[p] = log[p]
  BY StopCuts DEF Settled, Known, AccountedInv
<1> SUFFICES ASSUME taints = {} PROVE FileListed' /\ FileCovered'
  BY <1>1 DEF CoverInv
<1>3. FileListed /\ FileCovered /\ MemoryCovered
  BY <1>1 DEF CoverInv
<1>4. CASE CrashEngine \/ Shutdown
  <2>1. manifestFile' = manifestFile
    BY <1>4 DEF CrashEngine, Shutdown, diskVars
  <2>2. InSegments(manifestFile)' = InSegments(manifestFile)
    BY <1>1, <2>1 DEF InSegments, Entries
  <2>3. FileCovered'
    BY <1>1, <1>2, <1>3, <2>1, <2>2 DEF FileCovered, Covered
  <2>4. FileListed'
    BY <1>1, <1>3, <2>1 DEF FileListed, Entries
  <2> QED BY <2>3, <2>4
<1>5. CASE CrashInApply
  <2> DEFINE n == Head(flushDoneCh)
  <2>1. /\ n \in Paths /\ job[n].pc = "written" /\ manifestFile' = Added(n)
        /\ \A k \in Paths : job'[k] = NoJob
    BY <1>0, <1>5 DEF CrashInApply, ProcessGone, TypeInv, EngineTypeOK
  <2>2. InSegments(Added(n)) = InSegments(manifest) \cup dir[n]
    BY <1>0, <2>1, SegmentsAppend
  <2>3. InSegments(manifestFile)' = InSegments(manifestFile')
    BY <1>1 DEF InSegments, Entries
  <2>4. Added(n).wal = manifest.wal
    BY <1>0, <2>1, CheckpointedSegs DEF TypeInv
  <2> HIDE DEF n
  <2>5. FileCovered'
    BY <1>1, <1>2, <1>3, <2>1, <2>2, <2>3, <2>4 DEF FileCovered, MemoryCovered, Covered
  <2>6. FileListed'
    BY <1>1, <2>1 DEF FileListed, NoJob
  <2> QED BY <2>5, <2>6
<1> QED BY <1>4, <1>5

(* A process that starts and calls Recover.                                *)
LEMMA CoverRestart ==
    ASSUME Settled, CoverInv, Restart, CallsRecover
    PROVE  CoverInv'
<1>1. /\ UNCHANGED <<log, manifestFile, dir, failed>> /\ manifest' = manifestFile
      /\ closed' = FALSE /\ active' = Replay(log, Len(log), manifestFile.wal)
      /\ taints \subseteq taints' /\ \A n \in Paths : job'[n] = NoJob
  BY DEF Restart, NewWriter, Recovered, diskVars
<1> SUFFICES ASSUME taints' = {}
             PROVE  FileListed' /\ FileCovered' /\ MemoryCovered' /\ LogCovered' /\ JobsCovered'
  BY DEF CoverInv
<1>2. taints = {} /\ FileCovered
  BY <1>1 DEF CoverInv
<1>3. /\ log \in Seq(Cells) /\ Len(log) \in Nat /\ Regular(log)
      /\ manifestFile.wal \in Nat /\ manifestFile.wal % 2 = 0
  BY <1>2 DEF Settled, Known, AccountedInv, LogInv, WALTypeOK, TypeInv, EngineTypeOK, Manifests,
              LogRegular
<1>4. /\ InSegments(manifestFile)' = InSegments(manifestFile)
      /\ InSegments(manifest)' = InSegments(manifestFile)
      /\ Unapplied' = {}
  BY <1>1 DEF InSegments, Entries, Unapplied, NoJob
<1>5. FileListed' /\ JobsCovered'
  BY <1>1, <1>4 DEF FileListed, JobsCovered, Entries
<1>6. FileCovered' /\ MemoryCovered'
  BY <1>1, <1>2, <1>4 DEF FileCovered, MemoryCovered
<1>7. LogCovered'
  <2>1. ASSUME NEW p \in 1 .. Len(log), log[p].part = "body"
        PROVE  log[p].rec \in InSegments(manifestFile) \cup failed \cup active'
    <3>1. CASE p <= manifestFile.wal
      BY <1>2, <2>1, <3>1 DEF FileCovered, Covered
    <3>2. CASE manifestFile.wal < p
      <4>1. log[p].rec \in Replay(log, Len(log), manifestFile.wal)
        BY <1>3, <2>1, <3>2, ReplayRegular
      <4> QED BY <1>1, <4>1
    <3> QED BY <1>3, <3>1, <3>2
  <2> QED BY <1>1, <1>4, <2>1 DEF LogCovered, Covered, Visible
<1> QED BY <1>5, <1>6, <1>7

(* Every step keeps the checkpoints covered.                               *)
LEMMA CoverStep ==
    ASSUME Settled, CoverInv, [EngineNext]_vars, CallsRecover
    PROVE  CoverInv'
<1>1. CASE HandleWrite \/ BatchAppend \/ HandleWriteFails \/ BatchAppendFails
  BY <1>1, CoverWrite
<1>2. CASE HandleBatchWrite \/ LogSync \/ LogFsyncTick \/ LogFsyncFails \/ UNCHANGED vars
  <2>1. /\ UNCHANGED <<log, closed, manifest, manifestFile, taints, failed, dir>>
        /\ UNCHANGED <<job, active, frozen>>
    BY <1>2 DEF HandleBatchWrite, LogSync, LogFsyncTick, LogFsyncFails, Sync, FsyncTick,
                FsyncFails, vars, walVars, engineVars, memVars, diskVars, histVars
  <2> QED BY <2>1, CoverQuiet
<1>3. CASE MaybeRotateMemtable
  BY <1>3, CoverRotate
<1>4. ASSUME NEW n \in Paths, FlushStep(n) \/ FlushFailsAt(n) PROVE CoverInv'
  BY <1>4, CoverFlush
<1>5. ASSUME NEW n \in Paths, Apply(n) \/ ApplyFlushSaveFails(n) PROVE CoverInv'
  BY <1>5, CoverApply
<1>6. CASE CrashEngine \/ CrashInApply \/ Shutdown
  BY <1>6, CoverStop
<1>7. CASE Restart
  BY <1>7, CoverRestart
<1> QED BY <1>1, <1>2, <1>3, <1>4, <1>5, <1>6, <1>7 DEF EngineNext

(* All that was proved so far holds in every reachable state.              *)
LEMMA SettledInvariant == EngineSafety => []Settled
<1>1. AccountedInv /\ CheckpointInv /\ PlacesInv /\ LogRegular => Settled
  BY DEF Settled, Known
<1> QED BY <1>1, AccountedInvariant, CheckpointInvariant, PlacesInvariant, RegularInvariant, PTL

(* The checkpoints are covered in every reachable state of a program that  *)
(* calls Recover.                                                          *)
LEMMA CoverInvariant == ASSUME CallsRecover PROVE EngineSafety => []CoverInv
<1>1. ASSUME EngineInit PROVE CoverInv
  <2>1. /\ log = <<>> /\ manifestFile = manifest /\ \A n \in Paths : job[n] = NoJob
    BY <1>1 DEF EngineInit, WALInit
  <2>2. Unapplied = {}
    BY <2>1 DEF Unapplied, NoJob
  <2> QED BY <2>1, <2>2 DEF CoverInv, FileListed, FileCovered, MemoryCovered, LogCovered,
                            JobsCovered, Covered
<1>2. Settled /\ CoverInv /\ [EngineNext]_vars => CoverInv'
  BY CoverStep
<1> QED BY <1>1, <1>2, SettledInvariant, PTL DEF EngineSafety

(* What the checkpoints cover is what recovery finds.                      *)
LEMMA CoverRecoverable == ASSUME Settled, CoverInv PROVE Recoverable
<1> SUFFICES ASSUME taints = {}, NEW p \in 1 .. synced, log[p].part = "body",
                    log[p].rec \notin failed
             PROVE  log[p].rec \in InSegments(manifestFile)
                                     \cup Replay(log, synced, manifestFile.wal)
  BY DEF Recoverable, Durable
<1>1. /\ log \in Seq(Cells) /\ Len(log) \in Nat /\ Regular(log) /\ synced \in 0 .. Len(log)
      /\ manifestFile.wal \in Nat /\ manifestFile.wal % 2 = 0
  BY DEF Settled, Known, AccountedInv, LogInv, WALTypeOK, TypeInv, EngineTypeOK, Manifests,
         LogRegular
<1>2. CASE p <= manifestFile.wal
  <2>1. p \in 1 .. Len(log)
    BY <1>1
  <2> QED BY <1>2, <2>1 DEF CoverInv, FileCovered, Covered
<1>3. CASE manifestFile.wal < p
  BY <1>1, <1>3, ReplayRegular
<1> QED BY <1>1, <1>2, <1>3

(* Recovery never loses what reached stable storage: whatever save failed  *)
(* and wherever the process stopped, each fsynced record that was not      *)
(* answered with an error is in a segment that the manifest on disk lists, *)
(* or Recover reads it behind the checkpoint, until one of the hazards     *)
(* happens.                                                                *)
THEOREM SyncedIsRecoverable == ASSUME CallsRecover PROVE EngineSafety => []Recoverable
BY CoverRecoverable, SettledInvariant, CoverInvariant, PTL

(* What the checkpoints cover is what a running engine serves.             *)
LEMMA CoverServes == ASSUME Settled, CoverInv PROVE DurableVisible
<1> SUFFICES ASSUME taints = {}, ~closed, NEW w \in Durable PROVE w \in Visible
  BY DEF DurableVisible
<1>1. /\ log \in Seq(Cells) /\ synced \in 0 .. Len(log) /\ Len(log) \in Nat
      /\ manifestFile.wal \in Nat
  BY DEF Settled, Known, AccountedInv, LogInv, WALTypeOK, TypeInv, EngineTypeOK, Manifests
<1>2. /\ w \notin failed
      /\ w \in InSegments(manifestFile) \/ w \in Replay(log, synced, manifestFile.wal)
  BY DEF Durable
<1>3. CASE w \in InSegments(manifestFile)
  <2>1. Entries(manifestFile) \subseteq Entries(manifest)
    BY DEF CoverInv, FileListed
  <2> QED BY <1>3, <2>1 DEF InSegments, Visible
<1>4. CASE w \in Replay(log, synced, manifestFile.wal)
  <2>1. PICK p \in 1 .. synced : log[p].part = "body" /\ log[p].rec = w
    BY <1>1, <1>4, ReplayBody
  <2>2. p \in 1 .. Len(log) /\ p <= Len(log)
    BY <1>1
  <2> QED BY <1>2, <2>1, <2>2 DEF CoverInv, LogCovered, Covered
<1> QED BY <1>2, <1>3, <1>4

(* A running engine serves all that survived the last stop, for any number *)
(* of crashes and restarts, until one of the hazards happens.              *)
THEOREM RestartServesDurable == ASSUME CallsRecover PROVE EngineSafety => []DurableVisible
BY CoverServes, SettledInvariant, CoverInvariant, PTL
-----------------------------------------------------------------------------
(* The refinement: until one of the hazards happens, every step of the     *)
(* engine is a step of the abstract store or leaves it alone.              *)
Points == IF closed THEN Stored ELSE Visible

(* No step forgets a hazard, and at most the write that is being handled   *)
(* is refused.                                                             *)
LEMMA HistoryStep ==
    ASSUME [EngineNext]_vars
    PROVE  taints \subseteq taints' /\ failed' \in {failed, failed \cup {sent + 1}}
<1>1. CASE HandleWrite \/ BatchAppend \/ HandleWriteFails \/ BatchAppendFails
  BY <1>1 DEF HandleWrite, BatchAppend, HandleWriteFails, BatchAppendFails
<1>2. CASE HandleBatchWrite \/ LogSync \/ LogFsyncTick \/ LogFsyncFails \/ UNCHANGED vars
  BY <1>2 DEF HandleBatchWrite, LogSync, LogFsyncTick, LogFsyncFails, vars, engineVars, histVars
<1>3. CASE MaybeRotateMemtable
  BY <1>3 DEF MaybeRotateMemtable
<1>4. ASSUME NEW n \in Paths, FlushStep(n) \/ FlushFailsAt(n)
      PROVE  taints \subseteq taints' /\ failed' = failed
  BY <1>4 DEF FlushStep, FlushNothing, FlushCreate, FlushWrite, FlushSend, FlushFailsAt, histVars
<1>5. ASSUME NEW n \in Paths, Apply(n) \/ ApplyFlushSaveFails(n)
      PROVE  taints \subseteq taints' /\ failed' = failed
  BY <1>5 DEF Apply, ApplyFlushError, ApplyFlushEmpty, ApplyFlushResult, ApplyFlushSaveFails,
              histVars
<1>6. CASE CrashEngine \/ CrashInApply \/ Shutdown \/ Restart
  BY <1>6 DEF CrashEngine, CrashInApply, Shutdown, Restart
<1> QED BY <1>1, <1>2, <1>3, <1>4, <1>5, <1>6 DEF EngineNext

(* The segments that the manifest on disk lists only gain writes.          *)
LEMMA SegmentsKept ==
    ASSUME Settled, CoverInv, [EngineNext]_vars, taints' = {}
    PROVE  InSegments(manifestFile) \subseteq InSegments(manifestFile)'
<1>0. TypeInv /\ taints = {} /\ FileListed
  BY HistoryStep DEF Settled, Known, AccountedInv, CoverInv
<1>1. ASSUME UNCHANGED <<dir, manifestFile>>
      PROVE  InSegments(manifestFile) \subseteq InSegments(manifestFile)'
  BY <1>1 DEF InSegments, Entries
<1>2. CASE HandleWrite \/ BatchAppend \/ HandleWriteFails \/ BatchAppendFails
             \/ HandleBatchWrite \/ LogSync \/ LogFsyncTick \/ LogFsyncFails \/ UNCHANGED vars
             \/ MaybeRotateMemtable \/ CrashEngine \/ Shutdown \/ Restart
  <2>1. UNCHANGED <<dir, manifestFile>>
    BY <1>2 DEF HandleWrite, BatchAppend, HandleWriteFails, BatchAppendFails, HandleBatchWrite,
                LogSync, LogFsyncTick, LogFsyncFails, vars, engineVars, diskVars,
                MaybeRotateMemtable, CrashEngine, Shutdown, Restart
  <2> QED BY <1>1, <2>1
<1>3. ASSUME NEW n \in Paths, FlushStep(n) \/ FlushFailsAt(n)
      PROVE  InSegments(manifestFile) \subseteq InSegments(manifestFile)'
  <2>1. CASE FlushSend(n)
    BY <1>1, <2>1 DEF FlushSend, diskVars
  <2>2. CASE ~FlushSend(n)
    <3>1. FlushMoves(n)
      BY <1>0, <1>3, <2>2, FlushEffect
    <3>2. Entries(manifestFile) \subseteq Entries(manifest)
      BY <1>0, <3>1 DEF FileListed, FlushMoves
    <3>3. \A k \in Listed(manifest) : dir'[k] = dir[k]
      BY <1>3, <2>2, ListedKept DEF Clean
    <3>4. manifestFile' = manifestFile
      BY <1>3 DEF FlushStep, FlushNothing, FlushCreate, FlushWrite, FlushSend, FlushFailsAt, diskVars
    <3>5. \A e \in Entries(manifestFile) : dir'[e.path] = dir[e.path]
      BY <3>2, <3>3 DEF Listed
    <3> QED BY <3>4, <3>5 DEF InSegments, Entries
  <2> QED BY <2>1, <2>2
<1>4. ASSUME ~closed, dir' = dir, NEW n \in Paths, manifestFile' \in {manifestFile, Added(n), Checkpointed(n)}
      PROVE  InSegments(manifestFile) \subseteq InSegments(manifestFile)'
  <2>1. Entries(manifestFile) \subseteq Entries(manifest)
    BY <1>0, <1>4 DEF FileListed
  <2>2. InSegments(manifestFile) \subseteq InSegments(manifest)
    BY <2>1 DEF InSegments
  <2>3. InSegments(manifestFile)' = InSegments(manifestFile')
    BY <1>4 DEF InSegments, Entries
  <2>4. \A m \in {Added(n), Checkpointed(n)} : InSegments(manifest) \subseteq InSegments(m)
    BY <1>0, SegmentsAppend
  <2> QED BY <1>4, <2>2, <2>3, <2>4
<1>5. ASSUME NEW n \in Paths, Apply(n) \/ ApplyFlushSaveFails(n)
      PROVE  InSegments(manifestFile) \subseteq InSegments(manifestFile)'
  <2>1. ApplyMoves(n)
    BY <1>0, <1>5, ApplyEffect
  <2>2. ~closed /\ dir' = dir /\ manifestFile' \in {manifestFile, Added(n), Checkpointed(n)}
    BY <2>1 DEF ApplyMoves
  <2> QED BY <1>4, <2>2
<1>6. CASE CrashInApply
  <2>1. /\ Head(flushDoneCh) \in Paths /\ manifestFile' = Added(Head(flushDoneCh))
        /\ ~closed /\ dir' = dir
    BY <1>0, <1>6 DEF CrashInApply, Idle, TypeInv, EngineTypeOK
  <2> QED BY <1>4, <2>1
<1> QED BY <1>2, <1>3, <1>5, <1>6 DEF EngineNext

(* What was stored or is visible is not newer than the last write handed   *)
(* to the log.                                                             *)
LEMMA OldWrites ==
    ASSUME Settled
    PROVE  /\ \A w \in Durable : w \in 1 .. sent
           /\ taints = {} /\ ~closed => \A w \in Visible : w \in 1 .. sent
<1>1. /\ EngineTypeOK /\ OnlyOld /\ OnlySent /\ log \in Seq(Cells) /\ synced \in 0 .. Len(log)
      /\ Len(log) \in Nat /\ manifestFile \in Manifests /\ manifest \in Manifests
  BY DEF Settled, Known, AccountedInv, LogInv, WALTypeOK, TypeInv, EngineTypeOK
<1>2. ASSUME NEW m \in Manifests, NEW w \in InSegments(m) PROVE w \in 1 .. sent
  <2>1. PICK i \in DOMAIN m.segs : w \in dir[m.segs[i].path]
    BY <1>2 DEF InSegments, Entries
  <2>2. m.segs \in Seq(SegEntries)
    BY DEF Manifests, SegEntries
  <2>3. m.segs[i] \in SegEntries
    BY <2>2
  <2> QED BY <1>1, <2>1, <2>3 DEF OnlyOld, SegEntries
<1>3. ASSUME NEW w \in Replay(log, synced, manifestFile.wal) PROVE w \in 1 .. sent
  <2>1. manifestFile.wal \in Nat
    BY <1>1 DEF Manifests
  <2>2. PICK p \in 1 .. synced : log[p].rec = w
    BY <1>1, <1>3, <2>1, ReplayBody
  <2>3. p \in 1 .. Len(log)
    BY <1>1
  <2> QED BY <1>1, <2>2, <2>3 DEF OnlySent
<1>4. ASSUME taints = {}, ~closed, NEW w \in frozen PROVE w \in 1 .. sent
  <2>1. PICK n \in Unapplied : w \in job[n].data
    BY <1>4 DEF Settled, PlacesInv, FrozenIsUnapplied, Clean
  <2> QED BY <1>1, <2>1 DEF OnlyOld, Unapplied
<1>5. \A w \in active : w \in 1 .. sent
  BY <1>1 DEF OnlyOld
<1> QED BY <1>1, <1>2, <1>3, <1>4, <1>5 DEF Durable, Visible

(* Nothing durable is ever lost, and all of it is stored or visible.       *)
LEMMA DurableKept ==
    ASSUME Settled, CoverInv, Settled', CoverInv', [EngineNext]_vars, taints' = {}
    PROVE  Durable \subseteq Durable' /\ Durable' \subseteq Points'
<1>1. /\ log \in Seq(Cells) /\ synced \in 0 .. Len(log) /\ Len(log) \in Nat
      /\ manifestFile.wal \in Nat /\ WALTypeOK
  BY DEF Settled, Known, AccountedInv, LogInv, WALTypeOK, TypeInv, EngineTypeOK, Manifests
<1>2. /\ log' \in Seq(Cells) /\ synced' \in 0 .. Len(log') /\ Len(log') \in Nat
      /\ manifestFile'.wal \in Nat
  BY DEF Settled, Known, AccountedInv, LogInv, WALTypeOK, TypeInv, EngineTypeOK, Manifests
<1>3. ASSUME NEW w \in Durable PROVE w \in Durable'
  <2>1. w \notin failed'
    <3>1. w \notin failed /\ w \in 1 .. sent /\ sent \in Nat
      BY <1>1, OldWrites DEF Durable, WALTypeOK
    <3> QED BY <3>1, HistoryStep
  <2>2. CASE w \in InSegments(manifestFile)
    BY <2>1, <2>2, SegmentsKept DEF Durable
  <2>3. CASE w \in Replay(log, synced, manifestFile.wal)
    <3>1. PICK p \in 1 .. synced : log[p].part = "body" /\ log[p].rec = w
      BY <1>1, <2>3, ReplayBody
    <3>2. [WALNext]_walVars
      BY EngineStepsLog
    <3>3. synced <= synced' /\ log'[p] = log[p]
      BY <1>1, <3>2, SyncedKept
    <3>4. p \in 1 .. synced'
      BY <1>1, <1>2, <3>3
    <3>5. Recoverable'
      BY CoverRecoverable, PTL
    <3> QED BY <2>1, <3>1, <3>3, <3>4, <3>5 DEF Recoverable
  <2> QED BY <1>3, <2>2, <2>3 DEF Durable
<1>4. Durable' \subseteq Points'
  <2>1. CASE ~closed'
    <3>1. DurableVisible'
      BY CoverServes, PTL
    <3> QED BY <2>1, <3>1 DEF DurableVisible, Points
  <2>2. CASE closed'
    <3>1. Replay(log', synced', manifestFile'.wal) \subseteq Replay(log', Len(log'), manifestFile'.wal)
      BY <1>2, ReplayMonotone
    <3> QED BY <2>2, <3>1 DEF Durable, Stored, Points
  <2> QED BY <2>1, <2>2
<1> QED BY <1>3, <1>4

(* How the points that a client sees may change.                           *)
LEMMA PointsStep ==
    ASSUME Settled, CoverInv, Settled', CoverInv', [EngineNext]_vars, taints' = {}, CallsRecover
    PROVE  \/ /\ Points' = Points /\ failed' = failed /\ closed' = closed
           \/ /\ ~closed /\ ~closed' /\ failed' = failed /\ sent + 1 \in Writes
              /\ Points' = Points \cup {sent + 1} /\ sent + 1 \notin Points
           \/ /\ ~closed /\ ~closed' /\ Points' = Points /\ sent + 1 \in Writes
              /\ failed' = failed \cup {sent + 1}
           \/ /\ ~closed /\ closed' /\ failed' = failed /\ Points' \subseteq Points \cup failed
           \/ /\ closed /\ ~closed' /\ failed' = failed /\ Points' = Points
<1>0. /\ TypeInv /\ HonestResults /\ taints = {} /\ sent \in 0 .. MaxRecords
      /\ log \in Seq(Cells) /\ Len(log) \in Nat /\ synced \in 0 .. Len(log)
      /\ closed \in BOOLEAN /\ manifestFile.wal \in Nat
  <2>1. taints = {} /\ TypeInv /\ HonestResults
    BY HistoryStep DEF Settled, Known, AccountedInv
  <2>2. WALTypeOK /\ manifestFile \in Manifests
    BY DEF Settled, Known, AccountedInv, LogInv, TypeInv, EngineTypeOK
  <2> QED BY <2>1, <2>2 DEF WALTypeOK, Manifests
<1>1. CASE HandleWrite \/ BatchAppend \/ HandleWriteFails \/ BatchAppendFails
  <2>1. /\ UNCHANGED <<manifest, dir, frozen, closed>> /\ ~closed /\ sent < MaxRecords
        /\ \/ active' = active \cup {sent + 1} /\ failed' = failed
           \/ active' = active /\ failed' = failed \cup {sent + 1}
    BY <1>1 DEF HandleWrite, BatchAppend, HandleWriteFails, BatchAppendFails, WriterAppend,
                WriterAppendFails, memVars, diskVars
  <2>2. sent + 1 \in Writes
    BY <1>0, <2>1, WALConstants DEF Writes
  <2>3. Points = Visible /\ Points' = Visible'
    BY <2>1 DEF Points
  <2>4. InSegments(manifest)' = InSegments(manifest)
    BY <2>1 DEF InSegments, Entries
  <2>5. sent + 1 \notin Visible
    BY <1>0, <2>1, OldWrites
  <2>6. CASE active' = active \cup {sent + 1} /\ failed' = failed
    <3>1. Visible' = Visible \cup {sent + 1}
      BY <2>1, <2>4, <2>6 DEF Visible
    <3> QED BY <2>1, <2>2, <2>3, <2>5, <2>6, <3>1
  <2>7. CASE active' = active /\ failed' = failed \cup {sent + 1}
    <3>1. Visible' = Visible
      BY <2>1, <2>4, <2>7 DEF Visible
    <3> QED BY <2>1, <2>2, <2>3, <2>7, <3>1
  <2> QED BY <2>1, <2>6, <2>7
<1>2. CASE HandleBatchWrite \/ LogSync \/ LogFsyncTick \/ LogFsyncFails \/ UNCHANGED vars
  <2>1. /\ UNCHANGED <<log, closed, manifest, manifestFile, failed, dir, active, frozen>>
    BY <1>2 DEF HandleBatchWrite, LogSync, LogFsyncTick, LogFsyncFails, Sync, FsyncTick,
                FsyncFails, vars, walVars, engineVars, memVars, diskVars, histVars
  <2>2. Points' = Points
    BY <2>1 DEF Points, Visible, Stored, InSegments, Entries
  <2> QED BY <2>1, <2>2
<1>3. CASE MaybeRotateMemtable
  <2>1. /\ ~closed /\ UNCHANGED <<manifest, dir, failed, closed>>
        /\ active' = {} /\ frozen' = active /\ (Unapplied # {} => "overlap" \in taints')
    BY <1>3 DEF MaybeRotateMemtable, Idle, walVars, diskVars
  <2>2. frozen = {}
    BY <1>0, <2>1 DEF Settled, PlacesInv, FrozenIsUnapplied, Clean
  <2>3. Visible' = Visible
    BY <2>1, <2>2 DEF Visible, InSegments, Entries
  <2> QED BY <2>1, <2>3 DEF Points
<1>4. ASSUME NEW n \in Paths, FlushStep(n) \/ FlushFailsAt(n)
      PROVE  Points' = Points /\ failed' = failed /\ closed' = closed
  <2>1. UNCHANGED <<log, closed, active, frozen, manifest, manifestFile, failed>>
    BY <1>4 DEF FlushStep, FlushNothing, FlushCreate, FlushWrite, FlushSend, FlushFailsAt,
                walVars, histVars, diskVars
  <2>2. CASE FlushSend(n)
    BY <2>1, <2>2 DEF FlushSend, diskVars, Points, Visible, Stored, InSegments, Entries
  <2>3. CASE ~FlushSend(n)
    <3>1. FlushMoves(n)
      BY <1>0, <1>4, <2>3, FlushEffect
    <3>2. Entries(manifestFile) \subseteq Entries(manifest)
      BY <1>0, <3>1 DEF CoverInv, FileListed, FlushMoves
    <3>3. \A k \in Listed(manifest) : dir'[k] = dir[k]
      BY <1>4, <2>3, ListedKept DEF Clean
    <3>4. /\ \A e \in Entries(manifest) : dir'[e.path] = dir[e.path]
          /\ \A e \in Entries(manifestFile) : dir'[e.path] = dir[e.path]
      BY <3>2, <3>3 DEF Listed
    <3>5. Entries(manifest)' = Entries(manifest) /\ Entries(manifestFile)' = Entries(manifestFile)
      BY <2>1 DEF Entries
    <3>6. /\ InSegments(manifest)' = InSegments(manifest)
          /\ InSegments(manifestFile)' = InSegments(manifestFile)
      BY <3>4, <3>5 DEF InSegments
    <3> QED BY <2>1, <3>6 DEF Points, Visible, Stored
  <2> QED BY <2>2, <2>3
<1>5. ASSUME NEW n \in Paths, Apply(n) \/ ApplyFlushSaveFails(n)
      PROVE  Points' = Points /\ failed' = failed /\ closed' = closed
  <2>1. ApplyMoves(n)
    BY <1>0, <1>5, ApplyEffect
  <2>2. /\ UNCHANGED <<closed, active, dir, failed>> /\ ~closed /\ frozen' = {}
        /\ job[n].pc \in Finished
    BY <2>1 DEF ApplyMoves, walVars
  <2>3. frozen = job[n].data
    BY <1>0, <2>2, FrozenIsTheFlush DEF Clean, Finished, Unapplied
  <2>4. InSegments(manifest)' = InSegments(manifest')
    BY <2>2 DEF InSegments, Entries
  <2>5. CASE job[n].pc = "written"
    <3>1. manifest' = Checkpointed(n) /\ dir[n] = job[n].data
      BY <1>0, <2>1, <2>5 DEF ApplyMoves, HonestResults
    <3>2. InSegments(Checkpointed(n)) = InSegments(manifest) \cup dir[n]
      BY <1>0, SegmentsAppend
    <3>3. Visible' = Visible
      BY <2>2, <2>3, <2>4, <3>1, <3>2 DEF Visible
    <3> QED BY <2>2, <3>3 DEF Points
  <2>6. CASE job[n].pc # "written"
    <3>1. manifest' = manifest /\ job[n].data = {}
      BY <1>0, <2>1, <2>6 DEF ApplyMoves, HonestResults
    <3>2. Visible' = Visible
      BY <2>2, <2>3, <2>4, <3>1 DEF Visible
    <3> QED BY <2>2, <3>2 DEF Points
  <2> QED BY <2>5, <2>6
<1>6. CASE CrashEngine \/ CrashInApply \/ Shutdown
  <2>1. ~closed /\ closed' /\ UNCHANGED <<dir, failed, manifest>>
    BY <1>6 DEF CrashEngine, CrashInApply, Shutdown, Crash, Close, diskVars, memVars
  <2>2. /\ Entries(manifestFile) \subseteq Entries(manifest) /\ LogCovered
    BY <1>0, <2>1 DEF CoverInv, FileListed
  <2>3. InSegments(manifestFile) \subseteq Visible
    BY <2>2 DEF InSegments, Visible
  <2>4. InSegments(manifestFile)' \subseteq Visible
    <3>1. InSegments(manifestFile)' = InSegments(manifestFile')
      BY <2>1 DEF InSegments, Entries
    <3>2. CASE CrashEngine \/ Shutdown
      BY <2>3, <3>1, <3>2 DEF CrashEngine, Shutdown, diskVars
    <3>3. CASE CrashInApply
      <4> DEFINE n == Head(flushDoneCh)
      <4>1. n \in Paths /\ job[n].pc = "written" /\ manifestFile' = Added(n)
        BY <1>0, <3>3 DEF CrashInApply, TypeInv, EngineTypeOK
      <4> HIDE DEF n
      <4>2. InSegments(Added(n)) = InSegments(manifest) \cup dir[n]
        BY <1>0, <4>1, SegmentsAppend
      <4>3. dir[n] = job[n].data /\ frozen = job[n].data
        BY <1>0, <2>1, <4>1, FrozenIsTheFlush DEF HonestResults, Clean, Unapplied
      <4> QED BY <3>1, <4>1, <4>2, <4>3 DEF Visible
    <3> QED BY <1>6, <3>2, <3>3
  <2>5. /\ log' \in Seq(Cells) /\ Len(log') \in Nat /\ manifestFile'.wal \in Nat
    BY DEF Settled, Known, AccountedInv, LogInv, WALTypeOK, TypeInv, EngineTypeOK, Manifests
  <2>6. \A p \in 1 .. Len(log') : p \in 1 .. Len(log) /\ log'[p] = log[p]
    BY <1>6, StopCuts DEF Settled, Known, AccountedInv
  <2>7. ASSUME NEW w \in Replay(log', Len(log'), manifestFile'.wal) PROVE w \in Visible \cup failed
    <3>1. PICK p \in 1 .. Len(log') : log'[p].part = "body" /\ log'[p].rec = w
      BY <2>5, <2>7, ReplayBody
    <3> QED BY <1>0, <2>2, <2>6, <3>1 DEF LogCovered, Covered
  <2> QED BY <2>1, <2>4, <2>7 DEF Points, Stored
<1>7. CASE Restart
  <2>1. /\ UNCHANGED <<dir, failed, manifestFile>> /\ closed /\ ~closed' /\ manifest' = manifestFile
        /\ frozen' = {} /\ active' = Replay(log, Len(log), manifestFile.wal)
    BY <1>7 DEF Restart, NewWriter, Recovered, diskVars
  <2>2. InSegments(manifest)' = InSegments(manifestFile)
    BY <2>1 DEF InSegments, Entries
  <2> QED BY <2>1, <2>2 DEF Points, Stored, Visible
<1> QED BY <1>1, <1>2, <1>3, <1>4, <1>5, <1>6, <1>7 DEF EngineNext

(* The engine implements the abstract store: no write appears, disappears  *)
(* or comes back that the store's clients cannot explain, for any number   *)
(* of writes, flushes, failing writes, crashes and restarts, until one of  *)
(* the hazards happens.                                                    *)
THEOREM EngineImplementsStore == ASSUME CallsRecover PROVE EngineSafety => ImplementsStore
<1>1. ASSUME EngineInit PROVE AbstractStore!StoreInit
  <2>1. /\ log = <<>> /\ synced = 0 /\ manifestFile = manifest /\ manifest.segs = <<>>
        /\ manifest.wal = 0
        /\ active = {} /\ frozen = {} /\ failed = {} /\ closed = FALSE /\ taints = {}
    BY <1>1 DEF EngineInit, WALInit
  <2>2. InSegments(manifest) = {} /\ InSegments(manifestFile) = {}
    BY <2>1 DEF InSegments, Entries
  <2>3. Replay(log, synced, manifestFile.wal) = {}
    BY <2>1 DEF Replay, ReplayedAt, RecordAt, RecordCells
  <2> QED BY <2>1, <2>2, <2>3 DEF AbstractStore!StoreInit, Visible, Durable
<1>2. ASSUME Settled, CoverInv, Settled', CoverInv', [EngineNext]_vars
      PROVE  AbstractStore!StoreNext
  <2>1. CASE taints' # {}
    BY <2>1 DEF AbstractStore!StoreNext, AbstractStore!Degrade
  <2>2. CASE taints' = {}
    <3>1. taints = {} /\ closed \in BOOLEAN /\ closed' \in BOOLEAN
      BY <1>2, <2>2, HistoryStep DEF Settled, Known, AccountedInv, LogInv, WALTypeOK
    <3>2. Durable \subseteq Durable' /\ Durable' \subseteq Points'
      BY <1>2, <2>2, DurableKept
    <3>3. CASE Points' = Points /\ failed' = failed /\ closed' = closed
      <4>1. AbstractStore!Harden
        BY <2>2, <3>1, <3>2, <3>3 DEF AbstractStore!Harden, AbstractStore!Hardens, Points
      <4> QED BY <4>1 DEF AbstractStore!StoreNext
    <3>4. CASE /\ ~closed /\ ~closed' /\ failed' = failed /\ sent + 1 \in Writes
               /\ Points' = Points \cup {sent + 1} /\ sent + 1 \notin Points
      <4>1. AbstractStore!Put(sent + 1)
        BY <2>2, <3>1, <3>2, <3>4 DEF AbstractStore!Put, AbstractStore!Hardens, Points
      <4> QED BY <3>4, <4>1 DEF AbstractStore!StoreNext
    <3>5. CASE /\ ~closed /\ ~closed' /\ Points' = Points /\ sent + 1 \in Writes
               /\ failed' = failed \cup {sent + 1}
      <4>1. AbstractStore!Refuse(sent + 1)
        BY <2>2, <3>1, <3>2, <3>5 DEF AbstractStore!Refuse, AbstractStore!Hardens, Points
      <4> QED BY <3>5, <4>1 DEF AbstractStore!StoreNext
    <3>6. CASE ~closed /\ closed' /\ failed' = failed /\ Points' \subseteq Points \cup failed
      <4>1. AbstractStore!Stop
        BY <2>2, <3>1, <3>2, <3>6 DEF AbstractStore!Stop, AbstractStore!Hardens, Points
      <4> QED BY <4>1 DEF AbstractStore!StoreNext
    <3>7. CASE closed /\ ~closed' /\ failed' = failed /\ Points' = Points
      <4>1. AbstractStore!Start
        BY <2>2, <3>1, <3>2, <3>7 DEF AbstractStore!Start, AbstractStore!Hardens, Points
      <4> QED BY <4>1 DEF AbstractStore!StoreNext
    <3> QED BY <1>2, <2>2, <3>3, <3>4, <3>5, <3>6, <3>7, PointsStep
  <2> QED BY <2>1, <2>2
<1> QED BY <1>1, <1>2, SettledInvariant, CoverInvariant, PTL
        DEF EngineSafety, ImplementsStore, AbstractStore!StoreSpec
=============================================================================
