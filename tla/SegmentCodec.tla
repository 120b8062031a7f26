---------------------------- MODULE SegmentCodec ----------------------------
(***************************************************************************)
(* The bytes of one series in a segment file: version 1 (varint deltas)    *)
(* and version 2 (Gorilla), and what decodeSeriesAt makes of them          *)
(* (internal/segment/segment.go, gorilla.go).                              *)
(*                                                                         *)
(* Encoded data is a sequence of bits. All widths are constants: the code  *)
(* has 8 bytes of 8 bits in a word; a small instance keeps the relations   *)
(* between the widths and makes every boundary reachable.                  *)
(***************************************************************************)
EXTENDS Integers, Sequences, FiniteSetsExt

CONSTANTS
    ByteBits,      \* 8
    WordBytes,     \* 8
    Buckets,       \* bits of a delta of deltas: <<7, 9, 12>>
    LeadBits,      \* bits of the number of leading zeros: 5
    TrailBits,     \* bits of the number of trailing zeros: 6
    Times,         \* timestamps of the instance
    Values,        \* Float64bits of its values
    Behind,        \* what may follow the series in the file
    MaxPoints      \* bound: points of the series

WordBits == ByteBits * WordBytes
GroupBits == ByteBits - 1

Pow2[n \in Nat] == IF n = 0 THEN 1 ELSE 2 * Pow2[n - 1]

(* Words, lengths and numbers of zeros fit where the code puts them.       *)
ASSUME CodecConstants ==
    /\ ByteBits \in Nat \ {0, 1} /\ WordBytes \in Nat \ {0} /\ MaxPoints \in Nat
    /\ LeadBits \in Nat /\ TrailBits \in Nat
    /\ Times \subseteq -Pow2[WordBits - 1] .. Pow2[WordBits - 1] - 1
    /\ Values \subseteq 0 .. Pow2[WordBits] - 1
    /\ Buckets \in Seq(1 .. WordBits)
    /\ Behind \subseteq Seq(0 .. 1)
    /\ 2 * WordBytes * MaxPoints < Pow2[WordBits]
    /\ WordBits < Pow2[ByteBits] /\ WordBits <= Pow2[TrailBits]

VARIABLES
    points,        \* the series, sorted by timestamp as Memtable keeps it
    behind         \* the bits behind it in the file

(* What a decoder returns: points, errCorrupt, or a slice out of range,    *)
(* which ends the process. Inside, a part that failed is empty.            *)
Decoded(pts) == [err |-> "nil", pts |-> pts]
Corrupt == [err |-> "corrupt", pts |-> <<>>]
Panic == [err |-> "panic", pts |-> <<>>]
Failed == <<>>
-----------------------------------------------------------------------------
(* Words, bits and varints.                                                *)
Signed(x) == ((x + Pow2[WordBits - 1]) % Pow2[WordBits]) - Pow2[WordBits - 1]

(* writeBits: the low n bits of x, the highest first.                      *)
Bits(x, n) == [k \in 1 .. n |-> (x \div Pow2[n - k]) % 2]
Number(s) ==
    LET upTo[k \in 0 .. Len(s)] == IF k = 0 THEN 0 ELSE 2 * upTo[k - 1] + s[k]
    IN  upTo[Len(s)]
Zeros(n) == [k \in 1 .. n |-> 0]
PadTo(len) == Zeros((ByteBits - (len % ByteBits)) % ByteBits)
Pad(s) == s \o PadTo(Len(s))

(* PutUint64 and Uint64: the bytes of a word, the low one first.           *)
LittleEndian(s) ==
    [k \in 1 .. WordBits |->
        s[ByteBits * (WordBytes - 1 - ((k - 1) \div ByteBits)) + ((k - 1) % ByteBits) + 1]]
Word(x) == LittleEndian(Bits(x, WordBits))
WordAt(s) == Number(LittleEndian(s))

MaxVarintLen == (WordBits + GroupBits - 1) \div GroupBits

(* binary.PutUvarint: groups of bits, the low group first, each behind a   *)
(* bit that says whether more follow.                                      *)
Groups(n) == Min({m \in 1 .. MaxVarintLen : n < Pow2[GroupBits * m]})
Uvarint(n) ==
    [k \in 1 .. ByteBits * Groups(n) |->
        LET group == (k - 1) \div ByteBits
            bit == (k - 1) % ByteBits
        IN  IF bit = 0
              THEN IF group < Groups(n) - 1 THEN 1 ELSE 0
              ELSE (n \div Pow2[GroupBits * (group + 1) - bit]) % 2]
Varint(x) == Uvarint(IF x >= 0 THEN 2 * x ELSE -2 * x - 1)

(* binary.Uvarint: value and bytes used; none if s ends too early or the   *)
(* number needs more bits than a word has.                                 *)
ReadUvarint(s) ==
    LET ends == {k \in 0 .. (Len(s) \div ByteBits) - 1 : s[ByteBits * k + 1] = 0}
        last == Min(ends)
        val == Number([k \in 1 .. GroupBits * (last + 1) |->
                          s[ByteBits * (last - ((k - 1) \div GroupBits))
                                + ((k - 1) % GroupBits) + 2]])
    IN  IF ends = {} THEN [val |-> 0, used |-> 0]
        ELSE IF last >= MaxVarintLen \/ val >= Pow2[WordBits] THEN [val |-> 0, used |-> 0]
        ELSE [val |-> val, used |-> last + 1]

ReadVarint(s) ==
    LET u == ReadUvarint(s)
    IN  [val |-> IF u.val % 2 = 0 THEN u.val \div 2 ELSE -((u.val + 1) \div 2), used |-> u.used]

From(s, byte) == SubSeq(s, ByteBits * byte + 1, Len(s))
-----------------------------------------------------------------------------
(* Version 1: first timestamp, varint deltas, values.                      *)
Delta(ts, i) == Signed(ts[i] - ts[i - 1])

Words(vs) ==
    [k \in 1 .. WordBits * Len(vs) |-> Word(vs[((k - 1) \div WordBits) + 1])[((k - 1) % WordBits) + 1]]

(* Faulty variant: every timestamp is stored relative to the first.        *)
EncodeV1Absolute(ts, vs) ==
    LET buf[i \in 1 .. Len(ts)] ==
            IF i = 1 THEN Word(ts[1] % Pow2[WordBits])
                     ELSE buf[i - 1] \o Varint(Signed(ts[i] - ts[1]))
    IN  buf[Len(ts)] \o Words(vs)

EncodeV1(ts, vs) ==
    LET buf[i \in 1 .. Len(ts)] ==
            IF i = 1 THEN Word(ts[1] % Pow2[WordBits])
                     ELSE buf[i - 1] \o Varint(Delta(ts, i))
    IN  buf[Len(ts)] \o Words(vs)

(* The loop over the deltas stops at the first that is not a varint.       *)
ReadDeltas(data, n) ==
    LET read[i \in 1 .. n] ==
            IF i = 1
              THEN [ok |-> TRUE, off |-> WordBytes, t |-> Signed(WordAt(data))]
              ELSE LET r == read[i - 1]
                       d == ReadVarint(From(data, r.off))
                   IN  IF r.ok /\ d.used > 0
                         THEN [ok |-> TRUE, off |-> r.off + d.used, t |-> Signed(r.t + d.val)]
                         ELSE [r EXCEPT !.ok = FALSE]
    IN  read

DecodePoints(data, n) ==
    LET read == ReadDeltas(data, n)
        off == read[n].off
    IN  IF Len(data) < WordBits THEN Panic
        ELSE IF ~read[n].ok THEN Corrupt
        ELSE IF Len(data) < ByteBits * off + n * WordBits THEN Panic
        ELSE Decoded([i \in 1 .. n |->
                 [t |-> read[i].t, v |-> WordAt(From(data, off + (i - 1) * WordBytes))]])
-----------------------------------------------------------------------------
(* Version 2, timestamps. A delta of deltas takes one bit, or one of the   *)
(* buckets, or four ones and a varint at the next byte boundary.           *)
Low(k) == -(Pow2[Buckets[k] - 1] - 1)
High(k) == Pow2[Buckets[k] - 1]
Ones(k) == [i \in 1 .. k |-> 1]

(* Faulty variant: the bucket is taken one too wide.                       *)
BucketsOfWide(dod) == {k \in DOMAIN Buckets : dod >= Low(k) - 1 /\ dod <= High(k)}

BucketsOf(dod) == {k \in DOMAIN Buckets : dod >= Low(k) /\ dod <= High(k)}

DodCode(dod, pos) ==
    IF dod = 0 THEN <<0>>
    ELSE IF BucketsOf(dod) # {}
      THEN LET k == Min(BucketsOf(dod))
           IN  Ones(k) \o <<0>> \o Bits(dod - Low(k), Buckets[k])
      ELSE LET escape == Ones(Len(Buckets) + 1)
           IN  escape \o PadTo(pos + Len(escape)) \o Varint(dod)

Dod(ts, i) == Signed(Delta(ts, i) - Delta(ts, i - 1))

GorillaEncodeTimestamps(ts) ==
    LET head == Word(ts[1] % Pow2[WordBits])
        buf[i \in 2 .. Len(ts)] ==
            IF i = 2 THEN head \o Varint(Delta(ts, 2))
                     ELSE buf[i - 1] \o DodCode(Dod(ts, i), Len(buf[i - 1]))
    IN  IF Len(ts) = 1 THEN head ELSE Pad(buf[Len(ts)])

(* The bit reader returns zeros at the end of its data.                    *)
BitAt(s, pos) == IF pos < Len(s) THEN s[pos + 1] ELSE 0
ReadBits(s, pos, n) == Number([k \in 1 .. n |-> BitAt(s, pos + k - 1)])
Skip(s, pos, n) == Max({pos, Min({pos + n, Len(s)})})

(* The escape is followed by a varint, which the decoder looks for in data *)
(* although its position counts from the byte behind the first word.       *)
ReadDod(data, pos) ==
    LET rest == From(data, WordBytes)
        ones == {k \in 0 .. Len(Buckets) : BitAt(rest, pos + k) = 0}
        k == Min(ones)
        at == Skip(rest, pos, k + 1)
        behindOnes == Skip(rest, pos, Len(Buckets) + 1)
        aligned == behindOnes + Len(PadTo(behindOnes))
        d == ReadVarint(From(data, aligned \div ByteBits))
    IN  CASE ones = {} -> [ok |-> d.used > 0, dod |-> d.val, pos |-> aligned + d.used * ByteBits]
          [] ones # {} /\ k = 0 -> [ok |-> TRUE, dod |-> 0, pos |-> at]
          [] OTHER -> [ok |-> TRUE, dod |-> ReadBits(rest, at, Buckets[k]) + Low(k),
                       pos |-> Skip(rest, at, Buckets[k])]

ReadDods(data, n) ==
    LET first == Signed(WordAt(data))
        d == ReadVarint(From(data, WordBytes))
        read[i \in 2 .. n] ==
            IF i = 2
              THEN [ok |-> d.used > 0, pos |-> d.used * ByteBits, delta |-> d.val,
                    t |-> Signed(first + d.val)]
              ELSE LET r == read[i - 1]
                       c == ReadDod(data, r.pos)
                       delta == Signed(r.delta + c.dod)
                   IN  IF r.ok /\ c.ok
                         THEN [ok |-> TRUE, pos |-> c.pos, delta |-> delta,
                               t |-> Signed(r.t + delta)]
                         ELSE [r EXCEPT !.ok = FALSE]
    IN  read

GorillaDecodeTimestamps(data, n) ==
    LET first == Signed(WordAt(data))
        read == ReadDods(data, n)
    IN  IF Len(data) < WordBits THEN Failed
        ELSE IF n = 1 THEN <<first>>
        ELSE IF ~read[n].ok THEN Failed
        ELSE [i \in 1 .. n |-> IF i = 1 THEN first ELSE read[i].t]
-----------------------------------------------------------------------------
(* Version 2, values: the exclusive or with the value before, its zeros at *)
(* both ends left out. A window is a pair of leading and trailing zeros.   *)
Xor(x, y) == Number([k \in 1 .. WordBits |-> (Bits(x, WordBits)[k] + Bits(y, WordBits)[k]) % 2])
LeadingZeros(x) == Min({k \in 0 .. WordBits - 1 : Bits(x, WordBits)[k + 1] = 1})
TrailingZeros(x) == Min({k \in 0 .. WordBits - 1 : Bits(x, WordBits)[WordBits - k] = 1})
NoWindow == <<Pow2[ByteBits] - 1, 0>>
Middle(w) == WordBits - w[1] - w[2]

Fits(x, w) == LeadingZeros(x) >= w[1] /\ TrailingZeros(x) >= w[2]

XorCode(x, w) ==
    IF Fits(x, w) THEN [bits |-> <<1, 0>> \o Bits(x \div Pow2[w[2]], Middle(w)), window |-> w]
    ELSE LET own == <<LeadingZeros(x), TrailingZeros(x)>>
         IN  [bits |-> <<1, 1>> \o Bits(own[1], LeadBits) \o Bits(own[2], TrailBits)
                         \o Bits(x \div Pow2[own[2]], Middle(own)),
              window |-> own]

GorillaEncodeValues(vs) ==
    LET buf[i \in 1 .. Len(vs)] ==
            IF i = 1
              THEN [bits |-> Word(vs[1]), window |-> NoWindow]
              ELSE LET s == buf[i - 1]
                       x == Xor(vs[i - 1], vs[i])
                       c == XorCode(x, s.window)
                   IN  IF x = 0
                         THEN [s EXCEPT !.bits = Append(@, 0)]
                         ELSE [bits |-> s.bits \o c.bits, window |-> c.window]
    IN  Pad(buf[Len(vs)].bits)

(* One value: where the reader stands behind it, its window, the value.    *)
ReadXor(rest, r) ==
    IF BitAt(rest, r.pos) = 0
      THEN [r EXCEPT !.pos = Skip(rest, r.pos, 1)]
      ELSE LET fresh == BitAt(rest, r.pos + 1) = 1
               at == Skip(rest, r.pos, 2)
               w == IF fresh
                      THEN <<ReadBits(rest, at, LeadBits), ReadBits(rest, at + LeadBits, TrailBits)>>
                      ELSE r.window
               body == IF fresh THEN Skip(rest, at, LeadBits + TrailBits) ELSE at
               x == (ReadBits(rest, body, Middle(w)) * Pow2[w[2]]) % Pow2[WordBits]
           IN  [pos |-> Skip(rest, body, Middle(w)), window |-> w, v |-> Xor(r.v, x)]

ReadXors(data, n) ==
    LET read[i \in 1 .. n] ==
            IF i = 1 THEN [pos |-> 0, window |-> NoWindow, v |-> WordAt(data)]
                     ELSE ReadXor(From(data, WordBytes), read[i - 1])
    IN  read

GorillaDecodeValues(data, n) ==
    IF Len(data) < WordBits THEN Failed
    ELSE [i \in 1 .. n |-> ReadXors(data, n)[i].v]
-----------------------------------------------------------------------------
(* A series: the length of the timestamps, the timestamps, the values.     *)
GorillaEncodeSeries(ts, vs) ==
    LET t == GorillaEncodeTimestamps(ts)
    IN  Uvarint((Len(t) \div ByteBits) % Pow2[WordBits]) \o t \o GorillaEncodeValues(vs)

GorillaDecodeSeries(data, n) ==
    LET len == ReadUvarint(data)
        tsEnd == len.used + len.val
        ts == GorillaDecodeTimestamps(SubSeq(data, len.used * ByteBits + 1, tsEnd * ByteBits), n)
        vs == GorillaDecodeValues(From(data, tsEnd), n)
    IN  IF len.used = 0 \/ tsEnd * ByteBits > Len(data) THEN Corrupt
        ELSE IF n > 1 /\ len.val < WordBytes THEN Panic
        ELSE IF ts = Failed \/ vs = Failed THEN Corrupt
        ELSE Decoded([i \in 1 .. n |-> [t |-> ts[i], v |-> vs[i]]])

(* The reader does not know where a series ends: it reads so many bytes.   *)
MaxSize(version, n) == IF version >= 2 THEN 2 * WordBytes * n ELSE WordBytes + 2 * WordBytes * n

DecodeSeriesAt(version, file, n) ==
    LET data == SubSeq(file, 1, Min({Len(file), ByteBits * MaxSize(version, n)}))
    IN  IF version >= 2 THEN GorillaDecodeSeries(data, n) ELSE DecodePoints(data, n)

Ts == [i \in DOMAIN points |-> points[i].t]
Vs == [i \in DOMAIN points |-> points[i].v]

EncodeSeries(version) ==
    IF version >= 2 THEN GorillaEncodeSeries(Ts, Vs) ELSE EncodeV1(Ts, Vs)

ReadBack(version) == DecodeSeriesAt(version, EncodeSeries(version) \o behind, Len(points))
-----------------------------------------------------------------------------
(* Every sorted series is an input.                                        *)
CodecInit == points = <<>> /\ behind \in Behind

AddPoint ==
    /\ Len(points) < MaxPoints
    /\ \E t \in Times, v \in Values :
          /\ \A i \in DOMAIN points : points[i].t <= t
          /\ points' = Append(points, [t |-> t, v |-> v])
    /\ UNCHANGED behind

CodecSpec == CodecInit /\ [][AddPoint]_<<points, behind>>
-----------------------------------------------------------------------------
(* Version 1 returns the series, whatever follows it in the file, exactly  *)
(* if the bytes fit into what decodeSeriesAt reads; otherwise the reader   *)
(* slices past the end of its buffer and the process ends.                 *)
V1RoundTrip ==
    points # <<>> =>
        ReadBack(1) = IF Len(EncodeSeries(1)) <= ByteBits * MaxSize(1, Len(points))
                        THEN Decoded(points) ELSE Panic

(* The escape of a timestamp and the width of the leading zeros are the    *)
(* two things the decoder does not undo.                                   *)
NoEscape == \A i \in 3 .. Len(points) : Dod(Ts, i) = 0 \/ BucketsOf(Dod(Ts, i)) # {}
LeadFits ==
    \A i \in 2 .. Len(points) :
        Vs[i] # Vs[i - 1] => LeadingZeros(Xor(Vs[i], Vs[i - 1])) < Pow2[LeadBits]

(* Version 2 returns the series, whatever follows it, if its bytes fit     *)
(* into what decodeSeriesAt reads, no timestamp needs the escape and no    *)
(* two neighbours agree in too many leading bits. Each condition is        *)
(* needed: one point alone takes a byte more than is read and is reported  *)
(* corrupt, and two values that agree in too many bits never come back.    *)
V2Answer(fits, back) ==
    /\ fits /\ NoEscape /\ LeadFits => back = Decoded(points)
    /\ Len(points) = 1 => back = Corrupt
    /\ Len(points) = 2 /\ fits /\ ~LeadFits => back # Decoded(points)

(* What decodeSeriesAt returns of a series that gorillaEncodeSeries wrote, *)
(* whatever follows it in the file, is that answer, for every series.      *)
V2RoundTrip ==
    points # <<>> =>
        V2Answer(Len(EncodeSeries(2)) <= ByteBits * MaxSize(2, Len(points)), ReadBack(2))
=============================================================================
