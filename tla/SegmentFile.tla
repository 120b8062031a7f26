---------------------------- MODULE SegmentFile ----------------------------
(***************************************************************************)
(* The layout of a segment file of version 1 and its reader                *)
(* (internal/segment/segment.go): header, series data, index, footer.      *)
(*                                                                         *)
(* A file is a sequence of words; a word is the header, a timestamp, a     *)
(* delta of timestamps, a value, an index entry or the footer.  Offsets    *)
(* count words from 0.  No reader looks at the checksum of the footer.     *)
(***************************************************************************)
EXTENDS GoSort

HeaderSize == 1
FooterSize == 1

(* The first timestamp, the deltas between neighbours, the values.         *)
EncodeSeries(points) ==
    <<points[1].t>>
      \o [i \in 1 .. Len(points) - 1 |-> points[i + 1].t - points[i].t]
      \o [i \in DOMAIN points |-> points[i].v]

(* Writer.Write of the series in the function m, in the order of their     *)
(* ids; a series without points is left out.                               *)
WriteSegment(m, lo, hi) ==
    LET ids == Ascending({id \in DOMAIN m : m[id] # <<>>})
        writer[k \in 0 .. Len(ids)] ==
            IF k = 0
              THEN [offset |-> HeaderSize, data |-> <<>>, index |-> <<>>]
              ELSE LET u == writer[k - 1]
                       d == EncodeSeries(m[ids[k]])
                   IN  [offset |-> u.offset + Len(d),
                        data |-> u.data \o d,
                        index |-> Append(u.index, [id |-> ids[k], offset |-> u.offset,
                                                   numPoints |-> Len(m[ids[k]])])]
        w == writer[Len(ids)]
    IN  <<[blockStart |-> lo, blockEnd |-> hi]>> \o w.data \o w.index
          \o <<[idxOffset |-> w.offset]>>

(* Reader.readIndex                                                        *)
ReadIndex(file) ==
    LET footerOff == Len(file) - FooterSize
    IN  SubSeq(file, file[footerOff + 1].idxOffset + 1, footerOff)

DecodePoints(data, n) ==
    LET ts[i \in 1 .. n] == IF i = 1 THEN data[1] ELSE ts[i - 1] + data[i]
    IN  [i \in 1 .. n |-> [t |-> ts[i], v |-> data[n + i]]]

(* Reader.decodeSeriesAt reads at most maxSize from the file.              *)
DecodeSeriesAt(file, offset, n) ==
    LET maxSize == 1 + n + n
        end == IF offset + maxSize < Len(file) THEN offset + maxSize ELSE Len(file)
    IN  DecodePoints(SubSeq(file, offset + 1, end), n)

(* Reader.ReadSeries: a binary search for the index entry of id.           *)
ReadSeries(file, id) ==
    LET index == ReadIndex(file)
        AtOrPast == [i \in 0 .. Len(index) - 1 |-> index[i + 1].id >= id]
        k == Search(Len(index), AtOrPast)
    IN  IF k >= Len(index) \/ index[k + 1].id # id
          THEN <<>>
          ELSE DecodeSeriesAt(file, index[k + 1].offset, index[k + 1].numPoints)

(* Reader.ReadAll                                                          *)
ReadAll(file) ==
    [id \in {e.id : e \in ToSet(ReadIndex(file))} |-> ReadSeries(file, id)]
=============================================================================
