--------------------------- MODULE MCSegmentCodec ---------------------------
(* Words of two bytes of four bits; the widths in between as in the code.  *)
EXTENDS SegmentCodec

MCBuckets == <<2, 3, 4>>
MCTimes == {-90, -45, 1, 2, 6, 9, 127}
MCValues == {0, 1, 192}
MCBehind == {<<>>, [k \in 1 .. 40 |-> 1]}
=============================================================================
