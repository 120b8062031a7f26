----------------------------- MODULE QueryPath -----------------------------
(***************************************************************************)
(* Points on their way from Memtable.Insert through the frozen memtable,   *)
(* segment files and compaction to the answer of a query: sorted slices,   *)
(* the k-way Merge, the binary searches of Filter and the buckets of       *)
(* Aggregate (internal/memtable, internal/query, and the parts of          *)
(* internal/engine and internal/compaction that hand slices to them), over *)
(* the names of Catalog and the files of SegmentFile.                      *)
(*                                                                         *)
(* A point is a timestamp t and a value v.  Values are distinct, so that   *)
(* a lost, repeated or misplaced point shows.                              *)
(***************************************************************************)
EXTENDS Catalog, SegmentFile

CONSTANTS
    Times,          \* timestamps of points and bounds of queries
    MaxInt64,       \* stands for math.MaxInt64
    Widths,         \* bucket widths of aggregating queries
    MaxPoints,      \* bound: points inserted
    MaxInsert       \* bound: points of one Insert

ASSUME QueryConstants ==
    /\ Times \subseteq Int /\ MaxInt64 \in Int /\ Widths \subseteq Nat \ {0}
    /\ \A t \in Times : t <= MaxInt64
    /\ MaxPoints \in Nat /\ MaxInsert \in Nat

VARIABLES
    active,         \* Engine.active: the points of every id
    frozen,         \* Engine.frozen; no points for nil
    segs,           \* the listed segments: block range and file
    inserted        \* history: all points inserted, with their ids

pointVars == <<active, frozen, segs, inserted>>
vars == <<catalogVars, pointVars>>

Empty == [id \in Ids |-> <<>>]

Sorted(s) == \A i \in 1 .. Len(s) - 1 : s[i].t <= s[i + 1].t

(* The possible results of sort.Slice, which is not stable.                *)
SortSlice(s) == {r \in SetToSeqs(ToSet(s)) : Sorted(r)}

(* Faulty variant: compares with the first existing point.                 *)
NeedSortFirst(existing, points) ==
    existing # <<>> /\ points[1].t < existing[1].t

(* Insert sorts again only if the new points start before the old end.     *)
NeedSort(existing, points) ==
    existing # <<>> /\ points[1].t < Last(existing).t

QueryInit ==
    CatalogInit /\ active = Empty /\ frozen = Empty /\ segs = <<>> /\ inserted = {}

(* Memtable.Insert of k points with arbitrary timestamps for a known id.   *)
Insert ==
    \E id \in DOMAIN byID, k \in 1 .. MaxInsert :
        /\ Cardinality(inserted) + k <= MaxPoints
        /\ \E ts \in [1 .. k -> Times] :
              LET new == [i \in 1 .. k |-> [t |-> ts[i], v |-> Cardinality(inserted) + i]]
              IN  /\ \E points \in SortSlice(new) :
                        \E all \in IF NeedSort(active[id], points)
                                     THEN SortSlice(active[id] \o points)
                                     ELSE {active[id] \o points} :
                            active' = [active EXCEPT ![id] = all]
                  /\ inserted' = inserted \cup {[id |-> id, t |-> p.t, v |-> p.v] : p \in ToSet(new)}
        /\ UNCHANGED <<catalogVars, frozen, segs>>

(* Freeze: the series move to the frozen memtable as they are.  A rotation *)
(* while a flush is unfinished is the subject of module Engine.            *)
Freeze ==
    /\ active # Empty /\ frozen = Empty
    /\ frozen' = active /\ active' = Empty
    /\ UNCHANGED <<catalogVars, segs, inserted>>

MinOf(S) == CHOOSE x \in S : \A y \in S : x <= y
MaxOf(S) == CHOOSE x \in S : \A y \in S : y <= x

(* A segment and its manifest entry.                                       *)
Segment(m, lo, hi) == [lo |-> lo, hi |-> hi, file |-> WriteSegment(m, lo, hi)]

(* The block range of a flush is read off the ends of the sorted slices.   *)
Flush ==
    LET full == {id \in Ids : frozen[id] # <<>>}
    IN  /\ full # {}
        /\ segs' = Append(segs, Segment(frozen, MinOf({frozen[id][1].t : id \in full}),
                                        MaxOf({Last(frozen[id]).t : id \in full})))
        /\ frozen' = Empty
        /\ UNCHANGED <<catalogVars, active, inserted>>

(* The maps that Compact can make of two files: for every id the points of *)
(* both, one behind the other, then sorted.                                *)
Merged(a, b) ==
    LET Of(m, id) == IF id \in DOMAIN m THEN m[id] ELSE <<>>
        all == [id \in DOMAIN a \cup DOMAIN b |-> Of(a, id) \o Of(b, id)]
    IN  {m \in [DOMAIN all -> UNION {SortSlice(all[id]) : id \in DOMAIN all}] :
            \A id \in DOMAIN all : m[id] \in SortSlice(all[id])}

(* Compact of two segments, and the replacement of both by the result.     *)
Compact ==
    /\ \E i, k \in DOMAIN segs :
          /\ i < k
          /\ \E m \in Merged(ReadAll(segs[i].file), ReadAll(segs[k].file)) :
                LET ts == {p.t : p \in UNION {ToSet(m[id]) : id \in DOMAIN m}}
                IN  segs' = RemoveAt(RemoveAt(Append(segs, Segment(m, MinOf(ts), MaxOf(ts))), k), i)
    /\ UNCHANGED <<catalogVars, active, frozen, inserted>>

RegisterName == Register /\ UNCHANGED pointVars

QueryNext == RegisterName \/ Insert \/ Freeze \/ Flush \/ Compact
QuerySpec == QueryInit /\ [][QueryNext]_vars
-----------------------------------------------------------------------------
(* Faulty variant: the list whose turn it is is the last of those that     *)
(* have points left, not the one with the least timestamp.                 *)
BestLast(ps, idx) ==
    LET open == {i \in DOMAIN ps : idx[i] <= Len(ps[i])}
    IN  {i \in open : \A k \in open : k <= i}

(* Merge's inner loop: the first list whose next timestamp is least among  *)
(* those below MaxInt64; empty when there is none.                         *)
Best(ps, idx) ==
    LET open == {i \in DOMAIN ps : idx[i] <= Len(ps[i]) /\ ps[i][idx[i]].t < MaxInt64}
    IN  {i \in open : \A k \in open :
            \/ ps[i][idx[i]].t < ps[k][idx[k]].t
            \/ ps[i][idx[i]].t = ps[k][idx[k]].t /\ i <= k}

(* query.Merge: a single non-empty list is returned as it is.              *)
Merge(ps) ==
    LET full == {i \in DOMAIN ps : ps[i] # <<>>}
        upTo[i \in 0 .. Len(ps)] == IF i = 0 THEN 0 ELSE upTo[i - 1] + Len(ps[i])
        total == upTo[Len(ps)]
        loop[n \in 0 .. total] ==
            IF n = 0
              THEN [idx |-> [i \in DOMAIN ps |-> 1], out |-> <<>>]
              ELSE LET s == loop[n - 1]
                       best == Best(ps, s.idx)
                   IN  IF best = {}
                         THEN s
                         ELSE LET b == CHOOSE b \in best : TRUE
                              IN  [idx |-> [s.idx EXCEPT ![b] = @ + 1],
                                   out |-> Append(s.out, ps[b][s.idx[b]])]
    IN  IF \E i \in full : full = {i}
          THEN ps[CHOOSE i \in full : TRUE]
          ELSE loop[total].out

(* Faulty variant: the end of the range is exclusive.                      *)
FilterExclusive(points, start, end) ==
    LET AtStart == [i \in 0 .. Len(points) - 1 |-> points[i + 1].t >= start]
        Past == [i \in 0 .. Len(points) - 1 |-> points[i + 1].t >= end]
    IN  SubSeq(points, Search(Len(points), AtStart) + 1, Search(Len(points), Past))

(* query.Filter                                                            *)
Filter(points, start, end) ==
    LET AtStart == [i \in 0 .. Len(points) - 1 |-> points[i + 1].t >= start]
        Past == [i \in 0 .. Len(points) - 1 |-> points[i + 1].t > end]
    IN  SubSeq(points, Search(Len(points), AtStart) + 1, Search(Len(points), Past))

(* query.ReadSegments                                                      *)
ReadSegments(files, id) == Merge([i \in DOMAIN files |-> ReadSeries(files[i], id)])

(* The files of the segments whose block range meets that of a query.      *)
Overlapping(start, end) ==
    LET found[i \in 0 .. Len(segs)] ==
            IF i = 0
              THEN <<>>
              ELSE IF segs[i].lo <= end /\ segs[i].hi >= start
                     THEN Append(found[i - 1], segs[i].file)
                     ELSE found[i - 1]
    IN  found[Len(segs)]

(* The points that handleQuery finds for one id.                           *)
QuerySeries(id, start, end) ==
    LET segPts == ReadSegments(Overlapping(start, end), id)
    IN  Filter(Merge(<<active[id], frozen[id], segPts>>), start, end)

(* handleQuery without buckets.                                            *)
HandleQuery(metric, filters, start, end) ==
    LET ids == Resolve(metric, filters)
    IN  [i \in DOMAIN ids |-> [id |-> ids[i], points |-> QuerySeries(ids[i], start, end)]]

(* Division of int64 truncates toward zero.                                *)
Quot(a, b) == IF a >= 0 THEN a \div b ELSE -((-a) \div b)

(* Faulty variant: the last bucket is missing.                             *)
NumBucketsShort(points, w) ==
    Quot(Quot(Last(points).t, w) * w - Quot(points[1].t, w) * w, w)

NumBuckets(points, w) ==
    Quot(Quot(Last(points).t, w) * w - Quot(points[1].t, w) * w, w) + 1

(* query.Aggregate; an empty bucket has Min = Max = 0.                     *)
Aggregate(points, w) ==
    LET first == Quot(points[1].t, w) * w
        Bucket(i) ==
            LET in == {j \in DOMAIN points : Quot(points[j].t - first, w) = i}
                vs == {points[j].v : j \in in}
                sum[j \in 0 .. Len(points)] ==
                    IF j = 0 THEN 0 ELSE sum[j - 1] + IF j \in in THEN points[j].v ELSE 0
            IN  [start |-> first + i * w, count |-> Cardinality(in), sum |-> sum[Len(points)],
                 min |-> IF vs = {} THEN 0 ELSE MinOf(vs),
                 max |-> IF vs = {} THEN 0 ELSE MaxOf(vs)]
    IN  IF points = <<>>
          THEN <<>>
          ELSE [i \in 1 .. NumBuckets(points, w) |-> Bucket(i - 1)]
-----------------------------------------------------------------------------
Points == [t : Times, v : 1 .. MaxPoints]

(* Type invariant of the points; the slices are sorted, as Merge, Filter   *)
(* and the block ranges need them, in the files too.                       *)
QueryTypeOK ==
    /\ DOMAIN byID \subseteq Ids /\ DOMAIN metricSeries \subseteq Metrics
    /\ inserted \in SUBSET [id : Ids, t : Times, v : 1 .. MaxPoints]
    /\ active \in [Ids -> Seq(Points)] /\ frozen \in [Ids -> Seq(Points)]
    /\ \A id \in Ids : Sorted(active[id]) /\ Sorted(frozen[id])
    /\ \A i \in DOMAIN segs :
          /\ segs[i].lo \in Times /\ segs[i].hi \in Times
          /\ \A id \in Ids : /\ ReadSeries(segs[i].file, id) \in Seq(Points)
                             /\ Sorted(ReadSeries(segs[i].file, id))

(* Resolve returns exactly the ids of the registered names that match, in  *)
(* whatever order names were registered and although names may share an    *)
(* id, and the registry knows every id that the index returns.             *)
CatalogExact ==
    /\ \A metric \in Metrics, filters \in Filters :
          LET ids == Resolve(metric, filters)
          IN  /\ ToSet(ids) = Matching(metric, filters)
              /\ \A i \in 1 .. Len(ids) - 1 : ids[i] < ids[i + 1]
    /\ DOMAIN byID = UNION {metricSeries[m] : m \in DOMAIN metricSeries}
    /\ \A id \in DOMAIN byID : byID[id] \in registered /\ SeriesKey[byID[id]] = id

InRange(id, start, end) ==
    {[t |-> p.t, v |-> p.v] : p \in {x \in inserted :
        x.id = id /\ start <= x.t /\ x.t <= end /\ x.t < MaxInt64}}

(* A query returns, for every series of its metric, every inserted point   *)
(* of its range once, in the order of their timestamps, wherever the       *)
(* points are.  Points at math.MaxInt64 are left out of account: Merge     *)
(* drops them as soon as two lists have points.                            *)
QueryMatchesReference ==
    \A metric \in Metrics, start, end \in Times :
        LET answer == HandleQuery(metric, <<>>, start, end)
        IN  \A i \in DOMAIN answer :
                LET points == answer[i].points
                    finite == {k \in DOMAIN points : points[k].t < MaxInt64}
                    expected == InRange(answer[i].id, start, end)
                IN  /\ Sorted(points)
                    /\ {points[k] : k \in finite} = expected
                    /\ Cardinality(finite) = Cardinality(expected)

(* The sum of the values of the points in S, which are all different.      *)
SumOf(S) ==
    LET sum[v \in 0 .. MaxPoints] ==
            IF v = 0 THEN 0 ELSE sum[v - 1] + IF \E p \in S : p.v = v THEN v ELSE 0
    IN  sum[MaxPoints]

(* The buckets of an aggregating query partition the points of the range:  *)
(* consecutive multiples of the width, each with the count, sum, minimum   *)
(* and maximum of the points whose timestamp lies in it, from the first    *)
(* point to the last.  Only for timestamps that are not negative: division *)
(* truncates toward zero, so the buckets on both sides of 0 share a start. *)
AggregateMatchesReference ==
    \A id \in Ids, start, end \in Times, w \in Widths :
        0 <= start /\ end < MaxInt64 =>
            LET b == Aggregate(QuerySeries(id, start, end), w)
                In(i) == {p \in InRange(id, start, end) :
                             b[i].start <= p.t /\ p.t < b[i].start + w}
            IN  /\ \A i \in DOMAIN b :
                      /\ b[i].start % w = 0 /\ b[i].start = b[1].start + (i - 1) * w
                      /\ b[i].count = Cardinality(In(i)) /\ b[i].sum = SumOf(In(i))
                      /\ \A p \in In(i) : b[i].min <= p.v /\ p.v <= b[i].max
                      /\ In(i) # {} => {b[i].min, b[i].max} \subseteq {p.v : p \in In(i)}
                /\ UNION {In(i) : i \in DOMAIN b} = InRange(id, start, end)

(* No point is lost to an index outside the bucket slice, negative         *)
(* timestamps included: the counts add up.                                 *)
AggregateTotal ==
    \A id \in Ids, start, end \in Times, w \in Widths :
        end < MaxInt64 =>
            LET b == Aggregate(QuerySeries(id, start, end), w)
                total[i \in 0 .. Len(b)] == IF i = 0 THEN 0 ELSE total[i - 1] + b[i].count
            IN  total[Len(b)] = Cardinality(InRange(id, start, end))
=============================================================================
