---------------------------- MODULE QueryProofs -----------------------------
(***************************************************************************)
(* Proofs about queries and what they stand on: the index finds exactly    *)
(* the series whose tags match, for any names, any id function and any     *)
(* order of registration; a segment file gives back, series by series, the *)
(* points it was written with; at every moment of any run of inserts,      *)
(* flushes and compactions each point is in exactly one place, so a query  *)
(* answers with exactly the points asked for, in order, and an aggregation *)
(* with the buckets a reference computes, for every number of series,      *)
(* points and segments.                                                    *)
(***************************************************************************)
EXTENDS QueryPath, LoopProofs, FiniteSetTheorems, SequenceTheorems

(* The postings of a name, and the names behind what the index has.        *)
TagsOf(n) == {TagKey(n.metric, k, n.tags[k]) : k \in DOMAIN n.tags}

CatalogInv ==
    /\ registered \subseteq Names /\ IsFiniteSet(registered)
    /\ DOMAIN byID = {SeriesKey[n] : n \in registered}
    /\ \A id \in DOMAIN byID : byID[id] \in registered /\ SeriesKey[byID[id]] = id
    /\ DOMAIN metricSeries = {n.metric : n \in registered}
    /\ \A m \in DOMAIN metricSeries :
          metricSeries[m] = {SeriesKey[n] : n \in {x \in registered : x.metric = m}}
    /\ DOMAIN tagIndex = UNION {TagsOf(n) : n \in registered}
    /\ \A key \in DOMAIN tagIndex :
          tagIndex[key] = {SeriesKey[n] : n \in {x \in registered : key \in TagsOf(x)}}
-----------------------------------------------------------------------------
(* A finite set of ids can be put in ascending order: a least              *)
(* counterexample would have a least element to begin with.                *)
InOrder(S, s) ==
    /\ s \in [1 .. Cardinality(S) -> S] /\ ToSet(s) = S
    /\ \A i, k \in 1 .. Cardinality(S) : i < k => s[i] < s[k]

LEMMA OrderExists ==
    ASSUME NEW S \in SUBSET Nat, IsFiniteSet(S)
    PROVE  \E s : InOrder(S, s)
<1> DEFINE Bad(U) == U \in SUBSET Nat /\ IsFiniteSet(U) /\ ~\E s : InOrder(U, s)
           T == {Cardinality(U) : U \in {V \in SUBSET Nat : Bad(V)}}
<1> SUFFICES ASSUME Bad(S) PROVE FALSE
  OBVIOUS
<1>1. T \in SUBSET Nat /\ T # {}
  BY FS_CardinalityType
<1>2. PICK n \in T : \A m \in T : n <= m
  BY <1>1, Least
<1>3. PICK U \in SUBSET Nat : Bad(U) /\ n = Cardinality(U)
  BY <1>2
<1>4. n \in Nat /\ IsFiniteSet(U)
  BY <1>1, <1>3
<1>5. U # {}
  <2> SUFFICES ASSUME U = {} PROVE FALSE
    OBVIOUS
  <2>1. Cardinality(U) = 0
    BY FS_EmptySet
  <2>2. InOrder(U, <<>>)
    BY <2>1 DEF InOrder, ToSet
  <2> QED
    BY <2>2, <1>3
<1>6. PICK x \in U : \A m \in U : x <= m
  BY <1>5, Least
<1> DEFINE W == U \ {x}
<1>7. IsFiniteSet(W) /\ Cardinality(W) = n - 1 /\ n # 0
  <2>1. Cardinality(U) # 0
    BY <1>4, <1>5, FS_EmptySet
  <2> QED
    BY <2>1, <1>3, <1>4, FS_RemoveElement
<1>8. PICK r : InOrder(W, r)
  <2>1. n - 1 \notin T
    BY <1>2, <1>4
  <2>2. W \in SUBSET Nat
    OBVIOUS
  <2>3. ~Bad(W)
    BY <2>1, <2>2, <1>7
  <2> QED
    BY <2>2, <2>3, <1>7
<1> DEFINE s == [i \in 1 .. n |-> IF i = 1 THEN x ELSE r[i - 1]]
<1> HIDE DEF W, Bad, T
<1>9. /\ r \in [1 .. n - 1 -> W] /\ ToSet(r) = W
      /\ \A i, k \in 1 .. n - 1 : i < k => r[i] < r[k]
  BY <1>7, <1>8 DEF InOrder
<1>10. \A i \in 1 .. n : i # 1 => i - 1 \in 1 .. n - 1 /\ r[i - 1] \in W
  BY <1>4, <1>9
<1>11. s \in [1 .. n -> U]
  BY <1>10 DEF W
<1>12. \A i, k \in 1 .. n : i < k => s[i] < s[k]
  <2> SUFFICES ASSUME NEW i \in 1 .. n, NEW k \in 1 .. n, i < k PROVE s[i] < s[k]
    OBVIOUS
  <2>1. k # 1 /\ s[k] = r[k - 1] /\ r[k - 1] \in W
    BY <1>4, <1>10
  <2>2. CASE i = 1
    <3>1. x <= r[k - 1] /\ x # r[k - 1] /\ x \in Nat /\ r[k - 1] \in Nat
      BY <2>1, <1>6 DEF W
    <3>2. x < r[k - 1]
      BY <3>1
    <3> QED
      BY <2>1, <2>2, <3>2
  <2>3. CASE i # 1
    <3>1. s[i] = r[i - 1] /\ i - 1 \in 1 .. n - 1 /\ k - 1 \in 1 .. n - 1 /\ i - 1 < k - 1
      BY <2>1, <2>3, <1>4, <1>10
    <3>2. r[i - 1] < r[k - 1]
      BY <3>1, <1>9
    <3> QED
      BY <3>1, <3>2, <2>1
  <2> QED
    BY <2>2, <2>3
<1>13. ToSet(s) = U
  <2>1. ToSet(s) \subseteq U
    BY <1>11 DEF ToSet
  <2>2. ASSUME NEW y \in U PROVE \E i \in 1 .. n : s[i] = y
    <3>1. CASE y = x
      BY <3>1, <1>4, <1>7
    <3>2. CASE y # x
      <4>1. PICK i \in 1 .. n - 1 : r[i] = y
        BY <3>2, <1>9 DEF W, ToSet
      <4>2. i + 1 \in 1 .. n /\ i + 1 # 1 /\ (i + 1) - 1 = i
        BY <1>4
      <4> QED
        BY <4>1, <4>2
    <3> QED
      BY <3>1, <3>2
  <2> QED
    BY <2>1, <2>2 DEF ToSet
<1>14. InOrder(U, s)
  BY <1>3, <1>11, <1>12, <1>13 DEF InOrder
<1> QED
  BY <1>3, <1>14 DEF Bad

LEMMA AscendingOrder ==
    ASSUME NEW S \in SUBSET Nat, IsFiniteSet(S)
    PROVE  /\ ToSet(Ascending(S)) = S
           /\ \A i \in 1 .. Len(Ascending(S)) - 1 : Ascending(S)[i] < Ascending(S)[i + 1]
<1>1. InOrder(S, Ascending(S))
  BY OrderExists DEF Ascending, InOrder
<1>2. Cardinality(S) \in Nat
  BY FS_CardinalityType
<1> DEFINE a == Ascending(S)
<1> HIDE DEF a
<1>3. a \in [1 .. Cardinality(S) -> S] /\ ToSet(a) = S
      /\ \A i, k \in 1 .. Cardinality(S) : i < k => a[i] < a[k]
  BY <1>1 DEF InOrder, a
<1>4. Len(a) = Cardinality(S)
  BY <1>2, <1>3
<1>5. \A i \in 1 .. Len(a) - 1 : a[i] < a[i + 1]
  BY <1>2, <1>3, <1>4
<1> QED
  BY <1>3, <1>5 DEF a
-----------------------------------------------------------------------------
(* Registering a name adds it to the registry and to its postings.         *)
LEMMA CatalogRegister ==
    ASSUME CatalogInv, Register
    PROVE  CatalogInv'
<1>1. PICK n \in Names : /\ GetOrCreate(n) /\ IndexInsert(n)
                         /\ registered' = registered \cup {n}
  BY DEF Register
<1> DEFINE key == SeriesKey[n]
<1>2. registered' \subseteq Names /\ IsFiniteSet(registered')
  BY <1>1, FS_AddElement DEF CatalogInv
<1>3. /\ DOMAIN byID' = DOMAIN byID \cup {key}
      /\ \A id \in DOMAIN byID' : byID'[id] = IF id \in DOMAIN byID THEN byID[id] ELSE n
  BY <1>1 DEF GetOrCreate
<1>4. DOMAIN byID' = {SeriesKey[x] : x \in registered'}
  BY <1>1, <1>3 DEF CatalogInv
<1>5. \A id \in DOMAIN byID' : byID'[id] \in registered' /\ SeriesKey[byID'[id]] = id
  BY <1>1, <1>3 DEF CatalogInv
<1>6. /\ DOMAIN metricSeries' = DOMAIN metricSeries \cup {n.metric}
      /\ \A m \in DOMAIN metricSeries' :
            metricSeries'[m] = (IF m \in DOMAIN metricSeries THEN metricSeries[m] ELSE {})
                                  \cup (IF m = n.metric THEN {key} ELSE {})
  BY <1>1 DEF IndexInsert, Posted
<1>7. DOMAIN metricSeries' = {x.metric : x \in registered'}
  BY <1>1, <1>6 DEF CatalogInv
<1>8. ASSUME NEW m \in DOMAIN metricSeries'
      PROVE  metricSeries'[m] = {SeriesKey[x] : x \in {y \in registered' : y.metric = m}}
  <2>1. (IF m \in DOMAIN metricSeries THEN metricSeries[m] ELSE {})
           = {SeriesKey[x] : x \in {y \in registered : y.metric = m}}
    <3>1. CASE m \in DOMAIN metricSeries
      BY <3>1 DEF CatalogInv
    <3>2. CASE m \notin DOMAIN metricSeries
      <4>1. {y \in registered : y.metric = m} = {}
        BY <3>2 DEF CatalogInv
      <4> QED
        BY <3>2, <4>1
    <3> QED
      BY <3>1, <3>2
  <2>2. {y \in registered' : y.metric = m}
           = {y \in registered : y.metric = m} \cup (IF m = n.metric THEN {n} ELSE {})
    BY <1>1
  <2>3. {SeriesKey[x] : x \in {y \in registered' : y.metric = m}}
           = {SeriesKey[x] : x \in {y \in registered : y.metric = m}}
                \cup (IF m = n.metric THEN {key} ELSE {})
    BY <2>2
  <2> QED
    BY <2>1, <2>3, <1>6
<1>9. /\ DOMAIN tagIndex' = DOMAIN tagIndex \cup TagsOf(n)
      /\ \A k \in DOMAIN tagIndex' :
            tagIndex'[k] = (IF k \in DOMAIN tagIndex THEN tagIndex[k] ELSE {})
                              \cup (IF k \in TagsOf(n) THEN {key} ELSE {})
  <2>1. tagIndex' = Posted(tagIndex, TagsOf(n), key)
    BY <1>1 DEF IndexInsert, TagsOf
  <2> QED
    BY <2>1 DEF Posted
<1>10. DOMAIN tagIndex' = UNION {TagsOf(x) : x \in registered'}
  BY <1>1, <1>9 DEF CatalogInv
<1>11. ASSUME NEW k \in DOMAIN tagIndex'
       PROVE  tagIndex'[k] = {SeriesKey[x] : x \in {y \in registered' : k \in TagsOf(y)}}
  <2>1. (IF k \in DOMAIN tagIndex THEN tagIndex[k] ELSE {})
           = {SeriesKey[x] : x \in {y \in registered : k \in TagsOf(y)}}
    <3>1. CASE k \in DOMAIN tagIndex
      BY <3>1 DEF CatalogInv
    <3>2. CASE k \notin DOMAIN tagIndex
      <4>1. {y \in registered : k \in TagsOf(y)} = {}
        BY <3>2 DEF CatalogInv
      <4> QED
        BY <3>2, <4>1
    <3> QED
      BY <3>1, <3>2
  <2>2. {y \in registered' : k \in TagsOf(y)}
           = {y \in registered : k \in TagsOf(y)} \cup (IF k \in TagsOf(n) THEN {n} ELSE {})
    BY <1>1
  <2>3. {SeriesKey[x] : x \in {y \in registered' : k \in TagsOf(y)}}
           = {SeriesKey[x] : x \in {y \in registered : k \in TagsOf(y)}}
                \cup (IF k \in TagsOf(n) THEN {key} ELSE {})
    BY <2>2
  <2> QED
    BY <2>1, <2>3, <1>9
<1> QED
  BY <1>2, <1>4, <1>5, <1>7, <1>8, <1>10, <1>11 DEF CatalogInv

(* Nothing else in the life of a point touches names.                      *)
LEMMA CatalogInvariant == QuerySpec => []CatalogInv
<1>1. QueryInit => CatalogInv
  <2> SUFFICES ASSUME QueryInit PROVE CatalogInv
    OBVIOUS
  <2>1. registered = {} /\ DOMAIN byID = {} /\ DOMAIN metricSeries = {} /\ DOMAIN tagIndex = {}
    BY DEF QueryInit, CatalogInit
  <2>2. IsFiniteSet({})
    BY FS_EmptySet
  <2> QED
    BY <2>1, <2>2 DEF CatalogInv
<1>2. CatalogInv /\ [QueryNext]_vars => CatalogInv'
  <2> SUFFICES ASSUME CatalogInv, [QueryNext]_vars PROVE CatalogInv'
    OBVIOUS
  <2>1. CASE UNCHANGED catalogVars
    BY <2>1 DEF catalogVars, CatalogInv
  <2>2. CASE RegisterName
    BY <2>2, CatalogRegister DEF RegisterName
  <2>3. Insert \/ Freeze \/ Flush \/ Compact => UNCHANGED catalogVars
    BY DEF Insert, Freeze, Flush, Compact
  <2> QED
    BY <2>1, <2>2, <2>3 DEF QueryNext, vars
<1> QED
  BY <1>1, <1>2, PTL DEF QuerySpec

(* What Resolve puts in order.                                             *)
Found(metric, filters) ==
    LET keys == {TagKey(metric, k, filters[k]) : k \in DOMAIN filters}
    IN  IF metric \notin DOMAIN metricSeries THEN {}
        ELSE IF DOMAIN filters = {} THEN metricSeries[metric]
        ELSE IF ~(keys \subseteq DOMAIN tagIndex) THEN {}
        ELSE {id \in Ids : \A k \in keys : id \in tagIndex[k]}

LEMMA FoundMatches ==
    ASSUME CatalogInv, NEW metric, NEW filters
    PROVE  Found(metric, filters) = Matching(metric, filters)
<1> DEFINE keys == {TagKey(metric, k, filters[k]) : k \in DOMAIN filters}
           NamesOf(id) == {n \in registered : SeriesKey[n] = id /\ n.metric = metric}
           HasTag(n, k) == \E j \in DOMAIN n.tags : Joined(j, n.tags[j]) = Joined(k, filters[k])
           M == {id \in Ids : /\ NamesOf(id) # {}
                              /\ \A k \in DOMAIN filters : \E n \in NamesOf(id) : HasTag(n, k)}
<1>1. M = Matching(metric, filters)
  BY DEF Matching
<1>2. \A n \in registered, k \in DOMAIN filters :
         n.metric = metric /\ HasTag(n, k) <=> TagKey(metric, k, filters[k]) \in TagsOf(n)
  <2> SUFFICES ASSUME NEW n \in registered, NEW k \in DOMAIN filters
               PROVE  n.metric = metric /\ HasTag(n, k)
                         <=> TagKey(metric, k, filters[k]) \in TagsOf(n)
    OBVIOUS
  <2> DEFINE b == Joined(k, filters[k])
             of(j) == Joined(j, n.tags[j])
  <2>1. TagKey(metric, k, filters[k]) = <<metric, b>>
    BY DEF TagKey
  <2>2. TagKey(metric, k, filters[k]) \in TagsOf(n)
           <=> \E j \in DOMAIN n.tags : <<metric, b>> = <<n.metric, of(j)>>
    BY <2>1 DEF TagsOf, TagKey
  <2> HIDE DEF b, of
  <2>3. \A j : <<metric, b>> = <<n.metric, of(j)>> <=> n.metric = metric /\ of(j) = b
    OBVIOUS
  <2>4. TagKey(metric, k, filters[k]) \in TagsOf(n)
           <=> n.metric = metric /\ \E j \in DOMAIN n.tags : of(j) = b
    BY <2>2, <2>3, Zenon
  <2> QED
    BY <2>4, Zenon DEF of, b
<1>3. \A n \in registered : SeriesKey[n] \in Ids
  BY DEF CatalogInv, Ids
<1>4. CASE metric \notin DOMAIN metricSeries
  <2>1. \A n \in registered : n.metric # metric
    BY <1>4 DEF CatalogInv
  <2>2. M = {}
    BY <2>1
  <2> QED
    BY <2>2, <1>1, <1>4 DEF Found
<1>5. CASE metric \in DOMAIN metricSeries /\ DOMAIN filters = {}
  <2>1. metricSeries[metric] = {SeriesKey[n] : n \in {x \in registered : x.metric = metric}}
    BY <1>5 DEF CatalogInv
  <2>2. M = {id \in Ids : NamesOf(id) # {}}
    BY <1>5
  <2>3. M = metricSeries[metric]
    BY <2>1, <2>2, <1>3
  <2> QED
    BY <2>3, <1>1, <1>5 DEF Found
<1>6. CASE metric \in DOMAIN metricSeries /\ DOMAIN filters # {} /\ ~(keys \subseteq DOMAIN tagIndex)
  <2>1. PICK k \in DOMAIN filters : TagKey(metric, k, filters[k]) \notin DOMAIN tagIndex
    BY <1>6
  <2>2. \A n \in registered : TagKey(metric, k, filters[k]) \notin TagsOf(n)
    BY <2>1 DEF CatalogInv
  <2>3. M = {}
    BY <2>1, <2>2, <1>2
  <2> QED
    BY <2>3, <1>1, <1>6 DEF Found
<1>7. CASE metric \in DOMAIN metricSeries /\ DOMAIN filters # {} /\ keys \subseteq DOMAIN tagIndex
  <2>1. Found(metric, filters) = {id \in Ids : \A k \in keys : id \in tagIndex[k]}
    BY <1>7 DEF Found
  <2>2. ASSUME NEW id \in Ids, NEW k \in DOMAIN filters
        PROVE  id \in tagIndex[TagKey(metric, k, filters[k])]
                  <=> \E n \in NamesOf(id) : HasTag(n, k)
    <3> DEFINE key == TagKey(metric, k, filters[k])
    <3>1. tagIndex[key] = {SeriesKey[n] : n \in {x \in registered : key \in TagsOf(x)}}
      BY <1>7 DEF CatalogInv
    <3>2. id \in tagIndex[key] <=> \E n \in registered : SeriesKey[n] = id /\ key \in TagsOf(n)
      BY <3>1
    <3> QED
      BY <3>2, <1>2
  <2>3. \A id \in Ids : (\A k \in keys : id \in tagIndex[k])
                           <=> \A k \in DOMAIN filters : \E n \in NamesOf(id) : HasTag(n, k)
    BY <2>2
  <2>4. \A id \in Ids : (\A k \in DOMAIN filters : \E n \in NamesOf(id) : HasTag(n, k))
                           => NamesOf(id) # {}
    BY <1>7
  <2> QED
    BY <2>1, <2>3, <2>4, <1>1
<1> QED
  BY <1>4, <1>5, <1>6, <1>7

(* Resolve returns exactly the ids of the registered names that match, in  *)
(* ascending order, and the registry knows every id of the index, for any  *)
(* names, tags and id function, also when names share an id and tags join  *)
(* to the same string, and in whatever order the handlers register them.   *)
THEOREM IndexExact == QuerySpec => []CatalogExact
<1>1. CatalogInv => CatalogExact
  <2> SUFFICES ASSUME CatalogInv PROVE CatalogExact
    OBVIOUS
  <2>1. ASSUME NEW metric \in Metrics, NEW filters \in Filters
        PROVE  LET ids == Resolve(metric, filters)
               IN  /\ ToSet(ids) = Matching(metric, filters)
                   /\ \A i \in 1 .. Len(ids) - 1 : ids[i] < ids[i + 1]
    <3> DEFINE S == Found(metric, filters)
    <3>1. Resolve(metric, filters) = Ascending(S)
      BY DEF Resolve, Found
    <3>2. S = Matching(metric, filters)
      BY FoundMatches
    <3>3. Matching(metric, filters) \subseteq {SeriesKey[n] : n \in registered}
      BY DEF Matching
    <3>4. IsFiniteSet({SeriesKey[n] : n \in registered})
      <4>1. IsFiniteSet(registered)
        BY DEF CatalogInv
      <4> DEFINE f == [n \in registered |-> SeriesKey[n]]
      <4>2. f \in Surjection(registered, {SeriesKey[n] : n \in registered})
        BY DEF Surjection
      <4> HIDE DEF f
      <4> QED
        BY <4>1, <4>2, FS_Surjection
    <3>5. S \in SUBSET Nat
      BY <3>2, CatalogConstants DEF Matching
    <3>6. IsFiniteSet(S)
      BY <3>2, <3>3, <3>4, FS_Subset
    <3> HIDE DEF S
    <3> QED
      BY <3>1, <3>2, <3>5, <3>6, AscendingOrder
  <2>2. DOMAIN byID = UNION {metricSeries[m] : m \in DOMAIN metricSeries}
    <3>1. \A m \in DOMAIN metricSeries :
             metricSeries[m] = {SeriesKey[n] : n \in {x \in registered : x.metric = m}}
      BY DEF CatalogInv
    <3>2. \A n \in registered : n.metric \in DOMAIN metricSeries
      BY DEF CatalogInv
    <3>3. UNION {metricSeries[m] : m \in DOMAIN metricSeries} = {SeriesKey[n] : n \in registered}
      BY <3>1, <3>2
    <3> QED
      BY <3>3 DEF CatalogInv
  <2> QED
    BY <2>1, <2>2 DEF CatalogExact, CatalogInv
<1> QED
  BY <1>1, CatalogInvariant, PTL
-----------------------------------------------------------------------------
-----------------------------------------------------------------------------
(* sort.Search finds the first index at which a monotone predicate holds.  *)
LEMMA SearchFinds ==
    ASSUME NEW n \in Nat, NEW P,
           \A i \in 0 .. n - 1 : P[i] \in BOOLEAN,
           \A i, k \in 0 .. n - 1 : i <= k /\ P[i] => P[k]
    PROVE  /\ Search(n, P) \in 0 .. n
           /\ \A i \in 0 .. n - 1 : P[i] <=> Search(n, P) <= i
<1> DEFINE S == [i : 0 .. n, j : 0 .. n]
           Step(r) == IF r.i >= r.j THEN r
                      ELSE IF P[(r.i + r.j) \div 2] THEN [r EXCEPT !.j = (r.i + r.j) \div 2]
                      ELSE [r EXCEPT !.i = (r.i + r.j) \div 2 + 1]
           b == [i |-> 0, j |-> n]
           loop == CHOOSE f : f = [k \in 0 .. n |-> IF k = 0 THEN b ELSE Step(f[k - 1])]
           G == [k \in 1 .. n |-> [r \in S |-> Step(r)]]
           First == {k \in 0 .. n : k = n \/ P[k]}
<1>1. First \in SUBSET Nat /\ n \in First
  OBVIOUS
<1>2. PICK m \in First : \A k \in First : m <= k
  <2> HIDE DEF First
  <2> QED
    BY <1>1, Least
<1>3. m \in 0 .. n /\ \A i \in 0 .. n - 1 : P[i] <=> m <= i
  BY <1>2
<1> HIDE DEF First
<1>4. ASSUME NEW r \in S, r.i <= m, m <= r.j
      PROVE  LET q == Step(r)
             IN  /\ q \in S /\ q.i <= m /\ m <= q.j
                 /\ q.j - q.i < r.j - r.i \/ (q = r /\ r.i = m /\ r.j = m)
  <2>1. CASE r.i >= r.j
    BY <2>1, <1>4, <1>3
  <2>2. CASE r.i < r.j
    <3> DEFINE h == (r.i + r.j) \div 2
    <3>1. r.i \in 0 .. n /\ r.j \in 0 .. n
      BY <1>4
    <3>2. h \in r.i .. r.j - 1
      BY <3>1, <2>2
    <3>3. Step(r) = IF P[h] THEN [r EXCEPT !.j = h] ELSE [r EXCEPT !.i = h + 1]
      BY <2>2, <3>1
    <3> HIDE DEF h, Step
    <3>4. h \in 0 .. n - 1
      BY <3>1, <3>2
    <3>5. P[h] <=> m <= h
      BY <3>4, <1>3
    <3>6. CASE P[h]
      <4>1. Step(r).i = r.i /\ Step(r).j = h /\ Step(r) \in S
        BY <3>1, <3>3, <3>4, <3>6, <1>4
      <4> QED
        BY <4>1, <3>1, <3>2, <3>5, <3>6, <1>4, <1>3
    <3>7. CASE ~P[h]
      <4>1. Step(r).i = h + 1 /\ Step(r).j = r.j /\ Step(r) \in S
        BY <3>1, <3>3, <3>4, <3>7, <1>4
      <4> QED
        BY <4>1, <3>1, <3>2, <3>5, <3>7, <1>4, <1>3
    <3> QED
      BY <3>6, <3>7
  <2> QED
    BY <2>1, <2>2, <1>4
<1>5. ASSUME NEW r \in S PROVE Step(r) \in S
  <2>1. r.i \in 0 .. n /\ r.j \in 0 .. n
    OBVIOUS
  <2>2. CASE r.i >= r.j
    BY <2>2
  <2>3. CASE r.i < r.j
    <3> DEFINE h == (r.i + r.j) \div 2
    <3>1. h \in 0 .. n - 1
      BY <2>1, <2>3
    <3>2. Step(r) = IF P[h] THEN [r EXCEPT !.j = h] ELSE [r EXCEPT !.i = h + 1]
      BY <2>3, <2>1
    <3> HIDE DEF h, Step
    <3> QED
      BY <3>1, <3>2
  <2> QED
    BY <2>1, <2>2, <2>3
<1>6. b \in S /\ \A k \in 1 .. n, r \in S : G[k][r] \in S
  <2>1. b \in S
    OBVIOUS
  <2> HIDE DEF S, Step, b
  <2> QED
    BY <2>1, <1>5
<1> HIDE DEF b
<1>7. PICK f : IsLoop(f, n, S, b, G)
  <2> HIDE DEF S, G, Step, loop
  <2> QED
    BY <1>6, LoopExists, Zenon
<1>8. f = [k \in 0 .. n |-> IF k = 0 THEN b ELSE Step(f[k - 1])]
  <2> HIDE DEF S, Step, loop
  <2>1. \A k \in 1 .. n : f[k] = Step(f[k - 1])
    <3>1. ASSUME NEW k \in 1 .. n PROVE f[k] = Step(f[k - 1])
      <4>1. f[k - 1] \in S /\ f[k] = G[k][f[k - 1]]
        <5> HIDE DEF G
        <5> QED
          BY <1>7, LoopRound
      <4> QED
        BY <4>1
    <3> QED
      BY <3>1
  <2> QED
    BY <1>7, <2>1 DEF IsLoop
<1>9. loop = [k \in 0 .. n |-> IF k = 0 THEN b ELSE Step(loop[k - 1])]
  <2> HIDE DEF Step
  <2> QED
    BY <1>8
<1>10. Search(n, P) = loop[n].i
  BY Zenon DEF Search, b
<1> HIDE DEF loop
<1> DEFINE T == {k \in 0 .. n : /\ loop[k] \in S /\ loop[k].i <= m /\ m <= loop[k].j
                                /\ \/ loop[k].j - loop[k].i <= n - k
                                   \/ loop[k].i = m /\ loop[k].j = m}
<1>11. 0 \in T
  BY <1>9, <1>3 DEF b
<1>12. ASSUME NEW k \in 1 .. n, k - 1 \in T PROVE k \in T
  <2>1. loop[k] = Step(loop[k - 1])
    <3> HIDE DEF Step, S, G, T
    <3>1. k \in 0 .. n /\ k # 0
      OBVIOUS
    <3> QED
      BY <1>9, <3>1
  <2> DEFINE r == loop[k - 1]
             q == Step(r)
  <2>2. r \in S /\ r.i <= m /\ m <= r.j /\ (r.j - r.i <= n - (k - 1) \/ (r.i = m /\ r.j = m))
    BY <1>12
  <2> HIDE DEF r
  <2>3. /\ q \in S /\ q.i <= m /\ m <= q.j
        /\ q.j - q.i < r.j - r.i \/ (q = r /\ r.i = m /\ r.j = m)
    <3> HIDE DEF S, Step
    <3> QED
      BY <2>2, <1>4
  <2>4. q = loop[k]
    BY <2>1 DEF r
  <2> HIDE DEF q
  <2>5. q.i \in 0 .. n /\ q.j \in 0 .. n /\ r.i \in 0 .. n /\ r.j \in 0 .. n
    BY <2>2, <2>3
  <2>6. q.j - q.i <= n - k \/ (q.i = m /\ q.j = m)
    <3> HIDE DEF S, Step, T, G
    <3>1. \A a, c, d, e \in Int : d - c < e - a /\ a = m /\ e = m /\ c <= m /\ m <= d => FALSE
      BY <1>3
    <3>2. \A a, c, d, e \in Int : d - c < e - a /\ e - a <= n - (k - 1) => d - c <= n - k
      OBVIOUS
    <3> QED
      BY <2>2, <2>3, <2>5, <3>1, <3>2
  <2> HIDE DEF S
  <2> QED
    BY <2>3, <2>4, <2>6
<1>13. n \in T
  <2> HIDE DEF T
  <2>1. \A k \in 1 .. n : k - 1 \in T => k \in T
    BY <1>12
  <2>2. \A k \in 0 .. n : k \in T
    BY <1>11, <2>1, UpTo, Zenon
  <2> QED
    BY <2>2
<1>14. Search(n, P) = m
  <2>1. loop[n].i \in 0 .. n /\ loop[n].j \in 0 .. n
    BY <1>13
  <2> QED
    BY <1>13, <1>10, <1>3, <2>1
<1> QED
  BY <1>3, <1>14
-----------------------------------------------------------------------------
(* Data the reader decodes to the points in s.                             *)
Encodes(data, s) ==
    /\ \A i \in 1 .. Len(s) : i > 1 => data[i] = s[i].t - s[i - 1].t
    /\ data[1] = s[1].t
    /\ \A i \in 1 .. Len(s) : data[Len(s) + i] = s[i].v

(* A slice of points and its elements.                                     *)
LEMMA PointsOf ==
    ASSUME NEW s \in Seq(Points)
    PROVE  /\ Len(s) \in Nat /\ DOMAIN s = 1 .. Len(s)
           /\ \A i \in 1 .. Len(s) :
                 /\ s[i] \in Points /\ s[i].t \in Times /\ s[i].t \in Int
                 /\ s[i].v \in Int /\ s[i].v \in 1 .. MaxPoints
                 /\ s[i] = [t |-> s[i].t, v |-> s[i].v]
<1>1. Len(s) \in Nat /\ DOMAIN s = 1 .. Len(s)
  OBVIOUS
<1>2. \A p \in Points : /\ p.t \in Times /\ p.t \in Int /\ p.v \in Int /\ p.v \in 1 .. MaxPoints
                        /\ p = [t |-> p.t, v |-> p.v]
  <2> SUFFICES ASSUME NEW p \in Points
               PROVE  /\ p.t \in Times /\ p.t \in Int /\ p.v \in Int /\ p.v \in 1 .. MaxPoints
                      /\ p = [t |-> p.t, v |-> p.v]
    OBVIOUS
  <2>1. p.t \in Times /\ p.v \in 1 .. MaxPoints /\ p = [t |-> p.t, v |-> p.v]
    BY DEF Points
  <2>2. p.t \in Int /\ p.v \in Int
    BY <2>1, QueryConstants
  <2> QED
    BY <2>1, <2>2
<1>3. \A i \in 1 .. Len(s) : s[i] \in Points
  BY ElementOfSeq
<1> QED
  BY <1>1, <1>2, <1>3

(* The words of a block: the first timestamp, the steps, the values.       *)
LEMMA EncodeCells ==
    ASSUME NEW s \in Seq(Points), s # <<>>
    PROVE  /\ EncodeSeries(s) \in Seq(Int) /\ Len(EncodeSeries(s)) = 2 * Len(s)
           /\ Encodes(EncodeSeries(s), s)
<1> DEFINE n == Len(s)
           a == <<s[1].t>>
           b == [i \in 1 .. n - 1 |-> s[i + 1].t - s[i].t]
           c == [i \in 1 .. n |-> s[i].v]
<1>1. n \in Nat \ {0} /\ DOMAIN s = 1 .. n
  OBVIOUS
<1> HIDE DEF n
<1>2. \A i \in 1 .. n : s[i].t \in Int /\ s[i].v \in Int
  BY PointsOf DEF n
<1>3. a \in Seq(Int) /\ Len(a) = 1 /\ a[1] = s[1].t
  BY <1>1, <1>2
<1>4. b \in Seq(Int) /\ Len(b) = n - 1 /\ \A i \in 1 .. n - 1 : b[i] = s[i + 1].t - s[i].t
  <2>1. b \in [1 .. n - 1 -> Int]
    BY <1>1, <1>2
  <2>2. n - 1 \in Nat
    BY <1>1
  <2>3. \A i \in 1 .. n - 1 : b[i] = s[i + 1].t - s[i].t
    OBVIOUS
  <2> HIDE DEF b
  <2> QED
    BY <2>1, <2>2, <2>3
<1>5. c \in Seq(Int) /\ Len(c) = n /\ \A i \in 1 .. n : c[i] = s[i].v
  <2>1. c \in [1 .. n -> Int]
    BY <1>1, <1>2
  <2> QED
    BY <2>1, <1>1
<1>6. EncodeSeries(s) = (a \o b) \o c
  BY <1>1 DEF EncodeSeries, n
<1> HIDE DEF a, b, c
<1> DEFINE ab == a \o b
           d == ab \o c
<1>7. ab \in Seq(Int) /\ Len(ab) = n /\ \A i \in 1 .. n : ab[i] = IF i <= 1 THEN a[i] ELSE b[i - 1]
  <2>1. /\ a \o b \in Seq(Int) /\ Len(a \o b) = Len(a) + Len(b)
        /\ \A i \in 1 .. Len(a) + Len(b) : (a \o b)[i] = IF i <= Len(a) THEN a[i] ELSE b[i - Len(a)]
    BY <1>3, <1>4, ConcatProperties, Zenon
  <2>2. ab = a \o b
    OBVIOUS
  <2> HIDE DEF ab
  <2>3. Len(a) + Len(b) = n /\ Len(a) = 1
    BY <1>1, <1>3, <1>4
  <2> QED
    BY <2>1, <2>2, <2>3
<1> HIDE DEF ab
<1>8. d \in Seq(Int) /\ Len(d) = n + n /\ \A i \in 1 .. n + n : d[i] = IF i <= n THEN ab[i] ELSE c[i - n]
  <2>1. /\ ab \o c \in Seq(Int) /\ Len(ab \o c) = Len(ab) + Len(c)
        /\ \A i \in 1 .. Len(ab) + Len(c) : (ab \o c)[i] = IF i <= Len(ab) THEN ab[i] ELSE c[i - Len(ab)]
    BY <1>5, <1>7, ConcatProperties, Zenon
  <2> HIDE DEF d
  <2>2. d = ab \o c
    BY DEF d
  <2> QED
    BY <2>1, <2>2, <1>5, <1>7
<1> HIDE DEF d
<1>9. ASSUME NEW i \in 1 .. n, i > 1 PROVE d[i] = s[i].t - s[i - 1].t
  <2>1. i - 1 \in 1 .. n - 1 /\ i \in 1 .. n + n /\ ~(i <= 1) /\ (i - 1) + 1 = i
    BY <1>1, <1>9
  <2>2. d[i] = ab[i]
    BY <1>8, <2>1
  <2>3. ab[i] = b[i - 1]
    BY <1>7, <2>1
  <2>4. b[i - 1] = s[(i - 1) + 1].t - s[i - 1].t
    BY <1>4, <2>1
  <2> QED
    BY <2>1, <2>2, <2>3, <2>4
<1>10. d[1] = s[1].t
  <2>1. 1 \in 1 .. n /\ 1 \in 1 .. n + n
    BY <1>1
  <2> QED
    BY <1>3, <1>7, <1>8, <2>1
<1>11. ASSUME NEW i \in 1 .. n PROVE d[n + i] = s[i].v
  <2>1. n + i \in 1 .. n + n /\ ~(n + i <= n) /\ (n + i) - n = i
    BY <1>1
  <2> QED
    BY <1>5, <1>8, <2>1
<1>12. EncodeSeries(s) = d
  BY <1>6 DEF d, ab
<1>13. Encodes(d, s)
  BY <1>9, <1>10, <1>11 DEF Encodes, n
<1>14. n + n = 2 * n
  BY <1>1
<1> QED
  BY <1>8, <1>12, <1>13, <1>14 DEF n

(* Reader.decodePoints reverses Writer.encodeSeries: the sums of the       *)
(* deltas are the timestamps.                                              *)
LEMMA DecodeEncodes ==
    ASSUME NEW s \in Seq(Points), s # <<>>, NEW data, Encodes(data, s)
    PROVE  DecodePoints(data, Len(s)) = s
<1> DEFINE n == Len(s)
           ts == CHOOSE f : f = [i \in 1 .. n |-> IF i = 1 THEN data[1] ELSE f[i - 1] + data[i]]
           g == [i \in 1 .. n |-> s[i].t]
<1>1. n \in Nat \ {0} /\ DOMAIN s = 1 .. n
  OBVIOUS
<1>2. DecodePoints(data, n) = [i \in 1 .. n |-> [t |-> ts[i], v |-> data[n + i]]]
  BY DEF DecodePoints
<1>3. \A i \in 1 .. n : s[i].t \in Int /\ s[i] = [t |-> s[i].t, v |-> s[i].v]
  BY PointsOf
<1>4. /\ data[1] = s[1].t
      /\ \A i \in 1 .. n : i > 1 => data[i] = s[i].t - s[i - 1].t
      /\ \A i \in 1 .. n : data[n + i] = s[i].v
  BY DEF Encodes
<1> HIDE DEF n
<1>5. ASSUME NEW i \in 1 .. n, i # 1 PROVE s[i].t = s[i - 1].t + data[i]
  <2>1. i - 1 \in 1 .. n /\ i > 1
    BY <1>1, <1>5
  <2>2. s[i].t \in Int /\ s[i - 1].t \in Int /\ data[i] = s[i].t - s[i - 1].t
    BY <1>3, <1>4, <2>1
  <2> QED
    BY <2>2
<1>6. g = [i \in 1 .. n |-> IF i = 1 THEN data[1] ELSE g[i - 1] + data[i]]
  <2> SUFFICES ASSUME NEW i \in 1 .. n
               PROVE  g[i] = IF i = 1 THEN data[1] ELSE g[i - 1] + data[i]
    OBVIOUS
  <2>1. CASE i = 1
    BY <1>4, <2>1
  <2>2. CASE i # 1
    <3>1. i - 1 \in 1 .. n
      BY <1>1, <2>2
    <3> QED
      BY <1>5, <2>2, <3>1
  <2> QED
    BY <2>1, <2>2
<1>7. ts = [i \in 1 .. n |-> IF i = 1 THEN data[1] ELSE ts[i - 1] + data[i]]
  <2> HIDE DEF g
  <2> QED
    BY <1>6
<1> HIDE DEF ts, g
<1> DEFINE T == {k \in 0 .. n : k = 0 \/ ts[k] = s[k].t}
<1>8. \A k \in 0 .. n : k \in T
  <2>1. 0 \in T
    BY <1>1
  <2>2. ASSUME NEW k \in 1 .. n, k - 1 \in T PROVE k \in T
    <3>1. CASE k = 1
      BY <3>1, <1>1, <1>4, <1>7
    <3>2. CASE k # 1
      <4>1. k - 1 # 0 /\ ts[k - 1] = s[k - 1].t
        BY <2>2, <3>2
      <4>2. ts[k] = ts[k - 1] + data[k]
        BY <1>7, <3>2
      <4>3. ts[k] = s[k].t
        BY <4>1, <4>2, <1>5, <3>2
      <4> QED
        BY <4>3
    <3> QED
      BY <3>1, <3>2
  <2> HIDE DEF T
  <2>3. n \in Nat
    BY <1>1
  <2> QED
    BY <2>1, <2>2, <2>3, UpTo
<1>9. ASSUME NEW i \in 1 .. n PROVE [t |-> ts[i], v |-> data[n + i]] = s[i]
  <2>1. i \in 0 .. n /\ i # 0
    OBVIOUS
  <2>2. ts[i] = s[i].t
    BY <1>8, <2>1
  <2> QED
    BY <2>2, <1>3, <1>4
<1>10. DecodePoints(data, n) = [i \in 1 .. n |-> s[i]]
  BY <1>2, <1>9
<1>11. s = [i \in 1 .. n |-> s[i]]
  BY <1>1
<1> QED
  BY <1>10, <1>11 DEF n
-----------------------------------------------------------------------------
Entries == [id : Nat, offset : Nat, numPoints : Nat]
WriterStates == [offset : Nat, data : Seq(Int), index : Seq(Entries)]

(* One round of the writer's loop: the series s of id.                     *)
WriteRound(w, id, s) ==
    [offset |-> w.offset + Len(EncodeSeries(s)),
     data |-> w.data \o EncodeSeries(s),
     index |-> Append(w.index, [id |-> id, offset |-> w.offset, numPoints |-> Len(s)])]

(* The entry e leads to the points of s in the data.                       *)
LeadsTo(data, e, s) ==
    /\ e.numPoints = Len(s) /\ e.offset >= HeaderSize
    /\ e.offset - HeaderSize + 2 * Len(s) <= Len(data)
    /\ \A j \in 1 .. 2 * Len(s) : data[e.offset - HeaderSize + j] = EncodeSeries(s)[j]

(* A round of the writer keeps its types.                                  *)
LEMMA RoundTyped ==
    ASSUME NEW w \in WriterStates, NEW id \in Nat, NEW s \in Seq(Points), s # <<>>
    PROVE  WriteRound(w, id, s) \in WriterStates
<1> DEFINE d == EncodeSeries(s)
           e == [id |-> id, offset |-> w.offset, numPoints |-> Len(s)]
<1>1. d \in Seq(Int) /\ Len(d) \in Nat /\ Len(s) \in Nat
  BY EncodeCells
<1>2. w.offset \in Nat /\ w.data \in Seq(Int) /\ w.index \in Seq(Entries)
  BY DEF WriterStates
<1>3. e \in Entries
  BY <1>1, <1>2 DEF Entries
<1> HIDE DEF d, e
<1>4. w.data \o d \in Seq(Int)
  BY <1>1, <1>2
<1>5. Append(w.index, e) \in Seq(Entries)
  BY <1>2, <1>3
<1>6. w.offset + Len(d) \in Nat
  BY <1>1, <1>2
<1>7. WriteRound(w, id, s) = [offset |-> w.offset + Len(d), data |-> w.data \o d, index |-> Append(w.index, e)]
  BY DEF WriteRound, d, e
<1> QED
  BY <1>4, <1>5, <1>6, <1>7 DEF WriterStates

(* The new entry leads to the new data, and the earlier entries still lead *)
(* to theirs.                                                              *)
LEMMA RoundWrites ==
    ASSUME NEW w \in WriterStates, NEW id \in Nat, NEW s \in Seq(Points), s # <<>>,
           w.offset = HeaderSize + Len(w.data)
    PROVE  LET u == WriteRound(w, id, s)
           IN  /\ u.offset = HeaderSize + Len(u.data)
               /\ Len(u.index) = Len(w.index) + 1
               /\ u.index[Len(w.index) + 1].id = id
               /\ LeadsTo(u.data, u.index[Len(w.index) + 1], s)
               /\ \A i \in 1 .. Len(w.index) :
                     /\ u.index[i] = w.index[i]
                     /\ \A r \in Seq(Points) :
                           LeadsTo(w.data, w.index[i], r) => LeadsTo(u.data, u.index[i], r)
<1> DEFINE d == EncodeSeries(s)
           e == [id |-> id, offset |-> w.offset, numPoints |-> Len(s)]
           x == w.data
           xd == x \o d
           u == WriteRound(w, id, s)
<1>1. d \in Seq(Int) /\ Len(d) = 2 * Len(s) /\ Len(s) \in Nat
  BY EncodeCells
<1>2. w.offset \in Nat /\ x \in Seq(Int) /\ w.index \in Seq(Entries)
  BY DEF WriterStates
<1>3. e \in Entries
  BY <1>1, <1>2 DEF Entries
<1>4. u.offset = w.offset + Len(d) /\ u.data = xd /\ u.index = Append(w.index, e)
  BY DEF WriteRound
<1>5. w.offset = 1 + Len(x)
  BY DEF HeaderSize
<1>6. e.id = id /\ e.offset = w.offset /\ e.numPoints = Len(s)
  OBVIOUS
<1> HIDE DEF d, e, u, x
<1>7. /\ xd \in Seq(Int) /\ Len(xd) = Len(x) + Len(d)
      /\ \A i \in 1 .. Len(x) + Len(d) : xd[i] = IF i <= Len(x) THEN x[i] ELSE d[i - Len(x)]
  BY <1>1, <1>2, ConcatProperties, ZenonT(30)
<1> HIDE DEF xd
<1>8. Len(x) \in Nat /\ Len(d) \in Nat
  BY <1>1, <1>2
<1>9. u.offset = HeaderSize + Len(u.data)
  <2>1. u.offset = w.offset + Len(d) /\ Len(u.data) = Len(x) + Len(d)
    BY <1>4, <1>7
  <2>2. u.offset = 1 + Len(u.data)
    BY <2>1, <1>5, <1>8
  <2> QED
    BY <2>2 DEF HeaderSize
<1>10. /\ Len(u.index) = Len(w.index) + 1 /\ u.index[Len(w.index) + 1] = e
       /\ \A i \in 1 .. Len(w.index) : u.index[i] = w.index[i]
  BY <1>2, <1>3, <1>4, AppendProperties
<1>11. LeadsTo(xd, e, s)
  <2>1. e.offset - 1 = Len(x)
    BY <1>5, <1>6, <1>8
  <2>2. ASSUME NEW j \in 1 .. 2 * Len(s) PROVE xd[Len(x) + j] = d[j]
    <3>1. Len(x) + j \in 1 .. Len(x) + Len(d) /\ ~(Len(x) + j <= Len(x)) /\ (Len(x) + j) - Len(x) = j
      BY <1>1, <1>8
    <3> QED
      BY <3>1, <1>7
  <2>3. e.offset >= 1 /\ Len(x) + 2 * Len(s) <= Len(xd)
    BY <1>1, <1>5, <1>6, <1>7, <1>8
  <2>4. HeaderSize = 1 /\ d = EncodeSeries(s)
    BY DEF HeaderSize, d
  <2> QED
    BY <2>1, <2>2, <2>3, <2>4, <1>6 DEF LeadsTo
<1>12. ASSUME NEW i \in 1 .. Len(w.index), NEW r \in Seq(Points), LeadsTo(x, w.index[i], r)
       PROVE  LeadsTo(xd, w.index[i], r)
  <2> DEFINE c == w.index[i].offset
             k == Len(r)
             er == EncodeSeries(r)
  <2>1. c \in Nat /\ k \in Nat
    <3>1. w.index[i] \in Entries
      BY <1>2, ElementOfSeq, Zenon
    <3> QED
      BY <3>1 DEF Entries
  <2>2. w.index[i].numPoints = k /\ c >= 1 /\ c - 1 + 2 * k <= Len(x)
        /\ \A j \in 1 .. 2 * k : x[c - 1 + j] = er[j]
    BY <1>12 DEF LeadsTo, HeaderSize
  <2> HIDE DEF c, k, er
  <2>3. c - 1 + 2 * k <= Len(xd)
    BY <2>1, <2>2, <1>7, <1>8
  <2>4. ASSUME NEW j \in 1 .. 2 * k PROVE xd[c - 1 + j] = er[j]
    <3>1. c - 1 + j \in 1 .. Len(x) + Len(d) /\ c - 1 + j <= Len(x)
      BY <2>1, <2>2, <1>8
    <3> QED
      BY <3>1, <2>2, <1>7
  <2> QED
    BY <2>2, <2>3, <2>4 DEF LeadsTo, HeaderSize, c, k, er
<1> QED
  BY <1>4, <1>6, <1>9, <1>10, <1>11, <1>12 DEF u, x
-----------------------------------------------------------------------------
(* What a memtable hands to the writer, and the ids that it writes.        *)
FullIds(m) == {id \in DOMAIN m : m[id] # <<>>}

SeriesMap(m) ==
    /\ DOMAIN m \in SUBSET Nat /\ IsFiniteSet(FullIds(m))
    /\ \A id \in DOMAIN m : m[id] \in Seq(Points)

(* Data and index that hold the series of m, in the order of their ids.    *)
Written(m, data, index) ==
    /\ data \in Seq(Int) /\ index \in Seq(Entries)
    /\ {index[i].id : i \in 1 .. Len(index)} = FullIds(m)
    /\ \A i, k \in 1 .. Len(index) : i < k => index[i].id < index[k].id
    /\ \A i \in 1 .. Len(index) : LeadsTo(data, index[i], m[index[i].id])

SegmentCells(data, index, lo, hi) ==
    <<[blockStart |-> lo, blockEnd |-> hi]>> \o data \o index
      \o <<[idxOffset |-> HeaderSize + Len(data)]>>

(* Writer.Write writes every series that has points.                       *)
LEMMA WriterWrites ==
    ASSUME NEW m, SeriesMap(m), NEW lo, NEW hi
    PROVE  \E data, index :
              Written(m, data, index) /\ WriteSegment(m, lo, hi) = SegmentCells(data, index, lo, hi)
<1> DEFINE S == FullIds(m)
           ids == Ascending(S)
           n == Len(ids)
           b == [offset |-> HeaderSize, data |-> <<>>, index |-> <<>>]
           Step(k, u) == [offset |-> u.offset + Len(EncodeSeries(m[ids[k]])),
                          data |-> u.data \o EncodeSeries(m[ids[k]]),
                          index |-> Append(u.index, [id |-> ids[k], offset |-> u.offset,
                                                     numPoints |-> Len(m[ids[k]])])]
           writer == CHOOSE f : f = [k \in 0 .. n |-> IF k = 0 THEN b ELSE Step(k, f[k - 1])]
           G == [k \in 1 .. n |-> [u \in WriterStates |-> Step(k, u)]]
<1>1. S \in SUBSET Nat /\ IsFiniteSet(S)
  <2>1. S \subseteq DOMAIN m
    BY DEF FullIds
  <2> QED
    BY <2>1 DEF SeriesMap
<1>2. n \in Nat /\ ids \in [1 .. n -> S] /\ ToSet(ids) = S
      /\ \A i, k \in 1 .. n : i < k => ids[i] < ids[k]
  <2> HIDE DEF S
  <2>1. InOrder(S, ids)
    BY <1>1, OrderExists DEF Ascending, InOrder
  <2>2. Cardinality(S) \in Nat
    BY <1>1, FS_CardinalityType
  <2> HIDE DEF ids
  <2>3. ids \in [1 .. Cardinality(S) -> S]
    BY <2>1 DEF InOrder
  <2>4. Len(ids) = Cardinality(S)
    BY <2>2, <2>3
  <2> QED
    BY <2>1, <2>2, <2>3, <2>4 DEF InOrder
<1>3. ASSUME NEW k \in 1 .. n
      PROVE  ids[k] \in Nat /\ ids[k] \in DOMAIN m /\ m[ids[k]] \in Seq(Points) /\ m[ids[k]] # <<>>
  <2>1. ids[k] \in S
    BY <1>2
  <2> QED
    BY <2>1 DEF FullIds, SeriesMap
<1>4. WriteSegment(m, lo, hi) =
         <<[blockStart |-> lo, blockEnd |-> hi]>> \o writer[n].data \o writer[n].index
           \o <<[idxOffset |-> writer[n].offset]>>
  BY DEF WriteSegment, FullIds
<1> HIDE DEF n, ids, S
<1>5. \A k, u : Step(k, u) = WriteRound(u, ids[k], m[ids[k]])
  BY DEF WriteRound
<1>6. ASSUME NEW k \in 1 .. n, NEW u \in WriterStates PROVE Step(k, u) \in WriterStates
  <2> HIDE DEF Step
  <2> QED
    BY <1>3, <1>5, RoundTyped
<1>7. b \in WriterStates
  BY DEF WriterStates, HeaderSize
<1> HIDE DEF Step, b
<1>8. PICK f : IsLoop(f, n, WriterStates, b, G)
  <2>1. \A k \in 1 .. n, u \in WriterStates : G[k][u] \in WriterStates
    BY <1>6
  <2> HIDE DEF G, writer
  <2> QED
    BY <1>2, <1>7, <2>1, LoopExists, Zenon
<1>9. f = [k \in 0 .. n |-> IF k = 0 THEN b ELSE Step(k, f[k - 1])]
  <2> HIDE DEF writer
  <2>1. ASSUME NEW k \in 1 .. n PROVE f[k] = Step(k, f[k - 1])
    <3>1. f[k - 1] \in WriterStates /\ f[k] = G[k][f[k - 1]]
      <4> HIDE DEF G
      <4> QED
        BY <1>2, <1>8, LoopRound
    <3> QED
      BY <3>1
  <2> QED
    BY <1>8, <2>1 DEF IsLoop
<1>10. writer = [k \in 0 .. n |-> IF k = 0 THEN b ELSE Step(k, writer[k - 1])]
  BY <1>9
<1> HIDE DEF writer, G
<1> DEFINE Ok(k, w) ==
              /\ w \in WriterStates /\ w.offset = HeaderSize + Len(w.data) /\ Len(w.index) = k
              /\ \A i \in 1 .. k : w.index[i].id = ids[i] /\ LeadsTo(w.data, w.index[i], m[ids[i]])
           T == {k \in 0 .. n : Ok(k, writer[k])}
<1>11. 0 \in T
  <2>1. writer[0] = b
    BY <1>2, <1>10
  <2>2. Ok(0, b)
    BY <1>7 DEF b, HeaderSize
  <2> QED
    BY <1>2, <2>1, <2>2
<1>12. ASSUME NEW k \in 1 .. n, k - 1 \in T PROVE k \in T
  <2> DEFINE w == writer[k - 1]
             s == m[ids[k]]
             u == WriteRound(w, ids[k], s)
  <2>1. writer[k] = u
    <3>1. k \in 0 .. n /\ k # 0
      OBVIOUS
    <3> QED
      BY <1>5, <1>10, <3>1
  <2>2. Ok(k - 1, w)
    BY <1>12
  <2>3. s \in Seq(Points) /\ s # <<>> /\ ids[k] \in Nat
    BY <1>3
  <2> HIDE DEF w, s, u
  <2>4. w \in WriterStates /\ w.offset = HeaderSize + Len(w.data) /\ Len(w.index) = k - 1
    BY <2>2
  <2>5. u \in WriterStates
    BY <2>3, <2>4, RoundTyped DEF u
  <2>6. /\ u.offset = HeaderSize + Len(u.data)
        /\ Len(u.index) = Len(w.index) + 1
        /\ u.index[Len(w.index) + 1].id = ids[k]
        /\ LeadsTo(u.data, u.index[Len(w.index) + 1], s)
        /\ \A i \in 1 .. Len(w.index) :
              /\ u.index[i] = w.index[i]
              /\ \A r \in Seq(Points) :
                    LeadsTo(w.data, w.index[i], r) => LeadsTo(u.data, u.index[i], r)
    BY <2>3, <2>4, RoundWrites DEF u
  <2>7. Len(u.index) = k /\ u.index[k].id = ids[k] /\ LeadsTo(u.data, u.index[k], s)
    BY <2>4, <2>6
  <2>8. ASSUME NEW i \in 1 .. k - 1
        PROVE  u.index[i].id = ids[i] /\ LeadsTo(u.data, u.index[i], m[ids[i]])
    <3>1. i \in 1 .. n /\ i \in 1 .. Len(w.index)
      BY <1>2, <2>4
    <3>2. m[ids[i]] \in Seq(Points)
      BY <1>3, <3>1
    <3>3. w.index[i].id = ids[i] /\ LeadsTo(w.data, w.index[i], m[ids[i]])
      BY <2>2
    <3> QED
      BY <2>6, <3>1, <3>2, <3>3
  <2>9. ASSUME NEW i \in 1 .. k
        PROVE  u.index[i].id = ids[i] /\ LeadsTo(u.data, u.index[i], m[ids[i]])
    <3>1. CASE i = k
      BY <2>7, <3>1 DEF s
    <3>2. CASE i # k
      <4>1. i \in 1 .. k - 1
        BY <3>2
      <4> QED
        BY <2>8, <4>1
    <3> QED
      BY <3>1, <3>2
  <2>10. Ok(k, u)
    BY <2>5, <2>6, <2>7, <2>9
  <2> QED
    BY <2>1, <2>10
<1>13. Ok(n, writer[n])
  <2>1. \A k \in 0 .. n : k \in T
    <3> HIDE DEF T
    <3>1. \A k \in 1 .. n : k - 1 \in T => k \in T
      BY <1>12
    <3> QED
      BY <1>2, <1>11, <3>1, UpTo, Zenon
  <2>2. n \in 0 .. n
    BY <1>2
  <2> QED
    BY <2>1, <2>2
<1> DEFINE data == writer[n].data
           index == writer[n].index
<1>14. /\ data \in Seq(Int) /\ index \in Seq(Entries) /\ Len(index) = n
       /\ writer[n].offset = HeaderSize + Len(data)
       /\ \A i \in 1 .. n : index[i].id = ids[i] /\ LeadsTo(data, index[i], m[ids[i]])
  BY <1>13 DEF WriterStates
<1>15. WriteSegment(m, lo, hi) = SegmentCells(data, index, lo, hi)
  BY <1>4, <1>14 DEF SegmentCells
<1> HIDE DEF data, index
<1>16. {index[i].id : i \in 1 .. Len(index)} = S
  <2>1. ToSet(ids) = {ids[i] : i \in 1 .. n}
    BY <1>2 DEF ToSet
  <2> QED
    BY <1>2, <1>14, <2>1
<1>17. Written(m, data, index)
  BY <1>2, <1>14, <1>16 DEF Written, S
<1> QED
  BY <1>15, <1>17
-----------------------------------------------------------------------------
FileWords == Int \cup Entries \cup [blockStart : Times, blockEnd : Times] \cup [idxOffset : Nat]

(* The places of the parts of a segment file.                              *)
LEMMA SegmentPlaces ==
    ASSUME NEW data \in Seq(Int), NEW index \in Seq(Entries), NEW lo \in Times, NEW hi \in Times
    PROVE  LET file == SegmentCells(data, index, lo, hi)
           IN  /\ Len(file) = Len(data) + Len(index) + 2
               /\ \A j \in 1 .. Len(data) : file[j + 1] = data[j]
               /\ ReadIndex(file) = index
<1> DEFINE a == <<[blockStart |-> lo, blockEnd |-> hi]>>
           z == <<[idxOffset |-> HeaderSize + Len(data)]>>
           ad == a \o data
           adi == ad \o index
           file == adi \o z
           D == Len(data)
           K == Len(index)
<1>1. D \in Nat /\ K \in Nat
  OBVIOUS
<1>2. a \in Seq(FileWords) /\ Len(a) = 1
  <2>1. [blockStart |-> lo, blockEnd |-> hi] \in FileWords
    BY DEF FileWords
  <2> QED
    BY <2>1
<1>3. z \in Seq(FileWords) /\ Len(z) = 1 /\ z[1].idxOffset = 1 + D
  <2>1. [idxOffset |-> HeaderSize + Len(data)] \in FileWords
    BY <1>1 DEF FileWords, HeaderSize
  <2> QED
    BY <2>1 DEF HeaderSize
<1>4. data \in Seq(FileWords)
  <2>1. Int \subseteq FileWords
    BY DEF FileWords
  <2> HIDE DEF a, z
  <2> QED
    BY <2>1, SeqMonotonic, Zenon
<1>5. index \in Seq(FileWords)
  <2>1. Entries \subseteq FileWords
    BY DEF FileWords
  <2> QED
    BY <2>1, SeqMonotonic, Zenon
<1>6. SegmentCells(data, index, lo, hi) = file
  BY DEF SegmentCells
<1> HIDE DEF a, z
<1>7. /\ ad \in Seq(FileWords) /\ Len(ad) = Len(a) + Len(data)
      /\ \A i \in 1 .. Len(a) + Len(data) : ad[i] = IF i <= Len(a) THEN a[i] ELSE data[i - Len(a)]
  BY <1>2, <1>4, ConcatProperties, Zenon
<1> HIDE DEF ad
<1>8. /\ adi \in Seq(FileWords) /\ Len(adi) = Len(ad) + Len(index)
      /\ \A i \in 1 .. Len(ad) + Len(index) :
            adi[i] = IF i <= Len(ad) THEN ad[i] ELSE index[i - Len(ad)]
  <2>1. ad \in Seq(FileWords)
    BY <1>7
  <2>2. /\ ad \o index \in Seq(FileWords) /\ Len(ad \o index) = Len(ad) + Len(index)
        /\ \A i \in 1 .. Len(ad) + Len(index) :
              (ad \o index)[i] = IF i <= Len(ad) THEN ad[i] ELSE index[i - Len(ad)]
    BY <1>5, <2>1, ConcatProperties, Zenon
  <2> QED
    BY <2>2
<1> HIDE DEF adi
<1>9. /\ file \in Seq(FileWords) /\ Len(file) = Len(adi) + Len(z)
      /\ \A i \in 1 .. Len(adi) + Len(z) :
            file[i] = IF i <= Len(adi) THEN adi[i] ELSE z[i - Len(adi)]
  <2>1. adi \in Seq(FileWords) /\ z \in Seq(FileWords)
    BY <1>3, <1>8
  <2>2. /\ adi \o z \in Seq(FileWords) /\ Len(adi \o z) = Len(adi) + Len(z)
        /\ \A i \in 1 .. Len(adi) + Len(z) :
              (adi \o z)[i] = IF i <= Len(adi) THEN adi[i] ELSE z[i - Len(adi)]
    BY <2>1, ConcatProperties, Zenon
  <2> QED
    BY <2>2
<1> HIDE DEF file
<1>10. Len(a) = 1 /\ Len(z) = 1 /\ Len(ad) = 1 + D /\ Len(adi) = 1 + D + K /\ Len(file) = D + K + 2
  BY <1>1, <1>2, <1>3, <1>7, <1>8, <1>9
<1> HIDE DEF D, K
<1>11. ASSUME NEW j \in 1 .. D PROVE file[j + 1] = data[j]
  <2>1. /\ j + 1 \in 1 .. Len(adi) + Len(z) /\ j + 1 <= Len(adi)
        /\ j + 1 \in 1 .. Len(ad) + K /\ j + 1 <= Len(ad)
        /\ j + 1 \in 1 .. 1 + D /\ ~(j + 1 <= 1) /\ (j + 1) - 1 = j
    BY <1>1, <1>10
  <2>2. file[j + 1] = adi[j + 1]
    BY <1>9, <2>1
  <2>3. adi[j + 1] = ad[j + 1]
    BY <1>8, <2>1 DEF K
  <2>4. ad[j + 1] = data[j]
    BY <1>7, <1>10, <2>1 DEF D
  <2> QED
    BY <2>2, <2>3, <2>4
<1>12. ASSUME NEW i \in 1 .. K PROVE file[1 + D + i] = index[i]
  <2>1. /\ 1 + D + i \in 1 .. Len(adi) + Len(z) /\ 1 + D + i <= Len(adi)
        /\ 1 + D + i \in 1 .. Len(ad) + K /\ ~(1 + D + i <= Len(ad)) /\ (1 + D + i) - Len(ad) = i
    BY <1>1, <1>10
  <2>2. file[1 + D + i] = adi[1 + D + i]
    BY <1>9, <2>1
  <2>3. adi[1 + D + i] = index[i]
    BY <1>8, <2>1 DEF K
  <2> QED
    BY <2>2, <2>3
<1>13. file[Len(file)].idxOffset = 1 + D
  <2>1. /\ Len(file) \in 1 .. Len(adi) + Len(z) /\ ~(Len(file) <= Len(adi))
        /\ Len(file) - Len(adi) = 1
    BY <1>1, <1>10
  <2>2. file[Len(file)] = z[1]
    BY <1>9, <2>1
  <2> QED
    BY <1>3, <2>2
<1>14. ReadIndex(file) = index
  <2> DEFINE sub == SubSeq(file, 1 + D + 1, D + K + 1)
  <2>1. Len(file) - FooterSize = D + K + 1 /\ (Len(file) - FooterSize) + 1 = Len(file)
    BY <1>1, <1>10 DEF FooterSize
  <2>2. ReadIndex(file) = sub
    BY <1>13, <2>1 DEF ReadIndex
  <2>3. ASSUME NEW i \in 1 .. K
        PROVE  file[((1 + D + 1) + i) - 1] = index[i] /\ index[i] \in Entries
    <3>1. ((1 + D + 1) + i) - 1 = 1 + D + i
      BY <1>1
    <3>2. index[i] \in Entries
      BY ElementOfSeq DEF K
    <3> QED
      BY <1>12, <3>1, <3>2
  <2>4. ASSUME NEW j \in 1 + D + 1 .. D + K + 1 PROVE file[j] \in Entries
    <3>1. j - (1 + D) \in 1 .. K /\ ((1 + D + 1) + (j - (1 + D))) - 1 = j
      BY <1>1
    <3> QED
      BY <2>3, <3>1
  <2>5. /\ sub \in Seq(Entries)
        /\ Len(sub) = IF 1 + D + 1 <= D + K + 1 THEN (D + K + 1) - (1 + D + 1) + 1 ELSE 0
        /\ \A i \in 1 .. (D + K + 1) - (1 + D + 1) + 1 : sub[i] = file[(1 + D + 1) + i - 1]
    <3> DEFINE m == 1 + D + 1
               n == D + K + 1
    <3>1. m \in Int /\ n \in Int /\ \A j \in m .. n : file[j] \in Entries
      BY <1>1, <2>4
    <3> HIDE DEF m, n
    <3>2. /\ SubSeq(file, m, n) \in Seq(Entries)
          /\ Len(SubSeq(file, m, n)) = IF m <= n THEN n - m + 1 ELSE 0
          /\ \A i \in 1 .. n - m + 1 : SubSeq(file, m, n)[i] = file[m + i - 1]
      BY <3>1, SubSeqProperties
    <3> QED
      BY <3>2 DEF m, n
  <2> HIDE DEF sub
  <2>6. Len(sub) = K /\ (D + K + 1) - (1 + D + 1) + 1 = K
    BY <1>1, <2>5
  <2>7. ASSUME NEW i \in 1 .. K PROVE sub[i] = index[i]
    <3>1. sub[i] = file[(1 + D + 1) + i - 1]
      BY <2>5, <2>6
    <3>2. (1 + D + 1) + i - 1 = ((1 + D + 1) + i) - 1
      BY <1>1
    <3> QED
      BY <2>3, <3>1, <3>2
  <2>8. sub = index
    BY <2>5, <2>6, <2>7, SeqEqual DEF K
  <2> QED
    BY <2>2, <2>8
<1> QED
  BY <1>6, <1>10, <1>11, <1>14 DEF D, K
-----------------------------------------------------------------------------
(* Where decodeSeriesAt reads, and what it makes of it.                    *)
LEMMA DecodeAt ==
    ASSUME NEW data \in Seq(Int), NEW index \in Seq(Entries), NEW lo \in Times, NEW hi \in Times,
           NEW e \in Entries, NEW s \in Seq(Points), s # <<>>, LeadsTo(data, e, s)
    PROVE  DecodeSeriesAt(SegmentCells(data, index, lo, hi), e.offset, e.numPoints) = s
<1> DEFINE file == SegmentCells(data, index, lo, hi)
           n == Len(s)
           c == e.offset
           D == Len(data)
           m == c + 1
           r == c + (1 + n + n)
           end == IF r < Len(file) THEN r ELSE Len(file)
           sub == SubSeq(file, m, end)
           d == EncodeSeries(s)
<1>1. n \in Nat \ {0} /\ D \in Nat /\ Len(index) \in Nat /\ c \in Nat
  BY DEF Entries
<1>2. /\ Len(file) = D + Len(index) + 2
      /\ \A j \in 1 .. D : file[j + 1] = data[j]
  BY SegmentPlaces
<1>3. /\ e.numPoints = n /\ c >= 1 /\ c - 1 + 2 * n <= D
      /\ \A j \in 1 .. 2 * n : data[c - 1 + j] = d[j]
  BY DEF LeadsTo, HeaderSize
<1>4. DecodeSeriesAt(file, c, e.numPoints) = DecodePoints(sub, n)
  BY <1>3 DEF DecodeSeriesAt
<1>5. Encodes(d, s)
  BY EncodeCells
<1>6. Len(file) \in Nat
  BY <1>1, <1>2
<1> HIDE DEF file, n, c, D, d
<1>7. end \in Int /\ end <= D + Len(index) + 2 /\ end >= c + 2 * n /\ end >= m
  BY <1>1, <1>2, <1>3, <1>6
<1>8. ASSUME NEW j \in 1 .. 2 * n PROVE sub[j] = d[j]
  <2> DEFINE cells == {file[i] : i \in m .. end}
  <2>1. \A i \in m .. end : file[i] \in cells
    OBVIOUS
  <2>2. m \in Int
    BY <1>1
  <2> HIDE DEF m, end, cells
  <2>3. \A i \in 1 .. end - m + 1 : sub[i] = file[m + i - 1]
    BY <2>1, <2>2, <1>7, SubSeqProperties
  <2>4. j \in 1 .. end - m + 1 /\ m + j - 1 = (c - 1 + j) + 1 /\ c - 1 + j \in 1 .. D
    BY <1>1, <1>3, <1>7 DEF m
  <2>5. sub[j] = file[m + j - 1]
    BY <2>3, <2>4
  <2>6. file[(c - 1 + j) + 1] = data[c - 1 + j]
    BY <1>2, <2>4
  <2> HIDE DEF sub
  <2> QED
    BY <2>4, <2>5, <2>6, <1>3
<1> HIDE DEF sub
<1>9. Encodes(sub, s)
  <2>1. ASSUME NEW i \in 1 .. n
        PROVE  i \in 1 .. 2 * n /\ n + i \in 1 .. 2 * n /\ 1 \in 1 .. 2 * n
    BY <1>1
  <2>2. 1 \in 1 .. n
    BY <1>1
  <2>3. \A i \in 1 .. n : sub[i] = d[i] /\ sub[n + i] = d[n + i]
    BY <1>8, <2>1
  <2> QED
    BY <1>5, <2>2, <2>3 DEF Encodes, n
<1>10. DecodePoints(sub, n) = s
  BY <1>9, DecodeEncodes DEF n
<1> QED
  BY <1>4, <1>10 DEF file, c

(* Reader.ReadSeries finds what Writer.Write wrote, and nothing else.      *)
LEMMA SegmentReads ==
    ASSUME NEW m, SeriesMap(m), NEW lo \in Times, NEW hi \in Times, NEW id \in Nat
    PROVE  ReadSeries(WriteSegment(m, lo, hi), id) = IF id \in FullIds(m) THEN m[id] ELSE <<>>
<1>1. PICK data, index :
         Written(m, data, index) /\ WriteSegment(m, lo, hi) = SegmentCells(data, index, lo, hi)
  BY WriterWrites
<1> DEFINE file == WriteSegment(m, lo, hi)
           n == Len(index)
           AtOrPast == [i \in 0 .. n - 1 |-> index[i + 1].id >= id]
           k == Search(n, AtOrPast)
<1>2. data \in Seq(Int) /\ index \in Seq(Entries)
  BY <1>1 DEF Written
<1>3. ReadIndex(file) = index
  BY <1>1, <1>2, SegmentPlaces
<1>4. n \in Nat /\ \A i \in 1 .. n : index[i] \in Entries /\ index[i].id \in Nat
  <2>1. \A i \in 1 .. n : index[i] \in Entries
    BY <1>2, ElementOfSeq
  <2> QED
    BY <1>2, <2>1 DEF Entries
<1>5. /\ {index[i].id : i \in 1 .. n} = FullIds(m)
      /\ \A i, j \in 1 .. n : i < j => index[i].id < index[j].id
      /\ \A i \in 1 .. n : LeadsTo(data, index[i], m[index[i].id])
  BY <1>1 DEF Written
<1>6. ReadSeries(file, id) = IF k >= n \/ index[k + 1].id # id
                               THEN <<>>
                               ELSE DecodeSeriesAt(file, index[k + 1].offset, index[k + 1].numPoints)
  BY <1>3 DEF ReadSeries
<1> HIDE DEF file, n
<1>70. \A i \in 0 .. n - 1 : AtOrPast[i] <=> index[i + 1].id >= id
  OBVIOUS
<1>7. k \in 0 .. n /\ \A i \in 0 .. n - 1 : AtOrPast[i] <=> k <= i
  <2>1. \A i \in 0 .. n - 1 : AtOrPast[i] \in BOOLEAN
    OBVIOUS
  <2>2. ASSUME NEW i \in 0 .. n - 1, NEW j \in 0 .. n - 1, i <= j, AtOrPast[i] PROVE AtOrPast[j]
    <3> HIDE DEF AtOrPast
    <3>0. index[i + 1].id >= id
      BY <2>2, <1>70, Zenon
    <3>1. index[i + 1].id >= id /\ i + 1 \in 1 .. n /\ j + 1 \in 1 .. n
      BY <3>0, <1>4
    <3>2. index[j + 1].id >= index[i + 1].id
      <4>1. CASE i = j
        BY <4>1, <3>1, <1>4
      <4>2. CASE i # j
        <5>1. i + 1 < j + 1
          BY <2>2, <4>2, <1>4
        <5> QED
          BY <5>1, <3>1, <1>4, <1>5
      <4> QED
        BY <4>1, <4>2
    <3>3. index[j + 1].id >= id
      BY <3>1, <3>2, <1>4
    <3> QED
      BY <3>3, <1>70, Zenon
  <2> HIDE DEF AtOrPast
  <2> QED
    BY <1>4, <2>1, <2>2, SearchFinds
<1> HIDE DEF k, AtOrPast
<1>8. CASE id \in FullIds(m)
  <2>1. PICK i \in 1 .. n : index[i].id = id
    BY <1>5, <1>8
  <2>2. i - 1 \in 0 .. n - 1 /\ (i - 1) + 1 = i
    BY <1>4
  <2>3. AtOrPast[i - 1]
    <3>1. index[(i - 1) + 1].id >= id
      BY <2>1, <2>2, <1>4
    <3> QED
      BY <2>2, <3>1, <1>70, Zenon
  <2>4. k <= i - 1 /\ k < n /\ k \in 0 .. n - 1 /\ k + 1 \in 1 .. n
    BY <2>2, <2>3, <1>4, <1>7
  <2>5. index[k + 1].id >= id
    <3>1. k <= k
      BY <2>4
    <3>2. AtOrPast[k]
      BY <3>1, <2>4, <1>7, Zenon
    <3> QED
      BY <2>4, <3>2, <1>70, Zenon
  <2>6. k + 1 = i
    <3>1. ~(k + 1 < i)
      <4> SUFFICES ASSUME k + 1 < i PROVE FALSE
        OBVIOUS
      <4>1. index[k + 1].id < index[i].id
        BY <1>5, <2>4
      <4> QED
        BY <4>1, <2>1, <2>4, <2>5, <1>4
    <3> QED
      BY <3>1, <2>4, <1>4
  <2>7. ReadSeries(file, id) = DecodeSeriesAt(file, index[i].offset, index[i].numPoints)
    BY <1>6, <2>1, <2>4, <2>6, <1>4
  <2>8. m[id] \in Seq(Points) /\ m[id] # <<>>
    BY <1>8 DEF FullIds, SeriesMap
  <2>9. LeadsTo(data, index[i], m[id]) /\ index[i] \in Entries
    BY <1>4, <1>5, <2>1
  <2>10. DecodeSeriesAt(SegmentCells(data, index, lo, hi), index[i].offset, index[i].numPoints) = m[id]
    BY <1>2, <2>8, <2>9, DecodeAt
  <2> QED
    BY <1>1, <1>8, <2>7, <2>10 DEF file
<1>9. CASE id \notin FullIds(m)
  <2>1. ASSUME k < n PROVE index[k + 1].id # id
    <3>1. k + 1 \in 1 .. n
      BY <2>1, <1>4, <1>7
    <3> QED
      BY <3>1, <1>5, <1>9
  <2>2. ReadSeries(file, id) = <<>>
    BY <1>4, <1>6, <1>7, <2>1
  <2> QED
    BY <1>9, <2>2 DEF file
<1> QED
  BY <1>8, <1>9

(* Reader.ReadAll returns what Writer.Write was given, without the series  *)
(* that have no points.                                                    *)
LEMMA SegmentReadAll ==
    ASSUME NEW m, SeriesMap(m), NEW lo \in Times, NEW hi \in Times
    PROVE  ReadAll(WriteSegment(m, lo, hi)) = [id \in FullIds(m) |-> m[id]]
<1>1. PICK data, index :
         Written(m, data, index) /\ WriteSegment(m, lo, hi) = SegmentCells(data, index, lo, hi)
  BY WriterWrites
<1> DEFINE file == WriteSegment(m, lo, hi)
<1>2. data \in Seq(Int) /\ index \in Seq(Entries)
  BY <1>1 DEF Written
<1>3. ReadIndex(file) = index
  BY <1>1, <1>2, SegmentPlaces
<1>4. {e.id : e \in ToSet(index)} = FullIds(m)
  <2>1. ToSet(index) = {index[i] : i \in 1 .. Len(index)}
    BY <1>2 DEF ToSet
  <2>2. {index[i].id : i \in 1 .. Len(index)} = FullIds(m)
    BY <1>1 DEF Written
  <2> QED
    BY <2>1, <2>2
<1>5. ReadAll(file) = [id \in FullIds(m) |-> ReadSeries(file, id)]
  BY <1>3, <1>4 DEF ReadAll
<1>6. ASSUME NEW id \in FullIds(m) PROVE ReadSeries(file, id) = m[id]
  <2>1. id \in Nat
    BY DEF FullIds, SeriesMap
  <2> QED
    BY <2>1, SegmentReads
<1> HIDE DEF file
<1>7. ReadAll(file) = [id \in FullIds(m) |-> m[id]]
  BY <1>5, <1>6
<1> QED
  BY <1>7 DEF file
-----------------------------------------------------------------------------
(* The image of a finite set under a function is finite.                   *)
LEMMA ImageFinite ==
    ASSUME NEW S, IsFiniteSet(S), NEW f, DOMAIN f = S
    PROVE  IsFiniteSet({f[x] : x \in S})
<1> DEFINE T == {f[x] : x \in S}
           g == [x \in S |-> f[x]]
<1>1. g \in Surjection(S, T)
  <2>1. g \in [S -> T]
    OBVIOUS
  <2>2. \A y \in T : \E x \in S : g[x] = y
    OBVIOUS
  <2> QED
    BY <2>1, <2>2 DEF Surjection
<1> HIDE DEF T, g
<1>2. IsFiniteSet(T)
  BY <1>1, FS_Surjection
<1> QED
  BY <1>2 DEF T

(* A finite set of integers has a least and a greatest element.            *)
LEMMA LeastInt ==
    ASSUME NEW S \in SUBSET Int, S # {}, IsFiniteSet(S)
    PROVE  \E x \in S : \A y \in S : x <= y
<1> DEFINE Below(x) == {y \in S : y < x}
           C == {Cardinality(Below(x)) : x \in S}
<1>1. \A x \in S : IsFiniteSet(Below(x)) /\ Cardinality(Below(x)) \in Nat
  <2> SUFFICES ASSUME NEW x \in S PROVE IsFiniteSet(Below(x)) /\ Cardinality(Below(x)) \in Nat
    OBVIOUS
  <2>1. Below(x) \in SUBSET S
    OBVIOUS
  <2> HIDE DEF Below
  <2> QED
    BY <2>1, FS_Subset, FS_CardinalityType
<1>2. C \in SUBSET Nat /\ C # {}
  <2> HIDE DEF Below
  <2> QED
    BY <1>1
<1>3. PICK c \in C : \A d \in C : c <= d
  <2> HIDE DEF C
  <2> QED
    BY <1>2, Least
<1>4. PICK x \in S : c = Cardinality(Below(x))
  <2> HIDE DEF Below
  <2> QED
    BY <1>3
<1>5. ASSUME NEW y \in S, y < x PROVE FALSE
  <2>1. Below(y) \in SUBSET Below(x) /\ y \in Below(x) /\ y \notin Below(y)
    <3>1. x \in Int /\ y \in Int /\ \A z \in S : z \in Int
      OBVIOUS
    <3>2. \A z \in S : z < y => z < x
      BY <1>5, <3>1
    <3>3. y < x /\ ~(y < y)
      BY <1>5, <3>1
    <3> QED
      BY <3>2, <3>3
  <2>2. Cardinality(Below(y)) \in C
    OBVIOUS
  <2> HIDE DEF Below, C
  <2>3. Cardinality(Below(y)) <= Cardinality(Below(x)) /\ Cardinality(Below(y)) # Cardinality(Below(x))
    BY <1>1, <2>1, FS_Subset
  <2>4. Cardinality(Below(x)) <= Cardinality(Below(y))
    BY <1>3, <1>4, <2>2
  <2> QED
    BY <1>1, <2>3, <2>4
<1>6. \A y \in S : x <= y
  BY <1>5
<1> QED
  BY <1>6

(* A nonempty finite set of integers has a greatest element.               *)
LEMMA GreatestInt ==
    ASSUME NEW S \in SUBSET Int, S # {}, IsFiniteSet(S)
    PROVE  \E x \in S : \A y \in S : y <= x
<1> DEFINE f == [x \in S |-> -x]
           N == {f[x] : x \in S}
<1>1. IsFiniteSet(N)
  <2>1. DOMAIN f = S
    OBVIOUS
  <2> HIDE DEF f
  <2> QED
    BY <2>1, ImageFinite
<1>2. N \in SUBSET Int /\ N # {}
  <2>1. \A x \in S : f[x] \in Int
    OBVIOUS
  <2> HIDE DEF f
  <2> QED
    BY <2>1
<1>3. PICK z \in N : \A y \in N : z <= y
  <2> HIDE DEF N
  <2> QED
    BY <1>1, <1>2, LeastInt
<1>4. PICK x \in S : z = -x
  OBVIOUS
<1>5. ASSUME NEW y \in S PROVE y <= x
  <2>1. -y \in N
    OBVIOUS
  <2>2. z <= -y
    BY <1>3, <2>1
  <2> QED
    BY <1>4, <2>2
<1> QED
  BY <1>5

(* The least and the greatest of a finite set of integers.                 *)
LEMMA MinMaxOf ==
    ASSUME NEW S \in SUBSET Int, S # {}, IsFiniteSet(S)
    PROVE  /\ MinOf(S) \in S /\ \A y \in S : MinOf(S) <= y
           /\ MaxOf(S) \in S /\ \A y \in S : y <= MaxOf(S)
BY LeastInt, GreatestInt DEF MinOf, MaxOf
-----------------------------------------------------------------------------
(* A slice of a series: its points in the order of their timestamps, none  *)
(* of them twice.                                                          *)
Injective(s) == \A i, k \in 1 .. Len(s) : s[i] = s[k] => i = k
Slices == {s \in Seq(Points) : Sorted(s) /\ Injective(s)}

(* Neighbours in order: all in order.                                      *)
LEMMA SortedAll ==
    ASSUME NEW s \in Seq(Points), Sorted(s)
    PROVE  \A i, k \in 1 .. Len(s) : i <= k => s[i].t <= s[k].t
<1>1. Len(s) \in Nat /\ \A i \in 1 .. Len(s) : s[i].t \in Int
  BY PointsOf
<1> DEFINE n == Len(s)
           T == {d \in 0 .. n : \A i \in 1 .. n : i + d \in 1 .. n => s[i].t <= s[i + d].t}
<1>2. \A i \in 1 .. n - 1 : s[i].t <= s[i + 1].t
  BY DEF Sorted
<1> HIDE DEF n
<1>3. 0 \in T
  <2>1. ASSUME NEW i \in 1 .. n PROVE s[i].t <= s[i + 0].t
    <3>1. i + 0 = i
      BY <1>1 DEF n
    <3> QED
      BY <1>1, <3>1 DEF n
  <2> QED
    BY <2>1, <1>1 DEF n
<1>4. ASSUME NEW d \in 1 .. n, d - 1 \in T PROVE d \in T
  <2>1. ASSUME NEW i \in 1 .. n, i + d \in 1 .. n PROVE s[i].t <= s[i + d].t
    <3>1. /\ i + (d - 1) \in 1 .. n /\ i + (d - 1) \in 1 .. n - 1
          /\ (i + (d - 1)) + 1 = i + d
      BY <2>1, <1>1 DEF n
    <3>2. s[i].t <= s[i + (d - 1)].t
      BY <1>4, <3>1
    <3>3. s[i + (d - 1)].t <= s[(i + (d - 1)) + 1].t
      BY <1>2, <3>1
    <3>4. s[i].t \in Int /\ s[i + (d - 1)].t \in Int /\ s[i + d].t \in Int
      BY <1>1, <2>1, <3>1 DEF n
    <3> QED
      BY <3>1, <3>2, <3>3, <3>4
  <2>2. d \in 0 .. n
    OBVIOUS
  <2> QED
    BY <2>1, <2>2
<1>5. \A d \in 0 .. n : d \in T
  <2> HIDE DEF T
  <2>1. n \in Nat
    BY <1>1 DEF n
  <2>2. \A d \in 1 .. n : d - 1 \in T => d \in T
    BY <1>4
  <2> QED
    BY <1>3, <2>1, <2>2, UpTo, Zenon
<1>6. ASSUME NEW i \in 1 .. n, NEW k \in 1 .. n, i <= k PROVE s[i].t <= s[k].t
  <2>1. k - i \in 0 .. n /\ i + (k - i) = k
    BY <1>6, <1>1 DEF n
  <2>2. k - i \in T
    BY <2>1, <1>5
  <2> QED
    BY <2>1, <2>2
<1> QED
  BY <1>6 DEF n

(* sort.Slice of different points.                                         *)
LEMMA SortSliceSorts ==
    ASSUME NEW s \in Seq(Points), NEW r \in SortSlice(s)
    PROVE  r \in Slices /\ ToSet(r) = ToSet(s)
<1> DEFINE S == ToSet(s)
           n == Cardinality(S)
<1>1. S \subseteq Points /\ S = {s[i] : i \in 1 .. Len(s)} /\ Len(s) \in Nat /\ DOMAIN s = 1 .. Len(s)
  BY PointsOf DEF ToSet
<1>2. IsFiniteSet(S)
  <2>1. IsFiniteSet(1 .. Len(s))
    BY <1>1, FS_Interval
  <2> HIDE DEF S
  <2> QED
    BY <1>1, <2>1, ImageFinite
<1>3. /\ r \in [1 .. n -> S] /\ \A i, k \in 1 .. n : i # k => r[i] # r[k]
      /\ Sorted(r)
  BY DEF SortSlice, SetToSeqs
<1> HIDE DEF S
<1>4. n \in Nat
  BY <1>2, FS_CardinalityType
<1> HIDE DEF n
<1>5. r \in Seq(Points) /\ Len(r) = n /\ DOMAIN r = 1 .. n
  <2>1. r \in [1 .. n -> Points]
    BY <1>1, <1>3
  <2> QED
    BY <1>4, <2>1
<1>6. r \in Slices
  BY <1>3, <1>5 DEF Slices, Injective
<1>7. r \in Injection(1 .. n, S)
  BY <1>3 DEF Injection, IsInjective
<1>8. r \in Surjection(1 .. n, S)
  <2>1. Cardinality(1 .. n) = n
    <3>1. n \in Int /\ 1 \in Int
      BY <1>4
    <3>2. Cardinality(1 .. n) = IF 1 > n THEN 0 ELSE n - 1 + 1
      BY <3>1, FS_Interval
    <3> QED
      BY <1>4, <3>2
  <2>2. Cardinality(1 .. n) = Cardinality(S)
    BY <2>1 DEF n
  <2> QED
    BY <1>2, <1>7, <2>2, FS_Injection
<1>9. ToSet(r) = S
  <2>1. \A x \in S : \E i \in 1 .. n : r[i] = x
    BY <1>8 DEF Surjection
  <2> QED
    BY <1>3, <1>5, <2>1 DEF ToSet
<1> QED
  BY <1>6, <1>9 DEF S
-----------------------------------------------------------------------------
(* The cells of two slices, one behind the other.                          *)
LEMMA ConcatPoints ==
    ASSUME NEW s \in Seq(Points), NEW r \in Seq(Points)
    PROVE  /\ s \o r \in Seq(Points) /\ Len(s \o r) = Len(s) + Len(r)
           /\ \A i \in 1 .. Len(s) + Len(r) : (s \o r)[i] = IF i <= Len(s) THEN s[i] ELSE r[i - Len(s)]
           /\ ToSet(s \o r) = ToSet(s) \cup ToSet(r)
<1> DEFINE sr == s \o r
<1>1. Len(s) \in Nat /\ Len(r) \in Nat /\ DOMAIN s = 1 .. Len(s) /\ DOMAIN r = 1 .. Len(r)
  BY PointsOf
<1>2. /\ sr \in Seq(Points) /\ Len(sr) = Len(s) + Len(r)
      /\ \A i \in 1 .. Len(s) + Len(r) : sr[i] = IF i <= Len(s) THEN s[i] ELSE r[i - Len(s)]
  BY ConcatProperties, Zenon
<1> HIDE DEF sr
<1>3. DOMAIN sr = 1 .. Len(s) + Len(r)
  BY <1>2, PointsOf
<1>4. ASSUME NEW x \in ToSet(sr) PROVE x \in ToSet(s) \cup ToSet(r)
  <2>1. PICK i \in 1 .. Len(s) + Len(r) : x = sr[i]
    BY <1>3 DEF ToSet
  <2>2. CASE i <= Len(s)
    <3>1. i \in 1 .. Len(s) /\ x = s[i]
      BY <1>1, <1>2, <2>1, <2>2
    <3> QED
      BY <1>1, <3>1 DEF ToSet
  <2>3. CASE ~(i <= Len(s))
    <3>1. i - Len(s) \in 1 .. Len(r)
      BY <1>1, <2>3
    <3> QED
      BY <1>1, <1>2, <2>1, <2>3, <3>1 DEF ToSet
  <2> QED
    BY <2>2, <2>3
<1>5. ASSUME NEW x \in ToSet(s) \cup ToSet(r) PROVE x \in ToSet(sr)
  <2>1. CASE x \in ToSet(s)
    <3>1. PICK i \in 1 .. Len(s) : x = s[i]
      BY <1>1, <2>1 DEF ToSet
    <3>2. i \in 1 .. Len(s) + Len(r) /\ i <= Len(s)
      BY <1>1
    <3> QED
      BY <1>2, <1>3, <3>1, <3>2 DEF ToSet
  <2>2. CASE x \in ToSet(r)
    <3>1. PICK i \in 1 .. Len(r) : x = r[i]
      BY <1>1, <2>2 DEF ToSet
    <3>2. /\ Len(s) + i \in 1 .. Len(s) + Len(r) /\ ~(Len(s) + i <= Len(s))
          /\ (Len(s) + i) - Len(s) = i
      BY <1>1
    <3>3. sr[Len(s) + i] = r[i]
      BY <1>2, <3>2
    <3> QED
      BY <1>3, <3>1, <3>2, <3>3 DEF ToSet
  <2> QED
    BY <2>1, <2>2
<1> QED
  BY <1>2, <1>4, <1>5 DEF sr

(* Slices with different points, the second not before the end of the      *)
(* first.                                                                  *)
LEMMA ConcatSlices ==
    ASSUME NEW s \in Slices, NEW r \in Slices, ToSet(s) \cap ToSet(r) = {},
           s # <<>> /\ r # <<>> => s[Len(s)].t <= r[1].t
    PROVE  s \o r \in Slices
<1> DEFINE sr == s \o r
           n == Len(s)
           k == Len(r)
<1>1. s \in Seq(Points) /\ r \in Seq(Points) /\ Sorted(s) /\ Sorted(r) /\ Injective(s) /\ Injective(r)
  BY DEF Slices
<1>2. n \in Nat /\ k \in Nat /\ DOMAIN s = 1 .. n /\ DOMAIN r = 1 .. k
  BY <1>1, PointsOf
<1>3. /\ sr \in Seq(Points) /\ Len(sr) = n + k
      /\ \A i \in 1 .. n + k : sr[i] = IF i <= n THEN s[i] ELSE r[i - n]
  BY <1>1, ConcatPoints
<1>4. (\A i \in 1 .. n - 1 : s[i].t <= s[i + 1].t) /\ (\A i \in 1 .. k - 1 : r[i].t <= r[i + 1].t)
  BY <1>1 DEF Sorted
<1>5. \A i \in 1 .. n, j \in 1 .. k : s[i] # r[j]
  BY <1>2 DEF ToSet
<1>6. /\ \A i, j \in 1 .. n : s[i] = s[j] => i = j
      /\ \A i, j \in 1 .. k : r[i] = r[j] => i = j
  BY <1>1 DEF Injective
<1>7. n > 0 /\ k > 0 => s[n].t <= r[1].t
  <2>1. n > 0 /\ k > 0 => s # <<>> /\ r # <<>>
    OBVIOUS
  <2> QED
    BY <2>1
<1> HIDE DEF sr, n, k
<1>8. ASSUME NEW i \in 1 .. (n + k) - 1 PROVE sr[i].t <= sr[i + 1].t
  <2>1. i \in 1 .. n + k /\ i + 1 \in 1 .. n + k
    BY <1>2
  <2>2. CASE i + 1 <= n
    <3>1. sr[i] = s[i] /\ sr[i + 1] = s[i + 1] /\ i \in 1 .. n - 1
      BY <1>2, <1>3, <2>1, <2>2
    <3> QED
      BY <1>4, <3>1
  <2>3. CASE i = n
    <3>1. sr[i] = s[n] /\ sr[i + 1] = r[1] /\ n > 0 /\ k > 0
      <4>1. i <= n /\ ~(i + 1 <= n) /\ (i + 1) - n = 1 /\ n > 0 /\ k > 0
        BY <1>2, <2>1, <2>3
      <4>2. sr[i] = s[i] /\ sr[i + 1] = r[(i + 1) - n]
        BY <1>3, <2>1, <4>1
      <4> QED
        BY <2>3, <4>1, <4>2
    <3> QED
      BY <1>7, <3>1
  <2>4. CASE i > n
    <3>1. ~(i <= n) /\ ~(i + 1 <= n) /\ i - n \in 1 .. k - 1 /\ (i + 1) - n = (i - n) + 1
      BY <1>2, <2>4
    <3>2. sr[i] = r[i - n] /\ sr[i + 1] = r[(i - n) + 1]
      BY <1>3, <2>1, <3>1
    <3> QED
      BY <1>4, <3>1, <3>2
  <2> QED
    BY <1>2, <2>1, <2>2, <2>3, <2>4
<1>9. ASSUME NEW i \in 1 .. n + k, NEW j \in 1 .. n + k, sr[i] = sr[j] PROVE i = j
  <2>1. CASE i <= n /\ j <= n
    BY <1>2, <1>3, <1>6, <1>9, <2>1
  <2>2. CASE ~(i <= n) /\ ~(j <= n)
    <3>1. i - n \in 1 .. k /\ j - n \in 1 .. k
      BY <1>2, <2>2
    <3>2. r[i - n] = r[j - n]
      BY <1>3, <1>9, <2>2
    <3>3. i - n = j - n
      BY <1>6, <3>1, <3>2
    <3> QED
      BY <1>2, <3>3
  <2>3. CASE i <= n /\ ~(j <= n)
    <3>1. i \in 1 .. n /\ j - n \in 1 .. k
      BY <1>2, <2>3
    <3>2. s[i] = r[j - n]
      BY <1>3, <1>9, <2>3
    <3> QED
      BY <1>5, <3>1, <3>2
  <2>4. CASE ~(i <= n) /\ j <= n
    <3>1. j \in 1 .. n /\ i - n \in 1 .. k
      BY <1>2, <2>4
    <3>2. s[j] = r[i - n]
      BY <1>3, <1>9, <2>4
    <3> QED
      BY <1>5, <3>1, <3>2
  <2> QED
    BY <2>1, <2>2, <2>3, <2>4
<1>10. Sorted(sr) /\ Injective(sr)
  BY <1>3, <1>8, <1>9 DEF Sorted, Injective
<1> QED
  BY <1>3, <1>10 DEF Slices, sr

(* Memtable.Insert keeps the slice of a series sorted.                     *)
LEMMA InsertSorts ==
    ASSUME NEW s \in Slices, NEW new \in Seq(Points), ToSet(s) \cap ToSet(new) = {},
           NEW points \in SortSlice(new),
           NEW all \in IF NeedSort(s, points) THEN SortSlice(s \o points) ELSE {s \o points}
    PROVE  all \in Slices /\ ToSet(all) = ToSet(s) \cup ToSet(new)
<1>1. points \in Slices /\ ToSet(points) = ToSet(new)
  BY SortSliceSorts
<1>2. s \in Seq(Points) /\ points \in Seq(Points)
  BY <1>1 DEF Slices
<1>3. s \o points \in Seq(Points) /\ ToSet(s \o points) = ToSet(s) \cup ToSet(new)
  BY <1>1, <1>2, ConcatPoints
<1>4. CASE NeedSort(s, points)
  <2>1. all \in SortSlice(s \o points)
    BY <1>4
  <2>2. all \in Slices /\ ToSet(all) = ToSet(s \o points)
    BY <1>3, <2>1, SortSliceSorts
  <2> QED
    BY <1>3, <2>2
<1>5. CASE ~NeedSort(s, points)
  <2>1. all = s \o points
    BY <1>5
  <2>2. ASSUME s # <<>>, points # <<>> PROVE s[Len(s)].t <= points[1].t
    <3>1. Len(s) \in Nat /\ Len(points) \in Nat /\ Len(s) # 0 /\ Len(points) # 0
      BY <1>2, <2>2
    <3>2. s[Len(s)].t \in Int /\ points[1].t \in Int
      <4>1. Len(s) \in 1 .. Len(s) /\ 1 \in 1 .. Len(points)
        BY <3>1
      <4> QED
        BY <1>2, <4>1, PointsOf
    <3>3. ~(points[1].t < s[Len(s)].t)
      BY <1>5, <2>2 DEF NeedSort, Last
    <3> QED
      BY <3>2, <3>3
  <2>3. s \o points \in Slices
    BY <1>1, <2>2, ConcatSlices
  <2> QED
    BY <1>3, <2>1, <2>3
<1> QED
  BY <1>4, <1>5

-----------------------------------------------------------------------------
(* What flush and compaction hand to the writer: slices of some ids, and   *)
(* bounds of their timestamps.                                             *)
Maps == UNION {[D -> Slices] : D \in SUBSET Ids}

Bounded(m, lo, hi) ==
    /\ FullIds(m) # {} /\ IsFiniteSet(FullIds(m))
    /\ \A id \in DOMAIN m : \A p \in ToSet(m[id]) : lo <= p.t /\ p.t <= hi

SegmentSet ==
    {Segment(x.m, x.lo, x.hi) : x \in {y \in [m : Maps, lo : Times, hi : Times] :
                                          Bounded(y.m, y.lo, y.hi)}}

(* What a map of series holds are slices.                                  *)
LEMMA MapSlices ==
    ASSUME NEW m \in Maps
    PROVE  DOMAIN m \subseteq Ids /\ \A id \in DOMAIN m : m[id] \in Slices /\ m[id] \in Seq(Points)
BY DEF Maps, Slices

(* A map of series is what the segment writer takes.                       *)
LEMMA MapSeries ==
    ASSUME NEW m \in Maps, IsFiniteSet(FullIds(m))
    PROVE  SeriesMap(m)
<1>1. DOMAIN m \in SUBSET Nat
  BY MapSlices, CatalogConstants
<1> QED
  BY <1>1, MapSlices DEF SeriesMap

(* A new segment holds what was written.                                   *)
LEMMA NewSegment ==
    ASSUME NEW m \in Maps, NEW lo \in Times, NEW hi \in Times, Bounded(m, lo, hi)
    PROVE  /\ Segment(m, lo, hi) \in SegmentSet
           /\ \A id \in Ids : ReadSeries(Segment(m, lo, hi).file, id) =
                                 IF id \in FullIds(m) THEN m[id] ELSE <<>>
<1>1. Segment(m, lo, hi) \in SegmentSet
  <2> DEFINE y == [m |-> m, lo |-> lo, hi |-> hi]
  <2>1. y \in [m : Maps, lo : Times, hi : Times] /\ Bounded(y.m, y.lo, y.hi)
    OBVIOUS
  <2>2. Segment(y.m, y.lo, y.hi) = Segment(m, lo, hi)
    OBVIOUS
  <2> HIDE DEF y
  <2> QED
    BY <2>1, <2>2 DEF SegmentSet
<1>2. SeriesMap(m)
  BY MapSeries DEF Bounded
<1>3. ASSUME NEW id \in Ids
      PROVE  ReadSeries(WriteSegment(m, lo, hi), id) = IF id \in FullIds(m) THEN m[id] ELSE <<>>
  <2>1. id \in Nat
    BY CatalogConstants
  <2> QED
    BY <1>2, <2>1, SegmentReads
<1>4. Segment(m, lo, hi).file = WriteSegment(m, lo, hi)
  BY DEF Segment
<1> QED
  BY <1>1, <1>3, <1>4

(* The slice without points.                                               *)
LEMMA NoPoints == <<>> \in Slices /\ ToSet(<<>>) = {}
<1>1. <<>> \in Seq(Points) /\ Sorted(<<>>) /\ Injective(<<>>)
  BY DEF Sorted, Injective
<1>2. ToSet(<<>>) = {}
  BY DEF ToSet
<1> QED
  BY <1>1, <1>2 DEF Slices

(* A listed segment, as the reader and compaction see it.                  *)
LEMMA SegmentFacts ==
    ASSUME NEW x \in SegmentSet
    PROVE  /\ x.lo \in Times /\ x.hi \in Times
           /\ \A id \in Ids :
                 /\ ReadSeries(x.file, id) \in Slices
                 /\ \A p \in ToSet(ReadSeries(x.file, id)) : x.lo <= p.t /\ p.t <= x.hi
           /\ DOMAIN ReadAll(x.file) \subseteq Ids /\ DOMAIN ReadAll(x.file) # {}
           /\ IsFiniteSet(DOMAIN ReadAll(x.file))
           /\ \A id \in Ids :
                 IF id \in DOMAIN ReadAll(x.file)
                   THEN ReadSeries(x.file, id) = ReadAll(x.file)[id] /\ ReadAll(x.file)[id] # <<>>
                   ELSE ReadSeries(x.file, id) = <<>>
<1>1. PICK y \in [m : Maps, lo : Times, hi : Times] :
         Bounded(y.m, y.lo, y.hi) /\ x = Segment(y.m, y.lo, y.hi)
  BY DEF SegmentSet
<1> DEFINE m == y.m
<1>2. m \in Maps /\ y.lo \in Times /\ y.hi \in Times
  OBVIOUS
<1> HIDE DEF m
<1>3. Bounded(m, y.lo, y.hi) /\ x = Segment(m, y.lo, y.hi)
  BY <1>1 DEF m
<1>4. x.lo = y.lo /\ x.hi = y.hi /\ x.file = WriteSegment(m, y.lo, y.hi)
  BY <1>3 DEF Segment
<1>5. \A id \in Ids : ReadSeries(x.file, id) = IF id \in FullIds(m) THEN m[id] ELSE <<>>
  BY <1>2, <1>3, NewSegment
<1>6. ReadAll(x.file) = [id \in FullIds(m) |-> m[id]]
  <2>1. SeriesMap(m)
    BY <1>2, <1>3, MapSeries DEF Bounded
  <2> QED
    BY <1>2, <1>4, <2>1, SegmentReadAll
<1>7. FullIds(m) \subseteq Ids /\ \A id \in FullIds(m) : m[id] \in Slices /\ m[id] # <<>> /\ id \in DOMAIN m
  BY <1>2, MapSlices DEF FullIds
<1>8. ASSUME NEW id \in Ids
      PROVE  /\ ReadSeries(x.file, id) \in Slices
             /\ \A p \in ToSet(ReadSeries(x.file, id)) : x.lo <= p.t /\ p.t <= x.hi
  <2>1. CASE id \in FullIds(m)
    BY <1>3, <1>4, <1>5, <1>7, <2>1 DEF Bounded
  <2>2. CASE id \notin FullIds(m)
    BY <1>5, <2>2, NoPoints
  <2> QED
    BY <2>1, <2>2
<1>9. DOMAIN ReadAll(x.file) = FullIds(m) /\ \A id \in FullIds(m) : ReadAll(x.file)[id] = m[id]
  BY <1>6
<1>10. FullIds(m) # {} /\ IsFiniteSet(FullIds(m))
  BY <1>3 DEF Bounded
<1> QED
  BY <1>2, <1>4, <1>5, <1>7, <1>8, <1>9, <1>10

(* Removing an element of a sequence.                                      *)
LEMMA Removed ==
    ASSUME NEW S, NEW s \in Seq(S), NEW i \in 1 .. Len(s)
    PROVE  /\ RemoveAt(s, i) \in Seq(S) /\ Len(RemoveAt(s, i)) = Len(s) - 1
           /\ \A j \in 1 .. Len(s) - 1 : RemoveAt(s, i)[j] = IF j < i THEN s[j] ELSE s[j + 1]
<1> DEFINE n == Len(s)
           a == SubSeq(s, 1, i - 1)
           z == SubSeq(s, i + 1, n)
           az == a \o z
<1>1. n \in Nat /\ \A j \in 1 .. n : s[j] \in S
  BY ElementOfSeq
<1>2. RemoveAt(s, i) = az
  BY DEF RemoveAt
<1> HIDE DEF n
<1>3. a \in Seq(S) /\ Len(a) = i - 1 /\ \A j \in 1 .. i - 1 : a[j] = s[j]
  <2>1. 1 \in Int /\ i - 1 \in Int /\ \A j \in 1 .. i - 1 : s[j] \in S
    BY <1>1 DEF n
  <2>2. /\ a \in Seq(S) /\ Len(a) = IF 1 <= i - 1 THEN (i - 1) - 1 + 1 ELSE 0
        /\ \A j \in 1 .. (i - 1) - 1 + 1 : a[j] = s[1 + j - 1]
    BY <2>1, SubSeqProperties
  <2> HIDE DEF a
  <2>3. (i - 1) - 1 + 1 = i - 1 /\ \A j \in 1 .. i - 1 : 1 + j - 1 = j
    BY <1>1 DEF n
  <2> QED
    BY <2>2, <2>3, <1>1 DEF n
<1>4. z \in Seq(S) /\ Len(z) = n - i /\ \A j \in 1 .. n - i : z[j] = s[i + j]
  <2>1. i + 1 \in Int /\ n \in Int /\ \A j \in i + 1 .. n : s[j] \in S
    BY <1>1 DEF n
  <2> DEFINE c == i + 1
  <2>2. c \in Int /\ \A j \in c .. n : s[j] \in S
    BY <2>1
  <2>3. c = i + 1 /\ z = SubSeq(s, c, n)
    OBVIOUS
  <2> HIDE DEF c, z
  <2>4. /\ SubSeq(s, c, n) \in Seq(S) /\ Len(SubSeq(s, c, n)) = IF c <= n THEN n - c + 1 ELSE 0
        /\ \A j \in 1 .. n - c + 1 : SubSeq(s, c, n)[j] = s[c + j - 1]
    BY <2>1, <2>2, SubSeqProperties
  <2>5. n - c + 1 = n - i /\ (\A j \in 1 .. n - i : c + j - 1 = i + j) /\ i <= n /\ i \in Int
    BY <1>1, <2>3 DEF n
  <2> QED
    BY <2>3, <2>4, <2>5, <1>1
<1> HIDE DEF a, z
<1>5. /\ az \in Seq(S) /\ Len(az) = Len(a) + Len(z)
      /\ \A j \in 1 .. Len(a) + Len(z) : az[j] = IF j <= Len(a) THEN a[j] ELSE z[j - Len(a)]
  <2>1. a \in Seq(S) /\ z \in Seq(S)
    BY <1>3, <1>4
  <2>2. /\ a \o z \in Seq(S) /\ Len(a \o z) = Len(a) + Len(z)
        /\ \A j \in 1 .. Len(a) + Len(z) : (a \o z)[j] = IF j <= Len(a) THEN a[j] ELSE z[j - Len(a)]
    BY <2>1, ConcatProperties, Zenon
  <2> QED
    BY <2>2
<1> HIDE DEF az
<1>6. Len(az) = n - 1 /\ Len(a) + Len(z) = n - 1
  BY <1>1, <1>3, <1>4, <1>5 DEF n
<1>7. ASSUME NEW j \in 1 .. n - 1 PROVE az[j] = IF j < i THEN s[j] ELSE s[j + 1]
  <2>1. CASE j < i
    <3>1. j <= Len(a) /\ j \in 1 .. i - 1
      BY <1>1, <1>3, <2>1 DEF n
    <3> QED
      BY <1>3, <1>5, <1>6, <2>1, <3>1
  <2>2. CASE ~(j < i)
    <3>1. ~(j <= Len(a)) /\ j - Len(a) \in 1 .. n - i /\ i + (j - Len(a)) = j + 1
      BY <1>1, <1>3, <2>2 DEF n
    <3>2. az[j] = z[j - Len(a)]
      BY <1>5, <1>6, <3>1
    <3> QED
      BY <1>4, <2>2, <3>1, <3>2
  <2> QED
    BY <2>1, <2>2
<1> QED
  BY <1>2, <1>5, <1>6, <1>7 DEF n
-----------------------------------------------------------------------------
(* The points that were inserted for id, and those of the listed files.    *)
InsertedOf(id) == {[t |-> p.t, v |-> p.v] : p \in {x \in inserted : x.id = id}}
FilePoints(id) == [i \in 1 .. Len(segs) |-> ToSet(ReadSeries(segs[i].file, id))]

(* The sets A, F and G[i] are disjoint parts of the set P.                 *)
Partition(A, F, G, P) ==
    /\ A \cup F \cup UNION {G[i] : i \in DOMAIN G} = P
    /\ A \cap F = {}
    /\ \A i \in DOMAIN G : G[i] \cap (A \cup F) = {}
    /\ \A i, k \in DOMAIN G : i # k => G[i] \cap G[k] = {}

(* Every inserted point is in exactly one place.                           *)
Placed(id) ==
    Partition(ToSet(active[id]), ToSet(frozen[id]), FilePoints(id), InsertedOf(id))

HistoryInv ==
    /\ inserted \in SUBSET [id : Ids, t : Times, v : 1 .. MaxPoints]
    /\ IsFiniteSet(inserted)
    /\ \A p, q \in inserted : p.v = q.v => p = q
    /\ \A p \in inserted : p.v <= Cardinality(inserted)

PointsInv ==
    /\ HistoryInv
    /\ active \in [Ids -> Slices] /\ frozen \in [Ids -> Slices]
    /\ segs \in Seq(SegmentSet)
    /\ \A id \in Ids : Placed(id)

(* The empty memtable.                                                     *)
LEMMA EmptySlices == Empty \in [Ids -> Slices] /\ \A id \in Ids : ToSet(Empty[id]) = {}
BY NoPoints DEF Empty

(* The listed segments, one by one.                                        *)
LEMMA SegmentsOf ==
    ASSUME segs \in Seq(SegmentSet)
    PROVE  /\ Len(segs) \in Nat /\ DOMAIN segs = 1 .. Len(segs)
           /\ \A i \in 1 .. Len(segs) : segs[i] \in SegmentSet
BY ElementOfSeq

(* At the start every point inserted, none, is in its place.               *)
LEMMA PointsInit ==
    ASSUME QueryInit
    PROVE  PointsInv
<1>1. active = Empty /\ frozen = Empty /\ segs = <<>> /\ inserted = {}
  BY DEF QueryInit
<1>2. HistoryInv
  BY <1>1, FS_EmptySet DEF HistoryInv
<1>3. segs \in Seq(SegmentSet) /\ Len(segs) = 0
  BY <1>1
<1>4. ASSUME NEW id \in Ids PROVE Placed(id)
  <2>1. ToSet(active[id]) = {} /\ ToSet(frozen[id]) = {}
    BY <1>1, EmptySlices
  <2>2. InsertedOf(id) = {}
    BY <1>1 DEF InsertedOf
  <2>3. DOMAIN FilePoints(id) = {}
    BY <1>3 DEF FilePoints
  <2> QED
    BY <2>1, <2>2, <2>3 DEF Placed, Partition
<1> QED
  BY <1>1, <1>2, <1>3, <1>4, EmptySlices DEF PointsInv

(* Steps that touch no point keep the places.                              *)
LEMMA PointsUnchanged ==
    ASSUME PointsInv, UNCHANGED pointVars
    PROVE  PointsInv'
<1>1. active' = active /\ frozen' = frozen /\ segs' = segs /\ inserted' = inserted
  BY DEF pointVars
<1>2. HistoryInv'
  BY <1>1 DEF PointsInv, HistoryInv
<1>3. ASSUME NEW id \in Ids PROVE Placed(id)'
  <2>1. InsertedOf(id)' = InsertedOf(id) /\ FilePoints(id)' = FilePoints(id)
    BY <1>1 DEF FilePoints, InsertedOf
  <2>2. Placed(id)
    BY DEF PointsInv
  <2> QED
    BY <1>1, <2>1, <2>2 DEF Placed
<1> QED
  BY <1>1, <1>2, <1>3 DEF PointsInv

(* Freeze moves all slices.                                                *)
LEMMA PointsFreeze ==
    ASSUME PointsInv, Freeze
    PROVE  PointsInv'
<1>1. frozen = Empty /\ frozen' = active /\ active' = Empty /\ segs' = segs /\ inserted' = inserted
  BY DEF Freeze
<1>2. HistoryInv'
  BY <1>1 DEF PointsInv, HistoryInv
<1>3. ASSUME NEW id \in Ids PROVE Placed(id)'
  <2>1. Placed(id)
    BY DEF PointsInv
  <2>2. ToSet(Empty[id]) = {}
    BY EmptySlices
  <2>3. InsertedOf(id)' = InsertedOf(id) /\ FilePoints(id)' = FilePoints(id)
    BY <1>1 DEF InsertedOf, FilePoints
  <2>4. Partition(ToSet(active[id]), {}, FilePoints(id), InsertedOf(id))
    BY <1>1, <2>1, <2>2 DEF Placed
  <2>5. Partition({}, ToSet(active[id]), FilePoints(id), InsertedOf(id))
    BY <2>4 DEF Partition
  <2> QED
    BY <1>1, <2>2, <2>3, <2>5 DEF Placed
<1> QED
  BY <1>1, <1>2, <1>3, EmptySlices DEF PointsInv

(* Memtable.Insert adds points to the active slice of one id.              *)
LEMMA PointsInsert ==
    ASSUME PointsInv, CatalogInv, Insert
    PROVE  PointsInv'
<1>1. PICK id \in DOMAIN byID, k \in 1 .. MaxInsert :
        /\ Cardinality(inserted) + k <= MaxPoints
        /\ \E ts \in [1 .. k -> Times] :
              LET new == [i \in 1 .. k |-> [t |-> ts[i], v |-> Cardinality(inserted) + i]]
              IN  /\ \E points \in SortSlice(new) :
                        \E all \in IF NeedSort(active[id], points)
                                     THEN SortSlice(active[id] \o points)
                                     ELSE {active[id] \o points} :
                            active' = [active EXCEPT ![id] = all]
                  /\ inserted' = inserted \cup {[id |-> id, t |-> p.t, v |-> p.v] : p \in ToSet(new)}
  BY DEF Insert
<1>2. frozen' = frozen /\ segs' = segs
  BY DEF Insert
<1> DEFINE c == Cardinality(inserted)
<1>3. PICK ts \in [1 .. k -> Times] :
         LET new == [i \in 1 .. k |-> [t |-> ts[i], v |-> c + i]]
         IN  /\ \E points \in SortSlice(new) :
                   \E all \in IF NeedSort(active[id], points)
                                THEN SortSlice(active[id] \o points)
                                ELSE {active[id] \o points} :
                       active' = [active EXCEPT ![id] = all]
             /\ inserted' = inserted \cup {[id |-> id, t |-> p.t, v |-> p.v] : p \in ToSet(new)}
  BY <1>1
<1> DEFINE new == [i \in 1 .. k |-> [t |-> ts[i], v |-> c + i]]
           f == [i \in 1 .. k |-> [id |-> id, t |-> ts[i], v |-> c + i]]
           N == {f[i] : i \in 1 .. k}
<1>4. PICK points \in SortSlice(new) :
         \E all \in IF NeedSort(active[id], points)
                      THEN SortSlice(active[id] \o points)
                      ELSE {active[id] \o points} :
             active' = [active EXCEPT ![id] = all]
  BY <1>3
<1>5. PICK all \in IF NeedSort(active[id], points)
                     THEN SortSlice(active[id] \o points)
                     ELSE {active[id] \o points} :
             active' = [active EXCEPT ![id] = all]
  BY <1>4
<1>6. id \in Ids /\ k \in Nat /\ k >= 1
  BY QueryConstants DEF CatalogInv, Ids
<1>7. /\ inserted \in SUBSET [id : Ids, t : Times, v : 1 .. MaxPoints] /\ IsFiniteSet(inserted)
      /\ \A p, q \in inserted : p.v = q.v => p = q
      /\ \A p \in inserted : p.v <= c
      /\ c \in Nat
  BY FS_CardinalityType DEF PointsInv, HistoryInv
<1>8. c + k <= MaxPoints /\ MaxPoints \in Nat
  BY <1>1, QueryConstants
<1>9. inserted' = inserted \cup N
  <2>1. inserted' = inserted \cup {[id |-> id, t |-> p.t, v |-> p.v] : p \in ToSet(new)}
    BY <1>3
  <2>2. {[id |-> id, t |-> p.t, v |-> p.v] : p \in ToSet(new)} = N
    <3>1. ToSet(new) = {new[i] : i \in 1 .. k}
      BY DEF ToSet
    <3>2. \A i \in 1 .. k : f[i] = [id |-> id, t |-> new[i].t, v |-> new[i].v]
      OBVIOUS
    <3> HIDE DEF new, f
    <3>3. \A p \in ToSet(new) : [id |-> id, t |-> p.t, v |-> p.v] \in N
      BY <3>1, <3>2
    <3>4. ASSUME NEW q \in N PROVE \E p \in ToSet(new) : q = [id |-> id, t |-> p.t, v |-> p.v]
      <4>1. PICK i \in 1 .. k : q = f[i]
        OBVIOUS
      <4>2. new[i] \in ToSet(new) /\ q = [id |-> id, t |-> new[i].t, v |-> new[i].v]
        BY <3>1, <3>2, <4>1
      <4> QED
        BY <4>2
    <3> QED
      BY <3>3, <3>4
  <2> QED
    BY <2>1, <2>2
<1>10. \A i \in 1 .. k : /\ c + i \in 1 .. MaxPoints /\ c + i > c /\ ts[i] \in Times
  BY <1>6, <1>7, <1>8
<1>11. new \in Seq(Points) /\ Len(new) = k
  <2>1. \A i \in 1 .. k : [t |-> ts[i], v |-> c + i] \in Points
    BY <1>10 DEF Points
  <2>2. new \in [1 .. k -> Points]
    BY <2>1
  <2> HIDE DEF new
  <2> QED
    BY <1>6, <2>2
<1>12. ToSet(new) = {[t |-> ts[i], v |-> c + i] : i \in 1 .. k}
  BY DEF ToSet
<1> HIDE DEF new
<1>13. /\ \A i \in 1 .. k : /\ f[i].id = id /\ f[i].t = ts[i] /\ f[i].v = c + i
                            /\ f[i] \in [id : Ids, t : Times, v : 1 .. MaxPoints]
  BY <1>6, <1>10
<1>14. f \in [1 .. k -> N]
  OBVIOUS
<1> HIDE DEF f, c
<1>15. \A q \in N : /\ q.v > c /\ q.v <= c + k /\ q \in [id : Ids, t : Times, v : 1 .. MaxPoints]
                    /\ q.id = id /\ q.v \in Int
  BY <1>6, <1>7, <1>10, <1>13
<1>16. IsFiniteSet(N) /\ Cardinality(N) = k
  <2>1. f \in Bijection(1 .. k, N)
    <3>1. f \in [1 .. k -> N] /\ \A y \in N : \E i \in 1 .. k : f[i] = y
      BY <1>14, <1>13
    <3>2. ASSUME NEW i \in 1 .. k, NEW j \in 1 .. k, f[i] = f[j] PROVE i = j
      <4>1. c + i = c + j
        BY <1>13, <3>2
      <4> QED
        BY <1>7, <4>1
    <3> HIDE DEF N
    <3>3. f \in Injection(1 .. k, N)
      BY <3>1, <3>2 DEF Injection, IsInjective
    <3>4. f \in Surjection(1 .. k, N)
      BY <3>1 DEF Surjection
    <3> QED
      BY <3>3, <3>4 DEF Bijection
  <2>2. IsFiniteSet(1 .. k) /\ Cardinality(1 .. k) = k
    <3>1. 1 \in Int /\ k \in Int
      BY <1>6
    <3>2. IsFiniteSet(1 .. k) /\ Cardinality(1 .. k) = IF 1 > k THEN 0 ELSE k - 1 + 1
      BY <3>1, FS_Interval
    <3> QED
      BY <1>6, <3>2
  <2> HIDE DEF N
  <2>3. ExistsBijection(1 .. k, N)
    BY <2>1 DEF ExistsBijection
  <2> QED
    BY <2>2, <2>3, FS_Bijection
<1> HIDE DEF N
<1>17. IsFiniteSet(inserted') /\ Cardinality(inserted') = c + k
  <2>1. inserted \cap N = {}
    BY <1>7, <1>15
  <2>2. Cardinality(inserted \cap N) = 0
    BY <2>1, FS_EmptySet
  <2>3. /\ IsFiniteSet(inserted \cup N)
        /\ Cardinality(inserted \cup N) = Cardinality(inserted) + Cardinality(N) - Cardinality(inserted \cap N)
    BY <1>7, <1>16, FS_Union
  <2> QED
    BY <1>6, <1>7, <1>9, <1>16, <2>2, <2>3 DEF c
<1>18. HistoryInv'
  <2>1. inserted' \in SUBSET [id : Ids, t : Times, v : 1 .. MaxPoints]
    BY <1>7, <1>9, <1>15
  <2>2. \A p \in inserted' : p.v <= c + k /\ p.v \in Int
    <3>1. \A p \in inserted : p.v <= c /\ p.v \in Int
      BY <1>7
    <3> QED
      BY <1>6, <1>7, <1>9, <1>15, <3>1
  <2>3. ASSUME NEW p \in inserted', NEW q \in inserted', p.v = q.v PROVE p = q
    <3>1. CASE p \in inserted /\ q \in inserted
      BY <1>7, <2>3, <3>1
    <3>2. CASE p \in N /\ q \in N
      <4>1. PICK i \in 1 .. k, j \in 1 .. k : p = f[i] /\ q = f[j]
        BY <3>2 DEF N
      <4>2. c + i = c + j
        BY <4>1, <1>13, <2>3
      <4>3. i = j
        BY <1>7, <4>2
      <4> QED
        BY <4>1, <4>3
    <3>3. CASE p \in N /\ q \in inserted
      BY <1>7, <1>15, <2>3, <3>3
    <3>4. CASE p \in inserted /\ q \in N
      BY <1>7, <1>15, <2>3, <3>4
    <3> QED
      BY <1>9, <3>1, <3>2, <3>3, <3>4
  <2> QED
    BY <1>17, <2>1, <2>2, <2>3 DEF HistoryInv
<1>19. ASSUME NEW x \in Ids
       PROVE  InsertedOf(x)' = InsertedOf(x) \cup (IF x = id THEN ToSet(new) ELSE {})
  <2>1. \A p \in inserted' : p.id = x <=> (p \in inserted /\ p.id = x) \/ (p \in N /\ x = id)
    BY <1>9, <1>15
  <2>2. InsertedOf(x)' = {[t |-> p.t, v |-> p.v] : p \in {y \in inserted' : y.id = x}}
    BY DEF InsertedOf
  <2>3. {[t |-> p.t, v |-> p.v] : p \in N} = ToSet(new)
    <3>1. {[t |-> p.t, v |-> p.v] : p \in N} = {[t |-> f[i].t, v |-> f[i].v] : i \in 1 .. k}
      BY DEF N
    <3> QED
      BY <1>12, <1>13, <3>1
  <2>4. CASE x = id
    <3>1. {y \in inserted' : y.id = x} = {y \in inserted : y.id = x} \cup N
      BY <1>9, <1>15, <2>4
    <3>2. InsertedOf(x)' = InsertedOf(x) \cup {[t |-> p.t, v |-> p.v] : p \in N}
      BY <2>2, <3>1 DEF InsertedOf
    <3> QED
      BY <2>3, <2>4, <3>2
  <2>5. CASE x # id
    <3>1. {y \in inserted' : y.id = x} = {y \in inserted : y.id = x}
      BY <1>9, <1>15, <2>5
    <3> QED
      BY <2>2, <2>5, <3>1 DEF InsertedOf
  <2> QED
    BY <2>4, <2>5
<1>20. InsertedOf(id) \cap ToSet(new) = {}
  <2>1. ASSUME NEW p \in InsertedOf(id), p \in ToSet(new) PROVE FALSE
    <3>1. PICK q \in inserted : p = [t |-> q.t, v |-> q.v]
      BY DEF InsertedOf
    <3>2. PICK i \in 1 .. k : p = [t |-> ts[i], v |-> c + i]
      BY <2>1, <1>12
    <3>3. q.v = c + i /\ q.v <= c
      BY <1>7, <3>1, <3>2
    <3> QED
      BY <1>7, <3>3
  <2> QED
    BY <2>1
<1>21. active \in [Ids -> Slices] /\ frozen \in [Ids -> Slices] /\ segs \in Seq(SegmentSet)
       /\ \A x \in Ids : Placed(x)
  BY DEF PointsInv
<1>22. all \in Slices /\ ToSet(all) = ToSet(active[id]) \cup ToSet(new)
  <2>1. active[id] \in Slices
    BY <1>6, <1>21
  <2>2. ToSet(active[id]) \cap ToSet(new) = {}
    BY <1>6, <1>20, <1>21 DEF Placed, Partition
  <2>3. /\ points \in SortSlice(new)
        /\ all \in IF NeedSort(active[id], points)
                     THEN SortSlice(active[id] \o points)
                     ELSE {active[id] \o points}
    OBVIOUS
  <2> DEFINE s == active[id]
  <2> HIDE DEF s
  <2>4. /\ s \in Slices /\ ToSet(s) \cap ToSet(new) = {}
        /\ all \in IF NeedSort(s, points) THEN SortSlice(s \o points) ELSE {s \o points}
    BY <2>1, <2>2, <2>3 DEF s
  <2>5. all \in Slices /\ ToSet(all) = ToSet(s) \cup ToSet(new)
    BY <1>11, <2>3, <2>4, InsertSorts
  <2> QED
    BY <2>5 DEF s
<1>23. active' \in [Ids -> Slices]
  BY <1>5, <1>6, <1>21, <1>22
<1>24. ASSUME NEW x \in Ids PROVE Placed(x)'
  <2>1. Placed(x)
    BY <1>21
  <2>2. FilePoints(x)' = FilePoints(x)
    BY <1>2 DEF FilePoints
  <2>3. CASE x = id
    <3>1. active'[x] = all
      BY <1>5, <1>6, <1>21, <2>3
    <3>2. ToSet(active'[x]) = ToSet(active[x]) \cup ToSet(new)
      BY <1>22, <2>3, <3>1
    <3>3. InsertedOf(x)' = InsertedOf(x) \cup ToSet(new) /\ InsertedOf(x) \cap ToSet(new) = {}
      BY <1>19, <1>20, <2>3
    <3>4. \A A, F, G, P, N1 : Partition(A, F, G, P) /\ P \cap N1 = {} => Partition(A \cup N1, F, G, P \cup N1)
      BY DEF Partition
    <3> DEFINE A == ToSet(active[x])
               F == ToSet(frozen[x])
               G == FilePoints(x)
               P == InsertedOf(x)
    <3>6. Partition(A, F, G, P) /\ P \cap ToSet(new) = {}
      BY <2>1, <3>3 DEF Placed
    <3> HIDE DEF A, F, G, P
    <3>7. Partition(A \cup ToSet(new), F, G, P \cup ToSet(new))
      BY <3>4, <3>6, Zenon
    <3>5. Partition(ToSet(active'[x]), ToSet(frozen[x]), FilePoints(x), InsertedOf(x)')
      BY <3>2, <3>3, <3>7 DEF A, F, G, P
    <3> QED
      BY <1>2, <2>2, <3>5 DEF Placed
  <2>4. CASE x # id
    <3>1. active'[x] = active[x]
      BY <1>5, <1>21, <2>4
    <3>2. InsertedOf(x)' = InsertedOf(x)
      BY <1>19, <2>4
    <3> QED
      BY <1>2, <2>1, <2>2, <3>1, <3>2 DEF Placed
  <2> QED
    BY <2>3, <2>4
<1> QED
  BY <1>2, <1>18, <1>21, <1>23, <1>24 DEF PointsInv
-----------------------------------------------------------------------------
(* The points of a series are finitely many.                               *)
LEMMA PointSetFinite ==
    ASSUME NEW s \in Seq(Points)
    PROVE  IsFiniteSet(ToSet(s)) /\ ToSet(s) \subseteq Points /\ ToSet(s) = {s[i] : i \in 1 .. Len(s)}
<1>1. DOMAIN s = 1 .. Len(s) /\ Len(s) \in Nat /\ \A i \in 1 .. Len(s) : s[i] \in Points
  BY PointsOf
<1>2. IsFiniteSet(1 .. Len(s))
  BY <1>1, FS_Interval
<1>3. IsFiniteSet({s[i] : i \in 1 .. Len(s)})
  BY <1>1, <1>2, ImageFinite
<1> QED
  BY <1>1, <1>3 DEF ToSet

(* Appending a segment.                                                    *)
LEMMA Appended ==
    ASSUME segs \in Seq(SegmentSet), NEW x \in SegmentSet
    PROVE  /\ Append(segs, x) \in Seq(SegmentSet) /\ Len(Append(segs, x)) = Len(segs) + 1
           /\ \A i \in 1 .. Len(segs) : Append(segs, x)[i] = segs[i]
           /\ Append(segs, x)[Len(segs) + 1] = x
BY AppendProperties

(* One part becomes the last of the sets G.                                *)
LEMMA PartitionFlushed ==
    ASSUME NEW A, NEW F, NEW G, NEW P, Partition(A, F, G, P),
           NEW n \in Nat, DOMAIN G = 1 .. n,
           NEW H, DOMAIN H = 1 .. n + 1, \A i \in 1 .. n : H[i] = G[i], H[n + 1] = F
    PROVE  Partition(A, {}, H, P)
<1>1. 1 .. n + 1 = (1 .. n) \cup {n + 1} /\ n + 1 \notin 1 .. n
  OBVIOUS
<1>2. /\ A \cup F \cup (UNION {G[i] : i \in 1 .. n}) = P
      /\ A \cap F = {}
      /\ \A i \in 1 .. n : G[i] \cap (A \cup F) = {}
      /\ \A i, k \in 1 .. n : i # k => G[i] \cap G[k] = {}
  BY DEF Partition
<1> DEFINE I == 1 .. n
<1> HIDE DEF I
<1>3. UNION {H[i] : i \in I \cup {n + 1}} = (UNION {G[i] : i \in I}) \cup F
  BY DEF I
<1>4. A \cup {} \cup (UNION {H[i] : i \in DOMAIN H}) = P
  BY <1>1, <1>2, <1>3 DEF I
<1>5. ASSUME NEW i \in DOMAIN H PROVE H[i] \cap (A \cup {}) = {}
  <2>1. CASE i = n + 1
    BY <1>2, <2>1
  <2>2. CASE i \in 1 .. n
    BY <1>2, <2>2
  <2> QED
    BY <1>1, <2>1, <2>2
<1>6. ASSUME NEW i \in DOMAIN H, NEW k \in DOMAIN H, i # k PROVE H[i] \cap H[k] = {}
  <2>1. CASE i = n + 1 /\ k \in 1 .. n
    BY <1>2, <2>1
  <2>2. CASE k = n + 1 /\ i \in 1 .. n
    BY <1>2, <2>2
  <2>3. CASE i \in 1 .. n /\ k \in 1 .. n
    BY <1>2, <1>6, <2>3
  <2> QED
    BY <1>1, <1>6, <2>1, <2>2, <2>3
<1> QED
  BY <1>4, <1>5, <1>6 DEF Partition

(* Flush writes the frozen slices to a new segment.                        *)
LEMMA PointsFlush ==
    ASSUME PointsInv, Flush
    PROVE  PointsInv'
<1> DEFINE full == FullIds(frozen)
           L == {frozen[id][1].t : id \in full}
           H == {Last(frozen[id]).t : id \in full}
           x == Segment(frozen, MinOf(L), MaxOf(H))
           n == Len(segs)
<1>1. /\ active \in [Ids -> Slices] /\ frozen \in [Ids -> Slices] /\ segs \in Seq(SegmentSet)
      /\ \A id \in Ids : Placed(id)
      /\ HistoryInv
  BY DEF PointsInv
<1>2. full = {id \in Ids : frozen[id] # <<>>}
  BY <1>1 DEF FullIds
<1>3. /\ full # {} /\ segs' = Append(segs, x)
      /\ frozen' = Empty /\ active' = active /\ inserted' = inserted
  BY <1>2 DEF Flush
<1>4. IsFiniteSet(full)
  <2> DEFINE f == [y \in inserted |-> y.id]
             I == {f[y] : y \in inserted}
  <2>1. IsFiniteSet(I)
    <3>1. DOMAIN f = inserted
      OBVIOUS
    <3> HIDE DEF f
    <3> QED
      BY <1>1, <3>1, ImageFinite DEF HistoryInv
  <2>2. ASSUME NEW id \in full PROVE id \in I
    <3>1. id \in Ids /\ frozen[id] # <<>> /\ frozen[id] \in Seq(Points)
      BY <1>1, <1>2 DEF Slices
    <3>2. 1 \in DOMAIN frozen[id]
      BY <3>1
    <3>3. frozen[id][1] \in InsertedOf(id)
      BY <1>1, <3>1, <3>2 DEF Placed, Partition, ToSet
    <3>4. PICK y \in inserted : y.id = id
      BY <3>3 DEF InsertedOf
    <3> QED
      BY <3>4
  <2> HIDE DEF I
  <2>3. full \in SUBSET I
    BY <2>2
  <2> QED
    BY <2>1, <2>3, FS_Subset
<1>5. ASSUME NEW id \in full
      PROVE  /\ id \in Ids /\ frozen[id] \in Slices /\ frozen[id] \in Seq(Points)
             /\ frozen[id][1].t \in Times /\ Last(frozen[id]).t \in Times
             /\ \A p \in ToSet(frozen[id]) : /\ frozen[id][1].t <= p.t /\ p.t <= Last(frozen[id]).t
                                             /\ p.t \in Int
  <2> DEFINE s == frozen[id]
             k == Len(s)
  <2>1. id \in Ids /\ s \in Slices /\ s \in Seq(Points) /\ Sorted(s) /\ s # <<>>
    BY <1>1, <1>2 DEF Slices
  <2> HIDE DEF s
  <2>2. k \in Nat /\ k >= 1 /\ DOMAIN s = 1 .. k
    BY <2>1
  <2>3. \A i \in 1 .. k : s[i].t \in Times /\ s[i].t \in Int
    BY <2>1, PointsOf
  <2>4. \A i, j \in 1 .. k : i <= j => s[i].t <= s[j].t
    BY <2>1, SortedAll
  <2>5. \A i \in 1 .. k : s[1].t <= s[i].t /\ s[i].t <= s[k].t
    BY <2>2, <2>4
  <2>6. Last(s) = s[k]
    BY DEF Last
  <2> HIDE DEF k
  <2>7. \A p \in ToSet(s) : \E i \in 1 .. k : p = s[i]
    BY <2>2 DEF ToSet
  <2>8. 1 \in 1 .. k /\ k \in 1 .. k
    BY <2>2
  <2>9. s[1].t \in Times /\ Last(s).t \in Times
    BY <2>3, <2>6, <2>8
  <2>10. \A p \in ToSet(s) : s[1].t <= p.t /\ p.t <= Last(s).t /\ p.t \in Int
    BY <2>3, <2>5, <2>6, <2>7
  <2> QED
    BY <2>1, <2>9, <2>10 DEF s
<1> HIDE DEF full
<1>6. /\ L \in SUBSET Times /\ L \in SUBSET Int /\ L # {} /\ IsFiniteSet(L)
      /\ H \in SUBSET Times /\ H \in SUBSET Int /\ H # {} /\ IsFiniteSet(H)
  <2> DEFINE f == [id \in full |-> frozen[id][1].t]
             g == [id \in full |-> Last(frozen[id]).t]
  <2>1. L = {f[id] : id \in full} /\ H = {g[id] : id \in full}
    OBVIOUS
  <2>2. DOMAIN f = full /\ DOMAIN g = full
    OBVIOUS
  <2>3. \A id \in full : f[id] \in Times /\ g[id] \in Times
    BY <1>5
  <2> HIDE DEF f, g, L, H
  <2>4. IsFiniteSet(L)
    BY <1>4, <2>1, <2>2, ImageFinite
  <2>5. IsFiniteSet(H)
    BY <1>4, <2>1, <2>2, ImageFinite
  <2> QED
    BY <1>3, <2>1, <2>3, <2>4, <2>5, QueryConstants
<1>7. /\ MinOf(L) \in L /\ \A y \in L : MinOf(L) <= y
      /\ MaxOf(H) \in H /\ \A y \in H : y <= MaxOf(H)
  <2> HIDE DEF L, H
  <2> QED
    BY <1>6, MinMaxOf
<1>8. Bounded(frozen, MinOf(L), MaxOf(H))
  <2>1. ASSUME NEW id \in DOMAIN frozen, NEW p \in ToSet(frozen[id])
        PROVE  MinOf(L) <= p.t /\ p.t <= MaxOf(H)
    <3>1. id \in full
      <4>1. frozen[id] # <<>>
        BY NoPoints
      <4> QED
        BY <4>1, <1>1, <1>2
    <3>2. frozen[id][1].t \in L /\ Last(frozen[id]).t \in H
      BY <3>1
    <3>3. frozen[id][1].t <= p.t /\ p.t <= Last(frozen[id]).t /\ p.t \in Int
      BY <1>5, <3>1
    <3> HIDE DEF L, H
    <3>4. MinOf(L) \in Int /\ MaxOf(H) \in Int /\ frozen[id][1].t \in Int /\ Last(frozen[id]).t \in Int
      BY <1>6, <1>7, <3>2
    <3> QED
      BY <1>7, <3>2, <3>3, <3>4
  <2> QED
    BY <1>3, <1>4, <2>1 DEF Bounded, full
<1>9. frozen \in Maps /\ MinOf(L) \in Times /\ MaxOf(H) \in Times
  <2>1. frozen \in Maps
    BY <1>1 DEF Maps
  <2> HIDE DEF L, H
  <2> QED
    BY <2>1, <1>6, <1>7
<1>10. /\ x \in SegmentSet
       /\ \A id \in Ids : ReadSeries(x.file, id) = frozen[id]
  <2>1. /\ x \in SegmentSet
        /\ \A id \in Ids : ReadSeries(x.file, id) = IF id \in FullIds(frozen) THEN frozen[id] ELSE <<>>
    <3> HIDE DEF L, H
    <3> QED
      BY <1>8, <1>9, NewSegment
  <2> HIDE DEF x
  <2>2. \A id \in Ids : id \notin FullIds(frozen) => frozen[id] = <<>>
    BY <1>1 DEF FullIds
  <2> QED
    BY <2>1, <2>2
<1> HIDE DEF x, L, H
<1>11. /\ segs' \in Seq(SegmentSet) /\ Len(segs') = n + 1
       /\ \A i \in 1 .. n : segs'[i] = segs[i]
       /\ segs'[n + 1] = x /\ n \in Nat
  BY <1>1, <1>3, <1>10, Appended, SegmentsOf
<1> HIDE DEF n
<1>12. HistoryInv'
  BY <1>1, <1>3 DEF HistoryInv
<1>13. ASSUME NEW id \in Ids PROVE Placed(id)'
  <2> DEFINE G == FilePoints(id)
             K == [i \in 1 .. Len(segs') |-> ToSet(ReadSeries(segs'[i].file, id))]
  <2>1. Partition(ToSet(active[id]), ToSet(frozen[id]), G, InsertedOf(id))
    BY <1>1 DEF Placed
  <2>2. InsertedOf(id)' = InsertedOf(id) /\ ToSet(frozen'[id]) = {} /\ active' = active
    BY <1>3, EmptySlices DEF InsertedOf
  <2>3. DOMAIN G = 1 .. n /\ \A i \in 1 .. n : G[i] = ToSet(ReadSeries(segs[i].file, id))
    BY DEF FilePoints, n
  <2>4. DOMAIN K = 1 .. n + 1 /\ \A i \in 1 .. n + 1 : K[i] = ToSet(ReadSeries(segs'[i].file, id))
    BY <1>11
  <2>5. K = FilePoints(id)'
    BY DEF FilePoints
  <2> HIDE DEF G, K
  <2>6. n + 1 \in 1 .. n + 1 /\ \A i \in 1 .. n : i \in 1 .. n + 1
    BY <1>11
  <2>7. \A i \in 1 .. n : K[i] = G[i]
    BY <1>11, <2>3, <2>4, <2>6
  <2>8. K[n + 1] = ToSet(frozen[id])
    BY <1>10, <1>11, <2>4, <2>6
  <2>9. Partition(ToSet(active[id]), {}, K, InsertedOf(id))
    BY <1>11, <2>1, <2>3, <2>4, <2>7, <2>8, PartitionFlushed
  <2> QED
    BY <2>2, <2>5, <2>9 DEF Placed
<1> QED
  BY <1>1, <1>3, <1>11, <1>12, <1>13, EmptySlices DEF PointsInv
-----------------------------------------------------------------------------
(* Where the segment of place j was before the segments i and k, i < k,    *)
(* were removed.                                                           *)
Before(j, i, k) == IF j < i THEN j ELSE IF j < k - 1 THEN j + 1 ELSE j + 2

(* Two segments out, their union in at the end: what is at each place.     *)
LEMMA Compacted ==
    ASSUME segs \in Seq(SegmentSet), NEW x \in SegmentSet,
           NEW i \in 1 .. Len(segs), NEW k \in 1 .. Len(segs), i < k
    PROVE  LET y == RemoveAt(RemoveAt(Append(segs, x), k), i)
               n == Len(segs)
           IN  /\ y \in Seq(SegmentSet) /\ Len(y) = n - 1
               /\ y[n - 1] = x
               /\ \A j \in 1 .. n - 2 : y[j] = segs[Before(j, i, k)]
<1> DEFINE n == Len(segs)
           u == Append(segs, x)
           w == RemoveAt(u, k)
           y == RemoveAt(w, i)
<1>1. /\ u \in Seq(SegmentSet) /\ Len(u) = n + 1
      /\ \A j \in 1 .. n : u[j] = segs[j]
      /\ u[n + 1] = x
  BY Appended
<1>2. n \in Nat
  BY SegmentsOf
<1> HIDE DEF u, n
<1>3. k \in 1 .. n + 1 /\ i \in 1 .. n /\ k \in 1 .. n
  BY <1>2 DEF n
<1>4. /\ w \in Seq(SegmentSet) /\ Len(w) = n
      /\ \A j \in 1 .. n : w[j] = IF j < k THEN u[j] ELSE u[j + 1]
  <2>1. /\ w \in Seq(SegmentSet) /\ Len(w) = Len(u) - 1
        /\ \A j \in 1 .. Len(u) - 1 : w[j] = IF j < k THEN u[j] ELSE u[j + 1]
    BY <1>1, <1>3, Removed
  <2>2. Len(u) - 1 = n
    BY <1>1, <1>2
  <2> QED
    BY <2>1, <2>2
<1> HIDE DEF w
<1>5. /\ y \in Seq(SegmentSet) /\ Len(y) = n - 1
      /\ \A j \in 1 .. n - 1 : y[j] = IF j < i THEN w[j] ELSE w[j + 1]
  <2>1. i \in 1 .. Len(w) /\ w \in Seq(SegmentSet)
    BY <1>3, <1>4
  <2>2. /\ y \in Seq(SegmentSet) /\ Len(y) = Len(w) - 1
        /\ \A j \in 1 .. Len(w) - 1 : y[j] = IF j < i THEN w[j] ELSE w[j + 1]
    BY <2>1, Removed
  <2> QED
    BY <1>4, <2>2
<1> HIDE DEF y
<1>6. y[n - 1] = x
  <2>1. n - 1 \in 1 .. n - 1 /\ ~(n - 1 < i) /\ (n - 1) + 1 = n /\ n \in 1 .. n /\ ~(n < k)
    BY <1>2, <1>3
  <2>2. y[n - 1] = w[n]
    BY <1>5, <2>1
  <2>3. w[n] = u[n + 1]
    BY <1>4, <2>1
  <2> QED
    BY <1>1, <2>2, <2>3
<1>7. ASSUME NEW j \in 1 .. n - 2 PROVE y[j] = segs[Before(j, i, k)]
  <2>1. j \in 1 .. n - 1 /\ j \in 1 .. n /\ j + 1 \in 1 .. n /\ j + 2 \in 1 .. n
    BY <1>2
  <2>2. CASE j < i
    <3>1. j < k
      BY <1>3, <2>2
    <3> QED
      BY <1>1, <1>4, <1>5, <2>1, <2>2, <3>1 DEF Before
  <2>3. CASE ~(j < i) /\ j < k - 1
    <3>1. j + 1 < k
      BY <1>3, <2>3
    <3> QED
      BY <1>1, <1>4, <1>5, <2>1, <2>3, <3>1 DEF Before
  <2>4. CASE ~(j < i) /\ ~(j < k - 1)
    <3>1. ~(j + 1 < k) /\ (j + 1) + 1 = j + 2
      BY <1>3, <2>4
    <3> QED
      BY <1>1, <1>4, <1>5, <2>1, <2>4, <3>1 DEF Before
  <2> QED
    BY <2>2, <2>3, <2>4
<1> QED
  BY <1>5, <1>6, <1>7 DEF y, w, u, n

(* H is G, of n sets, with the i-th and the k-th made one, the last.       *)
MadeOne(G, H, n, i, k) ==
    /\ n \in Nat /\ i \in 1 .. n /\ k \in 1 .. n /\ i < k
    /\ DOMAIN G = 1 .. n /\ DOMAIN H = 1 .. n - 1
    /\ H[n - 1] = G[i] \cup G[k]
    /\ \A j \in 1 .. n - 2 : H[j] = G[Before(j, i, k)]

(* Two sets of a partition become one.                                     *)
LEMMA PartitionCompacted ==
    ASSUME NEW A, NEW F, NEW G, NEW P, Partition(A, F, G, P),
           NEW n, NEW i, NEW k, NEW H, MadeOne(G, H, n, i, k)
    PROVE  Partition(A, F, H, P)
<1> SUFFICES ASSUME n \in Nat, i \in 1 .. n, k \in 1 .. n, i < k,
                    DOMAIN G = 1 .. n, DOMAIN H = 1 .. n - 1,
                    H[n - 1] = G[i] \cup G[k],
                    \A j \in 1 .. n - 2 : H[j] = G[Before(j, i, k)]
             PROVE  Partition(A, F, H, P)
  BY DEF MadeOne
<1>1. /\ A \cup F \cup (UNION {G[j] : j \in 1 .. n}) = P
      /\ A \cap F = {}
      /\ \A j \in 1 .. n : G[j] \cap (A \cup F) = {}
      /\ \A j, l \in 1 .. n : j # l => G[j] \cap G[l] = {}
  BY DEF Partition
<1>2. ASSUME NEW j \in 1 .. n - 2
      PROVE  Before(j, i, k) \in 1 .. n /\ Before(j, i, k) # i /\ Before(j, i, k) # k
  BY DEF Before
<1>3. ASSUME NEW j \in 1 .. n - 2, NEW l \in 1 .. n - 2, j # l
      PROVE  Before(j, i, k) # Before(l, i, k)
  BY <1>3 DEF Before
<1>4. ASSUME NEW l \in 1 .. n, l # i, l # k
      PROVE  \E j \in 1 .. n - 2 : Before(j, i, k) = l
  <2>1. CASE l < i
    <3>1. l \in 1 .. n - 2 /\ Before(l, i, k) = l
      BY <2>1 DEF Before
    <3> QED
      BY <3>1
  <2>2. CASE i < l /\ l < k
    <3>1. l - 1 \in 1 .. n - 2 /\ Before(l - 1, i, k) = l
      BY <2>2 DEF Before
    <3> QED
      BY <3>1
  <2>3. CASE k < l
    <3>1. l - 2 \in 1 .. n - 2 /\ Before(l - 2, i, k) = l
      BY <2>3 DEF Before
    <3> QED
      BY <3>1
  <2> QED
    BY <1>4, <2>1, <2>2, <2>3
<1>5. n - 1 \in 1 .. n - 1 /\ \A j \in 1 .. n - 1 : j = n - 1 \/ j \in 1 .. n - 2
  OBVIOUS
<1>6. \A j \in 1 .. n - 2 : j \in 1 .. n - 1
  OBVIOUS
<1>7. UNION {H[j] : j \in DOMAIN H} = UNION {G[j] : j \in 1 .. n}
  <2>1. ASSUME NEW j \in DOMAIN H, NEW p \in H[j] PROVE \E l \in 1 .. n : p \in G[l]
    <3>1. CASE j = n - 1
      BY <2>1, <3>1
    <3>2. CASE j \in 1 .. n - 2
      BY <2>1, <3>2, <1>2
    <3> QED
      BY <1>5, <3>1, <3>2
  <2>2. ASSUME NEW l \in 1 .. n, NEW p \in G[l] PROVE \E j \in DOMAIN H : p \in H[j]
    <3>1. CASE l = i \/ l = k
      BY <1>5, <3>1
    <3>2. CASE l # i /\ l # k
      <4>1. PICK j \in 1 .. n - 2 : Before(j, i, k) = l
        BY <1>4, <3>2
      <4>2. p \in H[j] /\ j \in DOMAIN H
        BY <1>6, <4>1
      <4> QED
        BY <4>2
    <3> QED
      BY <3>1, <3>2
  <2> QED
    BY <2>1, <2>2
<1>8. ASSUME NEW j \in DOMAIN H PROVE H[j] \cap (A \cup F) = {}
  <2>1. CASE j = n - 1
    BY <1>1, <2>1
  <2>2. CASE j \in 1 .. n - 2
    BY <1>1, <1>2, <2>2
  <2> QED
    BY <1>5, <2>1, <2>2
<1>9. ASSUME NEW j \in DOMAIN H, NEW l \in DOMAIN H, j # l PROVE H[j] \cap H[l] = {}
  <2>1. CASE j = n - 1 /\ l \in 1 .. n - 2
    BY <1>1, <1>2, <2>1
  <2>2. CASE l = n - 1 /\ j \in 1 .. n - 2
    BY <1>1, <1>2, <2>2
  <2>3. CASE j \in 1 .. n - 2 /\ l \in 1 .. n - 2
    <3>1. Before(j, i, k) # Before(l, i, k)
      BY <1>3, <1>9, <2>3
    <3> QED
      BY <1>1, <1>2, <2>3, <3>1
  <2> QED
    BY <1>5, <1>9, <2>1, <2>2, <2>3
<1>10. A \cup F \cup (UNION {H[j] : j \in DOMAIN H}) = P
  BY <1>1, <1>7
<1> QED
  BY <1>1, <1>8, <1>9, <1>10 DEF Partition

(* What Compact makes of two segments: slices with the points of both.     *)
LEMMA MergedMaps ==
    ASSUME NEW x \in SegmentSet, NEW y \in SegmentSet,
           NEW m \in Merged(ReadAll(x.file), ReadAll(y.file))
    PROVE  /\ m \in Maps /\ FullIds(m) # {} /\ IsFiniteSet(FullIds(m)) /\ DOMAIN m = FullIds(m)
           /\ \A id \in Ids : ToSet(IF id \in FullIds(m) THEN m[id] ELSE <<>>) =
                 ToSet(ReadSeries(x.file, id)) \cup ToSet(ReadSeries(y.file, id))
<1> DEFINE a == ReadAll(x.file)
           b == ReadAll(y.file)
           D == DOMAIN a \cup DOMAIN b
           A(id) == IF id \in DOMAIN a THEN a[id] ELSE <<>>
           B(id) == IF id \in DOMAIN b THEN b[id] ELSE <<>>
           X(id) == ReadSeries(x.file, id)
           Y(id) == ReadSeries(y.file, id)
           all == [id \in D |-> A(id) \o B(id)]
<1>1. /\ m \in [DOMAIN all -> UNION {SortSlice(all[id]) : id \in DOMAIN all}]
      /\ \A id \in DOMAIN all : m[id] \in SortSlice(all[id])
  BY DEF Merged
<1>2. DOMAIN all = D /\ \A id \in D : all[id] = A(id) \o B(id)
  OBVIOUS
<1>3. /\ D \subseteq Ids /\ D # {} /\ IsFiniteSet(D)
      /\ \A id \in Ids : X(id) \in Slices /\ Y(id) \in Slices
  BY SegmentFacts, FS_Union
<1>4. \A id \in Ids : A(id) = X(id) /\ B(id) = Y(id)
  BY SegmentFacts
<1>5. \A id \in D : X(id) # <<>> \/ Y(id) # <<>>
  BY SegmentFacts
<1>6. \A id \in Ids \ D : X(id) = <<>> /\ Y(id) = <<>>
  BY SegmentFacts
<1> HIDE DEF all, D, A, B, X, Y
<1>7. ASSUME NEW id \in D
      PROVE  m[id] \in Slices /\ ToSet(m[id]) = ToSet(X(id)) \cup ToSet(Y(id)) /\ m[id] # <<>>
  <2>1. id \in Ids /\ all[id] = X(id) \o Y(id)
    BY <1>2, <1>3, <1>4
  <2>2. X(id) \in Seq(Points) /\ Y(id) \in Seq(Points)
    BY <1>3, <2>1 DEF Slices
  <2>3. all[id] \in Seq(Points) /\ ToSet(all[id]) = ToSet(X(id)) \cup ToSet(Y(id))
    BY <2>1, <2>2, ConcatPoints
  <2>4. m[id] \in SortSlice(all[id])
    BY <1>1, <1>2
  <2>5. m[id] \in Slices /\ ToSet(m[id]) = ToSet(all[id])
    BY <2>3, <2>4, SortSliceSorts
  <2>6. ToSet(X(id)) # {} \/ ToSet(Y(id)) # {}
    <3>1. ASSUME NEW s \in Seq(Points), s # <<>> PROVE ToSet(s) # {}
      <4>1. 1 \in DOMAIN s
        BY <3>1
      <4> QED
        BY <4>1 DEF ToSet
    <3> QED
      BY <1>5, <2>2, <3>1
  <2>7. m[id] # <<>>
    BY <2>3, <2>5, <2>6, NoPoints
  <2> QED
    BY <2>3, <2>5, <2>7
<1>8. DOMAIN m = D
  BY <1>1, <1>2
<1>9. FullIds(m) = D
  BY <1>7, <1>8 DEF FullIds
<1>10. m \in Maps
  <2>1. m \in [D -> Slices]
    BY <1>1, <1>2, <1>7
  <2> QED
    BY <1>3, <2>1 DEF Maps
<1>11. ASSUME NEW id \in Ids
       PROVE  ToSet(IF id \in FullIds(m) THEN m[id] ELSE <<>>) = ToSet(X(id)) \cup ToSet(Y(id))
  <2>1. CASE id \in D
    BY <1>7, <1>9, <2>1
  <2>2. CASE id \notin D
    BY <1>6, <1>9, <2>2, NoPoints
  <2> QED
    BY <2>1, <2>2
<1> QED
  BY <1>3, <1>8, <1>9, <1>10, <1>11 DEF X, Y

(* The timestamps of what Compact writes have a least and a greatest.      *)
LEMMA MapTimes ==
    ASSUME NEW m \in Maps, IsFiniteSet(DOMAIN m), FullIds(m) # {}
    PROVE  LET ts == {p.t : p \in UNION {ToSet(m[id]) : id \in DOMAIN m}}
           IN  /\ MinOf(ts) \in Times /\ MaxOf(ts) \in Times
               /\ \A id \in DOMAIN m : \A p \in ToSet(m[id]) : MinOf(ts) <= p.t /\ p.t <= MaxOf(ts)
<1> DEFINE D == DOMAIN m
           f == [id \in D |-> ToSet(m[id])]
           C == {f[id] : id \in D}
           U == UNION C
           g == [p \in U |-> p.t]
           ts == {g[p] : p \in U}
<1>1. \A id \in D : m[id] \in Seq(Points)
  BY MapSlices
<1>2. IsFiniteSet(C)
  <2>1. DOMAIN f = D
    OBVIOUS
  <2> HIDE DEF f
  <2> QED
    BY <2>1, ImageFinite
<1>3. IsFiniteSet(U) /\ U \subseteq Points
  <2>1. \A c \in C : IsFiniteSet(c) /\ c \subseteq Points
    BY <1>1, PointSetFinite
  <2> HIDE DEF C
  <2> QED
    BY <1>2, <2>1, FS_UNION
<1>4. U # {}
  <2>1. PICK id \in D : m[id] # <<>>
    BY DEF FullIds
  <2>2. m[id][1] \in ToSet(m[id])
    <3>1. 1 \in DOMAIN m[id]
      BY <1>1, <2>1
    <3> QED
      BY <3>1 DEF ToSet
  <2> QED
    BY <2>2
<1>5. ts = {p.t : p \in UNION {ToSet(m[id]) : id \in D}}
  OBVIOUS
<1>6. \A id \in D : \A p \in ToSet(m[id]) : p.t \in ts
  <2>1. \A id \in D : \A p \in ToSet(m[id]) : p \in U
    OBVIOUS
  <2>2. \A p \in U : p.t \in ts
    OBVIOUS
  <2> QED
    BY <2>1, <2>2
<1>7. IsFiniteSet(ts)
  <2>1. DOMAIN g = U
    OBVIOUS
  <2> HIDE DEF g, U
  <2> QED
    BY <1>3, <2>1, ImageFinite
<1> HIDE DEF U
<1>8. ts # {} /\ ts \subseteq Times
  BY <1>3, <1>4 DEF Points
<1> HIDE DEF ts
<1>9. ts \in SUBSET Int
  BY <1>8, QueryConstants
<1>10. MinOf(ts) \in ts /\ MaxOf(ts) \in ts /\ \A y \in ts : MinOf(ts) <= y /\ y <= MaxOf(ts)
  BY <1>7, <1>8, <1>9, MinMaxOf
<1>11. MinOf(ts) \in Times /\ MaxOf(ts) \in Times
  BY <1>8, <1>10
<1>12. \A id \in DOMAIN m : \A p \in ToSet(m[id]) : MinOf(ts) <= p.t /\ p.t <= MaxOf(ts)
  BY <1>6, <1>10
<1> QED
  BY <1>5, <1>11, <1>12
-----------------------------------------------------------------------------
(* Compact replaces two segments by one with the points of both.           *)
LEMMA PointsCompact ==
    ASSUME PointsInv, Compact
    PROVE  PointsInv'
<1> DEFINE n == Len(segs)
<1>1. /\ active \in [Ids -> Slices] /\ frozen \in [Ids -> Slices] /\ segs \in Seq(SegmentSet)
      /\ \A id \in Ids : Placed(id)
      /\ HistoryInv
  BY DEF PointsInv
<1>2. /\ n \in Nat /\ DOMAIN segs = 1 .. n
      /\ \A i \in 1 .. n : segs[i] \in SegmentSet
  BY <1>1, SegmentsOf
<1>3. PICK i \in 1 .. n, k \in 1 .. n :
         /\ i < k
         /\ \E m \in Merged(ReadAll(segs[i].file), ReadAll(segs[k].file)) :
               LET ts == {p.t : p \in UNION {ToSet(m[id]) : id \in DOMAIN m}}
               IN  segs' = RemoveAt(RemoveAt(Append(segs, Segment(m, MinOf(ts), MaxOf(ts))), k), i)
  BY <1>2 DEF Compact
<1>4. PICK m \in Merged(ReadAll(segs[i].file), ReadAll(segs[k].file)) :
         LET ts == {p.t : p \in UNION {ToSet(m[id]) : id \in DOMAIN m}}
         IN  segs' = RemoveAt(RemoveAt(Append(segs, Segment(m, MinOf(ts), MaxOf(ts))), k), i)
  BY <1>3
<1>5. active' = active /\ frozen' = frozen /\ inserted' = inserted
  BY DEF Compact
<1> DEFINE ts == {p.t : p \in UNION {ToSet(m[id]) : id \in DOMAIN m}}
           lo == MinOf(ts)
           hi == MaxOf(ts)
           x == Segment(m, lo, hi)
           X(id) == ToSet(ReadSeries(segs[i].file, id)) \cup ToSet(ReadSeries(segs[k].file, id))
<1>6. segs' = RemoveAt(RemoveAt(Append(segs, x), k), i)
  BY <1>4
<1>7. /\ m \in Maps /\ FullIds(m) # {} /\ IsFiniteSet(FullIds(m)) /\ DOMAIN m = FullIds(m)
      /\ \A id \in Ids : ToSet(IF id \in FullIds(m) THEN m[id] ELSE <<>>) = X(id)
  <2>1. segs[i] \in SegmentSet /\ segs[k] \in SegmentSet
    BY <1>2
  <2> QED
    BY <2>1, MergedMaps
<1>8. lo \in Times /\ hi \in Times /\ Bounded(m, lo, hi)
  <2>1. /\ lo \in Times /\ hi \in Times
        /\ \A id \in DOMAIN m : \A p \in ToSet(m[id]) : lo <= p.t /\ p.t <= hi
    BY <1>7, MapTimes
  <2> HIDE DEF lo, hi
  <2> QED
    BY <2>1, <1>7 DEF Bounded
<1> HIDE DEF lo, hi, X
<1>9. /\ x \in SegmentSet
      /\ \A id \in Ids : ToSet(ReadSeries(x.file, id)) = X(id)
  <2>1. /\ x \in SegmentSet
        /\ \A id \in Ids : ReadSeries(x.file, id) = IF id \in FullIds(m) THEN m[id] ELSE <<>>
    BY <1>7, <1>8, NewSegment
  <2> HIDE DEF x
  <2> QED
    BY <2>1, <1>7
<1> HIDE DEF x
<1>10. /\ segs' \in Seq(SegmentSet) /\ Len(segs') = n - 1
       /\ segs'[n - 1] = x
       /\ \A j \in 1 .. n - 2 : segs'[j] = segs[Before(j, i, k)]
  <2> DEFINE y == RemoveAt(RemoveAt(Append(segs, x), k), i)
  <2>1. /\ y \in Seq(SegmentSet) /\ Len(y) = n - 1
        /\ y[n - 1] = x
        /\ \A j \in 1 .. n - 2 : y[j] = segs[Before(j, i, k)]
    BY <1>1, <1>3, <1>9, Compacted, Zenon
  <2>2. segs' = y
    BY <1>6
  <2> HIDE DEF y, n
  <2> QED
    BY <2>1, <2>2
<1> HIDE DEF n
<1>11. HistoryInv'
  BY <1>1, <1>5 DEF HistoryInv
<1>12. ASSUME NEW id \in Ids PROVE Placed(id)'
  <2> DEFINE G == FilePoints(id)
             H == [j \in 1 .. Len(segs') |-> ToSet(ReadSeries(segs'[j].file, id))]
  <2>1. Partition(ToSet(active[id]), ToSet(frozen[id]), G, InsertedOf(id))
    BY <1>1 DEF Placed
  <2>2. InsertedOf(id)' = InsertedOf(id)
    BY <1>5 DEF InsertedOf
  <2>3. DOMAIN G = 1 .. n /\ \A j \in 1 .. n : G[j] = ToSet(ReadSeries(segs[j].file, id))
    BY DEF FilePoints, n
  <2>4. DOMAIN H = 1 .. n - 1 /\ \A j \in 1 .. n - 1 : H[j] = ToSet(ReadSeries(segs'[j].file, id))
    BY <1>10
  <2>5. H = FilePoints(id)'
    BY DEF FilePoints
  <2> HIDE DEF G, H
  <2>6. H[n - 1] = G[i] \cup G[k]
    <3>1. n - 1 \in 1 .. n - 1
      BY <1>2, <1>3
    <3>2. H[n - 1] = ToSet(ReadSeries(x.file, id))
      BY <1>10, <2>4, <3>1
    <3>3. G[i] \cup G[k] = X(id)
      BY <1>3, <2>3 DEF X
    <3> QED
      BY <1>9, <3>2, <3>3
  <2>7. \A j \in 1 .. n - 2 : H[j] = G[Before(j, i, k)]
    <3>1. ASSUME NEW j \in 1 .. n - 2 PROVE H[j] = G[Before(j, i, k)]
      <4>1. j \in 1 .. n - 1 /\ Before(j, i, k) \in 1 .. n
        BY <1>2, <1>3 DEF Before
      <4> QED
        BY <1>10, <2>3, <2>4, <4>1
    <3> QED
      BY <3>1
  <2>8. Partition(ToSet(active[id]), ToSet(frozen[id]), H, InsertedOf(id))
    <3> DEFINE A == ToSet(active[id])
               F == ToSet(frozen[id])
               P == InsertedOf(id)
    <3>1. Partition(A, F, G, P)
      BY <2>1
    <3>2. MadeOne(G, H, n, i, k)
      <4>1. DOMAIN G = 1 .. n /\ DOMAIN H = 1 .. n - 1
        BY <2>3, <2>4
      <4> QED
        BY <1>2, <1>3, <2>6, <2>7, <4>1 DEF MadeOne
    <3> HIDE DEF A, F, P
    <3>3. Partition(A, F, H, P)
      BY <3>1, <3>2, PartitionCompacted, Zenon
    <3> QED
      BY <3>3 DEF A, F, P
  <2> QED
    BY <1>5, <2>2, <2>5, <2>8 DEF Placed
<1> QED
  BY <1>1, <1>5, <1>10, <1>11, <1>12 DEF PointsInv

(* Every inserted point is, in every reachable state, in exactly one of    *)
(* the active memtable, the frozen memtable and the listed files.          *)
THEOREM PointsPlaced == QuerySpec => []PointsInv
<1>1. QueryInit => PointsInv
  BY PointsInit
<1>2. PointsInv /\ CatalogInv /\ [QueryNext]_vars => PointsInv'
  <2> SUFFICES ASSUME PointsInv, CatalogInv, [QueryNext]_vars PROVE PointsInv'
    OBVIOUS
  <2>1. CASE RegisterName
    BY <2>1, PointsUnchanged DEF RegisterName
  <2>2. CASE Insert
    BY <2>2, PointsInsert
  <2>3. CASE Freeze
    BY <2>3, PointsFreeze
  <2>4. CASE Flush
    BY <2>4, PointsFlush
  <2>5. CASE Compact
    BY <2>5, PointsCompact
  <2>6. CASE UNCHANGED vars
    BY <2>6, PointsUnchanged DEF vars
  <2> QED
    BY <2>1, <2>2, <2>3, <2>4, <2>5, <2>6 DEF QueryNext
<1> QED
  BY <1>1, <1>2, CatalogInvariant, PTL DEF QuerySpec

(* The type invariant: the slices in memory and in the files hold points   *)
(* in the order of their timestamps.                                       *)
THEOREM QueryTyped == QuerySpec => []QueryTypeOK
<1>1. PointsInv /\ CatalogInv => QueryTypeOK
  <2> SUFFICES ASSUME PointsInv, CatalogInv PROVE QueryTypeOK
    OBVIOUS
  <2>1. /\ active \in [Ids -> Slices] /\ frozen \in [Ids -> Slices] /\ segs \in Seq(SegmentSet)
        /\ HistoryInv
    BY DEF PointsInv
  <2>2. DOMAIN byID \subseteq Ids /\ DOMAIN metricSeries \subseteq Metrics
    BY DEF CatalogInv, Ids, Metrics
  <2>3. \A s \in Slices : s \in Seq(Points) /\ Sorted(s)
    BY DEF Slices
  <2>4. active \in [Ids -> Seq(Points)] /\ frozen \in [Ids -> Seq(Points)]
    BY <2>1, <2>3
  <2>5. \A id \in Ids : Sorted(active[id]) /\ Sorted(frozen[id])
    BY <2>1, <2>3
  <2>6. ASSUME NEW i \in DOMAIN segs
        PROVE  /\ segs[i].lo \in Times /\ segs[i].hi \in Times
               /\ \A id \in Ids : /\ ReadSeries(segs[i].file, id) \in Seq(Points)
                                  /\ Sorted(ReadSeries(segs[i].file, id))
    <3>1. segs[i] \in SegmentSet
      BY <2>1, SegmentsOf
    <3> QED
      BY <2>3, <3>1, SegmentFacts
  <2> QED
    BY <2>1, <2>2, <2>4, <2>5, <2>6 DEF QueryTypeOK, HistoryInv
<1> QED
  BY <1>1, PointsPlaced, CatalogInvariant, PTL
-----------------------------------------------------------------------------
(* Appending a point that is not before the others.                        *)
LEMMA AppendSlice ==
    ASSUME NEW s \in Slices, NEW p \in Points, p \notin ToSet(s),
           \A x \in ToSet(s) : x.t <= p.t
    PROVE  /\ Append(s, p) \in Slices /\ Len(Append(s, p)) = Len(s) + 1
           /\ ToSet(Append(s, p)) = ToSet(s) \cup {p}
<1> DEFINE r == Append(s, p)
           n == Len(s)
<1>1. s \in Seq(Points) /\ Sorted(s) /\ Injective(s)
  BY DEF Slices
<1>2. n \in Nat /\ ToSet(s) = {s[i] : i \in 1 .. n}
  BY <1>1, PointSetFinite, PointsOf
<1>3. /\ r \in Seq(Points) /\ Len(r) = n + 1
      /\ \A i \in 1 .. n : r[i] = s[i]
      /\ r[n + 1] = p
  BY <1>1, AppendProperties
<1>4. (\A i \in 1 .. n - 1 : s[i].t <= s[i + 1].t) /\ (\A i, k \in 1 .. n : s[i] = s[k] => i = k)
  BY <1>1 DEF Sorted, Injective
<1>5. ToSet(r) = {r[i] : i \in 1 .. n + 1}
  BY <1>3, PointSetFinite
<1>6. \A i \in 1 .. n : s[i] # p /\ s[i].t <= p.t
  BY <1>2
<1> HIDE DEF r, n
<1>7. ToSet(r) = ToSet(s) \cup {p}
  <2>1. \A i \in 1 .. n + 1 : i \in 1 .. n \/ i = n + 1
    BY <1>2
  <2>2. n + 1 \in 1 .. n + 1 /\ \A i \in 1 .. n : i \in 1 .. n + 1
    BY <1>2
  <2> QED
    BY <1>2, <1>3, <1>5, <2>1, <2>2
<1>8. ASSUME NEW i \in 1 .. (n + 1) - 1 PROVE r[i].t <= r[i + 1].t
  <2>1. CASE i = n
    <3>1. i \in 1 .. n
      BY <1>2
    <3> QED
      BY <1>3, <1>6, <2>1, <3>1
  <2>2. CASE i < n
    <3>1. i \in 1 .. n /\ i + 1 \in 1 .. n /\ i \in 1 .. n - 1
      BY <1>2, <2>2
    <3> QED
      BY <1>3, <1>4, <3>1
  <2> QED
    BY <1>2, <2>1, <2>2
<1>9. ASSUME NEW i \in 1 .. n + 1, NEW k \in 1 .. n + 1, r[i] = r[k] PROVE i = k
  <2>1. (i \in 1 .. n \/ i = n + 1) /\ (k \in 1 .. n \/ k = n + 1)
    BY <1>2
  <2> QED
    BY <1>3, <1>4, <1>6, <1>9, <2>1
<1>10. Sorted(r) /\ Injective(r)
  BY <1>3, <1>8, <1>9 DEF Sorted, Injective
<1> QED
  BY <1>3, <1>7, <1>10 DEF Slices, r, n

(* A slice has as many points as elements; any sequence has no more.       *)
LEMMA SliceSize ==
    ASSUME NEW s \in Seq(Points)
    PROVE  /\ IsFiniteSet(ToSet(s)) /\ Cardinality(ToSet(s)) \in Nat
           /\ Cardinality(ToSet(s)) <= Len(s)
           /\ Injective(s) => Cardinality(ToSet(s)) = Len(s)
<1> DEFINE n == Len(s)
           S == ToSet(s)
<1>1. n \in Nat /\ S = {s[i] : i \in 1 .. n} /\ DOMAIN s = 1 .. n
  BY PointSetFinite, PointsOf
<1>2. s \in [1 .. n -> S]
  <2>1. s = [i \in 1 .. n |-> s[i]]
    BY <1>1
  <2> QED
    BY <1>1, <2>1
<1>3. IsFiniteSet(1 .. n) /\ Cardinality(1 .. n) = n
  <2>1. 1 \in Int /\ n \in Int
    BY <1>1
  <2>2. IsFiniteSet(1 .. n) /\ Cardinality(1 .. n) = IF 1 > n THEN 0 ELSE n - 1 + 1
    BY <2>1, FS_Interval
  <2> QED
    BY <1>1, <2>2
<1>4. s \in Surjection(1 .. n, S)
  BY <1>1, <1>2 DEF Surjection
<1> HIDE DEF n, S
<1>5. IsFiniteSet(S) /\ Cardinality(S) <= n
  BY <1>3, <1>4, FS_Surjection
<1>6. ASSUME Injective(s) PROVE Cardinality(S) = n
  <2>1. s \in Bijection(1 .. n, S)
    BY <1>2, <1>4, <1>6 DEF Bijection, Injection, IsInjective, Injective, n
  <2>2. ExistsBijection(1 .. n, S)
    BY <2>1 DEF ExistsBijection
  <2> QED
    BY <1>3, <2>2, FS_Bijection
<1>7. Cardinality(S) \in Nat
  BY <1>5, FS_CardinalityType
<1> QED
  BY <1>5, <1>6, <1>7 DEF n, S
-----------------------------------------------------------------------------
(* Lists of points to be merged: slices that have no point in common.      *)
Lists ==
    {ps \in Seq(Slices) :
        \A i, k \in 1 .. Len(ps) : i # k => ToSet(ps[i]) \cap ToSet(ps[k]) = {}}

(* The state of Merge's loop, and one round of it.                         *)
MergeStates(ps) == [idx : [1 .. Len(ps) -> Nat \ {0}], out : Seq(Points)]

MergeRound(ps, s) ==
    LET best == Best(ps, s.idx)
    IN  IF best = {}
          THEN s
          ELSE LET b == CHOOSE b \in best : TRUE
               IN  [idx |-> [s.idx EXCEPT ![b] = @ + 1],
                    out |-> Append(s.out, ps[b][s.idx[b]])]

(* out has the points before the indices, and none of the others is        *)
(* earlier than one of them.                                               *)
MergeInv(ps, s) ==
    /\ s \in MergeStates(ps) /\ s.out \in Slices
    /\ \A i \in 1 .. Len(ps) : s.idx[i] <= Len(ps[i]) + 1
    /\ \A i \in 1 .. Len(ps) : \A j \in 1 .. s.idx[i] - 1 : ps[i][j] \in ToSet(s.out)
    /\ \A p \in ToSet(s.out) : \E i \in 1 .. Len(ps) : \E j \in 1 .. s.idx[i] - 1 : p = ps[i][j]
    /\ \A p \in ToSet(s.out), i \in 1 .. Len(ps) : \A j \in s.idx[i] .. Len(ps[i]) :
          p.t <= ps[i][j].t

(* What the merge may rely on.                                             *)
LEMMA ListFacts ==
    ASSUME NEW ps \in Lists
    PROVE  /\ Len(ps) \in Nat /\ DOMAIN ps = 1 .. Len(ps)
           /\ \A i \in 1 .. Len(ps) :
                 /\ ps[i] \in Slices /\ ps[i] \in Seq(Points)
                 /\ Len(ps[i]) \in Nat /\ ToSet(ps[i]) = {ps[i][j] : j \in 1 .. Len(ps[i])}
                 /\ \A j \in 1 .. Len(ps[i]) : /\ ps[i][j] \in Points /\ ps[i][j].t \in Int
                                                /\ ps[i][j] \in ToSet(ps[i])
                 /\ \A j, l \in 1 .. Len(ps[i]) : j <= l => ps[i][j].t <= ps[i][l].t
                 /\ \A j, l \in 1 .. Len(ps[i]) : ps[i][j] = ps[i][l] => j = l
           /\ \A i, k \in 1 .. Len(ps) : i # k => ToSet(ps[i]) \cap ToSet(ps[k]) = {}
<1>1. /\ ps \in Seq(Slices)
      /\ \A i, k \in 1 .. Len(ps) : i # k => ToSet(ps[i]) \cap ToSet(ps[k]) = {}
  BY DEF Lists
<1>2. Len(ps) \in Nat /\ DOMAIN ps = 1 .. Len(ps) /\ \A i \in 1 .. Len(ps) : ps[i] \in Slices
  BY <1>1, ElementOfSeq
<1>3. ASSUME NEW s \in Slices
      PROVE  /\ s \in Seq(Points)
             /\ Len(s) \in Nat /\ ToSet(s) = {s[j] : j \in 1 .. Len(s)}
             /\ \A j \in 1 .. Len(s) : s[j] \in Points /\ s[j].t \in Int /\ s[j] \in ToSet(s)
             /\ \A j, l \in 1 .. Len(s) : j <= l => s[j].t <= s[l].t
             /\ \A j, l \in 1 .. Len(s) : s[j] = s[l] => j = l
  <2>1. s \in Seq(Points) /\ Sorted(s) /\ Injective(s)
    BY DEF Slices
  <2>2. \A j, l \in 1 .. Len(s) : s[j] = s[l] => j = l
    BY <2>1 DEF Injective
  <2> QED
    BY <2>1, <2>2, PointSetFinite, PointsOf, SortedAll
<1> QED
  BY <1>1, <1>2, <1>3

(* The list whose turn it is.                                              *)
LEMMA BestLeast ==
    ASSUME NEW ps \in Lists, NEW idx \in [1 .. Len(ps) -> Nat \ {0}]
    PROVE  /\ \A b \in Best(ps, idx) :
                 /\ b \in 1 .. Len(ps) /\ idx[b] \in 1 .. Len(ps[b])
                 /\ ps[b][idx[b]].t < MaxInt64
                 /\ \A k \in 1 .. Len(ps) :
                       idx[k] <= Len(ps[k]) => ps[b][idx[b]].t <= ps[k][idx[k]].t
           /\ Best(ps, idx) = {} =>
                 \A k \in 1 .. Len(ps) : idx[k] <= Len(ps[k]) => MaxInt64 <= ps[k][idx[k]].t
<1> DEFINE open == {i \in DOMAIN ps : idx[i] <= Len(ps[i]) /\ ps[i][idx[i]].t < MaxInt64}
           f == [i \in open |-> ps[i][idx[i]].t]
           T == {f[i] : i \in open}
<1>1. MaxInt64 \in Int
  BY QueryConstants
<1>2. ASSUME NEW i \in 1 .. Len(ps), idx[i] <= Len(ps[i])
      PROVE  idx[i] \in 1 .. Len(ps[i]) /\ ps[i][idx[i]].t \in Int
  <2>1. idx[i] \in Nat /\ idx[i] >= 1 /\ Len(ps[i]) \in Nat
    BY ListFacts
  <2>2. idx[i] \in 1 .. Len(ps[i])
    BY <1>2, <2>1
  <2> QED
    BY <2>2, ListFacts
<1>3. open = {i \in 1 .. Len(ps) : idx[i] <= Len(ps[i]) /\ ps[i][idx[i]].t < MaxInt64}
  BY ListFacts
<1>4. Best(ps, idx) = {i \in open : \A k \in open :
                          \/ ps[i][idx[i]].t < ps[k][idx[k]].t
                          \/ ps[i][idx[i]].t = ps[k][idx[k]].t /\ i <= k}
  BY DEF Best
<1>5. \A i \in open : /\ i \in 1 .. Len(ps) /\ i \in Nat /\ idx[i] \in 1 .. Len(ps[i])
                      /\ ps[i][idx[i]].t \in Int /\ ps[i][idx[i]].t < MaxInt64
  BY <1>2, <1>3
<1>6. \A i \in open : f[i] = ps[i][idx[i]].t
  OBVIOUS
<1> HIDE DEF open, f
<1>7. ASSUME NEW b \in Best(ps, idx)
      PROVE  /\ b \in 1 .. Len(ps) /\ idx[b] \in 1 .. Len(ps[b])
             /\ ps[b][idx[b]].t < MaxInt64
             /\ \A k \in 1 .. Len(ps) :
                   idx[k] <= Len(ps[k]) => ps[b][idx[b]].t <= ps[k][idx[k]].t
  <2>1. b \in open /\ \A k \in open : \/ ps[b][idx[b]].t < ps[k][idx[k]].t
                                      \/ ps[b][idx[b]].t = ps[k][idx[k]].t
    BY <1>4
  <2>2. /\ b \in 1 .. Len(ps) /\ idx[b] \in 1 .. Len(ps[b])
        /\ ps[b][idx[b]].t \in Int /\ ps[b][idx[b]].t < MaxInt64
    BY <1>5, <2>1
  <2>3. ASSUME NEW k \in 1 .. Len(ps), idx[k] <= Len(ps[k])
        PROVE  ps[b][idx[b]].t <= ps[k][idx[k]].t
    <3>1. ps[k][idx[k]].t \in Int
      BY <1>2, <2>3
    <3>2. CASE k \in open
      BY <2>1, <2>2, <3>1, <3>2
    <3>3. CASE k \notin open
      <4>1. ~(ps[k][idx[k]].t < MaxInt64)
        BY <1>3, <2>3, <3>3
      <4> QED
        BY <1>1, <2>2, <3>1, <4>1
    <3> QED
      BY <3>2, <3>3
  <2> QED
    BY <2>2, <2>3
<1>8. ASSUME open # {} PROVE Best(ps, idx) # {}
  <2>1. IsFiniteSet(open)
    <3>1. IsFiniteSet(1 .. Len(ps))
      BY FS_Interval, ListFacts
    <3>2. open \in SUBSET (1 .. Len(ps))
      BY <1>5
    <3> QED
      BY <3>1, <3>2, FS_Subset
  <2>2. IsFiniteSet(T)
    <3>1. DOMAIN f = open
      BY DEF f
    <3> QED
      BY <2>1, <3>1, ImageFinite
  <2>3. T \in SUBSET Int /\ T # {}
    BY <1>5, <1>6, <1>8
  <2> HIDE DEF T
  <2>4. PICK t \in T : \A y \in T : t <= y
    BY <2>2, <2>3, LeastInt
  <2> DEFINE E == {i \in open : f[i] = t}
  <2>5. E \in SUBSET Nat /\ E # {}
    BY <1>5, <2>4 DEF T
  <2> HIDE DEF E
  <2>6. PICK b \in E : \A k \in E : b <= k
    BY <2>5, Least
  <2>7. b \in open /\ f[b] = t
    BY <2>6 DEF E
  <2>8. ASSUME NEW k \in open
        PROVE  \/ ps[b][idx[b]].t < ps[k][idx[k]].t
               \/ ps[b][idx[b]].t = ps[k][idx[k]].t /\ b <= k
    <3>1. f[k] \in T /\ t <= f[k] /\ f[k] \in Int /\ t \in Int
      BY <1>5, <1>6, <2>3, <2>4 DEF T
    <3>2. CASE f[k] = t
      <4>1. k \in E
        BY <3>2 DEF E
      <4> QED
        BY <1>6, <2>6, <2>7, <3>2, <4>1
    <3>3. CASE t < f[k]
      BY <1>6, <2>7, <3>3
    <3> QED
      BY <3>1, <3>2, <3>3
  <2>9. b \in Best(ps, idx)
    BY <1>4, <2>7, <2>8
  <2> QED
    BY <2>9
<1>9. ASSUME Best(ps, idx) = {}, NEW k \in 1 .. Len(ps), idx[k] <= Len(ps[k])
      PROVE  MaxInt64 <= ps[k][idx[k]].t
  <2>1. k \notin open
    BY <1>8, <1>9
  <2>2. ~(ps[k][idx[k]].t < MaxInt64)
    BY <1>3, <1>9, <2>1
  <2>3. ps[k][idx[k]].t \in Int
    BY <1>2, <1>9
  <2> QED
    BY <1>1, <2>2, <2>3
<1> QED
  BY <1>7, <1>9
-----------------------------------------------------------------------------
(* A round stays in the loop's states.                                     *)
LEMMA MergeTyped ==
    ASSUME NEW ps \in Lists, NEW s \in MergeStates(ps)
    PROVE  MergeRound(ps, s) \in MergeStates(ps)
<1>1. s.idx \in [1 .. Len(ps) -> Nat \ {0}] /\ s.out \in Seq(Points)
  BY DEF MergeStates
<1>2. CASE Best(ps, s.idx) = {}
  BY <1>2 DEF MergeRound
<1>3. CASE Best(ps, s.idx) # {}
  <2> DEFINE b == CHOOSE b \in Best(ps, s.idx) : TRUE
             idx == [s.idx EXCEPT ![b] = @ + 1]
             out == Append(s.out, ps[b][s.idx[b]])
  <2>1. b \in Best(ps, s.idx)
    BY <1>3
  <2>2. MergeRound(ps, s) = [idx |-> idx, out |-> out]
    BY <1>3 DEF MergeRound
  <2> HIDE DEF b
  <2>3. b \in 1 .. Len(ps) /\ s.idx[b] \in 1 .. Len(ps[b]) /\ ps[b][s.idx[b]] \in Points
    BY <1>1, <2>1, BestLeast, ListFacts
  <2>4. idx \in [1 .. Len(ps) -> Nat \ {0}]
    <3>1. s.idx[b] + 1 \in Nat \ {0}
      BY <2>3
    <3> QED
      BY <1>1, <3>1
  <2>5. out \in Seq(Points)
    BY <1>1, <2>3, AppendProperties
  <2> HIDE DEF idx, out
  <2> QED
    BY <2>2, <2>4, <2>5 DEF MergeStates
<1> QED
  BY <1>2, <1>3

(* A round with a list left takes its next point; otherwise nothing        *)
(* changes.                                                                *)
LEMMA MergeTakes ==
    ASSUME NEW ps \in Lists, NEW s, MergeInv(ps, s)
    PROVE  LET r == MergeRound(ps, s)
           IN  /\ MergeInv(ps, r)
               /\ IF Best(ps, s.idx) = {} THEN r = s ELSE Len(r.out) = Len(s.out) + 1
<1>1. /\ s.idx \in [1 .. Len(ps) -> Nat \ {0}] /\ s.out \in Slices
      /\ \A i \in 1 .. Len(ps) : s.idx[i] <= Len(ps[i]) + 1
      /\ \A i \in 1 .. Len(ps) : \A j \in 1 .. s.idx[i] - 1 : ps[i][j] \in ToSet(s.out)
      /\ \A p \in ToSet(s.out) : \E i \in 1 .. Len(ps) : \E j \in 1 .. s.idx[i] - 1 : p = ps[i][j]
      /\ \A p \in ToSet(s.out), i \in 1 .. Len(ps) : \A j \in s.idx[i] .. Len(ps[i]) :
            p.t <= ps[i][j].t
  BY DEF MergeInv, MergeStates
<1>2. CASE Best(ps, s.idx) = {}
  BY <1>2 DEF MergeRound
<1>3. CASE Best(ps, s.idx) # {}
  <2> DEFINE r == MergeRound(ps, s)
             b == CHOOSE b \in Best(ps, s.idx) : TRUE
             idx == s.idx
             p == ps[b][idx[b]]
             nxt == [idx EXCEPT ![b] = @ + 1]
             out == Append(s.out, p)
  <2>1. b \in Best(ps, s.idx)
    BY <1>3
  <2>2. r = [idx |-> nxt, out |-> out]
    BY <1>3 DEF MergeRound
  <2> HIDE DEF b, r
  <2>3. /\ b \in 1 .. Len(ps) /\ idx[b] \in 1 .. Len(ps[b])
        /\ p \in Points /\ p.t \in Int
        /\ p.t < MaxInt64
        /\ \A k \in 1 .. Len(ps) : idx[k] <= Len(ps[k]) => p.t <= ps[k][idx[k]].t
    BY <1>1, <2>1, BestLeast, ListFacts
  <2>4. /\ \A i \in 1 .. Len(ps) : idx[i] \in Nat /\ idx[i] >= 1
        /\ nxt \in [1 .. Len(ps) -> Nat \ {0}]
        /\ \A i \in 1 .. Len(ps) : nxt[i] = IF i = b THEN idx[i] + 1 ELSE idx[i]
    <3>1. idx \in [1 .. Len(ps) -> Nat \ {0}] /\ b \in 1 .. Len(ps)
      BY <1>1, <2>3
    <3> HIDE DEF idx, p
    <3>2. \A i \in 1 .. Len(ps) : idx[i] \in Nat /\ idx[i] >= 1
      BY <3>1
    <3>3. idx[b] + 1 \in Nat \ {0}
      BY <3>1
    <3> QED
      BY <3>1, <3>2, <3>3
  <2>5. r \in MergeStates(ps)
    BY MergeTyped DEF MergeInv, r
  <2> HIDE DEF nxt, idx
  <2>6. p \notin ToSet(s.out)
    <3>1. ASSUME p \in ToSet(s.out) PROVE FALSE
      <4>0. PICK i \in 1 .. Len(ps) : \E j \in 1 .. idx[i] - 1 : p = ps[i][j]
        BY <1>1, <3>1 DEF idx
      <4>1. PICK j \in 1 .. idx[i] - 1 : p = ps[i][j]
        BY <4>0
      <4>2. j \in 1 .. Len(ps[i])
        <5>1. idx[i] <= Len(ps[i]) + 1 /\ idx[i] \in Nat /\ Len(ps[i]) \in Nat
          BY <1>1, <2>4, ListFacts DEF idx
        <5> QED
          BY <5>1
      <4>3. p \in ToSet(ps[i]) /\ p \in ToSet(ps[b])
        BY <2>3, <4>1, <4>2, ListFacts
      <4>4. i = b
        <5>1. ToSet(ps[i]) \cap ToSet(ps[b]) # {}
          BY <4>3, Zenon
        <5>2. \A k, l \in 1 .. Len(ps) : k # l => ToSet(ps[k]) \cap ToSet(ps[l]) = {}
          BY ListFacts, Zenon
        <5> QED
          BY <2>3, <5>1, <5>2, Zenon
      <4>5. j = idx[b]
        BY <2>3, <4>1, <4>2, <4>4, ListFacts
      <4> QED
        BY <2>4, <4>1, <4>4, <4>5
    <3> QED
      BY <3>1
  <2> HIDE DEF p
  <2>7. /\ out \in Slices /\ Len(out) = Len(s.out) + 1
        /\ ToSet(out) = ToSet(s.out) \cup {p}
    <3>1. ASSUME NEW x \in ToSet(s.out) PROVE x.t <= p.t
      <4>1. idx[b] \in idx[b] .. Len(ps[b])
        BY <2>3
      <4> QED
        BY <1>1, <2>3, <4>1 DEF idx, p
    <3> QED
      BY <1>1, <2>3, <2>6, <3>1, AppendSlice
  <2> HIDE DEF out
  <2>8. ASSUME NEW i \in 1 .. Len(ps)
        PROVE  nxt[i] <= Len(ps[i]) + 1
    <3>1. idx[i] <= Len(ps[i]) + 1 /\ Len(ps[i]) \in Nat
      BY <1>1, ListFacts DEF idx
    <3> QED
      BY <2>3, <2>4, <3>1
  <2>9. ASSUME NEW i \in 1 .. Len(ps), NEW j \in 1 .. nxt[i] - 1
        PROVE  ps[i][j] \in ToSet(out)
    <3>1. CASE i = b /\ j = idx[b]
      BY <2>7, <3>1 DEF p
    <3>2. CASE ~(i = b /\ j = idx[b])
      <4>1. j \in 1 .. idx[i] - 1
        BY <2>4, <3>2
      <4> QED
        BY <1>1, <2>7, <4>1 DEF idx
    <3> QED
      BY <3>1, <3>2
  <2>10. ASSUME NEW x \in ToSet(out)
         PROVE  \E i \in 1 .. Len(ps) : \E j \in 1 .. nxt[i] - 1 : x = ps[i][j]
    <3>1. CASE x = p
      <4>1. idx[b] \in 1 .. nxt[b] - 1
        BY <2>3, <2>4
      <4> QED
        BY <2>3, <3>1, <4>1 DEF p
    <3>2. CASE x \in ToSet(s.out)
      <4>0. PICK i \in 1 .. Len(ps) : \E j \in 1 .. idx[i] - 1 : x = ps[i][j]
        BY <1>1, <3>2 DEF idx
      <4>1. PICK j \in 1 .. idx[i] - 1 : x = ps[i][j]
        BY <4>0
      <4>2. j \in 1 .. nxt[i] - 1
        BY <2>4, <4>1
      <4> QED
        BY <4>1, <4>2
    <3> QED
      BY <2>7, <3>1, <3>2
  <2>11. ASSUME NEW x \in ToSet(out), NEW i \in 1 .. Len(ps), NEW j \in nxt[i] .. Len(ps[i])
         PROVE  x.t <= ps[i][j].t
    <3>1. j \in idx[i] .. Len(ps[i]) /\ j \in 1 .. Len(ps[i]) /\ idx[i] \in 1 .. Len(ps[i]) /\ idx[i] <= j
      <4>1. idx[i] \in Nat /\ idx[i] >= 1 /\ idx[i] <= nxt[i] /\ Len(ps[i]) \in Nat
            /\ nxt[i] \in Nat
        BY <2>4, ListFacts
      <4> QED
        BY <4>1
    <3>2. CASE x \in ToSet(s.out)
      BY <1>1, <3>1, <3>2 DEF idx
    <3>3. CASE x = p
      <4>1. p.t <= ps[i][idx[i]].t
        BY <2>3, <3>1
      <4>2. ps[i][idx[i]].t <= ps[i][j].t /\ ps[i][idx[i]].t \in Int /\ ps[i][j].t \in Int
        BY <3>1, ListFacts
      <4> QED
        BY <2>3, <3>3, <4>1, <4>2
    <3> QED
      BY <2>7, <3>2, <3>3
  <2>12. r.idx = nxt /\ r.out = out
    BY <2>2
  <2>13. MergeInv(ps, r)
    BY <2>5, <2>7, <2>8, <2>9, <2>10, <2>11, <2>12 DEF MergeInv
  <2> QED
    BY <1>3, <2>7, <2>12, <2>13 DEF r
<1> QED
  BY <1>2, <1>3
-----------------------------------------------------------------------------
(* Len(ps[1]) + ... + Len(ps[i]), as Merge adds it up.                     *)
LensUpTo(ps) ==
    CHOOSE f : f = [i \in 0 .. Len(ps) |-> IF i = 0 THEN 0 ELSE f[i - 1] + Len(ps[i])]

(* The lists have no more points than Merge counts.                        *)
LEMMA ListsSize ==
    ASSUME NEW ps \in Lists
    PROVE  LET P == UNION {ToSet(ps[i]) : i \in 1 .. Len(ps)}
               total == LensUpTo(ps)[Len(ps)]
           IN  total \in Nat /\ IsFiniteSet(P) /\ Cardinality(P) <= total
<1> DEFINE N == Len(ps)
           G == [k \in 1 .. N |-> [c \in Nat |-> c + Len(ps[k])]]
           h == LensUpTo(ps)
           P(i) == UNION {ToSet(ps[k]) : k \in 1 .. i}
<1>1. N \in Nat /\ \A k \in 1 .. N : Len(ps[k]) \in Nat /\ ps[k] \in Seq(Points)
  BY ListFacts
<1>2. 0 \in Nat /\ \A k \in 1 .. N, c \in Nat : G[k][c] \in Nat
  BY <1>1
<1>3. PICK f : IsLoop(f, N, Nat, 0, G)
  <2> HIDE DEF N, G
  <2> QED
    BY <1>1, <1>2, LoopExists, Zenon
<1>4. f = [i \in 0 .. N |-> IF i = 0 THEN 0 ELSE f[i - 1] + Len(ps[i])]
  <2>1. ASSUME NEW k \in 1 .. N PROVE f[k] = f[k - 1] + Len(ps[k])
    <3>1. f[k - 1] \in Nat /\ f[k] = G[k][f[k - 1]]
      <4> HIDE DEF G, N
      <4> QED
        BY <1>1, <1>3, LoopRound
    <3> QED
      BY <3>1
  <2> QED
    BY <1>3, <2>1 DEF IsLoop
<1>5. h = [i \in 0 .. N |-> IF i = 0 THEN 0 ELSE h[i - 1] + Len(ps[i])]
  BY <1>4 DEF LensUpTo
<1> HIDE DEF h, N
<1> DEFINE T == {i \in 0 .. N : h[i] \in Nat /\ IsFiniteSet(P(i)) /\ Cardinality(P(i)) <= h[i]}
<1>6. 0 \in T
  <2>1. h[0] = 0 /\ 0 \in 0 .. N
    BY <1>1, <1>5
  <2>2. P(0) = {}
    OBVIOUS
  <2> HIDE DEF P
  <2> QED
    BY <2>1, <2>2, FS_EmptySet
<1>7. ASSUME NEW k \in 1 .. N, k - 1 \in T PROVE k \in T
  <2>1. k \in 0 .. N /\ k # 0 /\ k \in Int
    BY <1>1
  <2>2. h[k] = h[k - 1] + Len(ps[k])
    BY <1>5, <2>1
  <2>3. P(k) = P(k - 1) \cup ToSet(ps[k])
    <3>1. 1 .. k = (1 .. k - 1) \cup {k}
      BY <2>1
    <3> QED
      BY <3>1
  <2>4. h[k - 1] \in Nat /\ IsFiniteSet(P(k - 1)) /\ Cardinality(P(k - 1)) <= h[k - 1]
    BY <1>7
  <2>5. IsFiniteSet(ToSet(ps[k])) /\ Cardinality(ToSet(ps[k])) <= Len(ps[k]) /\ Len(ps[k]) \in Nat
    BY <1>1, SliceSize
  <2> DEFINE A == P(k - 1)
             B == ToSet(ps[k])
  <2> HIDE DEF A, B
  <2>6. IsFiniteSet(A) /\ IsFiniteSet(B)
    BY <2>4, <2>5 DEF A, B
  <2>7. /\ IsFiniteSet(A \cup B)
        /\ Cardinality(A \cup B) = Cardinality(A) + Cardinality(B) - Cardinality(A \cap B)
    BY <2>6, FS_Union
  <2>8. Cardinality(A) \in Nat /\ Cardinality(B) \in Nat /\ Cardinality(A \cap B) \in Nat
    <3>1. IsFiniteSet(A \cap B)
      BY <2>6, FS_Intersection
    <3> QED
      BY <2>6, <3>1, FS_CardinalityType
  <2>9. Cardinality(A) <= h[k - 1] /\ Cardinality(B) <= Len(ps[k])
    BY <2>4, <2>5 DEF A, B
  <2>10. Cardinality(A \cup B) <= h[k - 1] + Len(ps[k])
    BY <2>4, <2>5, <2>7, <2>8, <2>9
  <2>11. P(k) = A \cup B
    BY <2>3 DEF A, B
  <2>12. h[k] \in Nat /\ IsFiniteSet(A \cup B) /\ Cardinality(A \cup B) <= h[k]
    <3>1. h[k] \in Nat
      BY <2>2, <2>4, <2>5
    <3> QED
      BY <2>2, <2>7, <2>10, <3>1
  <2> HIDE DEF P
  <2> QED
    BY <2>1, <2>11, <2>12
<1>8. N \in T
  <2> HIDE DEF T
  <2>1. \A k \in 1 .. N : k - 1 \in T => k \in T
    BY <1>7
  <2>2. \A k \in 0 .. N : k \in T
    BY <1>1, <1>6, <2>1, UpTo, Zenon
  <2> QED
    BY <1>1, <2>2
<1> QED
  BY <1>8 DEF N, h

(* Merge's loop of n rounds.                                               *)
MergeLoop(ps, n) ==
    CHOOSE f : f = [k \in 0 .. n |->
        IF k = 0
          THEN [idx |-> [i \in DOMAIN ps |-> 1], out |-> <<>>]
          ELSE MergeRound(ps, f[k - 1])]

(* Merge, with its loops named.                                            *)
LEMMA MergeIs ==
    ASSUME NEW ps
    PROVE  LET full == {i \in DOMAIN ps : ps[i] # <<>>}
               total == LensUpTo(ps)[Len(ps)]
           IN  Merge(ps) = IF \E i \in full : full = {i}
                             THEN ps[CHOOSE i \in full : TRUE]
                             ELSE MergeLoop(ps, total)[total].out
BY Zenon DEF Merge, MergeLoop, MergeRound, LensUpTo

(* After n rounds.                                                         *)
LEMMA MergeRounds ==
    ASSUME NEW ps \in Lists, NEW n \in Nat
    PROVE  LET s == MergeLoop(ps, n)[n]
           IN  MergeInv(ps, s) /\ (Best(ps, s.idx) = {} \/ Len(s.out) = n)
<1> DEFINE S == MergeStates(ps)
           b == [idx |-> [i \in DOMAIN ps |-> 1], out |-> <<>>]
           G == [k \in 1 .. n |-> [s \in S |-> MergeRound(ps, s)]]
           loop == MergeLoop(ps, n)
<1>1. /\ b \in S /\ b.out = <<>> /\ \A i \in 1 .. Len(ps) : b.idx[i] = 1
  <2>1. DOMAIN ps = 1 .. Len(ps)
    BY ListFacts
  <2> QED
    BY <2>1 DEF MergeStates
<1> HIDE DEF S, b
<1>2. \A k \in 1 .. n, s \in S : G[k][s] \in S
  BY MergeTyped DEF S
<1>3. PICK f : IsLoop(f, n, S, b, G)
  <2> HIDE DEF G
  <2> QED
    BY <1>1, <1>2, LoopExists, Zenon
<1>4. f = [k \in 0 .. n |-> IF k = 0 THEN b ELSE MergeRound(ps, f[k - 1])]
  <2>1. ASSUME NEW k \in 1 .. n PROVE f[k] = MergeRound(ps, f[k - 1])
    <3>1. f[k - 1] \in S /\ f[k] = G[k][f[k - 1]]
      <4> HIDE DEF G
      <4> QED
        BY <1>3, LoopRound
    <3> QED
      BY <3>1
  <2> QED
    BY <1>3, <2>1 DEF IsLoop
<1>5. loop = [k \in 0 .. n |-> IF k = 0 THEN b ELSE MergeRound(ps, loop[k - 1])]
  BY <1>4 DEF MergeLoop, b
<1> HIDE DEF loop
<1> DEFINE T == {k \in 0 .. n : /\ MergeInv(ps, loop[k])
                                /\ Best(ps, loop[k].idx) = {} \/ Len(loop[k].out) = k}
<1>6. 0 \in T
  <2>1. loop[0] = b /\ 0 \in 0 .. n
    BY <1>5
  <2>2. b.out \in Slices /\ ToSet(b.out) = {} /\ Len(b.out) = 0
    BY <1>1, NoPoints
  <2>3. \A i \in 1 .. Len(ps) : b.idx[i] <= Len(ps[i]) + 1
    BY <1>1, ListFacts
  <2>4. \A i \in 1 .. Len(ps) : 1 .. b.idx[i] - 1 = {}
    BY <1>1
  <2>5. MergeInv(ps, b)
    BY <1>1, <2>2, <2>3, <2>4 DEF MergeInv, S
  <2> QED
    BY <2>1, <2>2, <2>5
<1>7. ASSUME NEW k \in 1 .. n, k - 1 \in T PROVE k \in T
  <2>1. k \in 0 .. n /\ k # 0 /\ k \in Int
    OBVIOUS
  <2> DEFINE s == loop[k - 1]
             r == loop[k]
  <2>2. r = MergeRound(ps, s)
    BY <1>5, <2>1
  <2>3. MergeInv(ps, s) /\ (Best(ps, s.idx) = {} \/ Len(s.out) = k - 1)
    BY <1>7
  <2> HIDE DEF s, r
  <2>4. /\ MergeInv(ps, r)
        /\ IF Best(ps, s.idx) = {} THEN r = s ELSE Len(r.out) = Len(s.out) + 1
    BY <2>2, <2>3, MergeTakes
  <2>5. Best(ps, r.idx) = {} \/ Len(r.out) = k
    BY <2>1, <2>3, <2>4
  <2> QED
    BY <2>1, <2>4, <2>5 DEF r
<1>8. n \in T
  <2> HIDE DEF T
  <2>1. \A k \in 1 .. n : k - 1 \in T => k \in T
    BY <1>7
  <2>2. \A k \in 0 .. n : k \in T
    BY <1>6, <2>1, UpTo, Zenon
  <2> QED
    BY <2>2
<1> QED
  BY <1>8 DEF loop
-----------------------------------------------------------------------------
(* query.Merge returns the points of the lists, sorted, none of them       *)
(* twice, and all of those below math.MaxInt64.                            *)
LEMMA MergeMerges ==
    ASSUME NEW ps \in Lists
    PROVE  LET P == UNION {ToSet(ps[i]) : i \in 1 .. Len(ps)}
           IN  /\ Merge(ps) \in Slices /\ ToSet(Merge(ps)) \subseteq P
               /\ \A p \in P : p.t < MaxInt64 => p \in ToSet(Merge(ps))
<1> DEFINE P == UNION {ToSet(ps[i]) : i \in 1 .. Len(ps)}
           full == {i \in DOMAIN ps : ps[i] # <<>>}
           total == LensUpTo(ps)[Len(ps)]
           s == MergeLoop(ps, total)[total]
           r == MergeRound(ps, s)
<1>1. DOMAIN ps = 1 .. Len(ps) /\ \A i \in 1 .. Len(ps) : ps[i] \in Slices
  BY ListFacts
<1>2. Merge(ps) = IF \E i \in full : full = {i}
                    THEN ps[CHOOSE i \in full : TRUE]
                    ELSE s.out
  BY MergeIs, Zenon
<1>3. CASE \E i \in full : full = {i}
  <2>1. PICK i \in full : full = {i}
    BY <1>3
  <2>2. Merge(ps) = ps[i]
    BY <1>2, <1>3, <2>1
  <2>3. \A k \in 1 .. Len(ps) : k # i => ps[k] = <<>>
    BY <1>1, <2>1
  <2>4. i \in 1 .. Len(ps)
    BY <1>1
  <2>5. P = ToSet(ps[i])
    BY <2>3, <2>4, NoPoints
  <2> QED
    BY <1>1, <2>2, <2>4, <2>5
<1>4. CASE ~\E i \in full : full = {i}
  <2>1. total \in Nat /\ IsFiniteSet(P) /\ Cardinality(P) <= total
    BY ListsSize
  <2> HIDE DEF total
  <2>2. MergeInv(ps, s) /\ (Best(ps, s.idx) = {} \/ Len(s.out) = total)
    BY <2>1, MergeRounds
  <2> HIDE DEF s
  <2>3. ASSUME NEW u, MergeInv(ps, u) PROVE u.out \in Slices /\ ToSet(u.out) \subseteq P
    <3>1. ASSUME NEW p \in ToSet(u.out) PROVE p \in P
      <4>1. PICK i \in 1 .. Len(ps) : \E j \in 1 .. u.idx[i] - 1 : p = ps[i][j]
        BY <2>3 DEF MergeInv
      <4>2. PICK j \in 1 .. u.idx[i] - 1 : p = ps[i][j]
        BY <4>1
      <4>3. u.idx[i] <= Len(ps[i]) + 1 /\ u.idx[i] \in Nat /\ Len(ps[i]) \in Nat
        BY <2>3, ListFacts DEF MergeInv, MergeStates
      <4>4. j \in 1 .. Len(ps[i])
        BY <4>3
      <4> QED
        BY <4>2, <4>4, ListFacts
    <3> QED
      BY <2>3, <3>1 DEF MergeInv
  <2>4. Best(ps, s.idx) = {}
    <3>1. ASSUME Best(ps, s.idx) # {} PROVE FALSE
      <4>1. MergeInv(ps, r) /\ Len(r.out) = total + 1
        BY <2>2, <3>1, MergeTakes
      <4> HIDE DEF r
      <4>2. r.out \in Slices /\ ToSet(r.out) \subseteq P
        BY <4>1, <2>3
      <4>3. Cardinality(ToSet(r.out)) = total + 1
        BY <4>1, <4>2, SliceSize DEF Slices
      <4> HIDE DEF P
      <4>4. Cardinality(ToSet(r.out)) <= Cardinality(P) /\ Cardinality(P) \in Nat
        BY <2>1, <4>2, FS_Subset, FS_CardinalityType
      <4> QED
        BY <2>1, <4>3, <4>4
    <3> QED
      BY <3>1
  <2>5. ASSUME NEW p \in P, p.t < MaxInt64 PROVE p \in ToSet(s.out)
    <3>1. PICK i \in 1 .. Len(ps) : p \in ToSet(ps[i])
      OBVIOUS
    <3>2. PICK j \in 1 .. Len(ps[i]) : p = ps[i][j]
      <4>1. ToSet(ps[i]) = {ps[i][j] : j \in 1 .. Len(ps[i])}
        BY ListFacts
      <4> QED
        BY <3>1, <4>1
    <3>3. /\ s.idx \in [1 .. Len(ps) -> Nat \ {0}]
          /\ s.idx[i] \in Nat /\ s.idx[i] >= 1 /\ Len(ps[i]) \in Nat
      <4>1. s \in MergeStates(ps)
        BY <2>2 DEF MergeInv
      <4>2. s.idx \in [1 .. Len(ps) -> Nat \ {0}]
        BY <4>1 DEF MergeStates
      <4>3. s.idx[i] \in Nat \ {0}
        BY <4>2
      <4>4. Len(ps[i]) \in Nat
        BY ListFacts
      <4> QED
        BY <4>2, <4>3, <4>4
    <3>4. CASE j < s.idx[i]
      <4>1. j \in 1 .. s.idx[i] - 1
        BY <3>3, <3>4
      <4> QED
        BY <2>2, <3>2, <4>1 DEF MergeInv
    <3>5. CASE s.idx[i] <= j
      <4>1. s.idx[i] \in 1 .. Len(ps[i]) /\ s.idx[i] <= Len(ps[i])
        BY <3>3, <3>5
      <4>2. MaxInt64 <= ps[i][s.idx[i]].t
        BY <2>4, <3>3, <4>1, BestLeast
      <4>3. ps[i][s.idx[i]].t <= ps[i][j].t /\ ps[i][s.idx[i]].t \in Int /\ ps[i][j].t \in Int
        BY <3>5, <4>1, ListFacts
      <4> QED
        BY <2>5, <3>2, <4>2, <4>3, QueryConstants
    <3> QED
      BY <3>3, <3>4, <3>5
  <2>6. Merge(ps) = s.out
    BY <1>2, <1>4
  <2> HIDE DEF P
  <2> QED
    BY <2>2, <2>3, <2>5, <2>6 DEF P
<1> QED
  BY <1>3, <1>4

(* query.Filter keeps exactly the points of the range.                     *)
LEMMA FilterKeeps ==
    ASSUME NEW s \in Slices, NEW start \in Int, NEW end \in Int
    PROVE  /\ Filter(s, start, end) \in Slices
           /\ ToSet(Filter(s, start, end)) = {p \in ToSet(s) : start <= p.t /\ p.t <= end}
<1> DEFINE n == Len(s)
           A == [i \in 0 .. Len(s) - 1 |-> s[i + 1].t >= start]
           Z == [i \in 0 .. Len(s) - 1 |-> s[i + 1].t > end]
           a == Search(n, A)
           z == Search(n, Z)
           r == SubSeq(s, a + 1, z)
<1>1. /\ s \in Seq(Points) /\ n \in Nat /\ ToSet(s) = {s[i] : i \in 1 .. n}
      /\ \A i \in 1 .. n : s[i] \in Points /\ s[i].t \in Int
      /\ \A i, k \in 1 .. n : i <= k => s[i].t <= s[k].t
      /\ \A i, k \in 1 .. n : s[i] = s[k] => i = k
  <2>1. s \in Seq(Points) /\ Sorted(s) /\ Injective(s)
    BY DEF Slices
  <2> QED
    BY <2>1, PointsOf, PointSetFinite, SortedAll DEF Injective
<1>2. /\ \A i \in 0 .. n - 1 : A[i] <=> s[i + 1].t >= start
      /\ \A i \in 0 .. n - 1 : Z[i] <=> s[i + 1].t > end
      /\ \A i \in 0 .. n - 1 : A[i] \in BOOLEAN
      /\ \A i \in 0 .. n - 1 : Z[i] \in BOOLEAN
  <2>1. \A i \in 0 .. n - 1 : A[i] <=> s[i + 1].t >= start
    OBVIOUS
  <2>2. \A i \in 0 .. n - 1 : Z[i] <=> s[i + 1].t > end
    OBVIOUS
  <2>3. \A i \in 0 .. n - 1 : A[i] \in BOOLEAN
    OBVIOUS
  <2>4. \A i \in 0 .. n - 1 : Z[i] \in BOOLEAN
    OBVIOUS
  <2> QED
    BY <2>1, <2>2, <2>3, <2>4, Zenon
<1>3. Filter(s, start, end) = r
  BY DEF Filter
<1> HIDE DEF A, Z, n
<1>4. ASSUME NEW i \in 0 .. n - 1, NEW k \in 0 .. n - 1, i <= k
      PROVE  (A[i] => A[k]) /\ (Z[i] => Z[k])
  <2>1. i + 1 \in 1 .. n /\ k + 1 \in 1 .. n /\ i + 1 <= k + 1
    BY <1>1, <1>4
  <2>2. s[i + 1].t <= s[k + 1].t /\ s[i + 1].t \in Int /\ s[k + 1].t \in Int
    BY <1>1, <2>1
  <2>3. /\ s[i + 1].t >= start => s[k + 1].t >= start
        /\ s[i + 1].t > end => s[k + 1].t > end
    BY <2>2
  <2> QED
    BY <1>2, <2>3, Zenon
<1>5. a \in 0 .. n /\ \A i \in 0 .. n - 1 : A[i] <=> a <= i
  <2>1. /\ \A i \in 0 .. n - 1 : A[i] \in BOOLEAN
        /\ \A i, k \in 0 .. n - 1 : i <= k /\ A[i] => A[k]
    BY <1>2, <1>4, Zenon
  <2> QED
    BY <1>1, <2>1, SearchFinds, Zenon
<1>6. z \in 0 .. n /\ \A i \in 0 .. n - 1 : Z[i] <=> z <= i
  <2>1. /\ \A i \in 0 .. n - 1 : Z[i] \in BOOLEAN
        /\ \A i, k \in 0 .. n - 1 : i <= k /\ Z[i] => Z[k]
    BY <1>2, <1>4, Zenon
  <2> QED
    BY <1>1, <2>1, SearchFinds, Zenon
<1>7. \A i \in 0 .. n - 1 : (a <= i <=> s[i + 1].t >= start) /\ (z <= i <=> s[i + 1].t > end)
  BY <1>2, <1>5, <1>6, Zenon
<1> HIDE DEF a, z
<1> DEFINE c == a + 1
           d == z - a
<1>8. ASSUME NEW i \in 1 .. n
      PROVE  (c <= i /\ i <= z) <=> (start <= s[i].t /\ s[i].t <= end)
  <2>1. i - 1 \in 0 .. n - 1 /\ (i - 1) + 1 = i
    BY <1>1
  <2>2. (a <= i - 1 <=> s[i].t >= start) /\ (z <= i - 1 <=> s[i].t > end)
    BY <1>7, <2>1
  <2> QED
    BY <1>1, <1>5, <1>6, <2>2
<1>9. /\ r \in Seq(Points) /\ Len(r) = IF c <= z THEN d ELSE 0
      /\ \A j \in 1 .. d : r[j] = s[a + j] /\ a + j \in c .. z
  <2>1. c \in Int /\ z \in Int /\ \A j \in c .. z : s[j] \in Points
    BY <1>1, <1>5, <1>6
  <2>2. c = a + 1 /\ r = SubSeq(s, c, z)
    OBVIOUS
  <2> HIDE DEF c, r
  <2>3. /\ SubSeq(s, c, z) \in Seq(Points)
        /\ Len(SubSeq(s, c, z)) = IF c <= z THEN z - c + 1 ELSE 0
        /\ \A j \in 1 .. z - c + 1 : SubSeq(s, c, z)[j] = s[c + j - 1]
    BY <1>1, <2>1, SubSeqProperties
  <2>4. z - c + 1 = d /\ \A j \in 1 .. d : c + j - 1 = a + j /\ a + j \in c .. z
    BY <1>5, <1>6, <2>2
  <2> QED
    BY <2>2, <2>3, <2>4
<1> HIDE DEF r
<1>10. d \in Int /\ Len(r) \in Nat /\ (\A j \in 1 .. Len(r) : j \in 1 .. d /\ a + j \in 1 .. n)
  <2>1. d \in Int /\ (c <= z => d > 0) /\ c \in 1 .. n + 1 /\ z \in 0 .. n
    BY <1>1, <1>5, <1>6
  <2>2. CASE c <= z
    <3>1. Len(r) = d /\ d \in Nat
      BY <1>9, <2>1, <2>2
    <3> HIDE DEF c, d
    <3>2. \A j \in 1 .. d : a + j \in 1 .. n
      BY <1>1, <1>9, <2>1
    <3> QED
      BY <3>1, <3>2, <2>1
  <2>3. CASE ~(c <= z)
    <3>1. Len(r) = 0
      BY <1>9, <2>3
    <3> QED
      BY <2>1, <3>1
  <2> QED
    BY <2>2, <2>3
<1>11. ASSUME NEW j \in 1 .. Len(r) - 1 PROVE r[j].t <= r[j + 1].t
  <2>1. j \in 1 .. Len(r) /\ j + 1 \in 1 .. Len(r) /\ a + j <= a + (j + 1)
    BY <1>5, <1>10
  <2>2. r[j] = s[a + j] /\ r[j + 1] = s[a + (j + 1)] /\ a + j \in 1 .. n /\ a + (j + 1) \in 1 .. n
    BY <1>9, <1>10, <2>1
  <2> QED
    BY <1>1, <2>1, <2>2
<1>12. ASSUME NEW j \in 1 .. Len(r), NEW k \in 1 .. Len(r), r[j] = r[k] PROVE j = k
  <2>1. r[j] = s[a + j] /\ r[k] = s[a + k] /\ a + j \in 1 .. n /\ a + k \in 1 .. n
    BY <1>9, <1>10
  <2>2. a + j = a + k
    BY <1>1, <1>12, <2>1
  <2> QED
    BY <1>5, <2>2
<1>13. r \in Slices
  BY <1>9, <1>11, <1>12 DEF Slices, Sorted, Injective
<1>14. ToSet(r) = {r[j] : j \in 1 .. Len(r)}
  BY <1>9, PointSetFinite
<1>15. ASSUME NEW p \in ToSet(r) PROVE p \in ToSet(s) /\ start <= p.t /\ p.t <= end
  <2>1. PICK j \in 1 .. Len(r) : p = r[j]
    BY <1>14
  <2>2. p = s[a + j] /\ a + j \in 1 .. n /\ a + j \in c .. z
    BY <1>9, <1>10, <2>1
  <2>3. start <= s[a + j].t /\ s[a + j].t <= end
    BY <1>8, <2>2
  <2> QED
    BY <1>1, <2>2, <2>3
<1>16. ASSUME NEW p \in ToSet(s), start <= p.t, p.t <= end PROVE p \in ToSet(r)
  <2>1. PICK i \in 1 .. n : p = s[i]
    BY <1>1
  <2>2. c <= i /\ i <= z
    BY <1>8, <1>16, <2>1
  <2>3. i - a \in 1 .. d /\ a + (i - a) = i /\ Len(r) = d
    BY <1>5, <1>6, <1>9, <2>2
  <2>4. r[i - a] = p
    BY <1>9, <2>1, <2>3
  <2> QED
    BY <1>14, <2>3, <2>4
<1> QED
  BY <1>3, <1>13, <1>15, <1>16
-----------------------------------------------------------------------------
Files == {x.file : x \in SegmentSet}

(* The i-th listed segment can have points of the range.                   *)
Meets(i, start, end) == segs[i].lo <= end /\ segs[i].hi >= start

(* r holds, for the first k listed segments, the files of some of them,    *)
(* place[j] being the segment of r[j], and those of all that meet a range. *)
Chosen(r, place, k, start, end) ==
    /\ r \in Seq(Files) /\ place \in [1 .. Len(r) -> 1 .. k]
    /\ \A j \in 1 .. Len(r) : r[j] = segs[place[j]].file
    /\ \A j, l \in 1 .. Len(r) : place[j] = place[l] => j = l
    /\ \A i \in 1 .. k : Meets(i, start, end) => \E j \in 1 .. Len(r) : place[j] = i

(* One more segment looked at.                                             *)
LEMMA ChosenNext ==
    ASSUME segs \in Seq(SegmentSet), NEW start, NEW end, NEW k \in 1 .. Len(segs),
           NEW r, NEW place, Chosen(r, place, k - 1, start, end)
    PROVE  \E new : Chosen(IF Meets(k, start, end) THEN Append(r, segs[k].file) ELSE r,
                           new, k, start, end)
<1>1. k \in Nat /\ k >= 1 /\ k \in 1 .. k /\ (\A i \in 1 .. k - 1 : i \in 1 .. k /\ i # k)
      /\ (\A i \in 1 .. k : i = k \/ i \in 1 .. k - 1)
  BY SegmentsOf
<1>2. /\ r \in Seq(Files) /\ place \in [1 .. Len(r) -> 1 .. k - 1]
      /\ \A j \in 1 .. Len(r) : r[j] = segs[place[j]].file
      /\ \A j, l \in 1 .. Len(r) : place[j] = place[l] => j = l
      /\ \A i \in 1 .. k - 1 : Meets(i, start, end) => \E j \in 1 .. Len(r) : place[j] = i
  BY DEF Chosen
<1>3. Len(r) \in Nat
  BY <1>2
<1>4. CASE Meets(k, start, end)
  <2> DEFINE n == Len(r)
             q == Append(r, segs[k].file)
             new == [j \in 1 .. n + 1 |-> IF j = n + 1 THEN k ELSE place[j]]
  <2>1. segs[k].file \in Files
    BY SegmentsOf DEF Files
  <2>2. /\ q \in Seq(Files) /\ Len(q) = n + 1
        /\ \A j \in 1 .. n : q[j] = r[j]
        /\ q[n + 1] = segs[k].file
    BY <1>2, <2>1, AppendProperties
  <2> HIDE DEF q
  <2>3. n + 1 \in 1 .. n + 1 /\ (\A j \in 1 .. n : j \in 1 .. n + 1 /\ j # n + 1)
        /\ (\A j \in 1 .. n + 1 : j = n + 1 \/ j \in 1 .. n)
    BY <1>3
  <2>4. new[n + 1] = k /\ \A j \in 1 .. n : new[j] = place[j]
    BY <2>3
  <2>5. new \in [1 .. n + 1 -> 1 .. k]
    BY <1>1, <1>2, <2>3
  <2> HIDE DEF new, n
  <2>6. \A j \in 1 .. n : place[j] \in 1 .. k - 1 /\ place[j] # k
    BY <1>1, <1>2 DEF n
  <2>7. ASSUME NEW j \in 1 .. n + 1 PROVE q[j] = segs[new[j]].file
    BY <1>2, <2>2, <2>3, <2>4 DEF n
  <2>8. ASSUME NEW j \in 1 .. n + 1, NEW l \in 1 .. n + 1, new[j] = new[l] PROVE j = l
    BY <1>2, <2>3, <2>4, <2>6, <2>8 DEF n
  <2>9. ASSUME NEW i \in 1 .. k, Meets(i, start, end) PROVE \E j \in 1 .. n + 1 : new[j] = i
    <3>1. CASE i = k
      BY <2>3, <2>4, <3>1
    <3>2. CASE i \in 1 .. k - 1
      <4>1. PICK j \in 1 .. n : place[j] = i
        BY <1>2, <2>9, <3>2 DEF n
      <4> QED
        BY <2>3, <2>4, <4>1
    <3> QED
      BY <1>1, <3>1, <3>2
  <2>10. Chosen(q, new, k, start, end)
    BY <2>2, <2>5, <2>7, <2>8, <2>9 DEF Chosen
  <2> QED
    BY <1>4, <2>10 DEF q
<1>5. CASE ~Meets(k, start, end)
  <2>1. place \in [1 .. Len(r) -> 1 .. k]
    BY <1>1, <1>2
  <2>2. \A i \in 1 .. k : Meets(i, start, end) => \E j \in 1 .. Len(r) : place[j] = i
    BY <1>1, <1>2, <1>5
  <2>3. Chosen(r, place, k, start, end)
    BY <1>2, <2>1, <2>2 DEF Chosen
  <2> QED
    BY <1>5, <2>3
<1> QED
  BY <1>4, <1>5

(* A query opens files of different listed segments, and all that can have *)
(* points of its range.                                                    *)
LEMMA OverlappingChosen ==
    ASSUME segs \in Seq(SegmentSet), NEW start, NEW end
    PROVE  \E place : Chosen(Overlapping(start, end), place, Len(segs), start, end)
<1> DEFINE N == Len(segs)
           S == Seq(Files)
           Step(k, r) == IF segs[k].lo <= end /\ segs[k].hi >= start
                           THEN Append(r, segs[k].file)
                           ELSE r
           G == [k \in 1 .. N |-> [r \in S |-> Step(k, r)]]
           found == CHOOSE f : f = [i \in 0 .. N |-> IF i = 0 THEN <<>> ELSE Step(i, f[i - 1])]
<1>1. N \in Nat /\ \A k \in 1 .. N : segs[k].file \in Files
  BY SegmentsOf DEF Files
<1>2. <<>> \in S /\ \A k \in 1 .. N, r \in S : G[k][r] \in S
  <2>1. ASSUME NEW k \in 1 .. N, NEW r \in S PROVE Step(k, r) \in S
    BY <1>1, AppendProperties
  <2> HIDE DEF Step
  <2>2. <<>> \in S
    OBVIOUS
  <2> HIDE DEF S, N
  <2> QED
    BY <2>1, <2>2
<1> HIDE DEF S
<1>3. PICK f : IsLoop(f, N, S, <<>>, G)
  <2> HIDE DEF G, N, Step, found
  <2> QED
    BY <1>1, <1>2, LoopExists, Zenon
<1>4. f = [i \in 0 .. N |-> IF i = 0 THEN <<>> ELSE Step(i, f[i - 1])]
  <2> HIDE DEF N, Step, found
  <2>1. ASSUME NEW k \in 1 .. N PROVE f[k] = Step(k, f[k - 1])
    <3>1. f[k - 1] \in S /\ f[k] = G[k][f[k - 1]]
      <4> HIDE DEF G
      <4> QED
        BY <1>1, <1>3, LoopRound
    <3> QED
      BY <3>1
  <2> QED
    BY <1>3, <2>1 DEF IsLoop
<1>5. found = [i \in 0 .. N |-> IF i = 0 THEN <<>> ELSE Step(i, found[i - 1])]
  <2> HIDE DEF Step, N
  <2> QED
    BY <1>4
<1>6. Overlapping(start, end) = found[N]
  BY DEF Overlapping
<1>7. \A k \in 1 .. N : \A r : Step(k, r) = IF Meets(k, start, end) THEN Append(r, segs[k].file) ELSE r
  BY DEF Meets
<1> HIDE DEF found, Step
<1> DEFINE T == {k \in 0 .. N : \E place : Chosen(found[k], place, k, start, end)}
<1>8. 0 \in T
  <2>1. found[0] = <<>> /\ 0 \in 0 .. N
    BY <1>1, <1>5
  <2>2. <<>> \in Seq(Files) /\ Len(<<>>) = 0
    OBVIOUS
  <2> DEFINE place == [j \in 1 .. 0 |-> 0]
  <2>3. place \in [1 .. 0 -> 1 .. 0]
    OBVIOUS
  <2> HIDE DEF place
  <2>4. Chosen(<<>>, place, 0, start, end)
    BY <2>2, <2>3 DEF Chosen
  <2> QED
    BY <2>1, <2>4
<1>9. ASSUME NEW k \in 1 .. N, k - 1 \in T PROVE k \in T
  <2>1. k \in 0 .. N /\ k # 0
    BY <1>1
  <2>2. found[k] = IF Meets(k, start, end) THEN Append(found[k - 1], segs[k].file) ELSE found[k - 1]
    BY <1>5, <1>7, <2>1
  <2>3. PICK place : Chosen(found[k - 1], place, k - 1, start, end)
    BY <1>9
  <2> DEFINE r == found[k - 1]
  <2> HIDE DEF r
  <2>4. Chosen(r, place, k - 1, start, end)
    BY <2>3 DEF r
  <2>5. \E new : Chosen(IF Meets(k, start, end) THEN Append(r, segs[k].file) ELSE r,
                        new, k, start, end)
    BY <2>4, ChosenNext
  <2>6. \E new : Chosen(found[k], new, k, start, end)
    BY <2>2, <2>5 DEF r
  <2> QED
    BY <2>1, <2>6
<1>10. N \in T
  <2> HIDE DEF T
  <2>1. \A k \in 1 .. N : k - 1 \in T => k \in T
    BY <1>9
  <2>2. \A k \in 0 .. N : k \in T
    BY <1>1, <1>8, <2>1, UpTo, Zenon
  <2> QED
    BY <1>1, <2>2
<1> QED
  BY <1>6, <1>10
-----------------------------------------------------------------------------
(* What the segments contribute to a query of one series: sorted points of *)
(* the listed files, and all of those in the range below math.MaxInt64.    *)
LEMMA SegmentsAnswer ==
    ASSUME PointsInv, NEW id \in Ids, NEW start \in Times, NEW end \in Times
    PROVE  LET S == ReadSegments(Overlapping(start, end), id)
               G == FilePoints(id)
           IN  /\ S \in Slices /\ ToSet(S) \subseteq UNION {G[i] : i \in DOMAIN G}
               /\ \A p \in UNION {G[i] : i \in DOMAIN G} :
                     start <= p.t /\ p.t <= end /\ p.t < MaxInt64 => p \in ToSet(S)
<1> DEFINE files == Overlapping(start, end)
           n == Len(files)
           ps == [j \in 1 .. n |-> ReadSeries(files[j], id)]
           G == FilePoints(id)
           N == Len(segs)
<1>1. segs \in Seq(SegmentSet) /\ N \in Nat /\ \A i \in 1 .. N : segs[i] \in SegmentSet
  BY SegmentsOf DEF PointsInv
<1>2. PICK place : Chosen(files, place, N, start, end)
  BY <1>1, OverlappingChosen
<1> HIDE DEF files
<1>3. /\ files \in Seq(Files) /\ place \in [1 .. n -> 1 .. N]
      /\ \A j \in 1 .. n : files[j] = segs[place[j]].file
      /\ \A j, l \in 1 .. n : place[j] = place[l] => j = l
      /\ \A i \in 1 .. N : Meets(i, start, end) => \E j \in 1 .. n : place[j] = i
  BY <1>2 DEF Chosen
<1>4. n \in Nat /\ DOMAIN files = 1 .. n
  BY <1>3
<1>5. DOMAIN G = 1 .. N /\ \A i \in 1 .. N : G[i] = ToSet(ReadSeries(segs[i].file, id))
  BY DEF FilePoints
<1>6. ReadSegments(files, id) = Merge(ps)
  BY <1>4 DEF ReadSegments
<1> HIDE DEF G, N, n
<1>7. \A j \in 1 .. n : ps[j] = ReadSeries(segs[place[j]].file, id) /\ place[j] \in 1 .. N
  BY <1>3
<1>8. \A j \in 1 .. n : ps[j] \in Slices
  <2> HIDE DEF ps
  <2> QED
    BY <1>1, <1>7, SegmentFacts
<1>9. ps \in Seq(Slices) /\ Len(ps) = n
  <2>1. ps \in [1 .. n -> Slices]
    BY <1>8
  <2> HIDE DEF ps
  <2> QED
    BY <1>4, <2>1
<1> HIDE DEF ps
<1>10. \A j \in 1 .. n : ToSet(ps[j]) = G[place[j]]
  BY <1>5, <1>7
<1>11. \A i, k \in 1 .. N : i # k => G[i] \cap G[k] = {}
  <2>1. Placed(id)
    BY DEF PointsInv
  <2> QED
    BY <1>5, <2>1 DEF Placed, Partition, G
<1>12. ps \in Lists
  <2>1. ASSUME NEW j \in 1 .. n, NEW l \in 1 .. n, j # l PROVE ToSet(ps[j]) \cap ToSet(ps[l]) = {}
    BY <1>3, <1>7, <1>10, <1>11, <2>1
  <2> QED
    BY <1>9, <2>1 DEF Lists
<1> DEFINE P == UNION {ToSet(ps[j]) : j \in 1 .. n}
<1>13. /\ Merge(ps) \in Slices /\ ToSet(Merge(ps)) \subseteq P
       /\ \A p \in P : p.t < MaxInt64 => p \in ToSet(Merge(ps))
  BY <1>9, <1>12, MergeMerges
<1>14. P \subseteq UNION {G[i] : i \in 1 .. N}
  BY <1>7, <1>10
<1>15. ASSUME NEW i \in 1 .. N, NEW p \in G[i], start <= p.t, p.t <= end
       PROVE  p \in P
  <2>1. segs[i].lo <= p.t /\ p.t <= segs[i].hi /\ segs[i].lo \in Times /\ segs[i].hi \in Times
        /\ ReadSeries(segs[i].file, id) \in Slices
    BY <1>1, <1>5, SegmentFacts
  <2>2. p \in Points
    BY <1>5, <2>1, PointSetFinite DEF Slices
  <2>3. p.t \in Int /\ segs[i].lo \in Int /\ segs[i].hi \in Int /\ start \in Int /\ end \in Int
    <3>1. p.t \in Times
      BY <2>2 DEF Points
    <3> QED
      BY <2>1, <3>1, QueryConstants
  <2>4. Meets(i, start, end)
    BY <1>15, <2>1, <2>3 DEF Meets
  <2>5. PICK j \in 1 .. n : place[j] = i
    BY <1>3, <2>4
  <2> QED
    BY <1>10, <2>5
<1>16. \A p \in UNION {G[i] : i \in 1 .. N} :
          start <= p.t /\ p.t <= end /\ p.t < MaxInt64 => p \in ToSet(Merge(ps))
  <2> HIDE DEF P
  <2> QED
    BY <1>13, <1>15
<1> QED
  BY <1>5, <1>6, <1>13, <1>14, <1>16 DEF files, G

(* What a query finds for one series: its points of the range, sorted,     *)
(* none of them twice.                                                     *)
LEMMA SeriesAnswer ==
    ASSUME PointsInv, NEW id \in Ids, NEW start \in Times, NEW end \in Times
    PROVE  LET R == QuerySeries(id, start, end)
           IN  /\ R \in Slices
               /\ {p \in ToSet(R) : p.t < MaxInt64} = InRange(id, start, end)
               /\ \A p \in ToSet(R) : start <= p.t /\ p.t <= end
<1> DEFINE S == ReadSegments(Overlapping(start, end), id)
           G == FilePoints(id)
           U == UNION {G[i] : i \in DOMAIN G}
           A == active[id]
           F == frozen[id]
           ps == <<A, F, S>>
           M == Merge(ps)
           P == UNION {ToSet(ps[i]) : i \in 1 .. 3}
           R == QuerySeries(id, start, end)
<1>1. /\ S \in Slices /\ ToSet(S) \subseteq U
      /\ \A p \in U : start <= p.t /\ p.t <= end /\ p.t < MaxInt64 => p \in ToSet(S)
  BY SegmentsAnswer
<1>2. A \in Slices /\ F \in Slices
  BY DEF PointsInv
<1>3. /\ ToSet(A) \cup ToSet(F) \cup U = InsertedOf(id)
      /\ ToSet(A) \cap ToSet(F) = {} /\ U \cap (ToSet(A) \cup ToSet(F)) = {}
  <2>1. Placed(id)
    BY DEF PointsInv
  <2> QED
    BY <2>1 DEF Placed, Partition
<1>4. R = Filter(M, start, end)
  BY DEF QuerySeries
<1> HIDE DEF S, U, A, F, R
<1>5. /\ ps \in Seq(Slices) /\ Len(ps) = 3
      /\ ps[1] = A /\ ps[2] = F /\ ps[3] = S
  BY <1>1, <1>2
<1> HIDE DEF ps
<1>6. ps \in Lists
  <2>1. ASSUME NEW i \in 1 .. 3, NEW k \in 1 .. 3, i # k PROVE ToSet(ps[i]) \cap ToSet(ps[k]) = {}
    <3>1. (i = 1 \/ i = 2 \/ i = 3) /\ (k = 1 \/ k = 2 \/ k = 3)
      OBVIOUS
    <3>2. ToSet(A) \cap ToSet(S) = {} /\ ToSet(F) \cap ToSet(S) = {} /\ ToSet(A) \cap ToSet(F) = {}
      BY <1>1, <1>3
    <3> QED
      BY <1>5, <2>1, <3>1, <3>2
  <2> QED
    BY <1>5, <2>1 DEF Lists
<1>7. P = ToSet(A) \cup ToSet(F) \cup ToSet(S)
  <2>1. 1 .. 3 = {1, 2, 3}
    OBVIOUS
  <2> QED
    BY <1>5, <2>1
<1>8. /\ M \in Slices /\ ToSet(M) \subseteq P
      /\ \A p \in P : p.t < MaxInt64 => p \in ToSet(M)
  BY <1>5, <1>6, MergeMerges
<1> HIDE DEF P, M
<1>9. start \in Int /\ end \in Int
  BY QueryConstants
<1>10. R \in Slices /\ ToSet(R) = {p \in ToSet(M) : start <= p.t /\ p.t <= end}
  BY <1>4, <1>8, <1>9, FilterKeeps
<1>11. InRange(id, start, end) =
         {p \in InsertedOf(id) : start <= p.t /\ p.t <= end /\ p.t < MaxInt64}
  BY DEF InRange, InsertedOf
<1>12. {p \in ToSet(R) : p.t < MaxInt64} = InRange(id, start, end)
  <2>1. ASSUME NEW p \in ToSet(R), p.t < MaxInt64 PROVE p \in InRange(id, start, end)
    BY <1>1, <1>3, <1>7, <1>8, <1>10, <1>11, <2>1
  <2>2. ASSUME NEW p \in InRange(id, start, end) PROVE p \in ToSet(R) /\ p.t < MaxInt64
    <3>1. p \in InsertedOf(id) /\ start <= p.t /\ p.t <= end /\ p.t < MaxInt64
      BY <1>11
    <3>2. p \in P
      BY <1>1, <1>3, <1>7, <3>1
    <3> QED
      BY <1>8, <1>10, <3>1, <3>2
  <2> QED
    BY <2>1, <2>2
<1> QED
  BY <1>10, <1>12 DEF R

(* Every query answers with exactly the inserted points of its range, once *)
(* each and sorted, wherever the points are.                               *)
THEOREM QueryExact == QuerySpec => []QueryMatchesReference
<1>1. PointsInv /\ CatalogExact => QueryMatchesReference
  <2> SUFFICES ASSUME PointsInv, CatalogExact,
                      NEW metric \in Metrics, NEW start \in Times, NEW end \in Times,
                      NEW i \in DOMAIN HandleQuery(metric, <<>>, start, end)
               PROVE  LET answer == HandleQuery(metric, <<>>, start, end)
                          points == answer[i].points
                          finite == {k \in DOMAIN points : points[k].t < MaxInt64}
                          expected == InRange(answer[i].id, start, end)
                      IN  /\ Sorted(points)
                          /\ {points[k] : k \in finite} = expected
                          /\ Cardinality(finite) = Cardinality(expected)
    BY DEF QueryMatchesReference
  <2> DEFINE ids == Resolve(metric, <<>>)
             id == ids[i]
             R == QuerySeries(id, start, end)
             finite == {k \in DOMAIN R : R[k].t < MaxInt64}
             expected == InRange(id, start, end)
             answer == HandleQuery(metric, <<>>, start, end)
  <2>1. /\ DOMAIN answer = DOMAIN ids
        /\ answer[i].id = id /\ answer[i].points = R
    BY DEF HandleQuery
  <2>2. id \in Ids
    <3>1. <<>> \in Filters
      <4>1. <<>> \in [{} -> UNION {{n.tags[k] : k \in DOMAIN n.tags} : n \in Names}]
        OBVIOUS
      <4> QED
        BY <4>1 DEF Filters
    <3>2. ToSet(ids) = Matching(metric, <<>>)
      BY <3>1 DEF CatalogExact
    <3>3. id \in ToSet(ids)
      BY <2>1 DEF ToSet
    <3> QED
      BY <3>2, <3>3 DEF Matching
  <2> HIDE DEF id, answer
  <2>3. /\ R \in Slices
        /\ {p \in ToSet(R) : p.t < MaxInt64} = expected
    BY <2>2, SeriesAnswer
  <2> HIDE DEF R, expected
  <2>4. /\ R \in Seq(Points) /\ Sorted(R) /\ Injective(R)
        /\ Len(R) \in Nat /\ DOMAIN R = 1 .. Len(R)
        /\ ToSet(R) = {R[k] : k \in 1 .. Len(R)}
    BY <2>3, PointsOf, PointSetFinite DEF Slices
  <2>5. {R[k] : k \in finite} = expected
    BY <2>3, <2>4
  <2>6. IsFiniteSet(finite)
    <3>1. IsFiniteSet(1 .. Len(R))
      BY <2>4, FS_Interval
    <3>2. finite \in SUBSET (1 .. Len(R))
      BY <2>4
    <3> QED
      BY <3>1, <3>2, FS_Subset
  <2>7. Cardinality(finite) = Cardinality(expected)
    <3> DEFINE f == [k \in finite |-> R[k]]
    <3>1. f \in [finite -> expected]
      BY <2>5
    <3>2. \A y \in expected : \E k \in finite : f[k] = y
      BY <2>5
    <3>3. \A k, l \in finite : f[k] = f[l] => k = l
      BY <2>4 DEF Injective
    <3> HIDE DEF f, finite
    <3>4. f \in Bijection(finite, expected)
      BY <3>1, <3>2, <3>3 DEF Bijection, Injection, Surjection, IsInjective
    <3>5. ExistsBijection(finite, expected)
      BY <3>4 DEF ExistsBijection
    <3> QED
      BY <2>6, <3>5, FS_Bijection
  <2>8. answer[i].points = R /\ InRange(answer[i].id, start, end) = expected
    BY <2>1 DEF expected
  <2> DEFINE Ok(points, found) ==
               LET below == {k \in DOMAIN points : points[k].t < MaxInt64}
               IN  /\ Sorted(points)
                   /\ {points[k] : k \in below} = found
                   /\ Cardinality(below) = Cardinality(found)
  <2>9. Ok(R, expected)
    BY <2>4, <2>5, <2>7
  <2>10. Ok(answer[i].points, InRange(answer[i].id, start, end))
    <3> HIDE DEF Ok
    <3> QED
      BY <2>8, <2>9
  <2> QED
    BY <2>10 DEF answer
<1>2. CatalogExact /\ PointsInv => QueryMatchesReference
  BY <1>1
<1> QED
  BY <1>2, PointsPlaced, IndexExact, PTL
-----------------------------------------------------------------------------
-----------------------------------------------------------------------------
(* Go's quotient lies toward zero.                                         *)
LEMMA QuotIs ==
    ASSUME NEW a \in Int, NEW w \in Nat \ {0}
    PROVE  LET q == Quot(a, w)
           IN  /\ q \in Int
               /\ a >= 0 => q >= 0 /\ q = a \div w /\ q * w <= a /\ a < q * w + w
               /\ a < 0 => q <= 0 /\ q * w - w < a /\ a <= q * w
<1> DEFINE c == -a
           k == c \div w
<1>1. CASE a >= 0
  <2>1. Quot(a, w) = a \div w
    BY <1>1 DEF Quot
  <2>2. a \div w \in Int /\ (a \div w) * w <= a /\ a < (a \div w) * w + w
    BY DivRemainder, DivIs
  <2> DEFINE q == a \div w
  <2> HIDE DEF q
  <2>3. q \in Int /\ q * w <= a /\ a < q * w + w
    BY <2>2 DEF q
  <2>4. q >= 0
    <3>1. ASSUME q < 0 PROVE FALSE
      <4>1. q * w + w <= 0 * w
        BY <2>3, <3>1, ProductOrder
      <4>2. 0 * w = 0 /\ q * w \in Int
        BY <2>3
      <4> QED
        BY <1>1, <2>3, <4>1, <4>2
    <3> QED
      BY <2>3, <3>1
  <2> QED
    BY <1>1, <2>1, <2>3, <2>4 DEF q
<1>2. CASE a < 0
  <2>1. Quot(a, w) = -k
    BY <1>2 DEF Quot
  <2>2. c \in Int /\ c > 0 /\ a = -c
    BY <1>2
  <2> HIDE DEF c
  <2>3. k \in Int /\ k * w <= c /\ c < k * w + w
    BY <2>2, DivRemainder, DivIs
  <2> HIDE DEF k
  <2>4. k >= 0
    <3>1. ASSUME k < 0 PROVE FALSE
      <4>1. k * w + w <= 0 * w
        BY <2>3, <3>1, ProductOrder
      <4>2. 0 * w = 0 /\ k * w \in Int
        BY <2>3
      <4> QED
        BY <2>2, <2>3, <4>1, <4>2
    <3> QED
      BY <2>3, <3>1
  <2>5. (-k) * w = -(k * w) /\ k * w \in Int
    BY <2>3
  <2>6. -k \in Int /\ -k <= 0 /\ (-k) * w - w < a /\ a <= (-k) * w
    BY <2>2, <2>3, <2>4, <2>5
  <2> QED
    BY <1>2, <2>1, <2>6
<1> QED
  BY <1>1, <1>2

(* The quotient of a distance of at most m widths and a bit.               *)
LEMMA QuotRange ==
    ASSUME NEW d \in Int, NEW w \in Nat \ {0}, NEW m \in Nat, -w < d, d < m * w + w
    PROVE  Quot(d, w) \in 0 .. m
<1> DEFINE q == Quot(d, w)
<1>1. /\ q \in Int
      /\ d >= 0 => q >= 0 /\ q * w <= d /\ d < q * w + w
      /\ d < 0 => q <= 0 /\ q * w - w < d /\ d <= q * w
  BY QuotIs
<1> HIDE DEF q
<1>2. m * w \in Int /\ q * w \in Int
  BY <1>1
<1>3. CASE d >= 0
  <2>1. ASSUME m < q PROVE FALSE
    <3>1. m * w + w <= q * w
      BY <1>1, <2>1, ProductOrder
    <3> QED
      BY <1>1, <1>2, <1>3, <3>1
  <2> QED
    BY <1>1, <1>3, <2>1 DEF q
<1>4. CASE d < 0
  <2>1. ASSUME q < 0 PROVE FALSE
    <3>1. q * w + w <= 0 * w
      BY <1>1, <2>1, ProductOrder
    <3>2. 0 * w = 0
      OBVIOUS
    <3> QED
      BY <1>1, <1>2, <1>4, <3>1, <3>2
  <2> QED
    BY <1>1, <1>4, <2>1 DEF q
<1> QED
  BY <1>3, <1>4

(* Aggregate has a bucket for every point: its quotient counts from the    *)
(* bucket of the first to that of the last, below zero too.                *)
LEMMA BucketExists ==
    ASSUME NEW w \in Nat \ {0}, NEW a \in Int, NEW z \in Int, a <= z
    PROVE  LET f == Quot(a, w)
               m == Quot(Quot(z, w) * w - f * w, w)
           IN  /\ m \in Nat /\ m = Quot(z, w) - f
               /\ \A t \in a .. z : Quot(t - f * w, w) \in 0 .. m
<1> DEFINE f == Quot(a, w)
           l == Quot(z, w)
           m == l - f
<1>1. /\ f \in Int
      /\ a >= 0 => f >= 0 /\ f * w <= a /\ a < f * w + w
      /\ a < 0 => f <= 0 /\ f * w - w < a /\ a <= f * w
  BY QuotIs
<1>2. /\ l \in Int
      /\ z >= 0 => l >= 0 /\ l * w <= z /\ z < l * w + w
      /\ z < 0 => l <= 0 /\ l * w - w < z /\ z <= l * w
  BY QuotIs
<1> HIDE DEF f, l
<1>3. f * w \in Int /\ l * w \in Int
  BY <1>1, <1>2
<1>4. f <= l
  <2>1. ASSUME l < f PROVE FALSE
    <3>1. l * w + w <= f * w
      BY <1>1, <1>2, <2>1, ProductOrder
    <3>2. CASE a >= 0
      BY <1>1, <1>2, <1>3, <3>1, <3>2
    <3>3. CASE a < 0 /\ z >= 0
      BY <1>1, <1>2, <2>1, <3>3
    <3>4. CASE a < 0 /\ z < 0
      BY <1>1, <1>2, <1>3, <3>1, <3>4
    <3> QED
      BY <3>2, <3>3, <3>4
  <2> QED
    BY <1>1, <1>2, <2>1
<1>5. m \in Nat /\ m * w = l * w - f * w
  BY <1>1, <1>2, <1>4
<1> HIDE DEF m
<1>6. m * w \in Int
  BY <1>5
<1>7. Quot(m * w, w) = m
  <2>1. m * w >= 0
    <3>1. CASE m = 0
      BY <3>1
    <3>2. CASE 0 < m
      <4>1. 0 * w + w <= m * w
        BY <1>5, <3>2, ProductOrder
      <4> QED
        BY <1>6, <4>1
    <3> QED
      BY <1>5, <3>1, <3>2
  <2> DEFINE p == m * w
  <2>2. p \in Int /\ p >= 0 /\ m * w <= p /\ p < m * w + w
    BY <1>6, <2>1
  <2> HIDE DEF p
  <2>3. p \div w = m
    BY <1>5, <2>2, DivIs
  <2>4. Quot(p, w) = m
    BY <2>2, <2>3 DEF Quot
  <2> QED
    BY <2>4 DEF p
<1>8. ASSUME NEW t \in a .. z PROVE Quot(t - f * w, w) \in 0 .. m
  <2> DEFINE d == t - f * w
  <2>1. d \in Int /\ -w < d /\ d < m * w + w
    <3>1. t \in Int /\ a <= t /\ t <= z
      OBVIOUS
    <3>2. a > f * w - w
      BY <1>1, <1>3
    <3>3. z < l * w + w
      BY <1>2, <1>3
    <3> QED
      BY <1>3, <1>5, <3>1, <3>2, <3>3
  <2> HIDE DEF d
  <2>2. Quot(d, w) \in 0 .. m
    BY <1>5, <2>1, QuotRange
  <2> QED
    BY <2>2 DEF d
<1>9. Quot(l * w - f * w, w) = m
  BY <1>5, <1>7
<1> QED
  BY <1>5, <1>8, <1>9 DEF f, l, m
-----------------------------------------------------------------------------
(* The places of the points that Aggregate counts in its i-th bucket.      *)
First(s, w) == Quot(s[1].t, w) * w
InBucket(s, w, i) == {j \in 1 .. Len(s) : Quot(s[j].t - First(s, w), w) = i - 1}

(* The sum of the values at the places in J, in the order of the places.   *)
SumAt(s, J) ==
    LET sum == CHOOSE f : f = [j \in 0 .. Len(s) |->
                  IF j = 0 THEN 0 ELSE f[j - 1] + IF j \in J THEN s[j].v ELSE 0]
    IN  sum[Len(s)]

(* What each bucket of the answer holds.                                   *)
LEMMA AggregateIs ==
    ASSUME NEW s \in Slices, s # <<>>, NEW w \in Nat \ {0}
    PROVE  LET b == Aggregate(s, w)
               m == NumBuckets(s, w)
           IN  /\ b = [i \in 1 .. m |-> b[i]]
               /\ \A i \in 1 .. m :
                     LET J == InBucket(s, w, i)
                         vs == {s[j].v : j \in J}
                     IN  /\ b[i].start = First(s, w) + (i - 1) * w
                         /\ b[i].count = Cardinality(J)
                         /\ b[i].sum = SumAt(s, J)
                         /\ vs # {} => b[i].min = MinOf(vs) /\ b[i].max = MaxOf(vs)
<1> DEFINE b == Aggregate(s, w)
           m == NumBuckets(s, w)
           first == Quot(s[1].t, w) * w
           Bucket(i) ==
             LET in == {j \in DOMAIN s : Quot(s[j].t - first, w) = i}
                 vs == {s[j].v : j \in in}
                 sum == CHOOSE f : f = [j \in 0 .. Len(s) |->
                          IF j = 0 THEN 0 ELSE f[j - 1] + IF j \in in THEN s[j].v ELSE 0]
             IN  [start |-> first + i * w, count |-> Cardinality(in), sum |-> sum[Len(s)],
                  min |-> IF vs = {} THEN 0 ELSE MinOf(vs),
                  max |-> IF vs = {} THEN 0 ELSE MaxOf(vs)]
<1>1. b = [i \in 1 .. m |-> Bucket(i - 1)]
  BY Zenon DEF Aggregate
<1>2. DOMAIN s = 1 .. Len(s)
  BY PointsOf DEF Slices
<1>3. ASSUME NEW i \in 1 .. m
      PROVE  LET J == InBucket(s, w, i)
                 vs == {s[j].v : j \in J}
             IN  Bucket(i - 1) =
                   [start |-> First(s, w) + (i - 1) * w, count |-> Cardinality(J),
                    sum |-> SumAt(s, J),
                    min |-> IF vs = {} THEN 0 ELSE MinOf(vs),
                    max |-> IF vs = {} THEN 0 ELSE MaxOf(vs)]
  <2>1. InBucket(s, w, i) = {j \in DOMAIN s : Quot(s[j].t - first, w) = i - 1}
    BY <1>2, Zenon DEF InBucket, First
  <2>2. first = First(s, w)
    BY DEF First
  <2> DEFINE J == InBucket(s, w, i)
             in == {j \in DOMAIN s : Quot(s[j].t - first, w) = i - 1}
  <2>3. J = in
    BY <2>1
  <2>4. Bucket(i - 1) =
          [start |-> first + (i - 1) * w, count |-> Cardinality(in), sum |-> SumAt(s, in),
           min |-> IF {s[j].v : j \in in} = {} THEN 0 ELSE MinOf({s[j].v : j \in in}),
           max |-> IF {s[j].v : j \in in} = {} THEN 0 ELSE MaxOf({s[j].v : j \in in})]
    BY Zenon DEF SumAt
  <2> HIDE DEF J, in, first, Bucket
  <2> QED
    BY <2>2, <2>3, <2>4 DEF J
<1> HIDE DEF b, m, Bucket
<1>4. b = [i \in 1 .. m |-> b[i]]
  BY <1>1
<1>5. ASSUME NEW i \in 1 .. m PROVE b[i] = Bucket(i - 1)
  BY <1>1
<1>6. ASSUME NEW i \in 1 .. m
      PROVE  LET J == InBucket(s, w, i)
                 vs == {s[j].v : j \in J}
             IN  /\ b[i].start = First(s, w) + (i - 1) * w
                 /\ b[i].count = Cardinality(J)
                 /\ b[i].sum = SumAt(s, J)
                 /\ vs # {} => b[i].min = MinOf(vs) /\ b[i].max = MaxOf(vs)
  <2> DEFINE J == InBucket(s, w, i)
             vs == {s[j].v : j \in J}
             f == First(s, w) + (i - 1) * w
             c == Cardinality(J)
             u == SumAt(s, J)
             x == IF vs = {} THEN 0 ELSE MinOf(vs)
             y == IF vs = {} THEN 0 ELSE MaxOf(vs)
  <2>1. b[i] = [start |-> f, count |-> c, sum |-> u, min |-> x, max |-> y]
    BY <1>3, <1>5
  <2>2. vs # {} => x = MinOf(vs) /\ y = MaxOf(vs)
    OBVIOUS
  <2> HIDE DEF f, c, u, x, y, vs, J
  <2>3. b[i].start = f /\ b[i].count = c /\ b[i].sum = u /\ b[i].min = x /\ b[i].max = y
    BY <2>1
  <2> QED
    BY <2>2, <2>3 DEF f, c, u, vs, J
<1> QED
  BY <1>4, <1>6 DEF b, m

(* Every point is in one bucket.                                           *)
LEMMA BucketOf ==
    ASSUME NEW s \in Slices, s # <<>>, NEW w \in Nat \ {0}
    PROVE  /\ NumBuckets(s, w) \in Nat
           /\ NumBuckets(s, w) = Quot(Last(s).t, w) - Quot(s[1].t, w) + 1
           /\ \A j \in 1 .. Len(s) : Quot(s[j].t - First(s, w), w) \in 0 .. NumBuckets(s, w) - 1
<1> DEFINE n == Len(s)
           f == Quot(s[1].t, w)
           l == Quot(Last(s).t, w)
           m == Quot(l * w - f * w, w)
<1>1. /\ s \in Seq(Points) /\ n \in Nat
      /\ \A i \in 1 .. n : s[i].t \in Int
      /\ \A i, k \in 1 .. n : i <= k => s[i].t <= s[k].t
  <2>1. s \in Seq(Points) /\ Sorted(s)
    BY DEF Slices
  <2> QED
    BY <2>1, PointsOf, SortedAll
<1>2. 1 \in 1 .. n /\ n \in 1 .. n /\ \A j \in 1 .. n : 1 <= j /\ j <= n
  BY <1>1
<1>3. Last(s) = s[n]
  BY DEF Last
<1>4. s[1].t \in Int /\ s[n].t \in Int /\ s[1].t <= s[n].t
      /\ \A j \in 1 .. n : s[j].t \in s[1].t .. s[n].t
  <2>1. \A j \in 1 .. n : s[1].t <= s[j].t /\ s[j].t <= s[n].t
    BY <1>1, <1>2
  <2> QED
    BY <1>1, <1>2, <2>1
<1>5. NumBuckets(s, w) = m + 1
  BY DEF NumBuckets
<1>6. /\ m \in Nat /\ m = l - f
      /\ \A t \in s[1].t .. s[n].t : Quot(t - f * w, w) \in 0 .. m
  BY <1>3, <1>4, BucketExists
<1>7. First(s, w) = f * w
  BY DEF First
<1> HIDE DEF m, f, l, n
<1>8. (m + 1) - 1 = m /\ m + 1 \in Nat /\ m + 1 = l - f + 1
  BY <1>6
<1> QED
  BY <1>4, <1>5, <1>6, <1>7, <1>8 DEF f, l, n
-----------------------------------------------------------------------------
(* The counts of the first i of m buckets, added up.                       *)
CountsUpTo(b) ==
    CHOOSE f : f = [i \in 0 .. Len(b) |-> IF i = 0 THEN 0 ELSE f[i - 1] + b[i].count]

(* The counts of all buckets add up to the points.                         *)
LEMMA CountsAll ==
    ASSUME NEW s \in Slices, s # <<>>, NEW w \in Nat \ {0}
    PROVE  LET b == Aggregate(s, w)
           IN  CountsUpTo(b)[Len(b)] = Len(s)
<1> DEFINE b == Aggregate(s, w)
           m == NumBuckets(s, w)
           n == Len(s)
           c == [i \in 1 .. m |-> b[i].count]
           place == [j \in 1 .. n |-> Quot(s[j].t - First(s, w), w)]
           J(i) == {j \in 1 .. n : place[j] = i - 1}
           U(i) == {j \in 1 .. n : place[j] \in 0 .. i - 1}
           G == [k \in 1 .. m |-> [x \in Nat |-> x + c[k]]]
           h == CountsUpTo(b)
<1>1. n \in Nat /\ m \in Nat /\ \A j \in 1 .. n : place[j] \in 0 .. m - 1
  <2>1. n \in Nat
    BY PointsOf DEF Slices
  <2> QED
    BY <2>1, BucketOf
<1>2. /\ b = [i \in 1 .. m |-> b[i]]
      /\ \A i \in 1 .. m : b[i].count = Cardinality(InBucket(s, w, i))
  BY AggregateIs
<1>3. \A i \in 1 .. m : InBucket(s, w, i) = J(i)
  BY DEF InBucket
<1> HIDE DEF b, m, n, place
<1>4. Len(b) = m
  <2> DEFINE d == [i \in 1 .. m |-> b[i]]
  <2>1. Len(d) = m
    BY <1>1
  <2> HIDE DEF d
  <2>2. b = d
    BY <1>2 DEF d
  <2> QED
    BY <2>1, <2>2
<1>5. IsFiniteSet(1 .. n) /\ Cardinality(1 .. n) = n
  <2>1. 1 \in Int /\ n \in Int
    BY <1>1
  <2>2. IsFiniteSet(1 .. n) /\ Cardinality(1 .. n) = IF 1 > n THEN 0 ELSE n - 1 + 1
    BY <2>1, FS_Interval
  <2> QED
    BY <1>1, <2>2
<1>6. \A i : IsFiniteSet(J(i)) /\ IsFiniteSet(U(i)) /\ Cardinality(J(i)) \in Nat
  <2> SUFFICES ASSUME NEW i PROVE IsFiniteSet(J(i)) /\ IsFiniteSet(U(i)) /\ Cardinality(J(i)) \in Nat
    OBVIOUS
  <2>1. J(i) \in SUBSET (1 .. n) /\ U(i) \in SUBSET (1 .. n)
    OBVIOUS
  <2> HIDE DEF J, U
  <2> QED
    BY <1>5, <2>1, FS_Subset, FS_CardinalityType
<1>7. \A i \in 1 .. m : c[i] = Cardinality(J(i)) /\ c[i] = b[i].count /\ c[i] \in Nat
  <2>1. \A i \in 1 .. m : c[i] = b[i].count
    OBVIOUS
  <2> HIDE DEF c, J
  <2> SUFFICES ASSUME NEW i \in 1 .. m
               PROVE  c[i] = Cardinality(J(i)) /\ c[i] = b[i].count /\ c[i] \in Nat
    OBVIOUS
  <2>2. b[i].count = Cardinality(InBucket(s, w, i)) /\ InBucket(s, w, i) = J(i)
    BY <1>2, <1>3
  <2> QED
    BY <1>6, <2>1, <2>2
<1> HIDE DEF J, c
<1>8. 0 \in Nat /\ \A k \in 1 .. m, x \in Nat : G[k][x] \in Nat
  BY <1>7
<1>9. PICK f : IsLoop(f, m, Nat, 0, G)
  <2> HIDE DEF G
  <2> QED
    BY <1>1, <1>8, LoopExists, Zenon
<1>10. f = [i \in 0 .. m |-> IF i = 0 THEN 0 ELSE f[i - 1] + b[i].count]
  <2>1. ASSUME NEW k \in 1 .. m PROVE f[k] = f[k - 1] + b[k].count
    <3>1. f[k - 1] \in Nat /\ f[k] = G[k][f[k - 1]]
      <4> HIDE DEF G
      <4> QED
        BY <1>1, <1>9, LoopRound
    <3> QED
      BY <1>7, <3>1
  <2> QED
    BY <1>9, <2>1 DEF IsLoop
<1>11. h = [i \in 0 .. m |-> IF i = 0 THEN 0 ELSE h[i - 1] + b[i].count]
  BY <1>4, <1>10 DEF CountsUpTo
<1> HIDE DEF h
<1> DEFINE T == {i \in 0 .. m : h[i] = Cardinality(U(i))}
<1>12. 0 \in T
  <2>1. U(0) = {}
    BY <1>1
  <2>2. h[0] = 0 /\ 0 \in 0 .. m
    BY <1>1, <1>11
  <2> HIDE DEF U
  <2> QED
    BY <2>1, <2>2, FS_EmptySet
<1>13. ASSUME NEW k \in 1 .. m, k - 1 \in T PROVE k \in T
  <2>1. k \in 0 .. m /\ k # 0 /\ k \in Int
    BY <1>1
  <2>2. h[k] = h[k - 1] + b[k].count
    BY <1>11, <2>1
  <2>3. U(k) = U(k - 1) \cup J(k) /\ U(k - 1) \cap J(k) = {}
    <3>1. \A j \in 1 .. n : /\ place[j] \in 0 .. k - 1 <=> (place[j] \in 0 .. (k - 1) - 1 \/ place[j] = k - 1)
                            /\ ~(place[j] \in 0 .. (k - 1) - 1 /\ place[j] = k - 1)
      BY <1>1, <2>1
    <3> QED
      BY <3>1 DEF J
  <2>4. h[k - 1] = Cardinality(U(k - 1))
    BY <1>13
  <2> HIDE DEF U
  <2>5. /\ Cardinality(U(k - 1) \cup J(k)) =
             Cardinality(U(k - 1)) + Cardinality(J(k)) - Cardinality(U(k - 1) \cap J(k))
    BY <1>6, FS_Union
  <2>6. Cardinality(U(k - 1) \cap J(k)) = 0
    BY <2>3, FS_EmptySet
  <2>7. Cardinality(U(k - 1)) \in Nat /\ Cardinality(J(k)) \in Nat
    BY <1>6, FS_CardinalityType
  <2>8. Cardinality(U(k)) = Cardinality(U(k - 1)) + Cardinality(J(k))
    BY <2>3, <2>5, <2>6, <2>7
  <2>9. h[k] = Cardinality(U(k))
    BY <1>7, <2>2, <2>4, <2>8
  <2> QED
    BY <2>1, <2>9
<1>14. m \in T
  <2> HIDE DEF T
  <2>1. \A k \in 1 .. m : k - 1 \in T => k \in T
    BY <1>13
  <2>2. \A k \in 0 .. m : k \in T
    BY <1>1, <1>12, <2>1, UpTo, Zenon
  <2> QED
    BY <1>1, <2>2
<1>15. U(m) = 1 .. n
  BY <1>1
<1> QED
  BY <1>4, <1>5, <1>14, <1>15 DEF b, n, h

(* The points of a series below math.MaxInt64 are all that a query finds.  *)
LEMMA FiniteAnswer ==
    ASSUME PointsInv, NEW id \in Ids, NEW start \in Times, NEW end \in Times, end < MaxInt64
    PROVE  LET R == QuerySeries(id, start, end)
           IN  /\ R \in Slices /\ ToSet(R) = InRange(id, start, end)
               /\ \A p \in ToSet(R) : start <= p.t /\ p.t <= end
<1> DEFINE R == QuerySeries(id, start, end)
<1>1. /\ R \in Slices
      /\ {p \in ToSet(R) : p.t < MaxInt64} = InRange(id, start, end)
      /\ \A p \in ToSet(R) : start <= p.t /\ p.t <= end
  BY SeriesAnswer
<1> HIDE DEF R
<1>2. \A p \in ToSet(R) : p.t \in Int
  <2>1. ToSet(R) \subseteq Points
    BY <1>1, PointSetFinite DEF Slices
  <2> QED
    BY <2>1, QueryConstants DEF Points
<1>3. end \in Int /\ MaxInt64 \in Int
  BY QueryConstants
<1>4. \A p \in ToSet(R) : p.t < MaxInt64
  BY <1>1, <1>2, <1>3
<1> QED
  BY <1>1, <1>4 DEF R

(* No point of an aggregating query is lost to an index outside the bucket *)
(* slice, for timestamps below zero too: the counts add up.                *)
THEOREM AggregateCounts == QuerySpec => []AggregateTotal
<1>1. PointsInv => AggregateTotal
  <2> SUFFICES ASSUME PointsInv, NEW id \in Ids, NEW start \in Times, NEW end \in Times,
                      NEW w \in Widths, end < MaxInt64
               PROVE  LET b == Aggregate(QuerySeries(id, start, end), w)
                      IN  CountsUpTo(b)[Len(b)] = Cardinality(InRange(id, start, end))
    BY Zenon DEF AggregateTotal, CountsUpTo
  <2> DEFINE R == QuerySeries(id, start, end)
             b == Aggregate(R, w)
  <2>1. R \in Slices /\ ToSet(R) = InRange(id, start, end)
    BY FiniteAnswer
  <2> HIDE DEF R
  <2>2. w \in Nat \ {0}
    BY QueryConstants
  <2>3. Cardinality(InRange(id, start, end)) = Len(R)
    BY <2>1, SliceSize DEF Slices
  <2>4. CASE R = <<>>
    <3>1. b = <<>>
      BY <2>4 DEF Aggregate
    <3> DEFINE h == CountsUpTo(<<>>)
               f == [i \in 0 .. 0 |-> 0]
    <3>2. Len(<<>>) = 0
      OBVIOUS
    <3>3. f = [i \in 0 .. 0 |-> IF i = 0 THEN 0 ELSE f[i - 1] + <<>>[i].count]
      OBVIOUS
    <3>4. h = [i \in 0 .. 0 |-> IF i = 0 THEN 0 ELSE h[i - 1] + <<>>[i].count]
      <4> HIDE DEF f
      <4> QED
        BY <3>2, <3>3 DEF CountsUpTo
    <3> HIDE DEF h
    <3>5. h[0] = 0
      BY <3>4
    <3> HIDE DEF b
    <3>6. Len(R) = 0
      BY <2>4
    <3> QED
      BY <2>3, <3>1, <3>2, <3>5, <3>6 DEF b, R, h
  <2>5. CASE R # <<>>
    <3>1. CountsUpTo(b)[Len(b)] = Len(R)
      BY <2>1, <2>2, <2>5, CountsAll
    <3> QED
      BY <2>3, <3>1 DEF R
  <2> QED
    BY <2>4, <2>5
<1> QED
  BY <1>1, PointsPlaced, PTL
-----------------------------------------------------------------------------
(* For timestamps that are not negative, bucket i holds the points from    *)
(* its start up to the next one.                                           *)
LEMMA BucketPlaces ==
    ASSUME NEW s \in Slices, s # <<>>, NEW w \in Nat \ {0}, \A p \in ToSet(s) : 0 <= p.t,
           NEW i \in Nat, i >= 1
    PROVE  LET f == First(s, w) + (i - 1) * w
           IN  /\ f \in Int /\ f % w = 0
               /\ InBucket(s, w, i) = {j \in 1 .. Len(s) : f <= s[j].t /\ s[j].t < f + w}
<1> DEFINE n == Len(s)
           q == Quot(s[1].t, w)
           first == First(s, w)
           e == (i - 1) * w
<1>1. /\ s \in Seq(Points) /\ n \in Nat
      /\ \A j \in 1 .. n : s[j].t \in Int /\ 0 <= s[j].t
      /\ \A j, k \in 1 .. n : j <= k => s[j].t <= s[k].t
  <2>1. s \in Seq(Points) /\ Sorted(s)
    BY DEF Slices
  <2>2. \A j \in 1 .. n : s[j] \in ToSet(s)
    BY <2>1, PointSetFinite
  <2> QED
    BY <2>1, <2>2, PointsOf, SortedAll
<1>2. 1 \in 1 .. n /\ \A j \in 1 .. n : 1 <= j
  BY <1>1
<1>3. q \in Int /\ q * w <= s[1].t
  BY <1>1, <1>2, QuotIs
<1>4. first = q * w
  BY DEF First
<1> HIDE DEF q, n
<1>5. first \in Int /\ e \in Int
  BY <1>3, <1>4
<1>6. (first + e) % w = 0
  <2> DEFINE k == q + (i - 1)
  <2>1. k \in Int /\ first + e = k * w
    BY <1>3, <1>4
  <2> HIDE DEF k, first, e
  <2> DEFINE a == k * w
  <2>2. a \in Int /\ a = k * w /\ a < k * w + w /\ k * w <= a
    BY <2>1
  <2> HIDE DEF a
  <2>3. a \div w = k
    BY <2>1, <2>2, DivIs
  <2>4. a = (a \div w) * w + (a % w) /\ a % w \in 0 .. w - 1
    BY <2>2, DivRemainder
  <2>5. a % w = 0
    BY <2>1, <2>2, <2>3, <2>4
  <2> QED
    BY <2>1, <2>5 DEF a
<1>7. ASSUME NEW j \in 1 .. n
      PROVE  Quot(s[j].t - first, w) = i - 1 <=> (first + e <= s[j].t /\ s[j].t < (first + e) + w)
  <2> DEFINE d == s[j].t - first
  <2>1. d \in Int /\ d >= 0 /\ s[j].t \in Int
    <3>1. s[1].t \in Int /\ s[j].t \in Int /\ s[1].t <= s[j].t
      BY <1>1, <1>2
    <3>2. first \in Int /\ first <= s[1].t
      BY <1>3, <1>4, <1>5
    <3> HIDE DEF first
    <3> QED
      BY <3>1, <3>2
  <2>2. first + e <= s[j].t /\ s[j].t < (first + e) + w <=> e <= d /\ d < e + w
    <3>1. first \in Int /\ e \in Int /\ s[j].t \in Int
      BY <1>5, <2>1
    <3> HIDE DEF first, e
    <3> QED
      BY <3>1
  <2> HIDE DEF d
  <2>3. Quot(d, w) = d \div w
    BY <2>1 DEF Quot
  <2>4. i - 1 \in Int
    OBVIOUS
  <2>5. d \div w = i - 1 <=> e <= d /\ d < e + w
    BY <2>1, <2>4, DivIs
  <2> QED
    BY <2>2, <2>3, <2>5 DEF d
<1> HIDE DEF first, e
<1>8. InBucket(s, w, i) = {j \in 1 .. n : Quot(s[j].t - first, w) = i - 1}
  BY Zenon DEF InBucket, first, n
<1>9. InBucket(s, w, i) = {j \in 1 .. n : first + e <= s[j].t /\ s[j].t < (first + e) + w}
  BY <1>7, <1>8
<1> QED
  BY <1>5, <1>6, <1>9 DEF first, e, n

(* The points at some places of a slice.                                   *)
LEMMA PointsAt ==
    ASSUME NEW s \in Slices, NEW J \in SUBSET (1 .. Len(s))
    PROVE  IsFiniteSet(J) /\ Cardinality(J) = Cardinality({s[j] : j \in J})
<1> DEFINE f == [j \in J |-> s[j]]
           P == {s[j] : j \in J}
<1>1. IsFiniteSet(J)
  <2>1. Len(s) \in Nat
    BY PointsOf DEF Slices
  <2>2. IsFiniteSet(1 .. Len(s))
    BY <2>1, FS_Interval
  <2> QED
    BY <2>2, FS_Subset
<1>2. f \in [J -> P] /\ (\A y \in P : \E j \in J : f[j] = y)
  OBVIOUS
<1>3. \A j, l \in J : f[j] = f[l] => j = l
  BY DEF Slices, Injective
<1> HIDE DEF f, P
<1>4. f \in Bijection(J, P)
  BY <1>2, <1>3 DEF Bijection, Injection, Surjection, IsInjective
<1>5. ExistsBijection(J, P)
  BY <1>4 DEF ExistsBijection
<1>6. Cardinality(J) = Cardinality(P)
  BY <1>1, <1>5, FS_Bijection
<1> QED
  BY <1>1, <1>6 DEF P
-----------------------------------------------------------------------------
(* The sum of the values of S up to each value.                            *)
ValuesUpTo(S) ==
    CHOOSE f : f = [v \in 0 .. MaxPoints |->
        IF v = 0 THEN 0 ELSE f[v - 1] + IF \E p \in S : p.v = v THEN v ELSE 0]

(* The recurrence behind SumOf.                                            *)
LEMMA ValuesAre ==
    ASSUME NEW S
    PROVE  LET h == ValuesUpTo(S)
           IN  /\ SumOf(S) = h[MaxPoints] /\ h[0] = 0
               /\ \A v \in 1 .. MaxPoints :
                     h[v] = h[v - 1] + IF \E p \in S : p.v = v THEN v ELSE 0
               /\ \A v \in 0 .. MaxPoints : h[v] \in Nat
<1> DEFINE N == MaxPoints
           c == [v \in 1 .. N |-> IF \E p \in S : p.v = v THEN v ELSE 0]
           G == [k \in 1 .. N |-> [x \in Nat |-> x + c[k]]]
           h == ValuesUpTo(S)
<1>1. N \in Nat
  BY QueryConstants
<1>2. \A v \in 1 .. N : c[v] \in Nat /\ c[v] = IF \E p \in S : p.v = v THEN v ELSE 0
  OBVIOUS
<1> HIDE DEF c
<1>3. 0 \in Nat /\ \A k \in 1 .. N, x \in Nat : G[k][x] \in Nat
  BY <1>2
<1>4. PICK f : IsLoop(f, N, Nat, 0, G)
  <2> HIDE DEF G
  <2> QED
    BY <1>1, <1>3, LoopExists, Zenon
<1>5. ASSUME NEW k \in 1 .. N PROVE f[k] = f[k - 1] + IF \E p \in S : p.v = k THEN k ELSE 0
  <2>1. f[k - 1] \in Nat /\ f[k] = G[k][f[k - 1]]
    <3> HIDE DEF G
    <3> QED
      BY <1>1, <1>4, LoopRound
  <2>2. f[k] = f[k - 1] + c[k]
    BY <2>1
  <2> QED
    BY <1>2, <2>2
<1>6. f \in [0 .. N -> Nat] /\ f[0] = 0
  BY <1>4 DEF IsLoop
<1>7. f = [v \in 0 .. N |-> IF v = 0 THEN 0 ELSE f[v - 1] + IF \E p \in S : p.v = v THEN v ELSE 0]
  BY <1>5, <1>6
<1>8. h = [v \in 0 .. N |-> IF v = 0 THEN 0 ELSE h[v - 1] + IF \E p \in S : p.v = v THEN v ELSE 0]
  BY <1>7, Zenon DEF ValuesUpTo
<1>9. SumOf(S) = h[N]
  BY DEF SumOf, ValuesUpTo
<1> HIDE DEF h, N
<1>10. h[0] = 0
  BY <1>1, <1>8
<1>11. \A v \in 1 .. N : h[v] = h[v - 1] + IF \E p \in S : p.v = v THEN v ELSE 0
  BY <1>1, <1>8
<1> DEFINE T == {v \in 0 .. N : h[v] \in Nat}
<1>12. 0 \in T
  BY <1>1, <1>10
<1>13. ASSUME NEW v \in 1 .. N, v - 1 \in T PROVE v \in T
  BY <1>1, <1>11, <1>13
<1>14. \A v \in 0 .. N : v \in T
  <2> HIDE DEF T
  <2>1. \A k \in 1 .. N : k - 1 \in T => k \in T
    BY <1>13
  <2> QED
    BY <1>1, <1>12, <2>1, UpTo, Zenon
<1> QED
  BY <1>9, <1>10, <1>11, <1>14 DEF N, h

(* One more point adds its value.                                          *)
LEMMA SumAdds ==
    ASSUME NEW S, NEW p, p.v \in 1 .. MaxPoints, \A q \in S : q.v # p.v
    PROVE  SumOf(S) \in Nat /\ SumOf(S \cup {p}) = SumOf(S) + p.v
<1> DEFINE N == MaxPoints
           U == S \cup {p}
           g == ValuesUpTo(S)
           h == ValuesUpTo(U)
           T == {v \in 0 .. N : h[v] = IF v >= p.v THEN g[v] + p.v ELSE g[v]}
<1>1. N \in Nat
  BY QueryConstants
<1>2. /\ SumOf(S) = g[N] /\ g[0] = 0
      /\ \A v \in 1 .. N : g[v] = g[v - 1] + IF \E q \in S : q.v = v THEN v ELSE 0
      /\ \A v \in 0 .. N : g[v] \in Nat
  BY ValuesAre
<1>3. /\ SumOf(U) = h[N] /\ h[0] = 0
      /\ \A v \in 1 .. N : h[v] = h[v - 1] + IF \E q \in U : q.v = v THEN v ELSE 0
  BY ValuesAre
<1>4. p.v \in 1 .. N
  OBVIOUS
<1> HIDE DEF g, h, N
<1>5. 0 \in T
  BY <1>1, <1>2, <1>3, <1>4
<1>6. ASSUME NEW v \in 1 .. N, v - 1 \in T PROVE v \in T
  <2>1. v \in 0 .. N /\ v - 1 \in 0 .. N
    BY <1>1
  <2>2. h[v - 1] = IF v - 1 >= p.v THEN g[v - 1] + p.v ELSE g[v - 1]
    BY <1>6
  <2>3. g[v - 1] \in Nat /\ g[v] \in Nat
    BY <1>2, <2>1
  <2>4. CASE v = p.v
    <3>1. ~(\E q \in S : q.v = v) /\ (\E q \in U : q.v = v)
      BY <2>4
    <3>2. g[v] = g[v - 1] + 0 /\ h[v] = h[v - 1] + v
      BY <1>2, <1>3, <3>1
    <3>3. ~(v - 1 >= p.v) /\ v >= p.v
      BY <1>4, <2>4
    <3> QED
      BY <2>1, <2>2, <2>3, <2>4, <3>2, <3>3
  <2>5. CASE v # p.v
    <3>1. (\E q \in S : q.v = v) <=> (\E q \in U : q.v = v)
      BY <2>5
    <3> DEFINE e == IF \E q \in S : q.v = v THEN v ELSE 0
    <3>2. e \in Nat /\ g[v] = g[v - 1] + e
      BY <1>2
    <3>3. h[v] = h[v - 1] + e
      BY <1>3, <3>1
    <3> HIDE DEF e
    <3>4. v - 1 >= p.v <=> v >= p.v
      BY <1>4, <2>5
    <3> QED
      BY <1>4, <2>1, <2>2, <2>3, <3>2, <3>3, <3>4
  <2> QED
    BY <2>4, <2>5
<1>7. N \in T
  <2> HIDE DEF T
  <2>1. \A k \in 1 .. N : k - 1 \in T => k \in T
    BY <1>6
  <2>2. \A k \in 0 .. N : k \in T
    BY <1>1, <1>5, <2>1, UpTo, Zenon
  <2> QED
    BY <1>1, <2>2
<1>8. h[N] = g[N] + p.v
  BY <1>4, <1>7
<1>9. g[N] \in Nat
  BY <1>1, <1>2
<1> QED
  BY <1>2, <1>3, <1>8, <1>9

(* No points, no sum.                                                      *)
LEMMA SumEmpty == SumOf({}) = 0
<1> DEFINE N == MaxPoints
           g == ValuesUpTo({})
           T == {v \in 0 .. N : g[v] = 0}
<1>1. N \in Nat
  BY QueryConstants
<1>2. SumOf({}) = g[N] /\ g[0] = 0 /\ \A v \in 1 .. N : g[v] = g[v - 1] + 0
  BY ValuesAre
<1> HIDE DEF g, N
<1>3. 0 \in T
  BY <1>1, <1>2
<1>4. ASSUME NEW v \in 1 .. N, v - 1 \in T PROVE v \in T
  BY <1>1, <1>2, <1>4
<1>5. \A v \in 0 .. N : v \in T
  <2> HIDE DEF T
  <2>1. \A k \in 1 .. N : k - 1 \in T => k \in T
    BY <1>4
  <2> QED
    BY <1>1, <1>3, <2>1, UpTo, Zenon
<1> QED
  BY <1>1, <1>2, <1>5
-----------------------------------------------------------------------------
(* The partial sums of Aggregate.                                          *)
SumsUpTo(s, J) ==
    CHOOSE f : f = [j \in 0 .. Len(s) |->
        IF j = 0 THEN 0 ELSE f[j - 1] + IF j \in J THEN s[j].v ELSE 0]

(* Aggregate's sum, in the order of the slice, is the sum of the values.   *)
LEMMA SumAtIs ==
    ASSUME NEW s \in Slices, NEW J \in SUBSET (1 .. Len(s)),
           \A j, l \in 1 .. Len(s) : s[j].v = s[l].v => j = l
    PROVE  SumAt(s, J) = SumOf({s[j] : j \in J})
<1> DEFINE n == Len(s)
           c == [j \in 1 .. n |-> IF j \in J THEN s[j].v ELSE 0]
           G == [k \in 1 .. n |-> [x \in Nat |-> x + c[k]]]
           h == SumsUpTo(s, J)
           U(k) == {s[j] : j \in {l \in J : l <= k}}
           T == {k \in 0 .. n : h[k] = SumOf(U(k))}
<1>1. n \in Nat /\ \A j \in 1 .. n : s[j].v \in Nat /\ s[j].v \in 1 .. MaxPoints
  <2>1. s \in Seq(Points)
    BY DEF Slices
  <2>2. n \in Nat /\ \A j \in 1 .. n : s[j].v \in 1 .. MaxPoints
    BY <2>1, PointsOf
  <2> QED
    BY <2>2
<1>2. \A j \in 1 .. n : c[j] \in Nat /\ c[j] = IF j \in J THEN s[j].v ELSE 0
  BY <1>1
<1> HIDE DEF c, n
<1>3. 0 \in Nat /\ \A k \in 1 .. n, x \in Nat : G[k][x] \in Nat
  BY <1>2
<1>4. PICK f : IsLoop(f, n, Nat, 0, G)
  <2> HIDE DEF G
  <2> QED
    BY <1>1, <1>3, LoopExists, Zenon
<1>5. ASSUME NEW k \in 1 .. n PROVE f[k] = f[k - 1] + IF k \in J THEN s[k].v ELSE 0
  <2>1. f[k - 1] \in Nat /\ f[k] = G[k][f[k - 1]]
    <3> HIDE DEF G
    <3> QED
      BY <1>1, <1>4, LoopRound
  <2>2. f[k] = f[k - 1] + c[k]
    BY <2>1
  <2> QED
    BY <1>2, <2>2
<1>6. f \in [0 .. n -> Nat] /\ f[0] = 0
  BY <1>4 DEF IsLoop
<1>7. f = [j \in 0 .. n |-> IF j = 0 THEN 0 ELSE f[j - 1] + IF j \in J THEN s[j].v ELSE 0]
  BY <1>5, <1>6
<1>8. h = [j \in 0 .. n |-> IF j = 0 THEN 0 ELSE h[j - 1] + IF j \in J THEN s[j].v ELSE 0]
  BY <1>7, Zenon DEF SumsUpTo, n
<1>9. SumAt(s, J) = h[n]
  BY DEF SumAt, SumsUpTo, n
<1> HIDE DEF h
<1>10. 0 \in T
  <2>1. U(0) = {}
    <3>1. \A l \in J : ~(l <= 0)
      BY <1>1
    <3> QED
      BY <3>1
  <2>2. h[0] = 0 /\ 0 \in 0 .. n
    BY <1>1, <1>8
  <2> HIDE DEF U
  <2> QED
    BY <2>1, <2>2, SumEmpty
<1>11. ASSUME NEW k \in 1 .. n, k - 1 \in T PROVE k \in T
  <2>1. k \in 0 .. n /\ k # 0 /\ k \in Int
    BY <1>1
  <2>2. h[k] = h[k - 1] + IF k \in J THEN s[k].v ELSE 0
    BY <1>8, <2>1
  <2>3. h[k - 1] = SumOf(U(k - 1))
    BY <1>11
  <2>4. \A l \in J : l \in 1 .. n /\ (l <= k <=> (l <= k - 1 \/ l = k))
    BY <2>1 DEF n
  <2>5. CASE k \in J
    <3>1. U(k) = U(k - 1) \cup {s[k]}
      BY <2>4, <2>5
    <3>2. \A q \in U(k - 1) : q.v # s[k].v
      <4>1. ASSUME NEW l \in J, l <= k - 1 PROVE s[l].v # s[k].v
        <5>1. l # k /\ l \in 1 .. n
          BY <2>1, <2>4, <4>1
        <5> QED
          BY <5>1 DEF n
      <4> QED
        BY <4>1
    <3> HIDE DEF U
    <3>3. SumOf(U(k - 1)) \in Nat /\ SumOf(U(k - 1) \cup {s[k]}) = SumOf(U(k - 1)) + s[k].v
      BY <1>1, <3>2, SumAdds
    <3>4. h[k] = SumOf(U(k))
      BY <2>2, <2>3, <2>5, <3>1, <3>3
    <3> QED
      BY <2>1, <3>4
  <2>6. CASE k \notin J
    <3>1. U(k) = U(k - 1)
      BY <2>4, <2>6
    <3> HIDE DEF U
    <3>2. SumOf(U(k - 1)) \in Nat
      <4>1. MaxPoints \in 0 .. MaxPoints
        BY QueryConstants
      <4> QED
        BY <4>1, ValuesAre
    <3>3. h[k] = SumOf(U(k))
      BY <2>2, <2>3, <2>6, <3>1, <3>2
    <3> QED
      BY <2>1, <3>3
  <2> QED
    BY <2>5, <2>6
<1>12. n \in T
  <2> HIDE DEF T
  <2>1. \A k \in 1 .. n : k - 1 \in T => k \in T
    BY <1>11
  <2>2. \A k \in 0 .. n : k \in T
    BY <1>1, <1>10, <2>1, UpTo, Zenon
  <2> QED
    BY <1>1, <2>2
<1>13. U(n) = {s[j] : j \in J}
  <2>1. \A j \in J : j <= n
    BY <1>1 DEF n
  <2> QED
    BY <2>1
<1> QED
  BY <1>9, <1>12, <1>13

(* What AggregateMatchesReference says of the buckets b of the points Q.   *)
Matched(b, w, Q) ==
    LET In(i) == {p \in Q : b[i].start <= p.t /\ p.t < b[i].start + w}
    IN  /\ \A i \in DOMAIN b :
              /\ b[i].start % w = 0 /\ b[i].start = b[1].start + (i - 1) * w
              /\ b[i].count = Cardinality(In(i)) /\ b[i].sum = SumOf(In(i))
              /\ \A p \in In(i) : b[i].min <= p.v /\ p.v <= b[i].max
              /\ In(i) # {} => {b[i].min, b[i].max} \subseteq {p.v : p \in In(i)}
        /\ UNION {In(i) : i \in DOMAIN b} = Q

(* The buckets of the points of a query.                                   *)
LEMMA BucketsMatch ==
    ASSUME NEW s \in Slices, s # <<>>, NEW w \in Nat \ {0},
           \A p \in ToSet(s) : 0 <= p.t,
           \A j, l \in 1 .. Len(s) : s[j].v = s[l].v => j = l
    PROVE  Matched(Aggregate(s, w), w, ToSet(s))
<1> DEFINE b == Aggregate(s, w)
           m == NumBuckets(s, w)
           n == Len(s)
           J(i) == InBucket(s, w, i)
           In(i) == {p \in ToSet(s) : b[i].start <= p.t /\ p.t < b[i].start + w}
<1>1. /\ s \in Seq(Points) /\ n \in Nat /\ ToSet(s) = {s[j] : j \in 1 .. n}
      /\ \A j \in 1 .. n : s[j].v \in Int
  <2>1. s \in Seq(Points)
    BY DEF Slices
  <2> QED
    BY <2>1, PointsOf, PointSetFinite
<1>2. /\ b = [i \in 1 .. m |-> b[i]]
      /\ \A i \in 1 .. m :
            LET vs == {s[j].v : j \in J(i)}
            IN  /\ b[i].start = First(s, w) + (i - 1) * w
                /\ b[i].count = Cardinality(J(i))
                /\ b[i].sum = SumAt(s, J(i))
                /\ vs # {} => b[i].min = MinOf(vs) /\ b[i].max = MaxOf(vs)
  BY AggregateIs
<1>3. /\ m \in Nat
      /\ \A j \in 1 .. n : Quot(s[j].t - First(s, w), w) \in 0 .. m - 1
  BY BucketOf
<1> HIDE DEF b, m
<1>4. DOMAIN b = 1 .. m
  BY <1>2
<1>5. First(s, w) \in Int
  <2>1. 1 \in Nat /\ First(s, w) + (1 - 1) * w \in Int /\ s[1].t \in Int
    <3>1. s[1].t \in Int
      <4>1. 1 \in 1 .. n
        BY <1>1
      <4> QED
        BY <1>1, <4>1, PointsOf
    <3> QED
      BY <3>1, BucketPlaces
  <2>2. Quot(s[1].t, w) \in Int
    BY <2>1, QuotIs
  <2> QED
    BY <2>2 DEF First
<1>6. ASSUME NEW i \in 1 .. m
      PROVE  /\ b[i].start \in Int /\ b[i].start % w = 0
             /\ J(i) \in SUBSET (1 .. n)
             /\ J(i) = {j \in 1 .. n : b[i].start <= s[j].t /\ s[j].t < b[i].start + w}
  <2>1. i \in Nat /\ i >= 1
    BY <1>3
  <2>2. LET f == First(s, w) + (i - 1) * w
        IN  /\ f \in Int /\ f % w = 0
            /\ J(i) = {j \in 1 .. n : f <= s[j].t /\ s[j].t < f + w}
    BY <2>1, BucketPlaces
  <2>3. b[i].start = First(s, w) + (i - 1) * w
    BY <1>2
  <2> HIDE DEF J, n
  <2>4. /\ b[i].start \in Int /\ b[i].start % w = 0
        /\ J(i) = {j \in 1 .. n : b[i].start <= s[j].t /\ s[j].t < b[i].start + w}
    BY <2>2, <2>3
  <2> QED
    BY <2>4
<1> HIDE DEF J, n
<1>7. ASSUME NEW i \in 1 .. m PROVE In(i) = {s[j] : j \in J(i)}
  BY <1>1, <1>6
<1>8. ASSUME NEW i \in 1 .. m
      PROVE  /\ b[i].start % w = 0 /\ b[i].start = b[1].start + (i - 1) * w
             /\ b[i].count = Cardinality(In(i)) /\ b[i].sum = SumOf(In(i))
             /\ \A p \in In(i) : b[i].min <= p.v /\ p.v <= b[i].max
             /\ In(i) # {} => {b[i].min, b[i].max} \subseteq {p.v : p \in In(i)}
  <2> DEFINE vs == {s[j].v : j \in J(i)}
  <2>1. b[i].start = b[1].start + (i - 1) * w
    <3>1. 1 \in 1 .. m /\ i \in Int
      BY <1>3
    <3>2. b[1].start = First(s, w) + (1 - 1) * w /\ b[i].start = First(s, w) + (i - 1) * w
      BY <1>2, <3>1
    <3>3. (1 - 1) * w = 0 /\ First(s, w) + 0 = First(s, w)
      BY <1>5
    <3> QED
      BY <3>2, <3>3
  <2>2. J(i) \in SUBSET (1 .. n) /\ In(i) = {s[j] : j \in J(i)}
    BY <1>6, <1>7
  <2> HIDE DEF In
  <2>3. IsFiniteSet(J(i)) /\ Cardinality(J(i)) = Cardinality(In(i))
    BY <2>2, PointsAt DEF n
  <2>4. SumAt(s, J(i)) = SumOf(In(i))
    BY <2>2, SumAtIs DEF n
  <2>5. vs = {p.v : p \in In(i)} /\ vs \in SUBSET Int
    BY <1>1, <2>2
  <2>6. IsFiniteSet(vs)
    <3> DEFINE f == [j \in J(i) |-> s[j].v]
               D == {f[j] : j \in J(i)}
    <3>1. DOMAIN f = J(i) /\ vs = D
      OBVIOUS
    <3> HIDE DEF f
    <3>2. IsFiniteSet(D)
      BY <2>3, <3>1, ImageFinite
    <3> QED
      BY <3>1, <3>2
  <2>7. vs # {} => b[i].min = MinOf(vs) /\ b[i].max = MaxOf(vs)
    BY <1>2
  <2> HIDE DEF vs
  <2>8. ASSUME In(i) # {}
        PROVE  /\ \A p \in In(i) : b[i].min <= p.v /\ p.v <= b[i].max
               /\ {b[i].min, b[i].max} \subseteq {p.v : p \in In(i)}
    <3>1. vs # {}
      BY <2>5, <2>8
    <3>2. /\ MinOf(vs) \in vs /\ \A y \in vs : MinOf(vs) <= y
          /\ MaxOf(vs) \in vs /\ \A y \in vs : y <= MaxOf(vs)
      BY <2>5, <2>6, <3>1, MinMaxOf
    <3>3. b[i].min = MinOf(vs) /\ b[i].max = MaxOf(vs)
      BY <2>7, <3>1
    <3>4. \A p \in In(i) : p.v \in vs
      BY <2>5
    <3> QED
      BY <2>5, <3>2, <3>3, <3>4
  <2>9. \A p \in In(i) : b[i].min <= p.v /\ p.v <= b[i].max
    BY <2>8
  <2> QED
    BY <1>2, <1>6, <2>1, <2>3, <2>4, <2>8, <2>9
<1>9. UNION {In(i) : i \in 1 .. m} = ToSet(s)
  <2>1. ASSUME NEW p \in ToSet(s) PROVE \E i \in 1 .. m : p \in In(i)
    <3>1. PICK j \in 1 .. n : p = s[j]
      BY <1>1
    <3> DEFINE i == Quot(s[j].t - First(s, w), w) + 1
    <3>2. i \in 1 .. m /\ Quot(s[j].t - First(s, w), w) = i - 1
      <4>1. Quot(s[j].t - First(s, w), w) \in 0 .. m - 1
        BY <1>3 DEF n
      <4> QED
        BY <1>3, <4>1
    <3> HIDE DEF i
    <3>3. j \in J(i)
      BY <3>2 DEF J, InBucket, n
    <3>4. p \in In(i)
      BY <1>7, <3>1, <3>2, <3>3
    <3> QED
      BY <3>2, <3>4
  <2> QED
    BY <2>1
<1> QED
  BY <1>4, <1>8, <1>9 DEF b, Matched
-----------------------------------------------------------------------------
(* The buckets of an aggregating query partition the points of its range,  *)
(* and have their counts, sums, minima and maxima, for timestamps that are *)
(* not negative.                                                           *)
THEOREM AggregateExact == QuerySpec => []AggregateMatchesReference
<1>1. PointsInv => AggregateMatchesReference
  <2>0. AggregateMatchesReference <=>
          \A id \in Ids, start, end \in Times, w \in Widths :
              0 <= start /\ end < MaxInt64 =>
                  Matched(Aggregate(QuerySeries(id, start, end), w), w, InRange(id, start, end))
    BY Zenon DEF AggregateMatchesReference, Matched
  <2> SUFFICES ASSUME PointsInv, NEW id \in Ids, NEW start \in Times, NEW end \in Times,
                      NEW w \in Widths, 0 <= start, end < MaxInt64
               PROVE  Matched(Aggregate(QuerySeries(id, start, end), w), w, InRange(id, start, end))
    BY <2>0
  <2> DEFINE R == QuerySeries(id, start, end)
             Q == InRange(id, start, end)
  <2>1. /\ R \in Slices /\ ToSet(R) = Q
        /\ \A p \in ToSet(R) : start <= p.t /\ p.t <= end
    BY FiniteAnswer
  <2>2. w \in Nat \ {0} /\ start \in Int
    BY QueryConstants
  <2>3. ASSUME NEW p \in Q, NEW q \in Q, p.v = q.v PROVE p = q
    <3>1. \A x, y \in inserted : x.v = y.v => x = y
      BY DEF PointsInv, HistoryInv
    <3>2. PICK x \in inserted : p = [t |-> x.t, v |-> x.v]
      BY DEF InRange
    <3>3. PICK y \in inserted : q = [t |-> y.t, v |-> y.v]
      BY DEF InRange
    <3>4. x.v = y.v
      BY <2>3, <3>2, <3>3
    <3> QED
      BY <3>1, <3>2, <3>3, <3>4
  <2> HIDE DEF R, Q
  <2>4. /\ R \in Seq(Points) /\ Injective(R)
        /\ \A j \in 1 .. Len(R) : R[j] \in ToSet(R)
    BY <2>1, PointSetFinite DEF Slices
  <2>5. \A p \in ToSet(R) : 0 <= p.t
    <3>1. \A p \in ToSet(R) : p.t \in Int
      <4>1. ToSet(R) \subseteq Points
        BY <2>4, PointSetFinite
      <4> QED
        BY <4>1, QueryConstants DEF Points
    <3> QED
      BY <2>1, <2>2, <3>1
  <2>6. \A j, l \in 1 .. Len(R) : R[j].v = R[l].v => j = l
    <3>1. \A j, l \in 1 .. Len(R) : R[j].v = R[l].v => R[j] = R[l]
      BY <2>1, <2>3, <2>4
    <3> QED
      BY <2>4, <3>1 DEF Injective
  <2>7. CASE R = <<>>
    <3>1. Aggregate(R, w) = <<>> /\ DOMAIN Aggregate(R, w) = {}
      BY <2>7 DEF Aggregate
    <3>2. Q = {}
      BY <2>1, <2>7, NoPoints
    <3>3. Matched(Aggregate(R, w), w, Q)
      BY <3>1, <3>2 DEF Matched
    <3> QED
      BY <3>3 DEF R, Q
  <2>8. CASE R # <<>>
    <3>1. Matched(Aggregate(R, w), w, ToSet(R))
      BY <2>1, <2>2, <2>5, <2>6, <2>8, BucketsMatch
    <3> QED
      BY <2>1, <3>1 DEF R, Q
  <2> QED
    BY <2>7, <2>8
<1> QED
  BY <1>1, PointsPlaced, PTL
=============================================================================
