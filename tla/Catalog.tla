------------------------------ MODULE Catalog ------------------------------
(***************************************************************************)
(* The names of series: the registry, which gives a metric and its tags an *)
(* id, and the inverted index, which queries use to find ids               *)
(* (internal/series, internal/index, and the HTTP handlers that fill them).*)
(*                                                                         *)
(* A name is a metric and a function from tag keys to tag values.  Its id  *)
(* is a 64 bit hash of both, written one behind the other, so two names    *)
(* can have the same id: SeriesKey is any function.                        *)
(***************************************************************************)
EXTENDS GoSort

CONSTANTS
    Names,          \* the names that clients write to
    SeriesKey,      \* series.SeriesKey, a function from names to ids
    Joined(_, _)    \* the string k + "=" + v

Ids == {SeriesKey[n] : n \in Names}
Metrics == {n.metric : n \in Names}

ASSUME CatalogConstants == DOMAIN SeriesKey = Names /\ Ids \subseteq Nat

VARIABLES
    byID,           \* Registry.byID: the name of every known id
    metricSeries,   \* Index.MetricSeries: the ids of every known metric
    tagIndex,       \* Index.TagIndex: the ids of every known metric and tag
    registered      \* history: the names that were registered

catalogVars == <<byID, metricSeries, tagIndex, registered>>

CatalogInit ==
    /\ byID = <<>> /\ metricSeries = <<>> /\ tagIndex = <<>>
    /\ registered = {}

(* The posting of a metric and "k=v". Keys and values may contain "=".     *)
TagKey(metric, k, v) == <<metric, Joined(k, v)>>

(* A posting map after id has been added to the postings in K.             *)
Posted(map, K, id) ==
    [k \in DOMAIN map \cup K |->
        (IF k \in DOMAIN map THEN map[k] ELSE {}) \cup (IF k \in K THEN {id} ELSE {})]

(* Registry.GetOrCreate: the first name of an id stays.                    *)
GetOrCreate(n) ==
    byID' = [id \in DOMAIN byID \cup {SeriesKey[n]} |->
                IF id \in DOMAIN byID THEN byID[id] ELSE n]

(* Faulty variant: postings only when the id is new to the registry.       *)
IndexInsertNew(n) ==
    IF SeriesKey[n] \in DOMAIN byID
      THEN UNCHANGED <<metricSeries, tagIndex>>
      ELSE /\ metricSeries' = Posted(metricSeries, {n.metric}, SeriesKey[n])
           /\ tagIndex' = Posted(tagIndex, {TagKey(n.metric, k, n.tags[k]) :
                                               k \in DOMAIN n.tags}, SeriesKey[n])

(* Index.Insert                                                            *)
IndexInsert(n) ==
    /\ metricSeries' = Posted(metricSeries, {n.metric}, SeriesKey[n])
    /\ tagIndex' = Posted(tagIndex, {TagKey(n.metric, k, n.tags[k]) : k \in DOMAIN n.tags},
                          SeriesKey[n])

(* handleWrite and handleBatchAdd register a name before they submit its   *)
(* points; the command may still be refused.                               *)
Register ==
    \E n \in Names :
        /\ n \notin registered      \* again: nothing changes
        /\ GetOrCreate(n) /\ IndexInsert(n)
        /\ registered' = registered \cup {n}

(* Index.Resolve: the ids in ascending order.                              *)
Resolve(metric, filters) ==
    LET keys == {TagKey(metric, k, filters[k]) : k \in DOMAIN filters}
        ids == IF metric \notin DOMAIN metricSeries THEN {}
               ELSE IF DOMAIN filters = {} THEN metricSeries[metric]
               ELSE IF ~(keys \subseteq DOMAIN tagIndex) THEN {}
               ELSE {id \in Ids : \A k \in keys : id \in tagIndex[k]}
    IN  Ascending(ids)
-----------------------------------------------------------------------------
Keys == UNION {DOMAIN n.tags : n \in Names}
Filters == UNION {[K -> UNION {{n.tags[k] : k \in DOMAIN n.tags} : n \in Names}] :
                     K \in SUBSET Keys}

(* What the filters of a query select: the registered ids with that metric *)
(* whose tags include the filters.  Names that share an id are one series, *)
(* with the tags of all of them: a=1,b=2 under the key a, and a=1 beside   *)
(* b=2, hash the same bytes.  Tags that join to the same string, as a=b    *)
(* with value c and a with value b=c, are one tag.                         *)
Matching(metric, filters) ==
    LET NamesOf(id) == {n \in registered : SeriesKey[n] = id /\ n.metric = metric}
        HasTag(n, k) == \E j \in DOMAIN n.tags : Joined(j, n.tags[j]) = Joined(k, filters[k])
    IN  {id \in Ids : /\ NamesOf(id) # {}
                      /\ \A k \in DOMAIN filters : \E n \in NamesOf(id) : HasTag(n, k)}
=============================================================================
