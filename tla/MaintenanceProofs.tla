------------------------- MODULE MaintenanceProofs -------------------------
(***************************************************************************)
(* Proofs about module Maintenance: compaction and retention lose no       *)
(* point, serve none twice and expire none early.                          *)
(***************************************************************************)
EXTENDS Maintenance, LoopProofs

-----------------------------------------------------------------------------
(* The entries that a manifest holds.                                      *)
EntriesIn(m) == {m[i] : i \in DOMAIN m}

(* No two entries have one path.                                           *)
PathsDiffer(m) == \A i, k \in DOMAIN m : m[i].path = m[k].path => i = k

(* The loop of RemoveBatch is well defined.                                *)
KeepLoop(m, paths, f, i) ==
    IF i = 0 THEN <<>>
             ELSE IF m[i].path \in paths THEN f[i - 1] ELSE Append(f[i - 1], m[i])

(* For every length there is the table of results of the loop.             *)
LEMMA KeepLoopDefined ==
    ASSUME NEW S, NEW m \in Seq(S), NEW paths, NEW n \in 0 .. Len(m)
    PROVE  \E f : f = [i \in 0 .. n |-> KeepLoop(m, paths, f, i)]
<1> DEFINE Defined(k) == \E f : f = [i \in 0 .. k |-> KeepLoop(m, paths, f, i)]
           Bad == {k \in 0 .. Len(m) : ~Defined(k)}
<1> SUFFICES ASSUME Bad # {} PROVE FALSE
  OBVIOUS
<1>1. Bad \in SUBSET Nat
  OBVIOUS
<1> HIDE DEF Bad
<1>2. PICK k \in Bad : \A l \in Bad : k <= l
  BY <1>1, Least
<1> USE DEF Bad
<1>3. k # 0
  <2> SUFFICES ASSUME k = 0 PROVE FALSE
    OBVIOUS
  <2> DEFINE f == [i \in 0 .. k |-> <<>>]
  <2>1. f = [i \in 0 .. k |-> KeepLoop(m, paths, f, i)]
    BY DEF KeepLoop
  <2> QED
    BY <2>1
<1>4. k - 1 \in 0 .. Len(m) /\ k - 1 \notin Bad
  BY <1>2, <1>3
<1>5. PICK g : g = [i \in 0 .. k - 1 |-> KeepLoop(m, paths, g, i)]
  BY <1>4
<1> DEFINE f == [i \in 0 .. k |-> IF i = k THEN KeepLoop(m, paths, g, k) ELSE g[i]]
<1>6. ASSUME NEW i \in 0 .. k PROVE f[i] = KeepLoop(m, paths, f, i)
  <2>1. \A l \in 0 .. k - 1 : f[l] = g[l]
    BY <1>3
  <2>2. i # 0 => i - 1 \in 0 .. k - 1 /\ f[i - 1] = g[i - 1]
    BY <2>1, <1>3
  <2>3. KeepLoop(m, paths, f, i) = KeepLoop(m, paths, g, i)
    BY <2>2 DEF KeepLoop
  <2>4. CASE i = k
    BY <2>3, <2>4
  <2>5. CASE i # k
    <3>1. i \in 0 .. k - 1
      BY <2>5, <1>3
    <3>2. g[i] = KeepLoop(m, paths, g, i)
      BY <3>1, <1>5, Zenon
    <3> QED
      BY <2>3, <2>5, <3>2
  <2> QED
    BY <2>4, <2>5
<1>7. f = [i \in 0 .. k |-> KeepLoop(m, paths, f, i)]
  BY <1>6, Zenon
<1> QED
  BY <1>2, <1>7, Zenon

(* RemoveBatch returns entries of its argument, exactly those with another *)
(* path, and keeps the paths different.                                    *)
LEMMA RemoveBatchKeeps ==
    ASSUME NEW m \in Seq(Entries), NEW paths
    PROVE  /\ RemoveBatch(m, paths) \in Seq(Entries)
           /\ EntriesIn(RemoveBatch(m, paths)) = {e \in EntriesIn(m) : e.path \notin paths}
           /\ PathsDiffer(m) => PathsDiffer(RemoveBatch(m, paths))
<1> DEFINE f == CHOOSE g : g = [i \in 0 .. Len(m) |->
                    IF i = 0
                      THEN <<>>
                      ELSE IF m[i].path \in paths THEN g[i - 1] ELSE Append(g[i - 1], m[i])]
           Kept(i) == {m[k] : k \in {l \in 1 .. i : m[l].path \notin paths}}
           Good(i) == /\ f[i] \in Seq(Entries)
                      /\ EntriesIn(f[i]) = Kept(i)
                      /\ PathsDiffer(m) => PathsDiffer(f[i])
           Bad == {i \in 0 .. Len(m) : ~Good(i)}
<1>1. \E g : g = [i \in 0 .. Len(m) |-> KeepLoop(m, paths, g, i)]
  <2>1. Len(m) \in 0 .. Len(m)
    BY SMT
  <2> QED
    BY <2>1, KeepLoopDefined
<1>2. f = [i \in 0 .. Len(m) |->
                    IF i = 0
                      THEN <<>>
                      ELSE IF m[i].path \in paths THEN f[i - 1] ELSE Append(f[i - 1], m[i])]
  BY <1>1, Zenon DEF KeepLoop
<1>3. RemoveBatch(m, paths) = f[Len(m)]
  BY Zenon DEF RemoveBatch
<1> HIDE DEF f
<1>4. f[0] = <<>>
  BY <1>2
<1>5. \A i \in 1 .. Len(m) :
         f[i] = IF m[i].path \in paths THEN f[i - 1] ELSE Append(f[i - 1], m[i])
  <2> TAKE i \in 1 .. Len(m)
  <2>1. i \in 0 .. Len(m) /\ i # 0
    OBVIOUS
  <2> QED
    BY <2>1, <1>2, Zenon
<1>6. Bad = {}
  <2> SUFFICES ASSUME Bad # {} PROVE FALSE
    OBVIOUS
  <2>1. Bad \in SUBSET Nat
    OBVIOUS
  <2> HIDE DEF Bad
  <2>2. PICK i \in Bad : \A l \in Bad : i <= l
    BY <2>1, Least
  <2>3. i \in 0 .. Len(m) /\ ~Good(i)
    BY DEF Bad
  <2>4. i # 0
    <3>1. Good(0)
      <4>1. Kept(0) = {}
        OBVIOUS
      <4>2. EntriesIn(f[0]) = {} /\ PathsDiffer(f[0]) /\ f[0] \in Seq(Entries)
        BY <1>4 DEF EntriesIn, PathsDiffer
      <4> QED
        BY <4>1, <4>2
    <3> QED
      BY <3>1, <2>3
  <2>5. i \in 1 .. Len(m) /\ i - 1 \in 0 .. Len(m) /\ i - 1 \notin Bad
    BY <2>2, <2>3, <2>4
  <2>6. Good(i - 1)
    BY <2>5 DEF Bad
  <2> DEFINE s == f[i - 1]
  <2>7. s \in Seq(Entries) /\ EntriesIn(s) = Kept(i - 1) /\ (PathsDiffer(m) => PathsDiffer(s))
    BY <2>6
  <2>8. f[i] = IF m[i].path \in paths THEN s ELSE Append(s, m[i])
    BY <2>5, <1>5
  <2> HIDE DEF s
  <2>9. m[i] \in Entries
    BY <2>5
  <2>10. {l \in 1 .. i : m[l].path \notin paths} =
           {l \in 1 .. i - 1 : m[l].path \notin paths}
             \cup (IF m[i].path \in paths THEN {} ELSE {i})
    BY <2>5
  <2>11. Kept(i) = Kept(i - 1) \cup (IF m[i].path \in paths THEN {} ELSE {m[i]})
    BY <2>10
  <2>12. CASE m[i].path \in paths
    BY <2>3, <2>7, <2>8, <2>11, <2>12
  <2>13. CASE m[i].path \notin paths
    <3>1. f[i] = Append(s, m[i])
      BY <2>8, <2>13
    <3>2. f[i] \in Seq(Entries)
      BY <3>1, <2>7, <2>9
    <3>3. /\ DOMAIN f[i] = (DOMAIN s) \cup {Len(s) + 1}
          /\ \A k \in DOMAIN s : f[i][k] = s[k]
          /\ f[i][Len(s) + 1] = m[i]
          /\ Len(s) + 1 \notin DOMAIN s
      BY <3>1, <2>7, <2>9
    <3>4. EntriesIn(f[i]) = EntriesIn(s) \cup {m[i]}
      BY <3>3 DEF EntriesIn
    <3>5. ASSUME PathsDiffer(m) PROVE PathsDiffer(f[i])
      <4>1. \A k \in DOMAIN s : s[k].path # m[i].path
        <5> SUFFICES ASSUME NEW k \in DOMAIN s PROVE s[k].path # m[i].path
          OBVIOUS
        <5>1. s[k] \in Kept(i - 1)
          BY <2>7 DEF EntriesIn
        <5>2. PICK l \in 1 .. i - 1 : s[k] = m[l]
          BY <5>1
        <5>3. l \in DOMAIN m /\ i \in DOMAIN m /\ l # i
          BY <2>5, <5>2
        <5> QED
          BY <5>2, <5>3, <3>5 DEF PathsDiffer
      <4>2. PathsDiffer(s)
        BY <2>7, <3>5
      <4> QED
        BY <3>3, <4>1, <4>2 DEF PathsDiffer
    <3> QED
      BY <2>3, <2>7, <2>11, <2>13, <3>2, <3>4, <3>5
  <2> QED
    BY <2>12, <2>13
<1>7. Good(Len(m))
  <2>1. Len(m) \in 0 .. Len(m)
    BY SMT
  <2> QED
    BY <2>1, <1>6
<1>8. Kept(Len(m)) = {e \in EntriesIn(m) : e.path \notin paths}
  BY DEF EntriesIn
<1> HIDE DEF Good
<1>9. /\ f[Len(m)] \in Seq(Entries)
      /\ EntriesIn(f[Len(m)]) = Kept(Len(m))
      /\ PathsDiffer(m) => PathsDiffer(f[Len(m)])
  BY <1>7 DEF Good
<1> QED
  BY <1>3, <1>8, <1>9

(* What Append and RemoveBatch do to the listed paths.                     *)
LEMMA AppendListed ==
    ASSUME NEW m \in Seq(Entries), NEW e \in Entries
    PROVE  /\ Append(m, e) \in Seq(Entries)
           /\ EntriesIn(Append(m, e)) = EntriesIn(m) \cup {e}
           /\ Listed(Append(m, e)) = Listed(m) \cup {e.path}
           /\ PathsDiffer(m) /\ e.path \notin Listed(m) => PathsDiffer(Append(m, e))
<1>1. /\ DOMAIN Append(m, e) = (DOMAIN m) \cup {Len(m) + 1}
      /\ \A k \in DOMAIN m : Append(m, e)[k] = m[k]
      /\ Append(m, e)[Len(m) + 1] = e
      /\ Len(m) + 1 \notin DOMAIN m
  OBVIOUS
<1> QED
  BY <1>1 DEF EntriesIn, Listed, PathsDiffer

(* The listed paths are those of the entries.                              *)
LEMMA ListedOfEntries ==
    ASSUME NEW m
    PROVE  Listed(m) = {e.path : e \in EntriesIn(m)}
  BY DEF Listed, EntriesIn

(* RemoveBatch unlists the paths and no other.                             *)
LEMMA RemoveBatchListed ==
    ASSUME NEW m \in Seq(Entries), NEW paths
    PROVE  Listed(RemoveBatch(m, paths)) = Listed(m) \ paths
<1>1. EntriesIn(RemoveBatch(m, paths)) = {e \in EntriesIn(m) : e.path \notin paths}
  BY RemoveBatchKeeps
<1> QED
  BY <1>1, ListedOfEntries

-----------------------------------------------------------------------------
(* The inductive invariant.  First what holds whatever happened: types,    *)
(* and what a compaction is made of.                                       *)
Writing == {j \in Jobs : job[j].pc \in {"created", "written"}}

JobShape ==
    \A j \in Running :
        /\ Len(job[j].cands) \in 2 .. MaxCount
        /\ job[j].next \in 1 .. Len(job[j].cands) + 1
        /\ j \in Writing => job[j].next = Len(job[j].cands) + 1

(* flushCount, which restarts at 0, stays behind the flushes.              *)
ShapeInv == MaintenanceTypeOK /\ flushCount <= written /\ JobShape

(* As long as no file in use was truncated, the output of a compaction is  *)
(* its own: nobody lists it, reads it or writes it.                        *)
OutputsOwned ==
    \A j \in Writing :
        /\ Out(j) \notin Listed(manifest)
        /\ \A k \in Running : Out(j) \notin PathsOf(job[k].cands)
        /\ \A k \in Writing : Out(j) = Out(k) => j = k
        /\ dir[Out(j)] = IF job[j].pc = "created" THEN NoPoints ELSE job[j].data

(* What a compaction has read includes what its inputs still hold.         *)
ReadsCover ==
    \A j \in Running : \A i \in 1 .. job[j].next - 1 :
        \A p \in Points : dir[job[j].cands[i].path][p] > 0 => job[j].data[p] > 0

(* Every point is in a file that both manifests list, unless no save has   *)
(* listed it on disk yet.                                                  *)
ListedTwice ==
    \A p \in Remaining : \E q \in Listed(manifest) :
        dir[q][p] > 0 /\ (p \notin unsaved => q \in Listed(manifestFile))

KeepInv == "reuse" \notin taints => OutputsOwned /\ ReadsCover /\ ListedTwice

(* As long as no listed file was truncated, entries span their files.      *)
Spans(m, d) == \A e \in EntriesIn(m) : \A p \in In(d[e.path]) : TimeOf[p] <= e.hi

SpanInv ==
    taints \cap {"reuse", "staleEntry"} = {} =>
        /\ Spans(manifest, dir) /\ Spans(manifestFile, dir)
        /\ \A j \in Writing : Out(j) \notin Listed(manifestFile)

(* As long as nothing went wrong, compactions run alone on listed files    *)
(* and no two files share a point.                                         *)
OneCompaction ==
    \A j \in Running :
        /\ \A k \in Running : j = k
        /\ PathsOf(job[j].cands) \subseteq Listed(manifest)
        /\ PathsDiffer(job[j].cands)

NoSharedPoint ==
    \A p \in Points, q \in Listed(manifest) :
        /\ dir[q][p] \in {0, 1}
        /\ dir[q][p] = 1 => p <= written /\ p \notin swept
        /\ dir[q][p] = 1 => \A r \in Listed(manifest) : dir[r][p] = 1 => r = q

(* The points read so far are those of the inputs read so far.             *)
ReadsExact ==
    \A j \in Running : \A p \in Points :
        /\ job[j].data[p] \in {0, 1}
        /\ job[j].data[p] = 1 <=>
              \E i \in 1 .. job[j].next - 1 : dir[job[j].cands[i].path][p] = 1

Undisturbed ==
    /\ manifestFile = manifest /\ PathsDiffer(manifest) /\ swept \subseteq 1 .. written
    /\ OneCompaction /\ NoSharedPoint /\ ReadsExact

OnceInv == taints = {} => Undisturbed

(* As long as no save failed, all segments are listed on disk.             *)
SavedInv == "saveError" \notin taints => unsaved = {} /\ dropped = {}

(* The entry of a file lists it, is an entry, and spans its points.        *)
LEMMA EntryTypes ==
    ASSUME NEW q \in Paths, NEW f \in [Points -> Nat], NEW e \in EntriesFor(q, f)
    PROVE  /\ e \in Entries /\ e.path = q
           /\ \A p \in In(f) : TimeOf[p] <= e.hi
<1> DEFINE times == {TimeOf[p] : p \in In(f)}
<1>1. e \in [path : {q}, lo : times, hi : times, n : 1 .. MaxPoints] /\ EntryOf(q, f, e)
  BY DEF EntriesFor
<1>2. times \subseteq Int
  BY MaintenanceConstants DEF In
<1>3. e.path = q /\ \A p \in In(f) : e.lo <= TimeOf[p] /\ TimeOf[p] <= e.hi
  BY <1>1 DEF EntryOf
<1>4. PICK p \in In(f) : e.lo = TimeOf[p]
  BY <1>1
<1>5. e.lo \in Int /\ e.hi \in Int /\ e.lo <= e.hi
  BY <1>1, <1>2, <1>3, <1>4
<1>6. e \in [path : Paths, lo : Int, hi : Int, n : Nat]
  BY <1>1, <1>2, MaintenanceConstants
<1> QED
  BY <1>3, <1>5, <1>6 DEF Entries

(* The candidates are between two and MaxCount entries of the manifest.    *)
LEMMA CandidateTypes ==
    ASSUME NEW m \in Seq(Entries), NEW c \in SelectCandidates(m, MaxCount)
    PROVE  /\ c \in Seq(Entries) /\ Len(c) \in 2 .. MaxCount
           /\ PathsOf(c) \subseteq Listed(m)
           /\ PathsDiffer(m) => PathsDiffer(c)
<1> DEFINE k == IF MaxCount > Len(m) THEN Len(m) ELSE MaxCount
<1>1. Len(m) \in Nat /\ MaxCount \in Nat /\ MaxCount > 1
  BY MaintenanceConstants
<1>2. ~(Len(m) <= 1 \/ MaxCount <= 1)
  BY Zenon DEF SelectCandidates
<1>3. k \in 2 .. MaxCount
  BY <1>1, <1>2
<1>4. PICK f \in [1 .. k -> DOMAIN m] :
         /\ \A a, b \in 1 .. k : a < b => f[a] # f[b]
         /\ c = [a \in 1 .. k |-> m[f[a]]]
  BY <1>2 DEF SelectCandidates
<1> HIDE DEF k
<1>5. \A a \in 1 .. k : c[a] = m[f[a]] /\ f[a] \in DOMAIN m /\ m[f[a]] \in Entries
  BY <1>4
<1>6. c \in Seq(Entries) /\ Len(c) = k /\ DOMAIN c = 1 .. k
  BY <1>3, <1>4, <1>5
<1>7. PathsOf(c) \subseteq Listed(m)
  BY <1>5, <1>6 DEF PathsOf, Listed
<1>8. ASSUME PathsDiffer(m) PROVE PathsDiffer(c)
  <2> SUFFICES ASSUME NEW a \in 1 .. k, NEW b \in 1 .. k, c[a].path = c[b].path
               PROVE  a = b
    BY <1>6 DEF PathsDiffer
  <2>1. f[a] = f[b]
    BY <1>5, <1>8 DEF PathsDiffer
  <2>2. ~(a < b) /\ ~(b < a)
    BY <2>1, <1>4
  <2> QED
    BY <2>2, <1>3
<1> QED
  BY <1>3, <1>6, <1>7, <1>8

(* The output of a compaction is a path.                                   *)
LEMMA OutIsPath ==
    ASSUME ShapeInv, NEW j \in Running
    PROVE  Out(j) \in Paths /\ j \in Jobs /\ Out(j)[1] = "compacted"
<1>1. Len(job[j].cands) \in 2 .. MaxCount /\ j \in Jobs
  BY DEF ShapeInv, JobShape, Running
<1> QED
  BY <1>1 DEF Out, OutPath, Paths

(* A path of the manifest is a path.                                       *)
LEMMA ListedArePaths ==
    ASSUME NEW m \in Seq(Entries)
    PROVE  Listed(m) \subseteq Paths /\ PathsOf(m) \subseteq Paths
<1>1. \A i \in DOMAIN m : m[i].path \in Paths
  BY DEF Entries
<1> QED
  BY <1>1 DEF Listed, PathsOf

JobRecords ==
    [pc : {"none", "read", "created", "written", "errored"},
     cands : Seq(Entries), next : Nat, data : [Points -> Nat]]

(* The bag without points is a bag, and NoJob a job.                       *)
LEMMA EmptyTypes ==
    NoPoints \in [Points -> Nat] /\ NoJob \in JobRecords /\ NoJob.pc = "none"
  BY DEF NoPoints, NoJob, JobRecords

(* A step of a compaction that only changes job j to r.                    *)
LEMMA JobChanges ==
    ASSUME ShapeInv, NEW j \in Jobs, NEW r \in JobRecords,
           job' = [job EXCEPT ![j] = r],
           r.pc # "none" => /\ Len(r.cands) \in 2 .. MaxCount
                            /\ r.next \in 1 .. Len(r.cands) + 1
                            /\ r.pc \in {"created", "written"} => r.next = Len(r.cands) + 1
    PROVE  /\ job' \in [Jobs -> JobRecords] /\ JobShape'
           /\ job'[j] = r /\ \A k \in Jobs \ {j} : job'[k] = job[k]
           /\ Running' = IF r.pc = "none" THEN Running \ {j} ELSE Running \cup {j}
           /\ Writing' = IF r.pc \in {"created", "written"} THEN Writing \cup {j}
                                                            ELSE Writing \ {j}
<1>1. job \in [Jobs -> JobRecords] /\ JobShape
  BY DEF ShapeInv, MaintenanceTypeOK, JobRecords
<1>2. job'[j] = r /\ \A k \in Jobs \ {j} : job'[k] = job[k]
  BY <1>1
<1>3. job' \in [Jobs -> JobRecords]
  BY <1>1
<1>4. Running' = IF r.pc = "none" THEN Running \ {j} ELSE Running \cup {j}
  BY <1>2 DEF Running
<1>5. Writing' = IF r.pc \in {"created", "written"} THEN Writing \cup {j}
                                                    ELSE Writing \ {j}
  BY <1>2 DEF Writing
<1>6. JobShape'
  <2> SUFFICES ASSUME NEW k \in Running'
               PROVE  /\ Len(job'[k].cands) \in 2 .. MaxCount
                      /\ job'[k].next \in 1 .. Len(job'[k].cands) + 1
                      /\ k \in Writing' => job'[k].next = Len(job'[k].cands) + 1
    BY DEF JobShape
  <2>1. CASE k = j
    BY <2>1, <1>2, <1>4, <1>5
  <2>2. CASE k # j
    <3>1. k \in Running /\ job'[k] = job[k] /\ (k \in Writing' => k \in Writing)
      BY <2>2, <1>2, <1>4, <1>5 DEF Running
    <3> QED
      BY <3>1, <1>1 DEF JobShape
  <2> QED
    BY <2>1, <2>2
<1> QED
  BY <1>2, <1>3, <1>4, <1>5, <1>6

(* The parts that steps take apart have their types.                       *)
Parts ==
    /\ manifest \in Seq(Entries) /\ manifestFile \in Seq(Entries)
    /\ dir \in [Paths -> [Points -> Nat]] /\ doneCh \in Seq(Jobs)
    /\ job \in [Jobs -> JobRecords]
    /\ flushCount \in Nat /\ written \in 0 .. MaxPoints /\ flushCount <= written
    /\ started \in 0 .. MaxCompactions /\ lives \in 1 .. MaxLives
    /\ ioFaults \in 0 .. MaxIOFaults
    /\ swept \in SUBSET Points /\ cutoffs \in SUBSET Cutoffs
    /\ unsaved \in SUBSET Points /\ dropped \in SUBSET Points
    /\ taints \in SUBSET Hazards
    /\ \A j \in Jobs : /\ job[j].cands \in Seq(Entries) /\ job[j].next \in Nat
                       /\ job[j].data \in [Points -> Nat]
                       /\ PathsOf(job[j].cands) \subseteq Paths
                       /\ job[j].pc \in {"none", "read", "created", "written", "errored"}
    /\ MaxPoints \in Nat /\ MaxCompactions \in Nat /\ MaxCount \in Nat
    /\ MaxLives \in Nat /\ MaxIOFaults \in Nat

(* They follow from the shape.                                             *)
LEMMA PartTypes ==
    ASSUME ShapeInv
    PROVE  Parts
<1>1. job \in [Jobs -> JobRecords]
  BY DEF ShapeInv, MaintenanceTypeOK, JobRecords
<1>2. \A j \in Jobs : /\ job[j].cands \in Seq(Entries) /\ job[j].next \in Nat
                      /\ job[j].data \in [Points -> Nat]
                      /\ job[j].pc \in {"none", "read", "created", "written", "errored"}
  BY <1>1 DEF JobRecords
<1>3. \A j \in Jobs : PathsOf(job[j].cands) \subseteq Paths
  BY <1>2, ListedArePaths
<1> QED
  BY <1>1, <1>2, <1>3, MaintenanceConstants DEF ShapeInv, MaintenanceTypeOK, Parts

(* The candidates that a restart or a new manifest come from.              *)
LEMMA AddedTypes ==
    ASSUME ShapeInv, NEW j \in Running, NEW m \in AddedEntries(j)
    PROVE  /\ m \in Seq(Entries) /\ Replaced(j, m) \in Seq(Entries)
           /\ \E e \in Entries : /\ m = Append(manifest, e) /\ e.path = Out(j)
                                 /\ \A p \in In(job[j].data) : TimeOf[p] <= e.hi
<1>1. PICK e \in EntriesFor(Out(j), job[j].data) : m = Append(manifest, e)
  BY DEF AddedEntries
<1>2. e \in Entries /\ e.path = Out(j) /\ \A p \in In(job[j].data) : TimeOf[p] <= e.hi
  <2>1. job[j].data \in [Points -> Nat]
    BY PartTypes DEF Parts, Running
  <2> QED
    BY <2>1, OutIsPath, EntryTypes
<1>3. m \in Seq(Entries)
  BY <1>1, <1>2, PartTypes, AppendListed DEF Parts
<1>4. Replaced(j, m) \in Seq(Entries)
  BY <1>3, RemoveBatchKeeps DEF Replaced
<1> QED
  BY <1>1, <1>2, <1>3, <1>4

(* What the provers need of the types to conclude ShapeInv after a step.   *)
LEMMA ShapeFromParts ==
    ASSUME /\ manifest' \in Seq(Entries) /\ manifestFile' \in Seq(Entries)
           /\ dir' \in [Paths -> [Points -> Nat]] /\ doneCh' \in Seq(Jobs)
           /\ job' \in [Jobs -> JobRecords] /\ JobShape'
           /\ flushCount' \in Nat /\ written' \in 0 .. MaxPoints /\ flushCount' <= written'
           /\ started' \in 0 .. MaxCompactions /\ lives' \in 1 .. MaxLives
           /\ ioFaults' \in 0 .. MaxIOFaults
           /\ swept' \in SUBSET Points /\ cutoffs' \in SUBSET Cutoffs
           /\ unsaved' \in SUBSET Points /\ dropped' \in SUBSET Points
           /\ taints' \in SUBSET Hazards
    PROVE  ShapeInv'
<1>1. flushCount' \in 0 .. MaxPoints
  BY MaintenanceConstants
<1> QED
  BY <1>1 DEF ShapeInv, MaintenanceTypeOK, JobRecords

(* The process starts with the shape.                                      *)
LEMMA ShapeInit == MaintenanceInit => ShapeInv
<1> SUFFICES ASSUME MaintenanceInit PROVE ShapeInv
  OBVIOUS
<1>1. job \in [Jobs -> JobRecords] /\ Running = {}
  BY EmptyTypes DEF MaintenanceInit, Running
<1>2. MaintenanceTypeOK
  BY <1>1, EmptyTypes, MaintenanceConstants DEF MaintenanceInit, MaintenanceTypeOK, JobRecords
<1> QED
  BY <1>1, <1>2 DEF ShapeInv, JobShape, MaintenanceInit

(* Flushes and new compactions keep the shape.                             *)
LEMMA ShapeNew ==
    ASSUME ShapeInv, FlushSegment \/ FlushSegmentSavesFail \/ HandleCompaction
    PROVE  ShapeInv'
<1>0. Parts
  BY PartTypes
<1> USE <1>0 DEF Parts
<1>1. CASE FlushSegment \/ FlushSegmentSavesFail
  <2> USE <1>1
  <2> DEFINE q == SegPath(flushCount)
             f == [NoPoints EXCEPT ![written + 1] = 1]
  <2>0. SegmentAdded
    BY DEF FlushSegment, FlushSegmentSavesFail
  <2>1. q \in Paths
    BY SMTT(30), <2>0 DEF SegmentAdded, SegPath, Paths
  <2>2. f \in [Points -> Nat] /\ written + 1 \in Points
    BY <2>0, EmptyTypes DEF SegmentAdded, Points
  <2>3. dir' = [dir EXCEPT ![q] = f]
    BY <2>0 DEF SegmentAdded
  <2>4. PICK e \in EntriesFor(q, f) : manifest' = Append(manifest, e)
    BY <2>0 DEF SegmentAdded
  <2>5. manifest' \in Seq(Entries) /\ manifestFile' \in Seq(Entries)
    <3>1. e \in Entries
      BY <2>1, <2>2, EntryTypes
    <3>2. manifest' \in Seq(Entries)
      BY <3>1, <2>4
    <3>3. manifestFile' = manifest' \/ manifestFile' = manifestFile
      BY DEF FlushSegment, FlushSegmentSavesFail
    <3> QED
      BY <3>2, <3>3
  <2>6. dir' \in [Paths -> [Points -> Nat]]
    BY <2>1, <2>2, <2>3
  <2>7. JobShape' /\ job' \in [Jobs -> JobRecords]
    BY <2>0 DEF SegmentAdded, ShapeInv, JobShape, Running, Writing
  <2>8. taints' \in SUBSET Hazards
    BY DEF FlushSegment, FlushSegmentSavesFail, Reuse, Hazards
  <2>9. unsaved' \in SUBSET Points /\ ioFaults' \in 0 .. MaxIOFaults
    BY <2>2 DEF FlushSegment, FlushSegmentSavesFail, IOFault
  <2> HIDE <1>1 DEF q, f
  <2> QED
    BY <2>0, <2>5, <2>6, <2>7, <2>8, <2>9, ShapeFromParts DEF SegmentAdded
<1>2. CASE HandleCompaction
  <2> USE <1>2
  <2>1. PICK c \in SelectCandidates(manifest, MaxCount) :
           job' = [job EXCEPT ![started + 1] =
                     [pc |-> "read", cands |-> c, next |-> 1, data |-> NoPoints]]
    BY DEF HandleCompaction
  <2> DEFINE r == [pc |-> "read", cands |-> c, next |-> 1, data |-> NoPoints]
  <2>2. c \in Seq(Entries) /\ Len(c) \in 2 .. MaxCount
    BY CandidateTypes
  <2>3. started + 1 \in Jobs /\ r \in JobRecords
    BY <2>2, EmptyTypes DEF HandleCompaction, Jobs, JobRecords
  <2>4. 1 \in 1 .. Len(c) + 1
    BY <2>2
  <2>5. job' \in [Jobs -> JobRecords] /\ JobShape'
    BY <2>1, <2>2, <2>3, <2>4, JobChanges
  <2>6. taints' \in SUBSET Hazards
    BY DEF HandleCompaction, Hazards
  <2> QED
    BY <2>5, <2>6, ShapeFromParts DEF HandleCompaction
<1> QED
  BY <1>1, <1>2

(* The record of a compaction that takes a step.                           *)
LEMMA ShapeCompact ==
    ASSUME ShapeInv, NEW j \in Jobs, CompactStep(j) \/ CompactFails(j)
    PROVE  ShapeInv'
<1>0. Parts
  BY PartTypes
<1>1. /\ job[j] \in JobRecords /\ job[j].cands \in Seq(Entries)
      /\ job[j].next \in Nat /\ job[j].data \in [Points -> Nat]
      /\ dir \in [Paths -> [Points -> Nat]] /\ MaxCount \in Nat
  BY <1>0 DEF Parts
<1>2. job[j].pc # "none" => /\ Len(job[j].cands) \in 2 .. MaxCount
                            /\ job[j].next \in 1 .. Len(job[j].cands) + 1
                            /\ Out(j) \in Paths
  BY OutIsPath, <1>1 DEF ShapeInv, JobShape, Running
<1>3. ASSUME NEW s \in {"created", "written", "errored"},
             job' = [job EXCEPT ![j].pc = s], job[j].pc # "none",
             s # "errored" => job[j].next = Len(job[j].cands) + 1
      PROVE  job' \in [Jobs -> JobRecords] /\ JobShape'
  <2> DEFINE r == [job[j] EXCEPT !.pc = s]
  <2>1. r \in JobRecords /\ r.pc = s /\ r.cands = job[j].cands /\ r.next = job[j].next
    BY <1>1 DEF JobRecords
  <2>2. job' = [job EXCEPT ![j] = r]
    BY <1>3, <1>1
  <2> HIDE DEF r
  <2>3. /\ Len(r.cands) \in 2 .. MaxCount /\ r.next \in 1 .. Len(r.cands) + 1
        /\ r.pc \in {"created", "written"} => r.next = Len(r.cands) + 1
    BY <1>2, <1>3, <2>1
  <2> QED
    BY <2>1, <2>2, <2>3, JobChanges
<1>4. CASE CompactRead(j)
  <2> DEFINE f == dir[job[j].cands[job[j].next].path]
             d == [p \in Points |-> job[j].data[p] + f[p]]
             n == job[j].next + 1
             r == [job[j] EXCEPT !.data = d, !.next = n]
  <2>1. job[j].pc = "read" /\ job[j].next <= Len(job[j].cands)
    BY <1>4 DEF CompactRead
  <2>2. job[j].cands[job[j].next].path \in Paths
    <3>1. job[j].next \in 1 .. Len(job[j].cands)
      BY <2>1, <1>1, <1>2
    <3>2. job[j].cands[job[j].next] \in Entries
      BY <3>1, <1>1
    <3> QED
      BY <3>2 DEF Entries
  <2>3. f \in [Points -> Nat]
    BY <2>2, <1>1
  <2>4. CASE f = NoPoints
    <3>1. job' = [job EXCEPT ![j].pc = "errored"]
      BY <1>4, <2>4, Zenon DEF CompactRead
    <3>2. job' \in [Jobs -> JobRecords] /\ JobShape'
      BY <3>1, <2>1, <1>3
    <3> QED
      BY <3>2, <1>4, <1>0, ShapeFromParts DEF Parts, CompactRead
  <2>5. CASE f # NoPoints
    <3>1. job' = [job EXCEPT ![j] = r]
      BY <1>4, <2>5 DEF CompactRead
    <3>2. /\ r \in JobRecords /\ r.pc = "read" /\ r.cands = job[j].cands
          /\ r.next = job[j].next + 1
      <4>1. d \in [Points -> Nat]
        <5>1. job[j].data \in [Points -> Nat]
          BY <1>1
        <5> HIDE DEF f
        <5> QED
          BY <5>1, <2>3
      <4>2. n \in Nat
        BY <1>1
      <4> HIDE DEF d, n
      <4>3. /\ r \in JobRecords /\ r.pc = job[j].pc /\ r.cands = job[j].cands
            /\ r.next = n
        BY <1>1, <4>1, <4>2 DEF JobRecords
      <4> QED
        BY <2>1, <4>3 DEF n
    <3> HIDE DEF r
    <3>3. r.next \in 1 .. Len(r.cands) + 1
      BY <3>2, <2>1, <1>1, <1>2
    <3>4. job' \in [Jobs -> JobRecords] /\ JobShape'
      BY <3>1, <3>2, <3>3, <2>1, <1>2, JobChanges
    <3> QED
      BY <3>4, <1>4, <1>0, ShapeFromParts DEF Parts, CompactRead
  <2> QED
    BY <2>4, <2>5
<1>5. CASE CompactCreate(j)
  <2>1. job' = [job EXCEPT ![j].pc = "created"] /\ job[j].pc = "read"
        /\ job[j].next > Len(job[j].cands)
    BY <1>5 DEF CompactCreate
  <2>2. job' \in [Jobs -> JobRecords] /\ JobShape'
    <3>1. job[j].next = Len(job[j].cands) + 1
      BY <2>1, <1>1, <1>2
    <3> QED
      BY <2>1, <3>1, <1>3
  <2>3. dir' \in [Paths -> [Points -> Nat]]
    BY <1>5, <1>2, <2>1, <1>1, EmptyTypes DEF CompactCreate
  <2>4. taints' \in SUBSET Hazards
    BY <1>0, <1>5 DEF CompactCreate, Reuse, Hazards, Parts
  <2> QED
    BY <2>2, <2>3, <2>4, <1>5, <1>0, ShapeFromParts DEF Parts, CompactCreate
<1>6. CASE CompactWrite(j)
  <2>1. job' = [job EXCEPT ![j].pc = "written"] /\ job[j].pc = "created"
    BY <1>6 DEF CompactWrite
  <2>2. job' \in [Jobs -> JobRecords] /\ JobShape'
    <3>1. job[j].next = Len(job[j].cands) + 1
      BY <2>1 DEF ShapeInv, JobShape, Running, Writing
    <3> QED
      BY <2>1, <3>1, <1>3
  <2>3. dir' \in [Paths -> [Points -> Nat]]
    <3>1. PICK f \in {job[j].data, NoPoints} : dir' = [dir EXCEPT ![Out(j)] = f]
      BY <1>6, Zenon DEF CompactWrite
    <3>2. f \in [Points -> Nat] /\ Out(j) \in Paths
      BY <1>1, <1>2, <2>1, EmptyTypes
    <3> QED
      BY <1>1, <3>1, <3>2
  <2> QED
    BY <2>2, <2>3, <1>6, <1>0, ShapeFromParts DEF Parts, CompactWrite
<1>7. CASE CompactSend(j)
  <2>1. doneCh' \in Seq(Jobs)
    BY <1>0, <1>7 DEF CompactSend, Parts
  <2>2. job' \in [Jobs -> JobRecords] /\ JobShape'
    BY <1>0, <1>7 DEF CompactSend, ShapeInv, JobShape, Running, Writing, Parts
  <2> QED
    BY <2>1, <2>2, <1>7, <1>0, ShapeFromParts DEF Parts, CompactSend
<1>8. CASE CompactFails(j)
  <2>1. job' = [job EXCEPT ![j].pc = "errored"] /\ job[j].pc # "none"
    BY <1>8 DEF CompactFails
  <2>2. job' \in [Jobs -> JobRecords] /\ JobShape'
    BY <2>1, <1>3
  <2>3. dir' \in [Paths -> [Points -> Nat]]
    <3>1. dir' = dir \/ dir' = [dir EXCEPT ![Out(j)] = NoPoints]
      BY <1>8 DEF CompactFails
    <3> QED
      BY <3>1, <2>1, <1>1, <1>2, EmptyTypes
  <2>4. ioFaults' \in 0 .. MaxIOFaults
    BY SMTT(30), <1>0, <1>8 DEF CompactFails, IOFault, Parts
  <2> QED
    BY <2>2, <2>3, <2>4, <1>8, <1>0, ShapeFromParts DEF Parts, CompactFails
<1> QED
  BY <1>4, <1>5, <1>6, <1>7, <1>8 DEF CompactStep

(* What the engine does when it receives a result: the job ends.           *)
LEMMA ResultTaken ==
    ASSUME ShapeInv, NEW j \in Jobs, TakesResult(j)
    PROVE  /\ job' \in [Jobs -> JobRecords] /\ JobShape'
           /\ job'[j] = NoJob /\ \A k \in Jobs \ {j} : job'[k] = job[k]
           /\ Running' = Running \ {j} /\ Writing' = Writing \ {j}
           /\ doneCh' \in Seq(Jobs)
<1>1. job' = [job EXCEPT ![j] = NoJob] /\ doneCh # <<>> /\ doneCh' = Tail(doneCh)
  BY DEF TakesResult
<1>2. NoJob \in JobRecords /\ NoJob.pc = "none"
  BY EmptyTypes
<1>3. doneCh' \in Seq(Jobs)
  <2>1. doneCh \in Seq(Jobs)
    BY PartTypes DEF Parts
  <2> QED
    BY <2>1, <1>1
<1> QED
  BY <1>1, <1>2, <1>3, JobChanges

(* The directory after files were deleted.                                 *)
LEMMA WithoutTypes ==
    ASSUME ShapeInv, NEW paths
    PROVE  /\ Without(paths) \in [Paths -> [Points -> Nat]]
           /\ \A q \in Paths : Without(paths)[q] = IF q \in paths THEN NoPoints ELSE dir[q]
<1>1. dir \in [Paths -> [Points -> Nat]]
  BY PartTypes DEF Parts
<1> QED
  BY <1>1, EmptyTypes DEF Without

(* Results keep the shape.                                                 *)
LEMMA ShapeApply ==
    ASSUME ShapeInv, NEW j \in Jobs, Apply(j) \/ ApplyCompactionSaveFails(j)
    PROVE  ShapeInv'
<1>0. Parts
  BY PartTypes
<1>1. TakesResult(j)
  BY DEF Apply, ApplyCompactionError, ApplyCompactionResult, ApplyCompactionSaveFails
<1>2. job' \in [Jobs -> JobRecords] /\ JobShape' /\ doneCh' \in Seq(Jobs)
  BY <1>1, ResultTaken
<1>3. CASE ApplyCompactionError(j)
  BY <1>0, <1>2, <1>3, ShapeFromParts DEF ApplyCompactionError, Parts
<1>4. CASE ApplyCompactionResult(j)
  <2>1. j \in Running
    BY <1>4 DEF ApplyCompactionResult, Running
  <2>2. PICK m \in AddedEntries(j) : manifest' = Replaced(j, m)
    BY <1>4 DEF ApplyCompactionResult
  <2>3. manifest' \in Seq(Entries) /\ manifestFile' \in Seq(Entries)
    BY <2>1, <2>2, <1>4, AddedTypes DEF ApplyCompactionResult
  <2>4. dir' \in [Paths -> [Points -> Nat]]
    BY <1>4, WithoutTypes DEF ApplyCompactionResult
  <2> QED
    BY <1>0, <1>2, <1>4, <2>3, <2>4, ShapeFromParts DEF ApplyCompactionResult, Parts
<1>5. CASE ApplyCompactionSaveFails(j)
  <2>1. j \in Running
    BY <1>5 DEF ApplyCompactionSaveFails, Running
  <2>2. PICK m \in AddedEntries(j) : \/ manifest' = m /\ manifestFile' = manifestFile
                                     \/ manifest' = Replaced(j, m) /\ manifestFile' = m
    BY <1>5 DEF ApplyCompactionSaveFails
  <2>5. unsaved' \in SUBSET Points
    BY <1>0, <1>5 DEF ApplyCompactionSaveFails, Parts
  <2>3. manifest' \in Seq(Entries) /\ manifestFile' \in Seq(Entries)
    BY <1>0, <2>1, <2>2, AddedTypes DEF Parts
  <2>4. ioFaults' \in 0 .. MaxIOFaults /\ taints' \in SUBSET Hazards
    BY SMTT(30), <1>0, <1>5 DEF ApplyCompactionSaveFails, IOFault, Hazards, Parts
  <2> QED
    BY <1>0, <1>2, <1>5, <2>3, <2>4, <2>5, ShapeFromParts DEF ApplyCompactionSaveFails, Parts
<1> QED
  BY <1>3, <1>4, <1>5 DEF Apply

(* The history that a sweep leaves.                                        *)
LEMMA SweepTypes ==
    ASSUME ShapeInv, NEW cutoff \in Cutoffs, NEW paths \in SUBSET Paths,
           SweepHistory(cutoff, paths)
    PROVE  swept' \in SUBSET Points /\ cutoffs' \in SUBSET Cutoffs
<1>1. swept \in SUBSET Points /\ cutoffs \in SUBSET Cutoffs
  BY PartTypes DEF Parts
<1> QED
  BY <1>1 DEF SweepHistory, In

SweptPaths(cutoff) == {e.path : e \in Sweep(manifest, cutoff)}

(* A sweep only names listed paths, those of entries before the cutoff.    *)
LEMMA SweptAreListed ==
    ASSUME ShapeInv, NEW cutoff
    PROVE  /\ SweptPaths(cutoff) \subseteq Listed(manifest)
           /\ SweptPaths(cutoff) \subseteq Paths
           /\ \A q \in SweptPaths(cutoff) : \E e \in EntriesIn(manifest) :
                 e.path = q /\ e.hi < cutoff /\ e.hi \in Int
<1>1. manifest \in Seq(Entries)
  BY PartTypes DEF Parts
<1>2. SweptPaths(cutoff) \subseteq Listed(manifest)
  BY DEF SweptPaths, Sweep, Listed
<1>3. \A e \in EntriesIn(manifest) : e.hi \in Int
  BY <1>1 DEF EntriesIn, Entries
<1> QED
  BY <1>1, <1>2, <1>3, ListedArePaths DEF SweptPaths, Sweep, EntriesIn

(* Sweeps keep the shape.                                                  *)
LEMMA ShapeSweep ==
    ASSUME ShapeInv, HandleRetention \/ HandleRetentionSaveFails
    PROVE  ShapeInv'
<1>0. Parts
  BY PartTypes
<1>1. /\ job' = job /\ doneCh' = doneCh
  BY DEF HandleRetention, HandleRetentionSaveFails
<1>2. job' \in [Jobs -> JobRecords] /\ JobShape'
  BY <1>0, <1>1 DEF ShapeInv, JobShape, Running, Writing, Parts
<1>3. PICK cutoff \in Cutoffs :
         /\ manifest' = RemoveBatch(manifest, SweptPaths(cutoff))
         /\ SweepHistory(cutoff, SweptPaths(cutoff))
         /\ HandleRetention => dir' = Without(SweptPaths(cutoff))
         /\ HandleRetention => taints' = taints \cup SweptInput(SweptPaths(cutoff))
  BY DEF HandleRetention, HandleRetentionSaveFails, SweptPaths
<1>4. manifest' \in Seq(Entries)
  BY <1>0, <1>3, RemoveBatchKeeps DEF Parts
<1>5. swept' \in SUBSET Points /\ cutoffs' \in SUBSET Cutoffs
  BY <1>3, SweptAreListed, SweepTypes
<1>6. CASE HandleRetention
  <2>1. dir' \in [Paths -> [Points -> Nat]] /\ taints' \in SUBSET Hazards
    <3>1. SweptInput(SweptPaths(cutoff)) \subseteq Hazards
      BY DEF SweptInput, Hazards
    <3> QED
      BY <1>0, <1>3, <1>6, <3>1, WithoutTypes DEF Parts
  <2> QED
    BY <1>0, <1>1, <1>2, <1>4, <1>5, <1>6, <2>1, ShapeFromParts DEF HandleRetention, Parts
<1>7. CASE HandleRetentionSaveFails
  <2>1. ioFaults' \in 0 .. MaxIOFaults /\ taints' \in SUBSET Hazards
    BY <1>0, <1>7 DEF HandleRetentionSaveFails, IOFault, Hazards, Parts
  <2> QED
    BY <1>0, <1>1, <1>2, <1>4, <1>5, <1>7, <2>1, ShapeFromParts
    DEF HandleRetentionSaveFails, Parts
<1> QED
  BY <1>6, <1>7

(* No compaction runs after a restart.                                     *)
LEMMA RestartTypes ==
    ASSUME ShapeInv, NEW m \in Seq(Entries), RestartFrom(m)
    PROVE  /\ manifest' \in Seq(Entries) /\ manifestFile' \in Seq(Entries)
           /\ dir' \in [Paths -> [Points -> Nat]] /\ doneCh' \in Seq(Jobs)
           /\ job' \in [Jobs -> JobRecords] /\ JobShape'
           /\ flushCount' \in Nat /\ written' \in 0 .. MaxPoints /\ flushCount' <= written'
           /\ started' \in 0 .. MaxCompactions /\ lives' \in 1 .. MaxLives
           /\ ioFaults' \in 0 .. MaxIOFaults /\ unsaved' = {}
           /\ Running' = {} /\ Writing' = {}
<1>0. Parts
  BY PartTypes
<1>1. job' \in [Jobs -> JobRecords] /\ Running' = {} /\ Writing' = {}
  BY EmptyTypes DEF RestartFrom, Running, Writing
<1>2. JobShape'
  BY <1>1 DEF JobShape
<1>3. lives' \in 1 .. MaxLives
  BY <1>0 DEF RestartFrom, Parts
<1> QED
  BY <1>0, <1>1, <1>2, <1>3 DEF RestartFrom, Parts

(* Restarts keep the shape.                                                *)
LEMMA ShapeCrash ==
    ASSUME ShapeInv, Crash \/ CrashInApply \/ CrashInRetention
    PROVE  ShapeInv'
<1>0. Parts
  BY PartTypes
<1>1. CASE Crash
  BY <1>0, <1>1, RestartTypes, ShapeFromParts DEF Crash, Parts
<1>2. CASE CrashInApply
  <2> DEFINE j == Head(doneCh)
  <2>1. j \in Jobs /\ j \in Running
    BY <1>0, <1>2 DEF CrashInApply, Running, Parts
  <2>2. PICK m \in AddedEntries(j) :
           \/ RestartFrom(m) /\ taints' = taints \cup {"halfApplied"}
           \/ RestartFrom(Replaced(j, m)) /\ taints' = taints
    BY <1>2 DEF CrashInApply
  <2>3. m \in Seq(Entries) /\ Replaced(j, m) \in Seq(Entries)
    BY <2>1, AddedTypes
  <2>4. taints' \in SUBSET Hazards
    BY <1>0, <2>2 DEF Hazards, Parts
  <2>5. swept' \in SUBSET Points /\ cutoffs' \in SUBSET Cutoffs /\ dropped' \in SUBSET Points
    BY <1>0, <1>2 DEF CrashInApply, Parts
  <2> HIDE DEF j
  <2> QED
    BY <2>2, <2>3, <2>4, <2>5, RestartTypes, ShapeFromParts
<1>3. CASE CrashInRetention
  <2>1. PICK cutoff \in Cutoffs :
           /\ RestartFrom(RemoveBatch(manifest, SweptPaths(cutoff)))
           /\ SweepHistory(cutoff, SweptPaths(cutoff))
    BY <1>3 DEF CrashInRetention, SweptPaths
  <2>2. RemoveBatch(manifest, SweptPaths(cutoff)) \in Seq(Entries)
    BY <1>0, RemoveBatchKeeps DEF Parts
  <2>3. swept' \in SUBSET Points /\ cutoffs' \in SUBSET Cutoffs
    BY <2>1, SweptAreListed, SweepTypes
  <2>4. taints' \in SUBSET Hazards /\ dropped' \in SUBSET Points
    BY <1>0, <1>3 DEF CrashInRetention, Parts
  <2> QED
    BY <2>1, <2>2, <2>3, <2>4, RestartTypes, ShapeFromParts
<1> QED
  BY <1>1, <1>2, <1>3

(* Every step keeps the shape.                                             *)
LEMMA ShapeStep ==
    ASSUME ShapeInv, [MaintenanceNext]_vars
    PROVE  ShapeInv'
<1>1. CASE UNCHANGED vars
  BY <1>1 DEF vars, ShapeInv, MaintenanceTypeOK, JobShape, Running, Writing
<1>2. CASE MaintenanceNext
  BY <1>2, ShapeNew, ShapeCompact, ShapeApply, ShapeSweep, ShapeCrash
  DEF MaintenanceNext
<1> QED
  BY <1>1, <1>2

(* Type correctness of compaction and retention, whatever is at work at    *)
(* the same time: entries are well formed and each compaction, to the last *)
(* candidate, reads and writes files of the data directory.                *)
THEOREM MaintenanceTypeCorrect == MaintenanceSpec => []MaintenanceTypeOK
<1>1. MaintenanceInit => ShapeInv
  BY ShapeInit
<1>2. ShapeInv /\ [MaintenanceNext]_vars => ShapeInv'
  BY ShapeStep
<1>3. ShapeInv => MaintenanceTypeOK
  BY DEF ShapeInv
<1> QED
  BY <1>1, <1>2, <1>3, PTL DEF MaintenanceSpec, MaintenanceSafety

-----------------------------------------------------------------------------
(* The inputs that a compaction has read are paths of its candidates.      *)
LEMMA InputPaths ==
    ASSUME ShapeInv, NEW j \in Running, NEW i \in 1 .. job[j].next - 1
    PROVE  /\ i \in DOMAIN job[j].cands
           /\ job[j].cands[i].path \in PathsOf(job[j].cands) /\ job[j].cands[i].path \in Paths
<1>1. job[j].cands \in Seq(Entries) /\ PathsOf(job[j].cands) \subseteq Paths
  BY PartTypes DEF Parts, Running
<1>2. job[j].next \in 1 .. Len(job[j].cands) + 1
  BY DEF ShapeInv, JobShape
<1>3. i \in DOMAIN job[j].cands
  BY <1>1, <1>2
<1> QED
  BY <1>1, <1>3 DEF PathsOf

(* KeepInv.  Compactions that a step does not touch keep what they own and *)
(* what they have read, when the step only deletes from their inputs.      *)
LEMMA CompactionsGoOn ==
    ASSUME ShapeInv, OutputsOwned, ReadsCover,
           \A j \in Running' : j \in Running /\ job'[j] = job[j],
           \A j \in Writing' : /\ Out(j) \notin Listed(manifest')
                               /\ dir'[Out(j)] = dir[Out(j)],
           \A j \in Running' : \A q \in PathsOf(job[j].cands), p \in Points :
               dir'[q][p] > 0 => dir[q][p] > 0
    PROVE  OutputsOwned' /\ ReadsCover'
<1>1. Writing' \subseteq Running' /\ Writing \subseteq Running
  BY DEF Writing, Running
<1>2. \A j \in Running' : Out(j)' = Out(j)
  BY DEF Out
<1>3. \A j \in Writing' : j \in Writing
  BY <1>1 DEF Writing
<1>4. OutputsOwned'
  <2> SUFFICES ASSUME NEW j \in Writing'
               PROVE  /\ Out(j) \notin Listed(manifest')
                      /\ \A k \in Running' : Out(j) \notin PathsOf(job'[k].cands)
                      /\ \A k \in Writing' : Out(j) = Out(k) => j = k
                      /\ dir'[Out(j)] = IF job'[j].pc = "created" THEN NoPoints
                                                                 ELSE job'[j].data
    BY <1>1, <1>2 DEF OutputsOwned
  <2>1. j \in Writing /\ job'[j] = job[j]
    BY <1>1, <1>3
  <2> QED
    BY <1>1, <1>3, <2>1 DEF OutputsOwned
<1>5. ReadsCover'
  <2> SUFFICES ASSUME NEW j \in Running', NEW i \in 1 .. job'[j].next - 1, NEW p \in Points,
                      dir'[job'[j].cands[i].path][p] > 0
               PROVE  job'[j].data[p] > 0
    BY DEF ReadsCover
  <2>1. j \in Running /\ job'[j] = job[j]
    OBVIOUS
  <2>2. job[j].cands[i].path \in PathsOf(job[j].cands)
    BY <2>1, InputPaths
  <2> QED
    BY <2>1, <2>2 DEF ReadsCover
<1> QED
  BY <1>4, <1>5

(* A new segment overwrites nothing that is in use.                        *)
LEMMA KeepFlush ==
    ASSUME ShapeInv, KeepInv, FlushSegment \/ FlushSegmentSavesFail
    PROVE  KeepInv'
<1> SUFFICES ASSUME "reuse" \notin taints'
             PROVE  OutputsOwned' /\ ReadsCover' /\ ListedTwice'
  BY DEF KeepInv
<1>0. Parts
  BY PartTypes
<1> DEFINE q == SegPath(flushCount)
           f == [NoPoints EXCEPT ![written + 1] = 1]
<1>1. "reuse" \notin taints /\ ~InUse(q) /\ SegmentAdded
  BY DEF FlushSegment, FlushSegmentSavesFail, Reuse
<1>2. OutputsOwned /\ ReadsCover /\ ListedTwice
  BY <1>1 DEF KeepInv
<1>3. q \in Paths /\ q[1] = "seg" /\ written + 1 \in Points
  <2>1. flushCount \in 0 .. MaxPoints - 1 /\ written + 1 \in 1 .. MaxPoints
    BY SMTT(30), <1>0, <1>1 DEF SegmentAdded, Parts
  <2> QED
    BY <2>1 DEF SegPath, Paths, Points
<1>4. /\ dir'[q] = f /\ f[written + 1] = 1
      /\ \A r \in Paths \ {q} : dir'[r] = dir[r]
  <2>1. dir' = [dir EXCEPT ![q] = f] /\ dir \in [Paths -> [Points -> Nat]]
    BY <1>0, <1>1 DEF SegmentAdded, Parts
  <2>2. f[written + 1] = 1
    BY <1>3, EmptyTypes
  <2> HIDE DEF f, q
  <2> QED
    BY <1>3, <2>1, <2>2
<1>5. PICK e \in EntriesFor(q, f) : manifest' = Append(manifest, e)
  BY <1>1 DEF SegmentAdded
<1>6. e \in Entries /\ e.path = q
  <2>1. f \in [Points -> Nat]
    BY <1>3, EmptyTypes
  <2> QED
    BY <2>1, <1>3, EntryTypes
<1>7. Listed(manifest') = Listed(manifest) \cup {q}
  BY <1>0, <1>5, <1>6, AppendListed DEF Parts
<1>8. q \notin Listed(manifest) /\ \A j \in Running : q \notin PathsOf(job[j].cands)
  BY <1>1 DEF InUse
<1> HIDE DEF q, f
<1>9. job' = job /\ Running' = Running /\ Writing' = Writing /\ Writing \subseteq Running
  BY <1>1 DEF SegmentAdded, Running, Writing
<1>10. \A j \in Running : Out(j) # q /\ Out(j) \in Paths
  BY <1>3, OutIsPath
<1>11. OutputsOwned' /\ ReadsCover'
  <2>1. \A j \in Writing' : Out(j) \notin Listed(manifest') /\ dir'[Out(j)] = dir[Out(j)]
    BY <1>2, <1>4, <1>7, <1>9, <1>10 DEF OutputsOwned
  <2>2. \A j \in Running' : \A r \in PathsOf(job[j].cands), p \in Points :
           dir'[r][p] > 0 => dir[r][p] > 0
    BY <1>0, <1>4, <1>8, <1>9 DEF Parts, Running
  <2> QED
    BY <1>2, <1>9, <2>1, <2>2, CompactionsGoOn
<1>12. ListedTwice'
  <2> SUFFICES ASSUME NEW p \in Remaining'
               PROVE  \E r \in Listed(manifest') :
                         dir'[r][p] > 0 /\ (p \notin unsaved' => r \in Listed(manifestFile'))
    BY DEF ListedTwice
  <2>1. written' = written + 1 /\ swept' = swept /\ dropped' = dropped
    BY <1>1 DEF SegmentAdded
  <2>2. \/ manifestFile' = manifest' /\ unsaved' = {}
        \/ manifestFile' = manifestFile /\ unsaved' = unsaved \cup {written + 1}
    BY DEF FlushSegment, FlushSegmentSavesFail
  <2>3. CASE p = written + 1
    BY <1>4, <1>7, <2>2, <2>3
  <2>4. CASE p # written + 1
    <3>1. p \in Remaining
      BY <1>0, <2>1, <2>4 DEF Parts, Remaining
    <3>2. PICK r \in Listed(manifest) :
             dir[r][p] > 0 /\ (p \notin unsaved => r \in Listed(manifestFile))
      BY <3>1, <1>2 DEF ListedTwice
    <3>3. r # q /\ r \in Paths
      BY <1>0, <1>8, ListedArePaths DEF Parts
    <3> QED
      BY <1>4, <1>7, <2>2, <3>2, <3>3
  <2> QED
    BY <2>3, <2>4
<1> QED
  BY <1>11, <1>12

(* A compaction starts on listed files.                                    *)
LEMMA KeepStart ==
    ASSUME ShapeInv, KeepInv, HandleCompaction
    PROVE  KeepInv'
<1> SUFFICES ASSUME "reuse" \notin taints'
             PROVE  OutputsOwned' /\ ReadsCover' /\ ListedTwice'
  BY DEF KeepInv
<1>0. Parts
  BY PartTypes
<1>1. OutputsOwned /\ ReadsCover /\ ListedTwice
  BY DEF KeepInv, HandleCompaction
<1>2. PICK c \in SelectCandidates(manifest, MaxCount) :
         job' = [job EXCEPT ![started + 1] =
                   [pc |-> "read", cands |-> c, next |-> 1, data |-> NoPoints]]
  BY DEF HandleCompaction
<1> DEFINE n == started + 1
           r == [pc |-> "read", cands |-> c, next |-> 1, data |-> NoPoints]
<1>3. PathsOf(c) \subseteq Listed(manifest) /\ n \in Jobs
  <2>1. n \in Jobs
    BY <1>0 DEF Parts, HandleCompaction, Jobs
  <2>2. PathsOf(c) \subseteq Listed(manifest)
    BY <1>0, CandidateTypes DEF Parts
  <2> QED
    BY <2>1, <2>2
<1>4. job'[n] = r /\ \A k \in Jobs \ {n} : job'[k] = job[k]
  <2>1. job' = [job EXCEPT ![n] = r] /\ job \in [Jobs -> JobRecords]
    BY <1>0, <1>2 DEF Parts
  <2> HIDE DEF n, r
  <2> QED
    BY <1>3, <2>1
<1>5. Running' = Running \cup {n} /\ Writing' = Writing \ {n} /\ Writing \subseteq Running
  BY <1>3, <1>4 DEF Running, Writing
<1>6. manifest' = manifest /\ manifestFile' = manifestFile /\ dir' = dir
      /\ Remaining' = Remaining /\ unsaved' = unsaved
  BY DEF HandleCompaction, Remaining
<1> HIDE DEF n
<1>7. \A j \in Running \ {n} : Out(j)' = Out(j) /\ job'[j] = job[j] /\ j \in Jobs
  BY <1>4 DEF Out, Running
<1>8. OutputsOwned'
  <2> SUFFICES ASSUME NEW j \in Writing'
               PROVE  /\ Out(j)' \notin Listed(manifest)
                      /\ \A k \in Running' : Out(j)' \notin PathsOf(job'[k].cands)
                      /\ \A k \in Writing' : Out(j)' = Out(k)' => j = k
                      /\ dir[Out(j)'] = IF job'[j].pc = "created" THEN NoPoints
                                                                 ELSE job'[j].data
    BY <1>6 DEF OutputsOwned
  <2>1. j \in Writing /\ j \in Running \ {n}
    BY <1>5
  <2>2. \A k \in Running' : Out(j) \notin PathsOf(job'[k].cands)
    <3> SUFFICES ASSUME NEW k \in Running' PROVE Out(j) \notin PathsOf(job'[k].cands)
      OBVIOUS
    <3>1. CASE k = n
      <4>1. job'[k].cands = c
        BY <3>1, <1>4
      <4> QED
        BY <4>1, <2>1, <1>1, <1>3 DEF OutputsOwned
    <3>2. CASE k # n
      BY <3>2, <2>1, <1>1, <1>5, <1>7 DEF OutputsOwned
    <3> QED
      BY <3>1, <3>2
  <2>3. \A k \in Writing' : Out(j) = Out(k) => j = k
    BY <2>1, <1>1, <1>5 DEF OutputsOwned
  <2>4. \A k \in Writing' : Out(k)' = Out(k)
    BY <1>5, <1>7
  <2> QED
    BY <2>1, <2>2, <2>3, <2>4, <1>1, <1>7 DEF OutputsOwned
<1>9. ReadsCover'
  <2> SUFFICES ASSUME NEW j \in Running', NEW i \in 1 .. job'[j].next - 1, NEW p \in Points,
                      dir[job'[j].cands[i].path][p] > 0
               PROVE  job'[j].data[p] > 0
    BY <1>6 DEF ReadsCover
  <2>1. j # n
    BY <1>4
  <2> QED
    BY <2>1, <1>1, <1>5, <1>7 DEF ReadsCover
<1>10. ListedTwice'
  BY <1>1, <1>6 DEF ListedTwice
<1> QED
  BY <1>8, <1>9, <1>10

(* Reading an input adds its points to what was read.                      *)
LEMMA KeepRead ==
    ASSUME ShapeInv, KeepInv, NEW j \in Jobs, CompactRead(j)
    PROVE  KeepInv'
<1> SUFFICES ASSUME "reuse" \notin taints'
             PROVE  OutputsOwned' /\ ReadsCover' /\ ListedTwice'
  BY DEF KeepInv
<1>0. Parts
  BY PartTypes
<1>1. OutputsOwned /\ ReadsCover /\ ListedTwice
  BY DEF KeepInv, CompactRead
<1>2. manifest' = manifest /\ manifestFile' = manifestFile /\ dir' = dir
      /\ Remaining' = Remaining /\ unsaved' = unsaved
  BY DEF CompactRead, Remaining
<1>3. /\ job[j].pc = "read" /\ job[j].next \in 1 .. Len(job[j].cands) /\ j \in Running
      /\ job[j].data \in [Points -> Nat] /\ j \notin Writing /\ job[j].next \in Nat
  <2>1. job[j].pc = "read" /\ job[j].next <= Len(job[j].cands)
    BY DEF CompactRead
  <2>2. j \in Running /\ j \notin Writing
    BY <2>1 DEF Running, Writing
  <2>3. job[j].data \in [Points -> Nat] /\ job[j].next \in Nat
    BY <1>0 DEF Parts
  <2>4. job[j].next \in 1 .. Len(job[j].cands) + 1
    BY <2>2 DEF ShapeInv, JobShape
  <2> QED
    BY <2>1, <2>2, <2>3, <2>4
<1> DEFINE f == dir[job[j].cands[job[j].next].path]
<1>4. f \in [Points -> Nat]
  <2>1. job[j].cands[job[j].next] \in Entries
    BY <1>0, <1>3 DEF Parts
  <2> QED
    BY <1>0, <2>1 DEF Entries, Parts
<1>5. /\ \A k \in Jobs \ {j} : job'[k] = job[k]
      /\ job'[j].cands = job[j].cands /\ job'[j].pc \in {"read", "errored"}
      /\ \/ job'[j].next = job[j].next /\ job'[j].data = job[j].data
         \/ /\ job'[j].next = job[j].next + 1
            /\ job'[j].data = [p \in Points |-> job[j].data[p] + f[p]]
  <2>1. job \in [Jobs -> JobRecords]
    BY <1>0 DEF Parts
  <2>2. CASE f = NoPoints
    <3>1. job' = [job EXCEPT ![j].pc = "errored"]
      BY <2>2, Zenon DEF CompactRead
    <3> QED
      BY <2>1, <3>1, <1>3 DEF JobRecords
  <2>3. CASE f # NoPoints
    <3> DEFINE d == [p \in Points |-> job[j].data[p] + f[p]]
    <3>1. job' = [job EXCEPT ![j].data = d, ![j].next = job[j].next + 1]
      BY <2>3 DEF CompactRead
    <3> HIDE DEF d
    <3>2. /\ job'[j].cands = job[j].cands /\ job'[j].pc = job[j].pc
          /\ job'[j].next = job[j].next + 1 /\ job'[j].data = d
          /\ \A k \in Jobs \ {j} : job'[k] = job[k]
      BY <2>1, <3>1 DEF JobRecords
    <3> QED
      BY <3>2, <1>3 DEF d
  <2> QED
    BY <2>2, <2>3
<1>6. Running' = Running /\ Writing' = Writing /\ Writing \subseteq Running
  <2>1. \A k \in Jobs : /\ job'[k].pc # "none" <=> job[k].pc # "none"
                        /\ job'[k].pc \in {"created", "written"}
                             <=> job[k].pc \in {"created", "written"}
    BY <1>3, <1>5
  <2> QED
    BY <2>1 DEF Running, Writing
<1>7. \A k \in Running : k \in Jobs /\ Out(k)' = Out(k) /\ job'[k].cands = job[k].cands
  BY <1>5 DEF Out, Running
<1>8. OutputsOwned'
  <2>1. \A k \in Writing : job'[k] = job[k]
    BY <1>3, <1>5 DEF Writing
  <2> QED
    BY <1>1, <1>2, <1>6, <1>7, <2>1 DEF OutputsOwned
<1>9. ReadsCover'
  <2> SUFFICES ASSUME NEW k \in Running, NEW i \in 1 .. job'[k].next - 1, NEW p \in Points,
                      dir[job[k].cands[i].path][p] > 0
               PROVE  job'[k].data[p] > 0
    BY <1>2, <1>6, <1>7 DEF ReadsCover
  <2>1. CASE k # j
    BY <2>1, <1>1, <1>5, <1>7 DEF ReadsCover
  <2>2. CASE k = j /\ job'[j].next = job[j].next /\ job'[j].data = job[j].data
    BY <2>2, <1>1 DEF ReadsCover
  <2>3. CASE /\ k = j /\ job'[j].next = job[j].next + 1
             /\ job'[j].data = [l \in Points |-> job[j].data[l] + f[l]]
    <3>1. job'[j].data[p] = job[j].data[p] + f[p] /\ job[j].data[p] \in Nat /\ f[p] \in Nat
      BY <2>3, <1>3, <1>4
    <3>2. CASE i = job[j].next
      <4>1. f[p] > 0
        BY <3>2, <2>3
      <4> HIDE DEF f
      <4> QED
        BY <4>1, <3>1, <2>3
    <3>3. CASE i # job[j].next
      <4>1. i \in 1 .. job[j].next - 1
        <5>1. job[j].next \in Nat
          BY <1>3
        <5>2. i \in 1 .. (job[j].next + 1) - 1
          BY <2>3
        <5> QED
          BY <3>3, <5>1, <5>2
      <4>2. job[j].data[p] > 0
        BY <4>1, <2>3, <1>1 DEF ReadsCover
      <4> HIDE DEF f
      <4> QED
        BY <4>2, <3>1, <2>3
    <3> QED
      BY <3>2, <3>3
  <2> QED
    BY <2>1, <2>2, <2>3, <1>5
<1>10. ListedTwice'
  BY <1>1, <1>2 DEF ListedTwice
<1> QED
  BY <1>8, <1>9, <1>10

(* What a step of compaction j that sets its pc, and at most its output    *)
(* file, leaves as it was.                                                 *)
LEMMA OnlyOutputMoves ==
    ASSUME ShapeInv, NEW j \in Running, NEW s \in {"created", "written", "errored"},
           NEW f \in [Points -> Nat],
           job' = [job EXCEPT ![j].pc = s],
           dir' = [dir EXCEPT ![Out(j)] = f]
    PROVE  /\ \A k \in Jobs \ {j} : job'[k] = job[k]
           /\ job'[j].cands = job[j].cands /\ job'[j].next = job[j].next
           /\ job'[j].data = job[j].data /\ job'[j].pc = s
           /\ Running' = Running /\ Writing \subseteq Running
           /\ Writing' = IF s = "errored" THEN Writing \ {j} ELSE Writing \cup {j}
           /\ \A k \in Running : Out(k)' = Out(k)
           /\ dir'[Out(j)] = f /\ \A q \in Paths \ {Out(j)} : dir'[q] = dir[q]
<1>0. /\ job \in [Jobs -> JobRecords] /\ j \in Jobs /\ Out(j) \in Paths
      /\ dir \in [Paths -> [Points -> Nat]] /\ job[j].pc # "none"
  BY PartTypes, OutIsPath DEF Parts, Running
<1>1. /\ \A k \in Jobs \ {j} : job'[k] = job[k]
      /\ job'[j].cands = job[j].cands /\ job'[j].next = job[j].next
      /\ job'[j].data = job[j].data /\ job'[j].pc = s
  BY <1>0 DEF JobRecords
<1>2. Running' = Running /\ Writing \subseteq Running
  BY <1>0, <1>1 DEF Running, Writing
<1>3. Writing' = IF s = "errored" THEN Writing \ {j} ELSE Writing \cup {j}
  BY <1>0, <1>1 DEF Writing
<1>4. \A k \in Running : Out(k)' = Out(k)
  BY <1>1 DEF Out, Running
<1>5. dir'[Out(j)] = f /\ \A q \in Paths \ {Out(j)} : dir'[q] = dir[q]
  BY <1>0
<1> QED
  BY <1>1, <1>2, <1>3, <1>4, <1>5

(* Creating, writing or removing an output touches no file in use.         *)
LEMMA KeepWrite ==
    ASSUME ShapeInv, KeepInv, NEW j \in Jobs,
           CompactCreate(j) \/ CompactWrite(j) \/ CompactFails(j)
    PROVE  KeepInv'
<1> SUFFICES ASSUME "reuse" \notin taints'
             PROVE  OutputsOwned' /\ ReadsCover' /\ ListedTwice'
  BY DEF KeepInv
<1>0. Parts
  BY PartTypes
<1>1. "reuse" \notin taints
  BY DEF CompactCreate, CompactWrite, CompactFails
<1>2. OutputsOwned /\ ReadsCover /\ ListedTwice
  BY <1>1 DEF KeepInv
<1>3. /\ manifest' = manifest /\ manifestFile' = manifestFile
      /\ Remaining' = Remaining /\ unsaved' = unsaved
  BY DEF CompactCreate, CompactWrite, CompactFails, Remaining
<1>4. j \in Running /\ Out(j) \in Paths
  BY OutIsPath DEF CompactCreate, CompactWrite, CompactFails, Running
<1>5. ASSUME NEW s \in {"created", "written", "errored"}, NEW f \in [Points -> Nat],
             job' = [job EXCEPT ![j].pc = s], dir' = [dir EXCEPT ![Out(j)] = f],
             Out(j) \notin Listed(manifest),
             \A k \in Running : Out(j) \notin PathsOf(job[k].cands),
             \A k \in Writing : Out(k) = Out(j) => k = j,
             s = "created" => f = NoPoints, s = "written" => f = job[j].data
      PROVE  OutputsOwned' /\ ReadsCover' /\ ListedTwice'
  <2>1. /\ \A k \in Jobs \ {j} : job'[k] = job[k]
        /\ job'[j].cands = job[j].cands /\ job'[j].next = job[j].next
        /\ job'[j].data = job[j].data /\ job'[j].pc = s
        /\ Running' = Running /\ Writing \subseteq Running
        /\ Writing' = IF s = "errored" THEN Writing \ {j} ELSE Writing \cup {j}
        /\ \A k \in Running : Out(k)' = Out(k)
        /\ dir'[Out(j)] = f /\ \A q \in Paths \ {Out(j)} : dir'[q] = dir[q]
    BY <1>4, <1>5, OnlyOutputMoves
  <2>2. \A k \in Running : k \in Jobs /\ Out(k) \in Paths /\ job'[k].cands = job[k].cands
                           /\ job'[k].next = job[k].next /\ job'[k].data = job[k].data
    BY <2>1, OutIsPath DEF Running
  <2>3. OutputsOwned'
    <3> SUFFICES ASSUME NEW k \in Writing'
                 PROVE  /\ Out(k) \notin Listed(manifest)
                        /\ \A l \in Running : Out(k) \notin PathsOf(job[l].cands)
                        /\ \A l \in Writing' : Out(k) = Out(l) => k = l
                        /\ dir'[Out(k)] = IF job'[k].pc = "created" THEN NoPoints
                                                                   ELSE job'[k].data
      <4>1. Writing' \subseteq Running
        BY <2>1, <1>4
      <4>2. \A l \in Writing' : Out(l)' = Out(l)
        BY <4>1, <2>1
      <4> QED
        BY <4>1, <4>2, <1>3, <2>1, <2>2 DEF OutputsOwned
    <3>1. CASE k = j
      <4>1. s \in {"created", "written"}
        BY <3>1, <2>1
      <4> QED
        BY <4>1, <3>1, <2>1, <1>5
    <3>2. CASE k # j
      <4>1. k \in Writing /\ k \in Running /\ job'[k] = job[k]
        BY <3>2, <2>1, <2>2
      <4>2. Out(k) # Out(j)
        BY <4>1, <3>2, <1>5
      <4> QED
        BY <4>1, <4>2, <2>1, <2>2, <1>2 DEF OutputsOwned
    <3> QED
      BY <3>1, <3>2
  <2>4. ReadsCover'
    <3> SUFFICES ASSUME NEW k \in Running, NEW i \in 1 .. job[k].next - 1, NEW p \in Points,
                        dir'[job[k].cands[i].path][p] > 0
                 PROVE  job[k].data[p] > 0
      BY <2>1, <2>2 DEF ReadsCover
    <3>1. job[k].cands[i].path \in PathsOf(job[k].cands) /\ job[k].cands[i].path \in Paths
      BY InputPaths
    <3>2. dir'[job[k].cands[i].path] = dir[job[k].cands[i].path]
      BY <3>1, <2>1, <1>5
    <3> QED
      BY <3>2, <1>2 DEF ReadsCover
  <2>5. ListedTwice'
    <3>1. Listed(manifest) \subseteq Paths
      BY <1>0, ListedArePaths DEF Parts
    <3>2. \A q \in Listed(manifest) : dir'[q] = dir[q]
      BY <3>1, <2>1, <1>5
    <3> QED
      BY <3>2, <1>2, <1>3 DEF ListedTwice
  <2> QED
    BY <2>3, <2>4, <2>5
<1>6. CASE CompactCreate(j)
  <2>1. job' = [job EXCEPT ![j].pc = "created"] /\ dir' = [dir EXCEPT ![Out(j)] = NoPoints]
    BY <1>6 DEF CompactCreate
  <2>2. ~InUse(Out(j))
    BY <1>6 DEF CompactCreate, Reuse
  <2>3. /\ Out(j) \notin Listed(manifest)
        /\ \A k \in Running : Out(j) \notin PathsOf(job[k].cands)
        /\ \A k \in Writing : Out(k) # Out(j)
    BY <2>2 DEF InUse, Running, Writing
  <2> QED
    BY <2>1, <2>3, <1>5, EmptyTypes
<1>7. CASE CompactWrite(j)
  <2>1. j \in Writing /\ job[j].pc = "created" /\ job[j].data \in [Points -> Nat]
    BY <1>0, <1>7 DEF CompactWrite, Writing, Parts
  <2>2. dir[Out(j)] = NoPoints
    BY <1>2, <2>1 DEF OutputsOwned
  <2>3. job' = [job EXCEPT ![j].pc = "written"] /\ dir' = [dir EXCEPT ![Out(j)] = job[j].data]
    BY <1>7, <2>2 DEF CompactWrite
  <2>4. /\ Out(j) \notin Listed(manifest)
        /\ \A k \in Running : Out(j) \notin PathsOf(job[k].cands)
        /\ \A k \in Writing : Out(k) = Out(j) => k = j
    BY <1>2, <2>1 DEF OutputsOwned
  <2> QED
    BY <2>1, <2>3, <2>4, <1>5
<1>8. CASE CompactFails(j)
  <2>1. job' = [job EXCEPT ![j].pc = "errored"]
    BY <1>8 DEF CompactFails
  <2>2. CASE job[j].pc = "created"
    <3>1. dir' = [dir EXCEPT ![Out(j)] = NoPoints] /\ j \in Writing
      BY <1>8, <2>2 DEF CompactFails, Writing
    <3>2. /\ Out(j) \notin Listed(manifest)
          /\ \A k \in Running : Out(j) \notin PathsOf(job[k].cands)
          /\ \A k \in Writing : Out(k) = Out(j) => k = j
      BY <1>2, <3>1 DEF OutputsOwned
    <3> QED
      BY <2>1, <3>1, <3>2, <1>5, EmptyTypes
  <2>3. CASE job[j].pc # "created"
    <3>1. dir' = dir
      BY <1>8, <2>3 DEF CompactFails
    <3>2. dir[Out(j)] \in [Points -> Nat] /\ dir = [dir EXCEPT ![Out(j)] = dir[Out(j)]]
      BY <1>0, <1>4 DEF Parts
    <3>3. /\ Running' = Running /\ Writing' = Writing \ {j} /\ Writing \subseteq Running
          /\ \A k \in Jobs \ {j} : job'[k] = job[k]
          /\ job'[j].cands = job[j].cands /\ job'[j].next = job[j].next
          /\ job'[j].data = job[j].data
          /\ \A k \in Running : Out(k)' = Out(k)
      BY <2>1, <3>1, <3>2, <1>4, OnlyOutputMoves
    <3>4. \A k \in Running : /\ job'[k].cands = job[k].cands /\ job'[k].next = job[k].next
                             /\ job'[k].data = job[k].data
      BY <3>3 DEF Running
    <3>5. \A k \in Writing' : job'[k] = job[k] /\ k \in Writing /\ k \in Running
      BY <3>3 DEF Running
    <3>6. OutputsOwned'
      BY <3>1, <3>3, <3>4, <3>5, <1>2, <1>3 DEF OutputsOwned
    <3>7. ReadsCover'
      BY <3>1, <3>3, <3>4, <1>2 DEF ReadsCover
    <3>8. ListedTwice'
      BY <3>1, <1>2, <1>3 DEF ListedTwice
    <3> QED
      BY <3>6, <3>7, <3>8
  <2> QED
    BY <2>2, <2>3
<1> QED
  BY <1>6, <1>7, <1>8

(* The manifests on the way from the inputs of a compaction to its output. *)
LEMMA AddedListed ==
    ASSUME ShapeInv, NEW j \in Running, NEW m \in AddedEntries(j)
    PROVE  /\ Listed(m) = Listed(manifest) \cup {Out(j)}
           /\ Listed(Replaced(j, m)) =
                (Listed(manifest) \cup {Out(j)}) \ PathsOf(job[j].cands)
<1>1. PICK e \in Entries : m = Append(manifest, e) /\ e.path = Out(j)
  BY AddedTypes
<1>2. Listed(m) = Listed(manifest) \cup {Out(j)}
  <2>1. manifest \in Seq(Entries)
    BY PartTypes DEF Parts
  <2> QED
    BY <1>1, <2>1, AppendListed
<1>3. m \in Seq(Entries)
  BY AddedTypes
<1> QED
  BY <1>2, <1>3, RemoveBatchListed DEF Replaced

(* What the inputs of a finished compaction hold, its output holds.        *)
LEMMA OutputReplacesInputs ==
    ASSUME ShapeInv, OutputsOwned, ReadsCover, ListedTwice,
           NEW j \in Jobs, job[j].pc = "written",
           NEW p \in Remaining
    PROVE  \E r \in (Listed(manifest) \cup {Out(j)}) \ PathsOf(job[j].cands) : dir[r][p] > 0
<1>1. j \in Running /\ j \in Writing
  BY DEF Running, Writing
<1>2. PICK q \in Listed(manifest) : dir[q][p] > 0
  BY DEF ListedTwice
<1>3. CASE q \notin PathsOf(job[j].cands)
  BY <1>2, <1>3
<1>4. CASE q \in PathsOf(job[j].cands)
  <2>1. PICK i \in DOMAIN job[j].cands : q = job[j].cands[i].path
    BY <1>4 DEF PathsOf
  <2>2. job[j].next = Len(job[j].cands) + 1 /\ job[j].cands \in Seq(Entries)
    BY <1>1, PartTypes DEF ShapeInv, JobShape, Parts
  <2>3. i \in 1 .. job[j].next - 1
    BY <2>1, <2>2
  <2>4. p \in Points
    BY PartTypes DEF Parts, Points, Remaining
  <2>5. job[j].data[p] > 0
    BY <1>1, <1>2, <2>1, <2>3, <2>4 DEF ReadsCover
  <2>6. dir[Out(j)] = job[j].data /\ Out(j) \notin PathsOf(job[j].cands)
    BY <1>1 DEF OutputsOwned
  <2> QED
    BY <2>5, <2>6
<1> QED
  BY <1>3, <1>4

(* Applying a result, whichever of its saves fails, loses nothing.         *)
LEMMA KeepApply ==
    ASSUME ShapeInv, KeepInv, NEW j \in Jobs, Apply(j) \/ ApplyCompactionSaveFails(j)
    PROVE  KeepInv'
<1> SUFFICES ASSUME "reuse" \notin taints'
             PROVE  OutputsOwned' /\ ReadsCover' /\ ListedTwice'
  BY DEF KeepInv
<1>0. Parts
  BY PartTypes
<1>1. "reuse" \notin taints
  BY DEF Apply, ApplyCompactionError, ApplyCompactionResult, ApplyCompactionSaveFails
<1>2. OutputsOwned /\ ReadsCover /\ ListedTwice
  BY <1>1 DEF KeepInv
<1>3. TakesResult(j) /\ Remaining' = Remaining
  BY DEF Remaining, Apply, ApplyCompactionError, ApplyCompactionResult, ApplyCompactionSaveFails
<1>4. /\ \A k \in Jobs \ {j} : job'[k] = job[k]
      /\ Running' = Running \ {j} /\ Writing' = Writing \ {j} /\ Writing \subseteq Running
  BY <1>3, ResultTaken DEF Running, Writing
<1>5. \A k \in Running' : k \in Running /\ k \in Jobs /\ job'[k] = job[k]
  BY <1>4 DEF Running
<1>6. \A k \in Running : Out(k) \in Paths
  BY OutIsPath
<1>7. CASE ApplyCompactionError(j)
  <2>1. manifest' = manifest /\ manifestFile' = manifestFile /\ dir' = dir /\ unsaved' = unsaved
    BY <1>7 DEF ApplyCompactionError
  <2>2. OutputsOwned' /\ ReadsCover'
    <3>1. \A k \in Writing' : Out(k) \notin Listed(manifest') /\ dir'[Out(k)] = dir[Out(k)]
      BY <2>1, <1>2, <1>4 DEF OutputsOwned
    <3> QED
      BY <1>2, <1>5, <2>1, <3>1, CompactionsGoOn
  <2>3. ListedTwice'
    BY <1>2, <1>3, <2>1 DEF ListedTwice
  <2> QED
    BY <2>2, <2>3
<1>8. CASE ApplyCompactionResult(j)
  <2>1. job[j].pc = "written" /\ j \in Running /\ j \in Writing
    BY <1>8 DEF ApplyCompactionResult, Running, Writing
  <2>2. PICK m \in AddedEntries(j) : manifest' = Replaced(j, m)
    BY <1>8 DEF ApplyCompactionResult
  <2>3. /\ Listed(manifest') = (Listed(manifest) \cup {Out(j)}) \ PathsOf(job[j].cands)
        /\ manifestFile' = manifest'
    BY <1>8, <2>1, <2>2, AddedListed DEF ApplyCompactionResult
  <2>4. \A q \in Paths : dir'[q] = IF q \in PathsOf(job[j].cands) THEN NoPoints ELSE dir[q]
    BY <1>8, WithoutTypes DEF ApplyCompactionResult
  <2>5. OutputsOwned' /\ ReadsCover'
    <3>1. \A k \in Writing' : Out(k) \notin Listed(manifest') /\ dir'[Out(k)] = dir[Out(k)]
      <4> SUFFICES ASSUME NEW k \in Writing'
                   PROVE  Out(k) \notin Listed(manifest') /\ dir'[Out(k)] = dir[Out(k)]
        OBVIOUS
      <4>1. k \in Writing /\ k # j
        BY <1>4
      <4>2. Out(k) # Out(j) /\ Out(k) \notin Listed(manifest)
            /\ Out(k) \notin PathsOf(job[j].cands)
        BY <4>1, <2>1, <1>2 DEF OutputsOwned
      <4> QED
        BY <4>1, <4>2, <1>4, <1>6, <2>3, <2>4
    <3>2. \A k \in Running' : \A q \in PathsOf(job[k].cands), p \in Points :
             dir'[q][p] > 0 => dir[q][p] > 0
      <4> SUFFICES ASSUME NEW k \in Running', NEW q \in PathsOf(job[k].cands), NEW p \in Points,
                          dir'[q][p] > 0
                   PROVE  dir[q][p] > 0
        OBVIOUS
      <4>1. q \in Paths
        BY <1>0, <1>5 DEF Parts
      <4>2. NoPoints[p] = 0
        BY DEF NoPoints
      <4> QED
        BY <4>1, <4>2, <2>4
    <3> QED
      BY <1>2, <1>5, <3>1, <3>2, CompactionsGoOn
  <2>6. ListedTwice'
    <3> SUFFICES ASSUME NEW p \in Remaining
                 PROVE  \E r \in Listed(manifest') : dir'[r][p] > 0
      BY <1>3, <2>3 DEF ListedTwice
    <3>1. PICK r \in (Listed(manifest) \cup {Out(j)}) \ PathsOf(job[j].cands) : dir[r][p] > 0
      BY <1>2, <2>1, OutputReplacesInputs
    <3>2. r \in Paths
      BY <1>0, <1>6, <2>1, ListedArePaths DEF Parts
    <3> QED
      BY <2>3, <2>4, <3>1, <3>2
  <2> QED
    BY <2>5, <2>6
<1>9. CASE ApplyCompactionSaveFails(j)
  <2>1. job[j].pc = "written" /\ j \in Running /\ j \in Writing /\ dir' = dir
    BY <1>9 DEF ApplyCompactionSaveFails, Running, Writing
  <2>2. PICK m \in AddedEntries(j) :
           \/ manifest' = m /\ manifestFile' = manifestFile /\ unsaved' = unsaved
           \/ manifest' = Replaced(j, m) /\ manifestFile' = m
    BY <1>9 DEF ApplyCompactionSaveFails
  <2>3. /\ Listed(m) = Listed(manifest) \cup {Out(j)}
        /\ Listed(Replaced(j, m)) =
             (Listed(manifest) \cup {Out(j)}) \ PathsOf(job[j].cands)
    BY <2>1, AddedListed
  <2>4. OutputsOwned' /\ ReadsCover'
    <3>1. Listed(manifest') \subseteq Listed(manifest) \cup {Out(j)}
      BY <2>2, <2>3
    <3>2. \A k \in Writing' : Out(k) \notin Listed(manifest') /\ dir'[Out(k)] = dir[Out(k)]
      <4> SUFFICES ASSUME NEW k \in Writing' PROVE Out(k) \notin Listed(manifest')
        BY <2>1
      <4>1. k \in Writing /\ k # j
        BY <1>4
      <4>2. Out(k) # Out(j) /\ Out(k) \notin Listed(manifest)
        BY <4>1, <2>1, <1>2 DEF OutputsOwned
      <4> QED
        BY <4>2, <3>1
    <3> QED
      BY <1>2, <1>5, <2>1, <3>2, CompactionsGoOn
  <2>5. ListedTwice'
    <3> SUFFICES ASSUME NEW p \in Remaining
                 PROVE  \E r \in Listed(manifest') :
                           dir[r][p] > 0 /\ (p \notin unsaved' => r \in Listed(manifestFile'))
      BY <1>3, <2>1 DEF ListedTwice
    <3>1. CASE manifest' = m /\ manifestFile' = manifestFile /\ unsaved' = unsaved
      BY <1>2, <2>3, <3>1 DEF ListedTwice
    <3>2. CASE manifest' = Replaced(j, m) /\ manifestFile' = m
      <4>1. PICK r \in (Listed(manifest) \cup {Out(j)}) \ PathsOf(job[j].cands) :
               dir[r][p] > 0
        BY <1>2, <2>1, OutputReplacesInputs
      <4> QED
        BY <2>3, <3>2, <4>1
    <3> QED
      BY <2>2, <3>1, <3>2
  <2> QED
    BY <2>4, <2>5
<1> QED
  BY <1>7, <1>8, <1>9 DEF Apply

(* A point that a sweep leaves is in a file that it leaves.                *)
LEMMA UnsweptStays ==
    ASSUME ShapeInv, ListedTwice, NEW cutoff \in Cutoffs,
           SweepHistory(cutoff, SweptPaths(cutoff)),
           written' = written, dropped' = dropped, NEW p \in Remaining'
    PROVE  \E q \in Listed(manifest) :
              /\ q \notin SweptPaths(cutoff) /\ dir[q][p] > 0
              /\ p \notin unsaved => q \in Listed(manifestFile)
<1>1. p \in Remaining /\ p \notin swept' /\ p \in Points
  BY PartTypes DEF SweepHistory, Parts, Points, Remaining
<1>2. PICK q \in Listed(manifest) :
         dir[q][p] > 0 /\ (p \notin unsaved => q \in Listed(manifestFile))
  BY <1>1 DEF ListedTwice
<1>3. q \notin SweptPaths(cutoff)
  BY <1>1, <1>2 DEF SweepHistory, In
<1> QED
  BY <1>2, <1>3

(* Sweeps lose only what they sweep.                                       *)
LEMMA KeepSweep ==
    ASSUME ShapeInv, KeepInv, HandleRetention \/ HandleRetentionSaveFails
    PROVE  KeepInv'
<1> SUFFICES ASSUME "reuse" \notin taints'
             PROVE  OutputsOwned' /\ ReadsCover' /\ ListedTwice'
  BY DEF KeepInv
<1>0. Parts
  BY PartTypes
<1>1. "reuse" \notin taints
  BY DEF HandleRetention, HandleRetentionSaveFails
<1>2. OutputsOwned /\ ReadsCover /\ ListedTwice
  BY <1>1 DEF KeepInv
<1>3. job' = job /\ written' = written /\ dropped' = dropped /\ Running' = Running /\ Writing' = Writing
      /\ Writing \subseteq Running
  BY DEF HandleRetention, HandleRetentionSaveFails, Running, Writing
<1>4. PICK cutoff \in Cutoffs :
         /\ manifest' = RemoveBatch(manifest, SweptPaths(cutoff))
         /\ SweepHistory(cutoff, SweptPaths(cutoff))
         /\ \/ dir' = Without(SweptPaths(cutoff)) /\ manifestFile' = manifest'
            \/ dir' = dir /\ manifestFile' = manifestFile /\ unsaved' = unsaved
  BY DEF HandleRetention, HandleRetentionSaveFails, SweptPaths
<1>5. Listed(manifest') = Listed(manifest) \ SweptPaths(cutoff)
  BY <1>0, <1>4, RemoveBatchListed DEF Parts
<1>6. \A q \in Paths : /\ q \notin SweptPaths(cutoff) => dir'[q] = dir[q]
                       /\ dir'[q] = dir[q] \/ dir'[q] = NoPoints
  BY <1>4, WithoutTypes
<1>7. OutputsOwned' /\ ReadsCover'
  <2>1. \A k \in Writing' : Out(k) \notin Listed(manifest') /\ dir'[Out(k)] = dir[Out(k)]
    <3> SUFFICES ASSUME NEW k \in Writing
                 PROVE  Out(k) \notin Listed(manifest') /\ dir'[Out(k)] = dir[Out(k)]
      BY <1>3
    <3>1. Out(k) \notin Listed(manifest) /\ Out(k) \in Paths
      BY <1>2, <1>3, OutIsPath DEF OutputsOwned
    <3> QED
      BY <3>1, <1>5, <1>6, SweptAreListed
  <2>2. \A k \in Running' : \A q \in PathsOf(job[k].cands), p \in Points :
           dir'[q][p] > 0 => dir[q][p] > 0
    <3> SUFFICES ASSUME NEW k \in Running, NEW q \in PathsOf(job[k].cands), NEW p \in Points,
                        dir'[q][p] > 0
                 PROVE  dir[q][p] > 0
      BY <1>3
    <3>1. q \in Paths
      BY <1>0 DEF Parts, Running
    <3>2. NoPoints[p] = 0
      BY DEF NoPoints
    <3> QED
      BY <3>1, <3>2, <1>6
  <2> QED
    BY <1>2, <1>3, <2>1, <2>2, CompactionsGoOn
<1>8. ListedTwice'
  <2> SUFFICES ASSUME NEW p \in Remaining'
               PROVE  \E r \in Listed(manifest') :
                         dir'[r][p] > 0 /\ (p \notin unsaved' => r \in Listed(manifestFile'))
    BY DEF ListedTwice
  <2>1. PICK q \in Listed(manifest) :
           /\ q \notin SweptPaths(cutoff) /\ dir[q][p] > 0
           /\ p \notin unsaved => q \in Listed(manifestFile)
    BY <1>2, <1>3, <1>4, UnsweptStays
  <2>2. q \in Paths
    BY <1>0, ListedArePaths DEF Parts
  <2> QED
    BY <1>4, <1>5, <1>6, <2>1, <2>2
<1> QED
  BY <1>7, <1>8

(* A restart ends all compactions.                                         *)
LEMMA KeepRestart ==
    ASSUME ShapeInv, NEW m \in Seq(Entries), RestartFrom(m),
           \A p \in Remaining' : \E q \in Listed(m) : dir[q][p] > 0
    PROVE  OutputsOwned' /\ ReadsCover' /\ ListedTwice'
<1>1. Running' = {} /\ Writing' = {}
  BY RestartTypes
<1>2. manifest' = m /\ manifestFile' = m /\ dir' = dir /\ written' = written
  BY DEF RestartFrom
<1> QED
  BY <1>1, <1>2 DEF OutputsOwned, ReadsCover, ListedTwice

(* The process may stop anywhere.                                          *)
LEMMA KeepCrash ==
    ASSUME ShapeInv, KeepInv, Crash \/ CrashInApply \/ CrashInRetention
    PROVE  KeepInv'
<1> SUFFICES ASSUME "reuse" \notin taints'
             PROVE  OutputsOwned' /\ ReadsCover' /\ ListedTwice'
  BY DEF KeepInv
<1>0. Parts
  BY PartTypes
<1>1. "reuse" \notin taints
  BY DEF Crash, CrashInApply, CrashInRetention
<1>2. OutputsOwned /\ ReadsCover /\ ListedTwice
  BY <1>1 DEF KeepInv
<1>3. CASE Crash
  <2>1. RestartFrom(manifestFile) /\ Remaining' = Remaining \ unsaved
    BY <1>3 DEF Crash, RestartFrom, Remaining
  <2>2. \A p \in Remaining' : \E q \in Listed(manifestFile) : dir[q][p] > 0
    BY <1>2, <2>1 DEF ListedTwice
  <2> QED
    BY <1>0, <2>1, <2>2, KeepRestart DEF Parts
<1>4. CASE CrashInApply
  <2> DEFINE j == Head(doneCh)
  <2>1. j \in Jobs /\ job[j].pc = "written" /\ j \in Running /\ Remaining' = Remaining
    BY <1>0, <1>4 DEF CrashInApply, RestartFrom, Running, Parts, Remaining
  <2>2. PICK m \in AddedEntries(j) : RestartFrom(m) \/ RestartFrom(Replaced(j, m))
    BY <1>4 DEF CrashInApply
  <2> HIDE DEF j
  <2>3. m \in Seq(Entries) /\ Replaced(j, m) \in Seq(Entries)
    BY <2>1, AddedTypes
  <2>4. /\ Listed(m) = Listed(manifest) \cup {Out(j)}
        /\ Listed(Replaced(j, m)) =
             (Listed(manifest) \cup {Out(j)}) \ PathsOf(job[j].cands)
    BY <2>1, AddedListed
  <2>5. \A p \in Remaining' : \E q \in Listed(Replaced(j, m)) : dir[q][p] > 0
    BY <1>2, <2>1, <2>4, OutputReplacesInputs
  <2>6. \A p \in Remaining' : \E q \in Listed(m) : dir[q][p] > 0
    BY <2>4, <2>5
  <2> QED
    BY <2>2, <2>3, <2>5, <2>6, KeepRestart
<1>5. CASE CrashInRetention
  <2>1. PICK cutoff \in Cutoffs :
           /\ RestartFrom(RemoveBatch(manifest, SweptPaths(cutoff)))
           /\ SweepHistory(cutoff, SweptPaths(cutoff))
    BY <1>5 DEF CrashInRetention, SweptPaths
  <2> DEFINE m == RemoveBatch(manifest, SweptPaths(cutoff))
  <2>2. m \in Seq(Entries) /\ Listed(m) = Listed(manifest) \ SweptPaths(cutoff)
    BY <1>0, RemoveBatchKeeps, RemoveBatchListed DEF Parts
  <2>3. RestartFrom(m) /\ written' = written /\ dropped' = dropped
    BY <1>5, <2>1 DEF RestartFrom, CrashInRetention
  <2> HIDE DEF m
  <2>4. \A p \in Remaining' : \E q \in Listed(m) : dir[q][p] > 0
    BY <1>2, <2>1, <2>2, <2>3, UnsweptStays
  <2> QED
    BY <2>2, <2>3, <2>4, KeepRestart
<1> QED
  BY <1>3, <1>4, <1>5

(* Every step keeps KeepInv.                                               *)
LEMMA KeepStep ==
    ASSUME ShapeInv, KeepInv, [MaintenanceNext]_vars
    PROVE  KeepInv'
<1>1. CASE UNCHANGED vars \/ \E j \in Jobs : CompactSend(j)
  <2>1. /\ manifest' = manifest /\ manifestFile' = manifestFile /\ dir' = dir /\ job' = job
        /\ Remaining' = Remaining /\ unsaved' = unsaved /\ taints' = taints
    BY <1>1 DEF vars, CompactSend, Remaining
  <2>2. Running' = Running /\ Writing' = Writing /\ \A j \in Jobs : Out(j)' = Out(j)
    BY <2>1 DEF Running, Writing, Out
  <2>3. OutputsOwned' = OutputsOwned /\ ReadsCover' = ReadsCover
    BY <2>1, <2>2 DEF OutputsOwned, ReadsCover, Out
  <2>4. ListedTwice' = ListedTwice
    BY <2>1 DEF ListedTwice
  <2> QED
    BY <2>1, <2>3, <2>4 DEF KeepInv
<1>2. CASE MaintenanceNext /\ ~\E j \in Jobs : CompactSend(j)
  BY <1>2, KeepFlush, KeepStart, KeepRead, KeepWrite, KeepApply, KeepSweep, KeepCrash
  DEF MaintenanceNext, CompactStep
<1> QED
  BY <1>1, <1>2

(* A flushed point that no sweep removed is in a readable file that the    *)
(* manifest in memory and the one on disk list: compactions, concurrent    *)
(* ones too, failing saves of compactions and sweeps, and restarts at      *)
(* every point of applyCompactionResult and handleRetention lose none,     *)
(* unless a compaction truncates a file that is in use. Where both saves   *)
(* of a flush fail, the point is listed in memory, and on disk from the    *)
(* next save on; only a restart in between takes it out of the manifest.   *)
THEOREM CompactionLosesNothing == MaintenanceSpec => []NothingLost
<1>1. MaintenanceInit => ShapeInv /\ KeepInv
  <2> SUFFICES ASSUME MaintenanceInit PROVE OutputsOwned /\ ReadsCover /\ ListedTwice
    BY ShapeInit DEF KeepInv
  <2>1. Running = {} /\ Writing = {} /\ Remaining = {}
    BY EmptyTypes DEF MaintenanceInit, Running, Writing, Remaining
  <2> QED
    BY <2>1 DEF OutputsOwned, ReadsCover, ListedTwice
<1>2. ShapeInv /\ KeepInv /\ [MaintenanceNext]_vars => ShapeInv' /\ KeepInv'
  BY ShapeStep, KeepStep
<1>3. ShapeInv /\ KeepInv => NothingLost
  BY DEF KeepInv, ListedTwice, NothingLost, Found, Listed
<1> QED
  BY <1>1, <1>2, <1>3, PTL DEF MaintenanceSpec, MaintenanceSafety

-----------------------------------------------------------------------------
(* SpanInv.  No step takes a taint back.                                   *)
LEMMA TaintsStay ==
    ASSUME [MaintenanceNext]_vars
    PROVE  taints \subseteq taints'
  BY DEF MaintenanceNext, vars, FlushSegment, FlushSegmentSavesFail, SegmentAdded,
         HandleCompaction, CompactStep, CompactRead,
         CompactCreate, CompactWrite, CompactSend, CompactFails, Apply, ApplyCompactionError,
         ApplyCompactionResult, ApplyCompactionSaveFails, HandleRetention,
         HandleRetentionSaveFails, Crash, CrashInApply, CrashInRetention

Listings == taints \cap {"reuse", "staleEntry"} = {}

(* Fewer entries, and files that are the same or gone, keep their spans.   *)
LEMMA SpansShrink ==
    ASSUME NEW m, NEW n, NEW d, NEW c, Spans(m, d), EntriesIn(n) \subseteq EntriesIn(m),
           \A q \in Listed(n) : c[q] = d[q] \/ c[q] = NoPoints
    PROVE  Spans(n, c)
<1> SUFFICES ASSUME NEW e \in EntriesIn(n), NEW p \in In(c[e.path])
             PROVE  TimeOf[p] <= e.hi
  BY DEF Spans
<1>1. e.path \in Listed(n)
  BY ListedOfEntries
<1>2. c[e.path] # NoPoints
  BY DEF In, NoPoints
<1> QED
  BY <1>1, <1>2 DEF Spans

(* One entry more, which spans its file.                                   *)
LEMMA SpansGrow ==
    ASSUME NEW m \in Seq(Entries), NEW d, Spans(m, d), NEW e \in Entries,
           \A p \in In(d[e.path]) : TimeOf[p] <= e.hi
    PROVE  Spans(Append(m, e), d)
  BY AppendListed DEF Spans

(* A flush and a new compaction.                                           *)
LEMMA SpanNew ==
    ASSUME ShapeInv, KeepInv, SpanInv, FlushSegment \/ FlushSegmentSavesFail \/ HandleCompaction
    PROVE  SpanInv'
<1> SUFFICES ASSUME Listings'
             PROVE  /\ Spans(manifest', dir') /\ Spans(manifestFile', dir')
                    /\ \A j \in Writing' : Out(j)' \notin Listed(manifestFile')
  BY DEF SpanInv, Listings
<1>0. Parts
  BY PartTypes
<1>1. Listings
  BY DEF Listings, FlushSegment, FlushSegmentSavesFail, HandleCompaction
<1>2. /\ Spans(manifest, dir) /\ Spans(manifestFile, dir) /\ OutputsOwned
      /\ \A j \in Writing : Out(j) \notin Listed(manifestFile)
  BY <1>1 DEF SpanInv, KeepInv, Listings
<1>3. CASE FlushSegment \/ FlushSegmentSavesFail
  <2> DEFINE q == SegPath(flushCount)
             f == [NoPoints EXCEPT ![written + 1] = 1]
  <2>0. SegmentAdded
    BY <1>3 DEF FlushSegment, FlushSegmentSavesFail
  <2>1. flushCount \in 0 .. MaxPoints - 1 /\ written + 1 \in Points
    BY <1>0, <2>0 DEF SegmentAdded, Parts, Points
  <2>2. q \in Paths /\ q[1] = "seg" /\ f \in [Points -> Nat]
    BY <2>1, EmptyTypes DEF SegPath, Paths
  <2>3. ~InUse(q) /\ q \notin Listed(manifestFile) \ Listed(manifest)
    BY <1>3 DEF Listings, FlushSegment, FlushSegmentSavesFail, Reuse
  <2>4. PICK e \in EntriesFor(q, f) : manifest' = Append(manifest, e)
    BY <2>0 DEF SegmentAdded
  <2>5. e \in Entries /\ e.path = q /\ \A p \in In(f) : TimeOf[p] <= e.hi
    BY <2>2, EntryTypes
  <2>6. /\ dir' = [dir EXCEPT ![q] = f] /\ dir \in [Paths -> [Points -> Nat]]
        /\ manifest \in Seq(Entries) /\ manifestFile \in Seq(Entries)
    BY <1>0, <2>0 DEF SegmentAdded, Parts
  <2>12. manifestFile' = manifest' \/ manifestFile' = manifestFile
    BY <1>3 DEF FlushSegment, FlushSegmentSavesFail
  <2> HIDE DEF q, f
  <2>7. dir'[q] = f /\ \A r \in Paths \ {q} : dir'[r] = dir[r]
    BY <2>2, <2>6
  <2>8. /\ q \notin Listed(manifest) /\ Listed(manifest) \subseteq Paths
        /\ q \notin Listed(manifestFile) /\ Listed(manifestFile) \subseteq Paths
    BY <2>3, <2>6, ListedArePaths DEF InUse
  <2>9. Spans(manifest, dir') /\ Spans(manifestFile, dir')
    BY <1>2, <2>7, <2>8, SpansShrink
  <2>10. Spans(manifest', dir')
    BY <2>4, <2>5, <2>6, <2>7, <2>9, SpansGrow
  <2>11. ASSUME NEW j \in Writing' PROVE Out(j)' \notin Listed(manifestFile')
    <3>1. j \in Writing /\ j \in Running /\ Out(j)' = Out(j)
      BY <2>0 DEF SegmentAdded, Writing, Running, Out
    <3>2. Out(j) \notin Listed(manifest) /\ Out(j) \notin Listed(manifestFile) /\ Out(j) # q
      BY <3>1, <1>2, <2>2, OutIsPath DEF OutputsOwned
    <3>3. Listed(manifest') = Listed(manifest) \cup {q}
      BY <2>4, <2>5, <2>6, AppendListed
    <3> QED
      BY <3>1, <3>2, <3>3, <2>12
  <2> QED
    BY <2>9, <2>10, <2>11, <2>12
<1>4. CASE HandleCompaction
  <2>1. manifest' = manifest /\ manifestFile' = manifestFile /\ dir' = dir
    BY <1>4 DEF HandleCompaction
  <2>2. PICK r : r.pc = "read" /\ job' = [job EXCEPT ![started + 1] = r]
    BY <1>4 DEF HandleCompaction
  <2>3. started + 1 \in Jobs /\ job \in [Jobs -> JobRecords]
    BY <1>0, <1>4 DEF HandleCompaction, Parts, Jobs
  <2>4. \A k \in Jobs \ {started + 1} : job'[k] = job[k]
    BY <2>2, <2>3
  <2>5. job'[started + 1] = r
    BY <2>2, <2>3
  <2>6. ASSUME NEW j \in Writing' PROVE j \in Writing /\ Out(j)' = Out(j)
    BY <2>2, <2>4, <2>5 DEF Writing, Out
  <2> QED
    BY <1>2, <2>1, <2>6
<1> QED
  BY <1>3, <1>4

(* The steps of a compaction.                                              *)
LEMMA SpanCompact ==
    ASSUME ShapeInv, KeepInv, SpanInv, NEW j \in Jobs, CompactStep(j) \/ CompactFails(j)
    PROVE  SpanInv'
<1> SUFFICES ASSUME Listings'
             PROVE  /\ Spans(manifest', dir') /\ Spans(manifestFile', dir')
                    /\ \A k \in Writing' : Out(k)' \notin Listed(manifestFile')
  BY DEF SpanInv, Listings
<1>0. Parts
  BY PartTypes
<1>1. Listings
  BY DEF Listings, CompactStep, CompactRead, CompactCreate, CompactWrite, CompactSend, CompactFails
<1>2. /\ Spans(manifest, dir) /\ Spans(manifestFile, dir) /\ OutputsOwned
      /\ \A k \in Writing : Out(k) \notin Listed(manifestFile)
  BY <1>1 DEF SpanInv, KeepInv, Listings
<1>3. manifest' = manifest /\ manifestFile' = manifestFile
  BY DEF CompactStep, CompactRead, CompactCreate, CompactWrite, CompactSend, CompactFails
<1>4. \A k \in Jobs : Out(k)' = Out(k) /\ (k # j => job'[k] = job[k])
  <2>1. job \in [Jobs -> JobRecords]
    BY <1>0 DEF Parts
  <2>2. CASE CompactRead(j)
    <3>1. job'[j].cands = job[j].cands /\ \A k \in Jobs \ {j} : job'[k] = job[k]
      BY <2>1, <2>2 DEF CompactRead, JobRecords
    <3> QED
      BY <3>1 DEF Out
  <2>3. CASE ~CompactRead(j)
    <3>1. job' = job \/ \E s : job' = [job EXCEPT ![j].pc = s]
      BY <2>3 DEF CompactStep, CompactCreate, CompactWrite, CompactSend, CompactFails
    <3>2. job'[j].cands = job[j].cands /\ \A k \in Jobs \ {j} : job'[k] = job[k]
      BY <2>1, <3>1 DEF JobRecords
    <3> QED
      BY <3>2 DEF Out
  <2> QED
    BY <2>2, <2>3
<1>5. Listed(manifest) \subseteq Paths /\ Listed(manifestFile) \subseteq Paths
  BY <1>0, ListedArePaths DEF Parts
<1>6. CASE CompactRead(j) \/ CompactSend(j)
  <2>1. dir' = dir /\ Writing' \subseteq Writing
    <3>1. dir' = dir
      BY <1>6 DEF CompactRead, CompactSend
    <3>2. CASE CompactSend(j)
      BY <3>1, <3>2 DEF CompactSend, Writing
    <3>3. CASE CompactRead(j)
      <4>1. job'[j].pc \in {"read", "errored"}
        BY <1>0, <3>3 DEF CompactRead, Parts, JobRecords
      <4> QED
        BY <3>1, <4>1, <1>4 DEF Writing
    <3> QED
      BY <1>6, <3>2, <3>3
  <2> QED
    BY <1>2, <1>3, <1>4, <2>1 DEF Writing
<1>7. CASE CompactCreate(j)
  <2>1. j \in Running /\ Out(j) \in Paths
    BY <1>7, OutIsPath DEF CompactCreate, Running
  <2>2. Out(j) \notin Listed(manifest) \cup Listed(manifestFile)
    BY <1>7 DEF CompactCreate, Reuse, Listings, InUse
  <2>3. \A q \in Paths : dir'[q] = dir[q] \/ dir'[q] = NoPoints
    BY <1>0, <1>7, <2>1 DEF CompactCreate, Parts
  <2>4. Spans(manifest', dir') /\ Spans(manifestFile', dir')
    BY <1>2, <1>3, <1>5, <2>3, SpansShrink
  <2>5. ASSUME NEW k \in Writing' PROVE Out(k)' \notin Listed(manifestFile')
    <3>1. k \in Jobs /\ (k # j => k \in Writing)
      BY <1>4 DEF Writing
    <3> QED
      BY <3>1, <1>2, <1>3, <1>4, <2>2
  <2> QED
    BY <2>4, <2>5
<1>8. CASE CompactWrite(j)
  <2>1. j \in Running /\ j \in Writing /\ Out(j) \in Paths
    BY <1>8, OutIsPath DEF CompactWrite, Running, Writing
  <2>2. Out(j) \notin Listed(manifest) \cup Listed(manifestFile)
    BY <1>2, <2>1 DEF OutputsOwned
  <2>3. \A q \in Paths \ {Out(j)} : dir'[q] = dir[q]
    <3>1. PICK f : dir' = [dir EXCEPT ![Out(j)] = f]
      BY <1>8, Zenon DEF CompactWrite
    <3> QED
      BY <1>0, <2>1, <3>1 DEF Parts
  <2>4. Spans(manifest', dir') /\ Spans(manifestFile', dir')
    BY <1>2, <1>3, <1>5, <2>2, <2>3, SpansShrink
  <2>5. ASSUME NEW k \in Writing' PROVE Out(k)' \notin Listed(manifestFile')
    <3>1. k \in Jobs /\ (k # j => k \in Writing)
      BY <1>4 DEF Writing
    <3> QED
      BY <3>1, <1>2, <1>3, <1>4, <2>2
  <2> QED
    BY <2>4, <2>5
<1>9. CASE CompactFails(j)
  <2>1. j \in Running /\ Out(j) \in Paths
    BY <1>9, OutIsPath DEF CompactFails, Running
  <2>2. \A q \in Paths : dir'[q] = dir[q] \/ dir'[q] = NoPoints
    BY <1>0, <1>9, <2>1 DEF CompactFails, Parts
  <2>3. Spans(manifest', dir') /\ Spans(manifestFile', dir')
    BY <1>2, <1>3, <1>5, <2>2, SpansShrink
  <2>4. ASSUME NEW k \in Writing' PROVE Out(k)' \notin Listed(manifestFile')
    <3>1. job'[j].pc = "errored"
      BY <1>0, <1>9 DEF CompactFails, Parts, JobRecords
    <3>2. k \in Jobs /\ k \in Writing
      BY <1>4, <3>1 DEF Writing
    <3> QED
      BY <3>2, <1>2, <1>3, <1>4
  <2> QED
    BY <2>3, <2>4
<1> QED
  BY <1>6, <1>7, <1>8, <1>9 DEF CompactStep

(* The manifests with the output of a compaction span their files.         *)
LEMMA AddedSpans ==
    ASSUME ShapeInv, OutputsOwned, Spans(manifest, dir),
           NEW j \in Jobs, job[j].pc = "written", NEW m \in AddedEntries(j)
    PROVE  /\ Spans(m, dir) /\ Spans(Replaced(j, m), dir)
           /\ EntriesIn(Replaced(j, m)) \subseteq EntriesIn(m)
<1>1. j \in Running /\ j \in Writing
  BY DEF Running, Writing
<1>2. PICK e \in Entries : /\ m = Append(manifest, e) /\ e.path = Out(j)
                           /\ \A p \in In(job[j].data) : TimeOf[p] <= e.hi
  BY <1>1, AddedTypes
<1>3. dir[Out(j)] = job[j].data
  BY <1>1 DEF OutputsOwned
<1>4. Spans(m, dir)
  <2>1. manifest \in Seq(Entries)
    BY PartTypes DEF Parts
  <2> QED
    BY <1>2, <1>3, <2>1, SpansGrow
<1>5. EntriesIn(Replaced(j, m)) \subseteq EntriesIn(m)
  <2>1. m \in Seq(Entries)
    BY <1>1, AddedTypes
  <2> QED
    BY <2>1, RemoveBatchKeeps DEF Replaced
<1> QED
  BY <1>4, <1>5, SpansShrink

(* The results of compactions.                                             *)
LEMMA SpanApply ==
    ASSUME ShapeInv, KeepInv, SpanInv, NEW j \in Jobs,
           Apply(j) \/ ApplyCompactionSaveFails(j)
    PROVE  SpanInv'
<1> SUFFICES ASSUME Listings'
             PROVE  /\ Spans(manifest', dir') /\ Spans(manifestFile', dir')
                    /\ \A k \in Writing' : Out(k)' \notin Listed(manifestFile')
  BY DEF SpanInv, Listings
<1>0. Parts
  BY PartTypes
<1>1. Listings
  BY DEF Listings, Apply, ApplyCompactionError, ApplyCompactionResult, ApplyCompactionSaveFails
<1>2. /\ Spans(manifest, dir) /\ Spans(manifestFile, dir) /\ OutputsOwned
      /\ \A k \in Writing : Out(k) \notin Listed(manifestFile)
  BY <1>1 DEF SpanInv, KeepInv, Listings
<1>3. TakesResult(j)
  BY DEF Apply, ApplyCompactionError, ApplyCompactionResult, ApplyCompactionSaveFails
<1>4. /\ \A k \in Jobs \ {j} : job'[k] = job[k]
      /\ Writing' = Writing \ {j} /\ Writing \subseteq Jobs
  BY <1>3, ResultTaken DEF Writing
<1>5. \A k \in Writing' : k \in Writing /\ k # j /\ Out(k)' = Out(k)
  BY <1>4 DEF Out
<1>6. CASE ApplyCompactionError(j)
  <2>1. manifest' = manifest /\ manifestFile' = manifestFile /\ dir' = dir
    BY <1>6 DEF ApplyCompactionError
  <2> QED
    BY <1>2, <1>5, <2>1
<1>7. CASE ApplyCompactionResult(j) \/ ApplyCompactionSaveFails(j)
  <2>1. job[j].pc = "written" /\ j \in Running /\ j \in Writing
    BY <1>7 DEF ApplyCompactionResult, ApplyCompactionSaveFails, Running, Writing
  <2>2. PICK m \in AddedEntries(j) :
           /\ \/ manifest' = m /\ manifestFile' = manifestFile
              \/ manifest' = Replaced(j, m) /\ manifestFile' = m
              \/ manifest' = Replaced(j, m) /\ manifestFile' = Replaced(j, m)
           /\ dir' = dir \/ dir' = Without(PathsOf(job[j].cands))
    BY <1>7 DEF ApplyCompactionResult, ApplyCompactionSaveFails
  <2>3. /\ Spans(m, dir) /\ Spans(Replaced(j, m), dir)
        /\ EntriesIn(Replaced(j, m)) \subseteq EntriesIn(m)
    BY <1>2, <2>1, AddedSpans
  <2>4. /\ Listed(m) = Listed(manifest) \cup {Out(j)}
        /\ Listed(Replaced(j, m)) \subseteq Listed(m)
    BY <2>1, AddedListed
  <2>5. \A q \in Paths : dir'[q] = dir[q] \/ dir'[q] = NoPoints
    BY <2>2, WithoutTypes
  <2>6. Listed(m) \subseteq Paths /\ Listed(manifestFile) \subseteq Paths
    <3>1. m \in Seq(Entries) /\ manifestFile \in Seq(Entries)
      BY <1>0, <2>1, AddedTypes DEF Parts
    <3> QED
      BY <3>1, ListedArePaths
  <2>7. Spans(m, dir') /\ Spans(Replaced(j, m), dir') /\ Spans(manifestFile, dir')
    BY <1>2, <2>3, <2>4, <2>5, <2>6, SpansShrink
  <2>8. ASSUME NEW k \in Writing' PROVE Out(k)' \notin Listed(manifestFile')
    <3>1. Out(k) \notin Listed(manifest) /\ Out(k) # Out(j)
          /\ Out(k) \notin Listed(manifestFile) /\ Out(k)' = Out(k)
      BY <1>2, <1>5, <2>1 DEF OutputsOwned
    <3> QED
      BY <3>1, <2>2, <2>4
  <2> QED
    BY <2>2, <2>7, <2>8
<1> QED
  BY <1>6, <1>7 DEF Apply

(* A sweep leaves entries of the manifest, and files as they were or none. *)
LEMMA SpanSweep ==
    ASSUME ShapeInv, KeepInv, SpanInv, HandleRetention \/ HandleRetentionSaveFails
    PROVE  SpanInv'
<1> SUFFICES ASSUME Listings'
             PROVE  /\ Spans(manifest', dir') /\ Spans(manifestFile', dir')
                    /\ \A k \in Writing' : Out(k)' \notin Listed(manifestFile')
  BY DEF SpanInv, Listings
<1>0. Parts
  BY PartTypes
<1>1. Listings
  BY DEF Listings, HandleRetention, HandleRetentionSaveFails
<1>2. /\ Spans(manifest, dir) /\ Spans(manifestFile, dir) /\ OutputsOwned
      /\ \A k \in Writing : Out(k) \notin Listed(manifestFile)
  BY <1>1 DEF SpanInv, KeepInv, Listings
<1>3. PICK paths :
         /\ manifest' = RemoveBatch(manifest, paths)
         /\ dir' = Without(paths) \/ dir' = dir
         /\ manifestFile' = manifest' \/ manifestFile' = manifestFile
  BY DEF HandleRetention, HandleRetentionSaveFails
<1>4. /\ EntriesIn(manifest') \subseteq EntriesIn(manifest)
      /\ Listed(manifest') \subseteq Listed(manifest)
  BY <1>0, <1>3, RemoveBatchKeeps, RemoveBatchListed DEF Parts
<1>5. \A q \in Paths : dir'[q] = dir[q] \/ dir'[q] = NoPoints
  BY <1>3, WithoutTypes
<1>6. Listed(manifest) \subseteq Paths /\ Listed(manifestFile) \subseteq Paths
  BY <1>0, ListedArePaths DEF Parts
<1>7. Spans(manifest', dir') /\ Spans(manifestFile, dir')
  BY <1>2, <1>4, <1>5, <1>6, SpansShrink
<1>8. ASSUME NEW k \in Writing' PROVE Out(k)' \notin Listed(manifestFile')
  <2>1. k \in Writing /\ Out(k)' = Out(k)
    BY DEF HandleRetention, HandleRetentionSaveFails, Writing, Out
  <2> QED
    BY <1>2, <1>3, <1>4, <2>1 DEF OutputsOwned
<1> QED
  BY <1>3, <1>7, <1>8

(* A restart reads a manifest that spans its files.                        *)
LEMMA SpanCrash ==
    ASSUME ShapeInv, KeepInv, SpanInv, Crash \/ CrashInApply \/ CrashInRetention
    PROVE  SpanInv'
<1> SUFFICES ASSUME Listings'
             PROVE  /\ Spans(manifest', dir') /\ Spans(manifestFile', dir')
                    /\ \A k \in Writing' : Out(k)' \notin Listed(manifestFile')
  BY DEF SpanInv, Listings
<1>0. Parts
  BY PartTypes
<1>1. Listings
  BY DEF Listings, Crash, CrashInApply, CrashInRetention
<1>2. Spans(manifest, dir) /\ Spans(manifestFile, dir) /\ OutputsOwned
  BY <1>1 DEF SpanInv, KeepInv, Listings
<1>3. ASSUME NEW m \in Seq(Entries), Spans(m, dir), RestartFrom(m)
      PROVE  /\ Spans(manifest', dir') /\ Spans(manifestFile', dir')
             /\ \A k \in Writing' : Out(k)' \notin Listed(manifestFile')
  <2>1. Writing' = {}
    BY <1>3, RestartTypes
  <2> QED
    BY <1>3, <2>1 DEF RestartFrom
<1>4. CASE Crash
  BY <1>0, <1>2, <1>3, <1>4 DEF Crash, Parts
<1>5. CASE CrashInApply
  <2> DEFINE j == Head(doneCh)
  <2>1. j \in Jobs /\ job[j].pc = "written" /\ j \in Running
    BY <1>0, <1>5 DEF CrashInApply, Running, Parts
  <2>2. PICK m \in AddedEntries(j) : RestartFrom(m) \/ RestartFrom(Replaced(j, m))
    BY <1>5 DEF CrashInApply
  <2> HIDE DEF j
  <2>3. m \in Seq(Entries) /\ Replaced(j, m) \in Seq(Entries)
    BY <2>1, AddedTypes
  <2>4. Spans(m, dir) /\ Spans(Replaced(j, m), dir)
    BY <1>2, <2>1, AddedSpans
  <2> QED
    BY <1>3, <2>2, <2>3, <2>4
<1>6. CASE CrashInRetention
  <2>1. PICK paths : RestartFrom(RemoveBatch(manifest, paths))
    BY <1>6 DEF CrashInRetention
  <2>2. /\ RemoveBatch(manifest, paths) \in Seq(Entries)
        /\ EntriesIn(RemoveBatch(manifest, paths)) \subseteq EntriesIn(manifest)
    BY <1>0, RemoveBatchKeeps DEF Parts
  <2>3. Spans(RemoveBatch(manifest, paths), dir)
    BY <1>2, <2>2, SpansShrink
  <2> QED
    BY <1>3, <2>1, <2>2, <2>3
<1> QED
  BY <1>4, <1>5, <1>6

(* Every step keeps SpanInv.                                               *)
LEMMA SpanStep ==
    ASSUME ShapeInv, KeepInv, SpanInv, [MaintenanceNext]_vars
    PROVE  SpanInv'
<1>1. CASE UNCHANGED vars
  BY <1>1 DEF vars, SpanInv, Spans, Writing, Out, EntriesIn
<1>2. CASE MaintenanceNext
  BY <1>2, SpanNew, SpanCompact, SpanApply, SpanSweep, SpanCrash DEF MaintenanceNext
<1> QED
  BY <1>1, <1>2

(* What a sweep removes is older than its cutoff.                          *)
LEMMA ExpiredStep ==
    ASSUME ShapeInv, SpanInv, SweepsOnlyExpired, [MaintenanceNext]_vars
    PROVE  SweepsOnlyExpired'
<1> SUFFICES ASSUME Listings', NEW p \in swept'
             PROVE  \E c \in cutoffs' : TimeOf[p] < c
  BY DEF SweepsOnlyExpired, Listings
<1>0. Parts
  BY PartTypes
<1>1. Listings
  BY TaintsStay DEF Listings
<1>2. Spans(manifest, dir) /\ \A r \in swept : \E c \in cutoffs : TimeOf[r] < c
  BY <1>1 DEF Listings, SpanInv, SweepsOnlyExpired
<1>3. CASE swept' = swept /\ cutoffs' = cutoffs
  BY <1>2, <1>3
<1>4. CASE \E cutoff \in Cutoffs : SweepHistory(cutoff, SweptPaths(cutoff))
  <2>1. PICK cutoff \in Cutoffs : SweepHistory(cutoff, SweptPaths(cutoff))
    BY <1>4
  <2>2. cutoffs' = cutoffs \cup {cutoff}
        /\ swept' = swept \cup UNION {In(dir[q]) : q \in SweptPaths(cutoff)}
    BY <2>1 DEF SweepHistory
  <2>3. CASE p \in swept
    BY <1>2, <2>2, <2>3
  <2>4. CASE p \notin swept
    <3>1. PICK q \in SweptPaths(cutoff) : p \in In(dir[q])
      BY <2>2, <2>4
    <3>2. PICK e \in EntriesIn(manifest) : e.path = q /\ e.hi < cutoff /\ e.hi \in Int
      BY SweptAreListed
    <3>3. TimeOf[p] <= e.hi
      BY <1>2, <3>1, <3>2 DEF Spans
    <3>4. TimeOf[p] \in Int /\ cutoff \in Int
      BY <3>1, MaintenanceConstants DEF In
    <3>5. TimeOf[p] < cutoff
      BY <3>2, <3>3, <3>4
    <3> QED
      BY <2>2, <3>5
  <2> QED
    BY <2>3, <2>4
<1>5. \/ swept' = swept /\ cutoffs' = cutoffs
      \/ \E cutoff \in Cutoffs : SweepHistory(cutoff, SweptPaths(cutoff))
  BY DEF MaintenanceNext, vars, FlushSegment, FlushSegmentSavesFail, SegmentAdded,
         HandleCompaction, CompactStep, CompactRead,
         CompactCreate, CompactWrite, CompactSend, CompactFails, Apply, ApplyCompactionError,
         ApplyCompactionResult, ApplyCompactionSaveFails, HandleRetention,
         HandleRetentionSaveFails, Crash, CrashInApply, CrashInRetention, SweptPaths
<1> QED
  BY <1>3, <1>4, <1>5

(* Retention deletes no point that a cutoff does not cover: the entry that *)
(* a sweep compares with the cutoff spans its file through compactions,    *)
(* failing saves and restarts, unless a listed file was truncated.         *)
THEOREM RetentionDeletesOnlyExpired == MaintenanceSpec => []SweepsOnlyExpired
<1> DEFINE I == ShapeInv /\ KeepInv /\ SpanInv /\ SweepsOnlyExpired
<1>1. MaintenanceInit => I
  <2> SUFFICES ASSUME MaintenanceInit PROVE KeepInv /\ SpanInv /\ SweepsOnlyExpired
    BY ShapeInit
  <2>1. Running = {} /\ Writing = {} /\ written = 0 /\ manifest = <<>> /\ manifestFile = <<>>
        /\ swept = {}
    BY EmptyTypes DEF MaintenanceInit, Running, Writing
  <2>2. KeepInv
    BY <2>1 DEF KeepInv, OutputsOwned, ReadsCover, ListedTwice, Remaining
  <2>3. SpanInv
    BY <2>1 DEF SpanInv, Spans, EntriesIn
  <2> QED
    BY <2>1, <2>2, <2>3 DEF SweepsOnlyExpired
<1>2. I /\ [MaintenanceNext]_vars => I'
  BY ShapeStep, KeepStep, SpanStep, ExpiredStep
<1>3. I => SweepsOnlyExpired
  OBVIOUS
<1> QED
  BY <1>1, <1>2, <1>3, PTL DEF MaintenanceSpec, MaintenanceSafety

-----------------------------------------------------------------------------
(* OnceInv.  A step that leaves the listed files alone, and of the         *)
(* compactions at most ends some, disturbs nothing.                        *)
LEMMA ListedAlone ==
    ASSUME ShapeInv, Undisturbed,
           manifest' = manifest, manifestFile' = manifestFile,
           written' = written, swept' = swept,
           \A q \in Listed(manifest) : dir'[q] = dir[q],
           \A k \in Running' : /\ k \in Running /\ job'[k].cands = job[k].cands
                               /\ job'[k].next = job[k].next /\ job'[k].data = job[k].data
    PROVE  Undisturbed'
<1>1. OneCompaction'
  BY DEF Undisturbed, OneCompaction
<1>2. NoSharedPoint'
  BY DEF Undisturbed, NoSharedPoint
<1>3. ReadsExact'
  <2> SUFFICES ASSUME NEW k \in Running', NEW p \in Points
               PROVE  /\ job[k].data[p] \in {0, 1}
                      /\ job[k].data[p] = 1 <=>
                            \E i \in 1 .. job[k].next - 1 : dir'[job[k].cands[i].path][p] = 1
    BY DEF ReadsExact
  <2>1. \A i \in 1 .. job[k].next - 1 : job[k].cands[i].path \in Listed(manifest)
    BY InputPaths DEF Undisturbed, OneCompaction
  <2> QED
    BY <2>1 DEF Undisturbed, ReadsExact
<1> QED
  BY <1>1, <1>2, <1>3 DEF Undisturbed, PathsDiffer

(* A flush adds a new file with a new point.                               *)
LEMMA OnceFlush ==
    ASSUME ShapeInv, Undisturbed, FlushSegment, "reuse" \notin taints'
    PROVE  Undisturbed'
<1>0. Parts
  BY PartTypes
<1> DEFINE q == SegPath(flushCount)
           n == written + 1
           f == [NoPoints EXCEPT ![n] = 1]
<1>1. flushCount \in 0 .. MaxPoints - 1 /\ n \in Points
  BY <1>0 DEF FlushSegment, SegmentAdded, Parts, Points
<1>2. q \in Paths /\ f \in [Points -> Nat]
  BY <1>1, EmptyTypes DEF SegPath, Paths
<1>3. \A p \in Points : f[p] = IF p = n THEN 1 ELSE 0
  BY <1>1 DEF NoPoints
<1>4. ~InUse(q)
  BY DEF FlushSegment, SegmentAdded, Reuse
<1>5. PICK e \in EntriesFor(q, f) : manifest' = Append(manifest, e)
  BY DEF FlushSegment, SegmentAdded
<1>6. e \in Entries /\ e.path = q
  BY <1>2, EntryTypes
<1>7. /\ dir' = [dir EXCEPT ![q] = f] /\ manifestFile' = manifest' /\ written' = n
      /\ swept' = swept /\ job' = job
      /\ dir \in [Paths -> [Points -> Nat]] /\ manifest \in Seq(Entries)
  BY <1>0 DEF FlushSegment, SegmentAdded, Parts
<1>8. written \in Nat /\ n = written + 1
  BY <1>0 DEF Parts
<1> HIDE DEF q, f, n
<1>9. dir'[q] = f /\ \A r \in Paths \ {q} : dir'[r] = dir[r]
  BY <1>2, <1>7
<1>10. /\ q \notin Listed(manifest) /\ Listed(manifest) \subseteq Paths
       /\ \A j \in Running : q \notin PathsOf(job[j].cands)
  BY <1>4, <1>7, ListedArePaths DEF InUse
<1>11. Listed(manifest') = Listed(manifest) \cup {q} /\ PathsDiffer(manifest')
  BY <1>5, <1>6, <1>7, <1>10, AppendListed DEF Undisturbed
<1>12. \A r \in Listed(manifest) : r # q /\ dir'[r] = dir[r]
  BY <1>9, <1>10
<1>13. Running' = Running
  BY <1>7 DEF Running
<1>14. OneCompaction'
  BY <1>7, <1>11, <1>13 DEF Undisturbed, OneCompaction
<1>15. NoSharedPoint'
  <2> SUFFICES ASSUME NEW p \in Points, NEW r \in Listed(manifest')
               PROVE  /\ dir'[r][p] \in {0, 1}
                      /\ dir'[r][p] = 1 => p <= n /\ p \notin swept
                      /\ dir'[r][p] = 1 => \A o \in Listed(manifest') : dir'[o][p] = 1 => o = r
    BY <1>7 DEF NoSharedPoint
  <2>1. /\ n \notin swept
        /\ \A o \in Listed(manifest) : dir'[o][p] = 1 => p <= written /\ p # n
        /\ p \in Nat
    BY <1>8, <1>12 DEF Undisturbed, NoSharedPoint, Points
  <2>2. dir'[q][p] = IF p = n THEN 1 ELSE 0
    BY <1>3, <1>9
  <2>3. CASE r = q
    BY <1>8, <1>11, <2>1, <2>2, <2>3
  <2>4. CASE r \in Listed(manifest)
    <3>1. /\ dir'[r][p] \in {0, 1}
          /\ dir'[r][p] = 1 => p <= written /\ p \notin swept
          /\ dir'[r][p] = 1 => \A o \in Listed(manifest) : dir'[o][p] = 1 => o = r
      BY <1>12, <2>4 DEF Undisturbed, NoSharedPoint
    <3> QED
      BY <1>8, <1>11, <2>1, <2>2, <3>1, <2>4
  <2> QED
    BY <1>11, <2>3, <2>4
<1>16. ReadsExact'
  <2> SUFFICES ASSUME NEW k \in Running, NEW p \in Points
               PROVE  /\ job[k].data[p] \in {0, 1}
                      /\ job[k].data[p] = 1 <=>
                            \E i \in 1 .. job[k].next - 1 : dir'[job[k].cands[i].path][p] = 1
    BY <1>7, <1>13 DEF ReadsExact
  <2>1. \A i \in 1 .. job[k].next - 1 : job[k].cands[i].path \in Listed(manifest)
    BY InputPaths DEF Undisturbed, OneCompaction
  <2> QED
    BY <1>12, <2>1 DEF Undisturbed, ReadsExact
<1>17. swept' \subseteq 1 .. written'
  BY <1>7, <1>8 DEF Undisturbed
<1> QED
  BY <1>7, <1>11, <1>14, <1>15, <1>16, <1>17 DEF Undisturbed

(* A compaction that starts alone has read nothing.                        *)
LEMMA OnceStart ==
    ASSUME ShapeInv, Undisturbed, HandleCompaction, "concurrent" \notin taints'
    PROVE  Undisturbed'
<1>0. Parts
  BY PartTypes
<1>1. /\ manifest' = manifest /\ manifestFile' = manifestFile /\ dir' = dir
      /\ written' = written /\ swept' = swept
  BY DEF HandleCompaction
<1>2. Running = {}
  BY DEF HandleCompaction
<1>3. PICK c \in SelectCandidates(manifest, MaxCount) :
         job' = [job EXCEPT ![started + 1] =
                   [pc |-> "read", cands |-> c, next |-> 1, data |-> NoPoints]]
  BY DEF HandleCompaction
<1> DEFINE n == started + 1
           r == [pc |-> "read", cands |-> c, next |-> 1, data |-> NoPoints]
<1>4. PathsOf(c) \subseteq Listed(manifest) /\ PathsDiffer(c)
  BY <1>0, CandidateTypes DEF Parts, Undisturbed
<1>5. n \in Jobs
  BY <1>0 DEF HandleCompaction, Parts, Jobs
<1>6. job' = [job EXCEPT ![n] = r] /\ job \in [Jobs -> JobRecords]
  BY <1>0, <1>3 DEF Parts
<1>7. r.cands = c /\ r.next = 1 /\ r.data = NoPoints /\ r.pc = "read"
  OBVIOUS
<1> HIDE DEF n, r
<1>8. job'[n] = r /\ \A k \in Jobs \ {n} : job'[k] = job[k]
  BY <1>5, <1>6
<1>9. Running' = {n}
  BY <1>2, <1>5, <1>7, <1>8 DEF Running
<1>10. OneCompaction'
  BY <1>1, <1>4, <1>7, <1>8, <1>9 DEF OneCompaction
<1>11. ReadsExact'
  <2>1. \A p \in Points : NoPoints[p] = 0
    BY DEF NoPoints
  <2>2. 1 .. job'[n].next - 1 = {}
    BY <1>7, <1>8
  <2> QED
    BY <1>7, <1>8, <1>9, <2>1, <2>2 DEF ReadsExact
<1>12. NoSharedPoint'
  BY <1>1 DEF Undisturbed, NoSharedPoint
<1> QED
  BY <1>1, <1>10, <1>11, <1>12 DEF Undisturbed, PathsDiffer

(* Reading an input: its points are new to what was read.                  *)
LEMMA OnceRead ==
    ASSUME ShapeInv, Undisturbed, NEW j \in Jobs, CompactRead(j)
    PROVE  Undisturbed'
<1>0. Parts
  BY PartTypes
<1>1. /\ manifest' = manifest /\ manifestFile' = manifestFile /\ dir' = dir
      /\ written' = written /\ swept' = swept
  BY DEF CompactRead
<1>2. /\ job[j].pc = "read" /\ job[j].next <= Len(job[j].cands) /\ j \in Running
      /\ job \in [Jobs -> JobRecords] /\ job[j].next \in Nat
      /\ job[j].cands \in Seq(Entries)
  BY <1>0 DEF CompactRead, Running, Parts
<1>3. job[j].next \in 1 .. Len(job[j].cands) + 1
  BY <1>2 DEF ShapeInv, JobShape
<1> DEFINE x == job[j].next
           q == job[j].cands[x].path
           f == dir[q]
           d == [p \in Points |-> job[j].data[p] + f[p]]
<1>4. x \in 1 .. Len(job[j].cands) /\ x \in DOMAIN job[j].cands
  BY <1>2, <1>3
<1>5. q \in Listed(manifest)
  BY <1>2, <1>4 DEF PathsOf, Undisturbed, OneCompaction
<1>6. CASE f = NoPoints
  <2>1. job' = [job EXCEPT ![j].pc = "errored"]
    BY <1>6, Zenon DEF CompactRead
  <2>2. \A k \in Jobs : /\ job'[k].cands = job[k].cands /\ job'[k].next = job[k].next
                        /\ job'[k].data = job[k].data /\ (k # j => job'[k] = job[k])
    BY <1>2, <2>1 DEF JobRecords
  <2>3. \A k \in Running' : k \in Jobs /\ k \in Running
    BY <1>2, <2>2 DEF Running
  <2> HIDE DEF x, q, f, d
  <2> QED
    BY <1>1, <2>2, <2>3, ListedAlone
<1>7. CASE f # NoPoints
  <2>1. job' = [job EXCEPT ![j].data = d, ![j].next = x + 1]
    BY <1>7 DEF CompactRead
  <2>2. \A p \in Points : d[p] = job[j].data[p] + f[p]
    OBVIOUS
  <2> HIDE DEF d
  <2>3. /\ job'[j].cands = job[j].cands /\ job'[j].pc = job[j].pc
        /\ job'[j].next = x + 1 /\ job'[j].data = d
        /\ \A k \in Jobs \ {j} : job'[k] = job[k]
    BY <1>2, <2>1 DEF JobRecords
  <2>4. Running' = Running
    BY <1>2, <2>3 DEF Running
  <2>5. Running = {j}
    BY <1>2 DEF Undisturbed, OneCompaction
  <2>6. OneCompaction'
    BY <1>1, <2>3, <2>4, <2>5 DEF Undisturbed, OneCompaction
  <2>7. ASSUME NEW p \in Points
        PROVE  d[p] \in {0, 1} /\
               (d[p] = 1 <=> \E i \in 1 .. x : dir[job[j].cands[i].path][p] = 1)
    <3>1. f[p] \in {0, 1}
      BY <1>5 DEF Undisturbed, NoSharedPoint
    <3>2. /\ job[j].data[p] \in {0, 1}
          /\ job[j].data[p] = 1 <=>
                \E i \in 1 .. x - 1 : dir[job[j].cands[i].path][p] = 1
      BY <1>2 DEF Undisturbed, ReadsExact
    <3>3. ~(job[j].data[p] = 1 /\ f[p] = 1)
      <4> SUFFICES ASSUME job[j].data[p] = 1, f[p] = 1 PROVE FALSE
        OBVIOUS
      <4>1. PICK i \in 1 .. x - 1 : dir[job[j].cands[i].path][p] = 1
        BY <3>2
      <4>2. i \in DOMAIN job[j].cands /\ job[j].cands[i].path \in PathsOf(job[j].cands)
        BY <1>2, InputPaths
      <4>3. job[j].cands[i].path \in Listed(manifest)
        BY <1>2, <4>2 DEF Undisturbed, OneCompaction
      <4>4. job[j].cands[i].path = q
        BY <1>5, <4>1, <4>3 DEF Undisturbed, NoSharedPoint
      <4>5. i = x
        BY <1>2, <1>4, <4>2, <4>4 DEF Undisturbed, OneCompaction, PathsDiffer
      <4> QED
        BY <1>4, <4>1, <4>5
    <3>4. (\E i \in 1 .. x : dir[job[j].cands[i].path][p] = 1)
            <=> (f[p] = 1 \/ \E i \in 1 .. x - 1 : dir[job[j].cands[i].path][p] = 1)
      BY <1>4
    <3> HIDE DEF f, x, q
    <3> QED
      BY <2>2, <3>1, <3>2, <3>3, <3>4
  <2>8. ReadsExact'
    <3>1. x \in Nat
      BY <1>2
    <3> SUFFICES ASSUME NEW k \in Running', NEW p \in Points
                 PROVE  /\ job'[k].data[p] \in {0, 1}
                        /\ job'[k].data[p] = 1 <=>
                              \E i \in 1 .. job'[k].next - 1 :
                                 dir'[job'[k].cands[i].path][p] = 1
      BY DEF ReadsExact
    <3>2. k = j
      BY <2>4, <2>5
    <3> HIDE DEF x, f, q
    <3>3. job'[k].next - 1 = x
      BY <2>3, <3>1, <3>2
    <3> QED
      BY <1>1, <2>3, <2>7, <3>2, <3>3
  <2>9. NoSharedPoint'
    BY <1>1 DEF Undisturbed, NoSharedPoint
  <2> HIDE DEF x, f, q
  <2> QED
    BY <1>1, <2>6, <2>8, <2>9 DEF Undisturbed, PathsDiffer
<1> QED
  BY <1>6, <1>7

(* Nothing runs, and the listed files still share no point.                *)
LEMMA NothingRuns ==
    ASSUME Running' = {}, manifestFile' = manifest', PathsDiffer(manifest'),
           swept' \subseteq 1 .. written', NoSharedPoint'
    PROVE  Undisturbed'
<1>1. OneCompaction' /\ ReadsExact'
  BY DEF OneCompaction, ReadsExact
<1> QED
  BY <1>1 DEF Undisturbed, PathsDiffer

(* The output takes the place of the inputs.                               *)
LEMMA OnceReplaced ==
    ASSUME ShapeInv, OutputsOwned, Undisturbed,
           NEW j \in Jobs, job[j].pc = "written", NEW m \in AddedEntries(j),
           manifest' = Replaced(j, m), manifestFile' = manifest', Running' = {},
           written' = written, swept' = swept,
           \A q \in Paths \ PathsOf(job[j].cands) : dir'[q] = dir[q]
    PROVE  Undisturbed'
<1>1. j \in Running /\ j \in Writing /\ manifest \in Seq(Entries)
  BY PartTypes DEF Running, Writing, Parts
<1>2. /\ Out(j) \notin Listed(manifest) /\ Out(j) \notin PathsOf(job[j].cands)
      /\ dir[Out(j)] = job[j].data /\ Out(j) \in Paths
  BY <1>1, OutIsPath DEF OutputsOwned
<1>3. Listed(manifest') = (Listed(manifest) \cup {Out(j)}) \ PathsOf(job[j].cands)
  BY <1>1, AddedListed
<1>4. PathsDiffer(manifest')
  <2>1. PICK e \in Entries : m = Append(manifest, e) /\ e.path = Out(j)
    BY <1>1, AddedTypes
  <2>2. m \in Seq(Entries) /\ PathsDiffer(m)
    BY <1>1, <1>2, <2>1, AppendListed DEF Undisturbed
  <2> QED
    BY <2>2, RemoveBatchKeeps DEF Replaced
<1>5. \A q \in Listed(manifest') : dir'[q] = dir[q]
  BY <1>1, <1>2, <1>3, ListedArePaths
<1>6. ASSUME NEW p \in Points, job[j].data[p] = 1
      PROVE  /\ p <= written /\ p \notin swept
             /\ \A r \in Listed(manifest) \ PathsOf(job[j].cands) : dir[r][p] # 1
  <2>1. PICK i \in 1 .. job[j].next - 1 : dir[job[j].cands[i].path][p] = 1
    BY <1>1, <1>6 DEF Undisturbed, ReadsExact
  <2>2. job[j].cands[i].path \in PathsOf(job[j].cands)
    BY <1>1, InputPaths
  <2>3. job[j].cands[i].path \in Listed(manifest)
    BY <1>1, <2>2 DEF Undisturbed, OneCompaction
  <2> QED
    BY <2>1, <2>2, <2>3 DEF Undisturbed, NoSharedPoint
<1>7. NoSharedPoint'
  <2> SUFFICES ASSUME NEW p \in Points, NEW q \in Listed(manifest')
               PROVE  /\ dir[q][p] \in {0, 1}
                      /\ dir[q][p] = 1 => p <= written /\ p \notin swept
                      /\ dir[q][p] = 1 => \A r \in Listed(manifest') : dir[r][p] = 1 => r = q
    BY <1>5 DEF NoSharedPoint
  <2>1. CASE q = Out(j)
    <3>1. job[j].data[p] \in {0, 1}
      BY <1>1 DEF Undisturbed, ReadsExact
    <3> QED
      BY <2>1, <3>1, <1>2, <1>3, <1>6
  <2>2. CASE q \in Listed(manifest) \ PathsOf(job[j].cands)
    <3>1. /\ dir[q][p] \in {0, 1}
          /\ dir[q][p] = 1 => p <= written /\ p \notin swept
          /\ dir[q][p] = 1 => \A r \in Listed(manifest) : dir[r][p] = 1 => r = q
      BY <2>2 DEF Undisturbed, NoSharedPoint
    <3> QED
      BY <2>2, <3>1, <1>2, <1>3, <1>6
  <2> QED
    BY <1>3, <2>1, <2>2
<1>8. swept' \subseteq 1 .. written'
  BY DEF Undisturbed
<1> QED
  BY <1>4, <1>7, <1>8, NothingRuns

(* The entries and files that a sweep leaves share no point with what it   *)
(* swept.                                                                  *)
LEMMA OnceSwept ==
    ASSUME ShapeInv, Undisturbed, NEW cutoff \in Cutoffs,
           SweepHistory(cutoff, SweptPaths(cutoff)),
           manifest' = RemoveBatch(manifest, SweptPaths(cutoff)), written' = written,
           \A q \in Paths \ SweptPaths(cutoff) : dir'[q] = dir[q]
    PROVE  /\ PathsDiffer(manifest') /\ NoSharedPoint' /\ swept' \subseteq 1 .. written'
           /\ Listed(manifest') = Listed(manifest) \ SweptPaths(cutoff)
           /\ \A q \in Listed(manifest') : dir'[q] = dir[q]
<1>0. Parts
  BY PartTypes
<1>1. Listed(manifest') = Listed(manifest) \ SweptPaths(cutoff) /\ PathsDiffer(manifest')
  BY <1>0, RemoveBatchKeeps, RemoveBatchListed DEF Parts, Undisturbed
<1>2. \A q \in Listed(manifest') : dir'[q] = dir[q]
  BY <1>0, <1>1, ListedArePaths DEF Parts
<1>3. swept' = swept \cup UNION {In(dir[q]) : q \in SweptPaths(cutoff)}
  BY DEF SweepHistory
<1>4. ASSUME NEW q \in SweptPaths(cutoff), NEW p \in In(dir[q])
      PROVE  p \in Points /\ dir[q][p] = 1 /\ q \in Listed(manifest)
  <2>1. p \in Points /\ dir[q][p] > 0 /\ q \in Listed(manifest)
    BY SweptAreListed DEF In
  <2>2. dir[q][p] \in {0, 1}
    BY <2>1 DEF Undisturbed, NoSharedPoint
  <2> QED
    BY <2>1, <2>2
<1>5. swept' \subseteq 1 .. written'
  <2> SUFFICES ASSUME NEW p \in swept', p \notin swept PROVE p \in 1 .. written
    BY DEF Undisturbed
  <2>1. PICK q \in SweptPaths(cutoff) : p \in In(dir[q])
    BY <1>3
  <2>2. p \in Points /\ dir[q][p] = 1 /\ q \in Listed(manifest)
    BY <1>4, <2>1
  <2>3. p <= written
    BY <2>2 DEF Undisturbed, NoSharedPoint
  <2> QED
    BY <1>0, <2>2, <2>3 DEF Points, Parts
<1>6. NoSharedPoint'
  <2> SUFFICES ASSUME NEW p \in Points, NEW q \in Listed(manifest')
               PROVE  /\ dir[q][p] \in {0, 1}
                      /\ dir[q][p] = 1 => p <= written /\ p \notin swept'
                      /\ dir[q][p] = 1 => \A r \in Listed(manifest') : dir[r][p] = 1 => r = q
    BY <1>2 DEF NoSharedPoint
  <2>1. /\ dir[q][p] \in {0, 1}
        /\ dir[q][p] = 1 => p <= written /\ p \notin swept
        /\ dir[q][p] = 1 => \A r \in Listed(manifest) : dir[r][p] = 1 => r = q
    BY <1>1 DEF Undisturbed, NoSharedPoint
  <2>2. ASSUME dir[q][p] = 1, p \in swept' PROVE FALSE
    <3>1. PICK r \in SweptPaths(cutoff) : p \in In(dir[r])
      BY <1>3, <2>1, <2>2
    <3>2. dir[r][p] = 1 /\ r \in Listed(manifest)
      BY <1>4, <3>1
    <3>3. r = q
      BY <2>1, <2>2, <3>2
    <3> QED
      BY <1>1, <3>1, <3>3
  <2> QED
    BY <1>1, <2>1, <2>2
<1> QED
  BY <1>1, <1>2, <1>5, <1>6

(* Retention, and the crash inside it.                                     *)
LEMMA OnceSweep ==
    ASSUME ShapeInv, Undisturbed, HandleRetention \/ CrashInRetention,
           "sweptInput" \notin taints'
    PROVE  Undisturbed'
<1>0. Parts
  BY PartTypes
<1>1. CASE HandleRetention
  <2>1. PICK cutoff \in Cutoffs :
           /\ manifest' = RemoveBatch(manifest, SweptPaths(cutoff))
           /\ SweepHistory(cutoff, SweptPaths(cutoff))
           /\ dir' = Without(SweptPaths(cutoff))
           /\ taints' = taints \cup SweptInput(SweptPaths(cutoff))
    BY <1>1 DEF HandleRetention, SweptPaths
  <2>2. job' = job /\ Running' = Running /\ written' = written /\ manifestFile' = manifest'
    BY <1>1 DEF HandleRetention, Running
  <2>3. \A q \in Paths \ SweptPaths(cutoff) : dir'[q] = dir[q]
    BY <2>1, WithoutTypes
  <2>4. /\ PathsDiffer(manifest') /\ NoSharedPoint' /\ swept' \subseteq 1 .. written'
        /\ Listed(manifest') = Listed(manifest) \ SweptPaths(cutoff)
        /\ \A q \in Listed(manifest') : dir'[q] = dir[q]
    BY <2>1, <2>2, <2>3, OnceSwept
  <2>5. \A k \in Running : SweptPaths(cutoff) \cap PathsOf(job[k].cands) = {}
    BY <2>1 DEF SweptInput
  <2>6. OneCompaction'
    BY <2>2, <2>4, <2>5 DEF Undisturbed, OneCompaction
  <2>7. ReadsExact'
    <3> SUFFICES ASSUME NEW k \in Running, NEW p \in Points
                 PROVE  /\ job[k].data[p] \in {0, 1}
                        /\ job[k].data[p] = 1 <=>
                              \E i \in 1 .. job[k].next - 1 : dir'[job[k].cands[i].path][p] = 1
      BY <2>2 DEF ReadsExact
    <3>1. \A i \in 1 .. job[k].next - 1 : job[k].cands[i].path \in Listed(manifest')
      BY <2>4, <2>5, InputPaths DEF Undisturbed, OneCompaction
    <3> QED
      BY <2>4, <3>1 DEF Undisturbed, ReadsExact
  <2> QED
    BY <2>2, <2>4, <2>6, <2>7 DEF Undisturbed, PathsDiffer
<1>2. CASE CrashInRetention
  <2>1. PICK cutoff \in Cutoffs :
           /\ RestartFrom(RemoveBatch(manifest, SweptPaths(cutoff)))
           /\ SweepHistory(cutoff, SweptPaths(cutoff))
    BY <1>2 DEF CrashInRetention, SweptPaths
  <2>2. RemoveBatch(manifest, SweptPaths(cutoff)) \in Seq(Entries)
    BY <1>0, RemoveBatchKeeps DEF Parts
  <2>3. Running' = {}
    BY <2>1, <2>2, RestartTypes
  <2>4. /\ manifest' = RemoveBatch(manifest, SweptPaths(cutoff))
        /\ manifestFile' = manifest' /\ dir' = dir /\ written' = written
    BY <2>1 DEF RestartFrom
  <2>5. PathsDiffer(manifest') /\ NoSharedPoint' /\ swept' \subseteq 1 .. written'
    BY <2>1, <2>4, OnceSwept
  <2> QED
    BY <2>3, <2>4, <2>5, NothingRuns
<1> QED
  BY <1>1, <1>2

(* A compaction that creates, writes or removes its output touches no      *)
(* listed file.                                                            *)
LEMMA OnceWrite ==
    ASSUME ShapeInv, OutputsOwned, Undisturbed, NEW j \in Jobs,
           CompactCreate(j) \/ CompactWrite(j) \/ CompactFails(j), "reuse" \notin taints'
    PROVE  Undisturbed'
<1>0. Parts
  BY PartTypes
<1>1. /\ manifest' = manifest /\ manifestFile' = manifestFile
      /\ written' = written /\ swept' = swept
  BY DEF CompactCreate, CompactWrite, CompactFails
<1>2. j \in Running /\ job \in [Jobs -> JobRecords] /\ Out(j) \in Paths
  BY <1>0, OutIsPath DEF Parts, CompactCreate, CompactWrite, CompactFails, Running
<1>3. \A k \in Running' : /\ k \in Running /\ job'[k].cands = job[k].cands
                          /\ job'[k].next = job[k].next /\ job'[k].data = job[k].data
  <2>1. PICK s \in {"created", "written", "errored"} : job' = [job EXCEPT ![j].pc = s]
    BY DEF CompactCreate, CompactWrite, CompactFails
  <2> QED
    BY <1>2, <2>1 DEF JobRecords, Running
<1>4. CASE dir' = dir
  BY <1>1, <1>3, <1>4, ListedAlone
<1>5. CASE dir' # dir
  <2>1. Out(j) \notin Listed(manifest)
    <3>1. CASE CompactCreate(j)
      BY <3>1 DEF CompactCreate, Reuse, InUse
    <3>2. CASE ~CompactCreate(j)
      <4>1. j \in Writing
        BY <3>2, <1>5 DEF CompactWrite, CompactFails, Writing
      <4> QED
        BY <4>1 DEF OutputsOwned
    <3> QED
      BY <3>1, <3>2
  <2>2. PICK f : dir' = [dir EXCEPT ![Out(j)] = f]
    BY <1>5 DEF CompactCreate, CompactWrite, CompactFails
  <2>3. \A q \in Listed(manifest) : dir'[q] = dir[q]
    BY <1>0, <2>1, <2>2, ListedArePaths DEF Parts
  <2> QED
    BY <1>1, <1>3, <2>3, ListedAlone
<1> QED
  BY <1>4, <1>5

(* Applying a result, and the crashes after which nothing was half done.   *)
LEMMA OnceApply ==
    ASSUME ShapeInv, OutputsOwned, Undisturbed,
           (\E j \in Jobs : Apply(j)) \/ Crash \/ CrashInApply,
           "halfApplied" \notin taints'
    PROVE  Undisturbed'
<1>0. Parts
  BY PartTypes
<1>1. ASSUME NEW j \in Jobs, ApplyCompactionError(j) PROVE Undisturbed'
  <2>1. \A k \in Running' : k \in Running /\ job'[k] = job[k]
    BY <1>1, ResultTaken DEF ApplyCompactionError, Running
  <2> QED
    BY <1>1, <2>1, ListedAlone DEF ApplyCompactionError
<1>2. ASSUME NEW j \in Jobs, ApplyCompactionResult(j) PROVE Undisturbed'
  <2>1. job[j].pc = "written" /\ j \in Running
    BY <1>2 DEF ApplyCompactionResult, Running
  <2>2. Running' = {}
    BY <1>2, <2>1, ResultTaken DEF ApplyCompactionResult, Undisturbed, OneCompaction
  <2>3. \A q \in Paths \ PathsOf(job[j].cands) : dir'[q] = dir[q]
    BY <1>2, WithoutTypes DEF ApplyCompactionResult
  <2>4. PICK m \in AddedEntries(j) : manifest' = Replaced(j, m)
    BY <1>2 DEF ApplyCompactionResult
  <2> QED
    BY <1>2, <2>1, <2>2, <2>3, <2>4, OnceReplaced DEF ApplyCompactionResult
<1>3. CASE Crash
  <2>1. manifestFile = manifest
    BY DEF Undisturbed
  <2>2. Running' = {}
    BY <1>0, <1>3, RestartTypes DEF Crash, Parts
  <2> QED
    BY <1>3, <2>1, <2>2, ListedAlone DEF Crash, RestartFrom
<1>4. CASE CrashInApply
  <2> DEFINE j == Head(doneCh)
  <2>1. j \in Jobs /\ job[j].pc = "written" /\ j \in Running
    BY <1>0, <1>4 DEF CrashInApply, Parts, Running
  <2>2. PICK m \in AddedEntries(j) : RestartFrom(Replaced(j, m)) /\ swept' = swept
    BY <1>4 DEF CrashInApply
  <2>3. Replaced(j, m) \in Seq(Entries)
    BY <2>1, AddedTypes, RemoveBatchKeeps DEF Replaced
  <2>4. Running' = {}
    BY <2>2, <2>3, RestartTypes
  <2> HIDE DEF j
  <2> QED
    BY <2>1, <2>2, <2>4, OnceReplaced DEF RestartFrom
<1> QED
  BY <1>1, <1>2, <1>3, <1>4 DEF Apply

(* Every step keeps the points apart, or taints the history.               *)
LEMMA OnceStep ==
    ASSUME ShapeInv, KeepInv, OnceInv, [MaintenanceNext]_vars
    PROVE  OnceInv'
<1> SUFFICES ASSUME taints' = {} PROVE Undisturbed'
  BY DEF OnceInv
<1>1. taints = {}
  BY TaintsStay
<1>2. Undisturbed /\ OutputsOwned
  BY <1>1 DEF OnceInv, KeepInv
<1>3. CASE UNCHANGED vars \/ \E j \in Jobs : CompactSend(j)
  <2>1. /\ manifest' = manifest /\ manifestFile' = manifestFile /\ dir' = dir /\ job' = job
        /\ written' = written /\ swept' = swept
    BY <1>3 DEF vars, CompactSend
  <2>2. Running' = Running
    BY <2>1 DEF Running
  <2> QED
    BY <1>2, <2>1, <2>2, ListedAlone
<1>4. CASE MaintenanceNext /\ ~\E j \in Jobs : CompactSend(j)
  <2>1. /\ ~HandleRetentionSaveFails /\ ~FlushSegmentSavesFail
        /\ \A j \in Jobs : ~ApplyCompactionSaveFails(j)
    BY DEF HandleRetentionSaveFails, FlushSegmentSavesFail, ApplyCompactionSaveFails
  <2>2. \/ FlushSegment \/ HandleCompaction
        \/ \E j \in Jobs : CompactRead(j)
        \/ \E j \in Jobs : CompactCreate(j) \/ CompactWrite(j) \/ CompactFails(j)
        \/ (\E j \in Jobs : Apply(j)) \/ Crash \/ CrashInApply
        \/ HandleRetention \/ CrashInRetention
    BY <1>4, <2>1 DEF MaintenanceNext, CompactStep
  <2> QED
    BY <1>2, <2>2, OnceFlush, OnceStart, OnceRead, OnceWrite, OnceApply, OnceSweep
<1> QED
  BY <1>3, <1>4

(* A segment is missing on disk only after a failed save.                  *)
LEMMA SavedStep ==
    ASSUME SavedInv, [MaintenanceNext]_vars
    PROVE  SavedInv'
  BY DEF SavedInv, MaintenanceNext, vars, FlushSegment, FlushSegmentSavesFail, SegmentAdded,
         HandleCompaction, CompactStep, CompactRead, CompactCreate, CompactWrite,
         CompactSend, CompactFails, Apply, ApplyCompactionError, ApplyCompactionResult,
         ApplyCompactionSaveFails, HandleRetention, HandleRetentionSaveFails, RestartFrom,
         Crash, CrashInApply, CrashInRetention

(* As long as none of the hazards has happened, a query finds every        *)
(* flushed point in exactly one listed file and once in it, before, during *)
(* and after a compaction and across restarts, and finds no point that     *)
(* retention removed.                                                      *)
THEOREM EachPointOnce == MaintenanceSpec => []ExactlyOnce
<1> DEFINE I == ShapeInv /\ KeepInv /\ OnceInv /\ SavedInv
<1>1. MaintenanceInit => I
  <2> SUFFICES ASSUME MaintenanceInit PROVE KeepInv /\ OnceInv
    BY ShapeInit DEF MaintenanceInit, SavedInv
  <2>1. /\ Running = {} /\ Writing = {} /\ written = 0 /\ manifest = <<>>
        /\ manifestFile = manifest /\ swept = {}
    BY EmptyTypes DEF MaintenanceInit, Running, Writing
  <2>2. KeepInv
    BY <2>1 DEF KeepInv, OutputsOwned, ReadsCover, ListedTwice, Remaining
  <2>3. OneCompaction /\ NoSharedPoint /\ ReadsExact /\ PathsDiffer(manifest)
    BY <2>1 DEF OneCompaction, NoSharedPoint, ReadsExact, PathsDiffer, Listed
  <2> QED
    BY <2>1, <2>2, <2>3 DEF OnceInv, Undisturbed
<1>2. I /\ [MaintenanceNext]_vars => I'
  BY ShapeStep, KeepStep, OnceStep, SavedStep
<1>3. I => ExactlyOnce
  <2> SUFFICES ASSUME I, taints = {}, NEW p \in 1 .. written
               PROVE  IF p \in swept
                        THEN ~Found(manifest, p)
                        ELSE \E i \in DOMAIN manifest :
                               /\ dir[manifest[i].path][p] = 1
                               /\ \A k \in DOMAIN manifest \ {i} :
                                     dir[manifest[k].path][p] = 0
    BY DEF ExactlyOnce
  <2>1. Undisturbed /\ ListedTwice /\ dropped = {}
    BY DEF OnceInv, KeepInv, SavedInv
  <2>2. p \in Points
    BY PartTypes DEF Parts, Points
  <2>3. \A i \in DOMAIN manifest : manifest[i].path \in Listed(manifest)
    BY DEF Listed
  <2>4. \A q \in Listed(manifest) :
           /\ dir[q][p] \in {0, 1}
           /\ dir[q][p] = 1 => p \notin swept
           /\ dir[q][p] = 1 => \A r \in Listed(manifest) : dir[r][p] = 1 => r = q
    BY <2>1, <2>2 DEF Undisturbed, NoSharedPoint
  <2>5. CASE p \in swept
    BY <2>3, <2>4, <2>5 DEF Found
  <2>6. CASE p \notin swept
    <3>1. PICK q \in Listed(manifest) : dir[q][p] > 0
      BY <2>1, <2>6 DEF ListedTwice, Remaining
    <3>2. PICK i \in DOMAIN manifest : q = manifest[i].path
      BY <3>1 DEF Listed
    <3>3. dir[manifest[i].path][p] = 1
      BY <2>4, <3>1, <3>2
    <3>4. \A k \in DOMAIN manifest \ {i} : dir[manifest[k].path][p] = 0
      BY <2>1, <2>3, <2>4, <3>2, <3>3 DEF Undisturbed, PathsDiffer
    <3> QED
      BY <2>6, <3>3, <3>4
  <2> QED
    BY <2>5, <2>6
<1> QED
  BY <1>1, <1>2, <1>3, PTL DEF MaintenanceSpec, MaintenanceSafety
=============================================================================
