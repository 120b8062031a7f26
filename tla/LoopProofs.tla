----------------------------- MODULE LoopProofs -----------------------------
(***************************************************************************)
(* Facts that the proofs about the storage path need: least elements,      *)
(* loops as recursive functions, division.                                 *)
(***************************************************************************)
EXTENDS Integers, WellFoundedInduction, TLAPS

(* A nonempty set of naturals has a least element.                         *)
LEMMA Least ==
    ASSUME NEW T \in SUBSET Nat, T # {}
    PROVE  \E x \in T : \A m \in T : x <= m
<1> DEFINE R == {ss \in Nat \X Nat : ss[1] < ss[2]}
<1>1. IsWellFoundedOn(R, Nat)
  BY NatLessThanWellFounded DEF OpToRel
<1>2. PICK n \in T : \A m \in T : <<m, n>> \notin R
  BY <1>1, WFMin
<1>3. \A m \in T : ~(m < n)
  <2> SUFFICES ASSUME NEW m \in T, m < n PROVE FALSE
    OBVIOUS
  <2>1. <<m, n>> \in Nat \X Nat /\ <<m, n>>[1] < <<m, n>>[2]
    BY SMT
  <2> QED
    BY <2>1, <1>2
<1> HIDE DEF R
<1> QED
  BY <1>3, SMT

(* Induction over the first N numbers.                                     *)
LEMMA UpTo ==
    ASSUME NEW N \in Nat, NEW T, 0 \in T, \A k \in 1 .. N : k - 1 \in T => k \in T
    PROVE  \A k \in 0 .. N : k \in T
<1> DEFINE Bad == {k \in 0 .. N : k \notin T}
<1> SUFFICES ASSUME Bad # {} PROVE FALSE
  OBVIOUS
<1>1. Bad \in SUBSET Nat
  OBVIOUS
<1> HIDE DEF Bad
<1>2. PICK k \in Bad : \A m \in Bad : k <= m
  BY <1>1, Least
<1>3. k \in 1 .. N /\ k - 1 \in 0 .. N /\ k - 1 \notin Bad /\ k \notin T
  BY <1>2 DEF Bad
<1> QED
  BY <1>3 DEF Bad

(* A loop of N rounds over a state in S that starts at b: the state after  *)
(* every round.  G[k][s] is the state that round k makes of s.             *)
IsLoop(f, N, S, b, G) ==
    f \in [0 .. N -> S] /\ f[0] = b /\ \A k \in 1 .. N : f[k] = G[k][f[k - 1]]

(* A loop of N rounds has a result: the recursive function exists.         *)
LEMMA LoopExists ==
    ASSUME NEW N \in Nat, NEW S, NEW b \in S, NEW G, \A k \in 1 .. N, s \in S : G[k][s] \in S
    PROVE  \E f : IsLoop(f, N, S, b, G)
<1> DEFINE T == {n \in 0 .. N : \E f : IsLoop(f, n, S, b, G)}
<1>1. 0 \in T
  <2> DEFINE f == [k \in 0 .. 0 |-> b]
  <2>1. IsLoop(f, 0, S, b, G)
    BY DEF IsLoop
  <2> QED
    BY <2>1
<1>2. ASSUME NEW n \in 1 .. N, n - 1 \in T PROVE n \in T
  <2>1. PICK g : IsLoop(g, n - 1, S, b, G)
    BY <1>2
  <2> DEFINE f == [k \in 0 .. n |-> IF k = n THEN G[n][g[n - 1]] ELSE g[k]]
  <2>2. g[n - 1] \in S /\ n - 1 \in 0 .. n - 1
    BY <2>1 DEF IsLoop
  <2>3. G[n][g[n - 1]] \in S
    BY <2>2
  <2>4. f \in [0 .. n -> S]
    BY <2>1, <2>3 DEF IsLoop
  <2>5. \A k \in 0 .. n - 1 : f[k] = g[k]
    OBVIOUS
  <2>6. f[n] = G[n][g[n - 1]]
    OBVIOUS
  <2> HIDE DEF f
  <2>7. f[0] = b
    BY <2>1, <2>5 DEF IsLoop
  <2>8. ASSUME NEW k \in 1 .. n PROVE f[k] = G[k][f[k - 1]]
    <3>1. f[k - 1] = g[k - 1]
      BY <2>5
    <3>2. CASE k = n
      BY <3>1, <3>2, <2>6
    <3>3. CASE k # n
      <4>1. k \in 1 .. n - 1 /\ k \in 0 .. n - 1
        BY <3>3
      <4>2. g[k] = G[k][g[k - 1]]
        BY <4>1, <2>1 DEF IsLoop
      <4> QED
        BY <3>1, <4>1, <4>2, <2>5
    <3> QED
      BY <3>2, <3>3
  <2>9. IsLoop(f, n, S, b, G)
    BY <2>4, <2>7, <2>8 DEF IsLoop
  <2> QED
    BY <2>9
<1> HIDE DEF T
<1>3. N \in T
  BY <1>1, <1>2, UpTo
<1> QED
  BY <1>3 DEF T

(* Round k of a loop.                                                      *)
LEMMA LoopRound ==
    ASSUME NEW f, NEW N \in Nat, NEW S, NEW b, NEW G, IsLoop(f, N, S, b, G), NEW k \in 1 .. N
    PROVE  f[k - 1] \in S /\ f[k] = G[k][f[k - 1]]
<1>1. k - 1 \in 0 .. N
  OBVIOUS
<1> QED
  BY <1>1 DEF IsLoop
-----------------------------------------------------------------------------
(* Division with remainder.                                                *)
LEMMA DivRemainder ==
    ASSUME NEW a \in Int, NEW w \in Nat \ {0}
    PROVE  /\ a \div w \in Int /\ a % w \in 0 .. w - 1
           /\ a = (a \div w) * w + (a % w)
OBVIOUS

(* Products keep the order of integers.                                    *)
LEMMA ProductOrder ==
    ASSUME NEW k \in Int, NEW m \in Int, NEW w \in Nat \ {0}, k < m
    PROVE  k * w + w <= m * w
<1>1. PICK d \in Nat : m = k + 1 + d
  <2>1. m - k - 1 \in Nat /\ m = k + 1 + (m - k - 1)
    OBVIOUS
  <2> QED
    BY <2>1
<1>2. m * w = k * w + w + d * w
  BY <1>1
<1>3. d * w \in Nat
  OBVIOUS
<1>4. k * w \in Int /\ w \in Int
  OBVIOUS
<1> QED
  BY <1>2, <1>3, <1>4

(* The quotient is the multiple below.                                     *)
LEMMA DivIs ==
    ASSUME NEW a \in Int, NEW w \in Nat \ {0}, NEW k \in Int
    PROVE  a \div w = k <=> (k * w <= a /\ a < k * w + w)
<1> DEFINE q == a \div w
           r == a % w
<1>1. q \in Int /\ r \in 0 .. w - 1 /\ a = q * w + r
  BY DivRemainder
<1> HIDE DEF q, r
<1>2. q * w \in Int /\ k * w \in Int
  BY <1>1
<1>3. CASE q < k
  <2>1. q * w + w <= k * w
    BY <1>1, <1>3, ProductOrder
  <2> QED
    BY <1>1, <1>2, <1>3, <2>1 DEF q
<1>4. CASE k < q
  <2>1. k * w + w <= q * w
    BY <1>1, <1>4, ProductOrder
  <2> QED
    BY <1>1, <1>2, <1>4, <2>1 DEF q
<1>5. CASE k = q
  BY <1>1, <1>2, <1>5 DEF q
<1> QED
  BY <1>1, <1>3, <1>4, <1>5
=============================================================================
