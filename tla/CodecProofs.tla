---------------------------- MODULE CodecProofs ----------------------------
(***************************************************************************)
(* Proofs about the bytes of a series: for every series of any length, all *)
(* timestamps, values, widths and bytes behind it, what decodeSeriesAt     *)
(* returns of it in version 1 (varint deltas) and version 2 (Gorilla).     *)
(***************************************************************************)
EXTENDS SegmentCodec, LoopProofs, SequenceTheorems

-----------------------------------------------------------------------------
(* Powers of two, quotients and the bits of a number.                      *)

(* A loop without end: the state after every round.                        *)
IsNatLoop(f, S, b, G) ==
    f \in [Nat -> S] /\ f[0] = b /\ \A k \in Nat \ {0} : f[k] = G[k][f[k - 1]]

(* A loop without end is a function.                                       *)
LEMMA NatLoop ==
    ASSUME NEW S, NEW b \in S, NEW G, \A k \in Nat \ {0}, s \in S : G[k][s] \in S
    PROVE  \E f : IsNatLoop(f, S, b, G)
<1> DEFINE L(n) == CHOOSE f : IsLoop(f, n, S, b, G)
           f == [n \in Nat |-> L(n)[n]]
<1>1. ASSUME NEW n \in Nat PROVE IsLoop(L(n), n, S, b, G)
  <2>1. \E g : IsLoop(g, n, S, b, G)
    BY LoopExists
  <2> QED
    BY <2>1, Zenon
<1> HIDE DEF L
<1>2. ASSUME NEW n \in Nat PROVE L(n) \in [0 .. n -> S] /\ L(n)[0] = b
  BY <1>1 DEF IsLoop
<1>3. ASSUME NEW n \in Nat, NEW m \in Nat, n <= m PROVE L(m)[n] = L(n)[n]
  <2> DEFINE T == {k \in 0 .. n : L(m)[k] = L(n)[k]}
  <2>1. 0 \in T
    BY <1>2
  <2>2. ASSUME NEW k \in 1 .. n, k - 1 \in T PROVE k \in T
    <3>1. L(n)[k] = G[k][L(n)[k - 1]]
      BY <1>1 DEF IsLoop
    <3>2. L(m)[k] = G[k][L(m)[k - 1]]
      BY <1>1, <1>3 DEF IsLoop
    <3> QED
      BY <2>2, <3>1, <3>2
  <2> HIDE DEF T
  <2>3. n \in T
    BY <2>1, <2>2, UpTo
  <2> QED
    BY <2>3 DEF T
<1>4. f \in [Nat -> S]
  BY <1>2
<1>5. f[0] = b
  BY <1>2
<1>6. ASSUME NEW k \in Nat \ {0} PROVE f[k] = G[k][f[k - 1]]
  <2>1. k \in Nat /\ k - 1 \in Nat /\ k - 1 <= k
    OBVIOUS
  <2>2. L(k)[k] = G[k][L(k)[k - 1]]
    BY <1>1, <2>1 DEF IsLoop
  <2>3. L(k)[k - 1] = L(k - 1)[k - 1]
    BY <1>3, <2>1
  <2> QED
    BY <2>1, <2>2, <2>3
<1> HIDE DEF f
<1> QED
  BY <1>4, <1>5, <1>6 DEF IsNatLoop

(* The powers of two.                                                      *)
LEMMA Pow2Is ==
    /\ Pow2 \in [Nat -> Nat] /\ Pow2[0] = 1
    /\ \A n \in Nat \ {0} : Pow2[n] = 2 * Pow2[n - 1]
<1> DEFINE G == [k \in Nat \ {0} |-> [x \in Nat |-> 2 * x]]
<1>1. \A k \in Nat \ {0}, x \in Nat : G[k][x] \in Nat /\ G[k][x] = 2 * x
  OBVIOUS
<1>2. PICK f : IsNatLoop(f, Nat, 1, G)
  <2> HIDE DEF G
  <2> QED
    BY <1>1, NatLoop
<1>2a. f \in [Nat -> Nat] /\ f[0] = 1 /\ \A k \in Nat \ {0} : f[k] = G[k][f[k - 1]]
  BY <1>2 DEF IsNatLoop
<1>3. \A k \in Nat \ {0} : f[k] = 2 * f[k - 1]
  <2>1. ASSUME NEW k \in Nat \ {0} PROVE f[k - 1] \in Nat
    BY <1>2a
  <2> QED
    BY <1>1, <1>2a, <2>1
<1>4. f = [n \in Nat |-> IF n = 0 THEN 1 ELSE 2 * f[n - 1]]
  BY <1>2a, <1>3
<1>5. Pow2 = [n \in Nat |-> IF n = 0 THEN 1 ELSE 2 * Pow2[n - 1]]
  BY <1>4 DEF Pow2
<1> DEFINE T(n) == {k \in 0 .. n : Pow2[k] = f[k]}
<1>6. ASSUME NEW n \in Nat PROVE Pow2[n] = f[n]
  <2>1. 0 \in T(n)
    BY <1>2a, <1>5
  <2>2. ASSUME NEW k \in 1 .. n, k - 1 \in T(n) PROVE k \in T(n)
    <3>1. k \in Nat \ {0} /\ Pow2[k - 1] = f[k - 1]
      BY <2>2
    <3>2. Pow2[k] = 2 * Pow2[k - 1]
      BY <1>5, <3>1
    <3> QED
      BY <1>3, <3>1, <3>2
  <2> HIDE DEF T
  <2>3. n \in T(n)
    BY <2>1, <2>2, UpTo
  <2> QED
    BY <2>3 DEF T
<1>7. \A n \in Nat : Pow2[n] \in Nat
  BY <1>2a, <1>6
<1>8. Pow2 \in [Nat -> Nat]
  BY <1>5, <1>7
<1> QED
  BY <1>2a, <1>3, <1>6, <1>8

(* Adding exponents multiplies powers.                                     *)
LEMMA Pow2Sum ==
    ASSUME NEW a \in Nat, NEW n \in Nat
    PROVE  Pow2[a + n] = Pow2[a] * Pow2[n]
<1> DEFINE T == {k \in 0 .. n : Pow2[a + k] = Pow2[a] * Pow2[k]}
<1>1. 0 \in T
  <2>1. Pow2[a] \in Nat /\ Pow2[0] = 1
    BY Pow2Is
  <2> QED
    BY <2>1
<1>2. ASSUME NEW k \in 1 .. n, k - 1 \in T PROVE k \in T
  <2>1. a + k \in Nat \ {0} /\ k \in Nat \ {0} /\ k - 1 \in Nat /\ (a + k) - 1 = a + (k - 1)
    OBVIOUS
  <2>2. Pow2[a + k] = 2 * Pow2[a + (k - 1)] /\ Pow2[k] = 2 * Pow2[k - 1]
    BY <2>1, Pow2Is
  <2>3. Pow2[a + (k - 1)] = Pow2[a] * Pow2[k - 1]
    BY <1>2
  <2>4. Pow2[a] \in Nat /\ Pow2[k - 1] \in Nat
    BY <2>1, Pow2Is
  <2> DEFINE x == Pow2[a]
             y == Pow2[k - 1]
  <2>5. 2 * (x * y) = x * (2 * y)
    <3> HIDE DEF x, y
    <3> QED
      BY <2>4 DEF x, y
  <2> QED
    BY <2>2, <2>3, <2>5
<1> HIDE DEF T
<1>3. n \in T
  BY <1>1, <1>2, UpTo
<1> QED
  BY <1>3 DEF T

(* Powers are positive and ascend.                                         *)
LEMMA Pow2Order ==
    ASSUME NEW a \in Nat, NEW n \in Nat, a <= n
    PROVE  Pow2[a] \in Nat /\ 1 <= Pow2[a] /\ Pow2[a] <= Pow2[n]
<1> DEFINE T == {k \in 0 .. n : 1 <= Pow2[k]}
<1>1. 0 \in T
  BY Pow2Is
<1>2. ASSUME NEW k \in 1 .. n, k - 1 \in T PROVE k \in T
  <2>1. k \in Nat \ {0} /\ k - 1 \in Nat /\ 1 <= Pow2[k - 1]
    BY <1>2
  <2>2. Pow2[k] = 2 * Pow2[k - 1] /\ Pow2[k - 1] \in Nat
    BY <2>1, Pow2Is
  <2> QED
    BY <2>1, <2>2
<1> HIDE DEF T
<1>3. \A k \in 0 .. n : k \in T
  BY <1>1, <1>2, UpTo
<1>4. 1 <= Pow2[a] /\ 1 <= Pow2[n]
  BY <1>3 DEF T
<1>5. n - a \in 0 .. n /\ n - a \in Nat /\ a + (n - a) = n
  OBVIOUS
<1>6. 1 <= Pow2[n - a]
  BY <1>3, <1>5 DEF T
<1>7. Pow2[n] = Pow2[a] * Pow2[n - a]
  BY <1>5, Pow2Sum
<1>8. Pow2[a] \in Nat /\ Pow2[n - a] \in Nat
  BY <1>5, Pow2Is
<1> DEFINE x == Pow2[a]
           y == Pow2[n - a]
<1>9. x <= x * y
  <2> HIDE DEF x, y
  <2>1. x \in Nat /\ y \in Nat /\ 1 <= y
    BY <1>6, <1>8 DEF x, y
  <2>2. x * y = x + x * (y - 1) /\ x * (y - 1) \in Nat
    BY <2>1
  <2> QED
    BY <2>1, <2>2
<1> QED
  BY <1>4, <1>7, <1>8, <1>9

(* Dividing twice.                                                         *)
LEMMA DivDiv ==
    ASSUME NEW x \in Nat, NEW a \in Nat \ {0}, NEW b \in Nat \ {0}
    PROVE  (x \div a) \div b = x \div (a * b)
<1> DEFINE q == x \div a
           h == q \div b
<1>1. q \in Int /\ q * a <= x /\ x < q * a + a
  BY DivIs
<1> HIDE DEF q
<1>2. h \in Int /\ h * b <= q /\ q < h * b + b
  BY <1>1, DivIs
<1> HIDE DEF h
<1>3. a * b \in Nat \ {0} /\ h * b \in Int /\ q * a \in Int
  BY <1>1, <1>2
<1>4. (h * b) * a <= q * a
  <2>1. CASE h * b = q
    BY <2>1, <1>3
  <2>2. CASE h * b < q
    <3>1. (h * b) * a + a <= q * a
      BY <1>1, <1>3, <2>2, ProductOrder
    <3> QED
      BY <1>3, <3>1
  <2> QED
    BY <1>1, <1>2, <1>3, <2>1, <2>2
<1>5. q * a + a <= (h * b + b) * a
  BY <1>1, <1>2, <1>3, ProductOrder
<1>6. (h * b) * a = h * (a * b) /\ (h * b + b) * a = h * (a * b) + a * b
  BY <1>2
<1>7. h * (a * b) \in Int
  BY <1>2, <1>3
<1>8. h * (a * b) <= x /\ x < h * (a * b) + a * b
  BY <1>1, <1>3, <1>4, <1>5, <1>6, <1>7
<1>9. x \div (a * b) = h
  BY <1>2, <1>3, <1>8, DivIs
<1> QED
  BY <1>9 DEF h, q

(* The quotient of a natural number by a power of two, and its parity.     *)
LEMMA PowQuotient ==
    ASSUME NEW x \in Nat, NEW k \in Nat
    PROVE  /\ x \div Pow2[k] \in Nat /\ (x \div Pow2[k]) % 2 \in 0 .. 1
           /\ x \div Pow2[k] = 2 * (x \div Pow2[k + 1]) + ((x \div Pow2[k]) % 2)
<1>1. Pow2[k] \in Nat \ {0} /\ Pow2[k + 1] = Pow2[k] * 2
  <2>1. k + 1 \in Nat \ {0} /\ (k + 1) - 1 = k
    OBVIOUS
  <2> QED
    BY <2>1, Pow2Order, Pow2Is
<1> DEFINE q == x \div Pow2[k]
<1>2. q \in Nat
  <2>1. \A a \in Nat \ {0} : x \div a \in Nat
    OBVIOUS
  <2> QED
    BY <1>1, <2>1
<1>3. q \div 2 = x \div Pow2[k + 1]
  BY <1>1, DivDiv
<1> HIDE DEF q
<1>4. q = 2 * (q \div 2) + (q % 2) /\ q % 2 \in 0 .. 1
  BY <1>2
<1> QED
  BY <1>2, <1>3, <1>4 DEF q

(* The loop that reads a number, bit by bit.                               *)
NumberUpTo(f, s) ==
    /\ f \in [0 .. Len(s) -> Nat] /\ f[0] = 0
    /\ \A k \in 1 .. Len(s) : f[k] = 2 * f[k - 1] + s[k]

(* The bits of s and the rounds of Number.                                 *)
LEMMA NumberIs ==
    ASSUME NEW s \in Seq(0 .. 1)
    PROVE  \E f : NumberUpTo(f, s) /\ Number(s) = f[Len(s)]
<1> DEFINE N == Len(s)
           G == [k \in 1 .. N |-> [x \in Nat |-> 2 * x + s[k]]]
           up == CHOOSE f : f = [k \in 0 .. N |-> IF k = 0 THEN 0 ELSE 2 * f[k - 1] + s[k]]
<1>1. N \in Nat /\ \A k \in 1 .. N : s[k] \in 0 .. 1
  OBVIOUS
<1> HIDE DEF N
<1>2. \A k \in 1 .. N, x \in Nat : G[k][x] \in Nat /\ G[k][x] = 2 * x + s[k]
  BY <1>1
<1>3. PICK f : IsLoop(f, N, Nat, 0, G)
  <2> HIDE DEF G
  <2> QED
    BY <1>1, <1>2, LoopExists
<1>4. f \in [0 .. N -> Nat] /\ f[0] = 0
  BY <1>3 DEF IsLoop
<1>5. ASSUME NEW k \in 1 .. N PROVE f[k] = 2 * f[k - 1] + s[k]
  <2> HIDE DEF G
  <2>1. f[k - 1] \in Nat /\ f[k] = G[k][f[k - 1]]
    BY <1>1, <1>3, LoopRound
  <2> QED
    BY <1>2, <2>1
<1>6. f = [k \in 0 .. N |-> IF k = 0 THEN 0 ELSE 2 * f[k - 1] + s[k]]
  BY <1>1, <1>4, <1>5
<1>7. up = [k \in 0 .. N |-> IF k = 0 THEN 0 ELSE 2 * up[k - 1] + s[k]]
  BY <1>6, Zenon
<1>8. Number(s) = up[N]
  BY Zenon DEF Number, N
<1> HIDE DEF up
<1>9. \A k \in 1 .. N : up[k] = 2 * up[k - 1] + s[k]
  BY <1>1, <1>7
<1>10. up[0] = 0
  BY <1>1, <1>7
<1> DEFINE T == {k \in 0 .. N : up[k] \in Nat}
<1>11. 0 \in T
  BY <1>1, <1>10
<1>12. ASSUME NEW k \in 1 .. N, k - 1 \in T PROVE k \in T
  <2>1. up[k - 1] \in Nat /\ k \in 0 .. N
    BY <1>1, <1>12
  <2>2. up[k] = 2 * up[k - 1] + s[k] /\ s[k] \in 0 .. 1
    BY <1>1, <1>9
  <2> QED
    BY <2>1, <2>2
<1> HIDE DEF T
<1>13. \A k \in 0 .. N : k \in T
  BY <1>1, <1>11, <1>12, UpTo
<1>14. \A k \in 0 .. N : up[k] \in Nat
  BY <1>13 DEF T
<1>15. up \in [0 .. N -> Nat]
  BY <1>7, <1>14
<1> QED
  BY <1>8, <1>9, <1>10, <1>15 DEF NumberUpTo, N

(* Reading the bits of a number gives the number.                          *)
LEMMA NumberBits ==
    ASSUME NEW n \in Nat, NEW x \in Nat, x < Pow2[n],
           NEW s \in Seq(0 .. 1), Len(s) = n,
           \A k \in 1 .. n : s[k] = (x \div Pow2[n - k]) % 2
    PROVE  Number(s) = x
<1>1. PICK f : NumberUpTo(f, s) /\ Number(s) = f[n]
  BY NumberIs
<1>2. f[0] = 0 /\ \A k \in 1 .. n : f[k] = 2 * f[k - 1] + s[k]
  BY <1>1 DEF NumberUpTo
<1> DEFINE T == {k \in 0 .. n : f[k] = x \div Pow2[n - k]}
<1>3. 0 \in T
  <2>1. Pow2[n] \in Nat \ {0}
    BY Pow2Order
  <2>2. x \div Pow2[n] = 0
    BY <2>1, DivIs
  <2> QED
    BY <1>2, <2>2
<1>4. ASSUME NEW k \in 1 .. n, k - 1 \in T PROVE k \in T
  <2>1. n - k \in Nat /\ (n - k) + 1 = n - (k - 1)
    OBVIOUS
  <2>2. x \div Pow2[n - k] = 2 * (x \div Pow2[n - (k - 1)]) + ((x \div Pow2[n - k]) % 2)
    BY <2>1, PowQuotient
  <2>3. f[k - 1] = x \div Pow2[n - (k - 1)]
    BY <1>4
  <2>4. f[k] = 2 * f[k - 1] + s[k] /\ s[k] = (x \div Pow2[n - k]) % 2
    BY <1>2
  <2>5. f[k] = x \div Pow2[n - k]
    BY <2>2, <2>3, <2>4
  <2> QED
    BY <2>5
<1> HIDE DEF T
<1>5. \A k \in 0 .. n : k \in T
  BY <1>3, <1>4, UpTo
<1>6. f[n] = x \div Pow2[n - n]
  BY <1>5 DEF T
<1>7. Pow2[n - n] = 1
  BY Pow2Is
<1> QED
  BY <1>1, <1>6, <1>7

(* The bits of the number that s stands for are s.                         *)
LEMMA BitsNumber ==
    ASSUME NEW s \in Seq(0 .. 1)
    PROVE  /\ Number(s) \in Nat /\ Number(s) < Pow2[Len(s)]
           /\ \A k \in 1 .. Len(s) : (Number(s) \div Pow2[Len(s) - k]) % 2 = s[k]
<1> DEFINE n == Len(s)
<1>1. n \in Nat /\ \A k \in 1 .. n : s[k] \in 0 .. 1
  OBVIOUS
<1>2. PICK f : NumberUpTo(f, s) /\ Number(s) = f[n]
  BY NumberIs
<1> HIDE DEF n
<1>3. /\ f \in [0 .. n -> Nat] /\ f[0] = 0
      /\ \A k \in 1 .. n : f[k] = 2 * f[k - 1] + s[k]
  BY <1>2 DEF NumberUpTo, n
<1>4. f[n] \in Nat
  BY <1>1, <1>3
<1> DEFINE T == {k \in 0 .. n : f[k] < Pow2[k]}
           U == {k \in 0 .. n : f[n] \div Pow2[k] = f[n - k]}
<1>5. \A k \in 0 .. n : k \in T
  <2>1. 0 \in T
    BY <1>1, <1>3, Pow2Is
  <2>2. ASSUME NEW k \in 1 .. n, k - 1 \in T PROVE k \in T
    <3>1. k \in Nat \ {0} /\ k - 1 \in 0 .. n /\ k - 1 \in Nat
      BY <1>1
    <3>2. Pow2[k] = 2 * Pow2[k - 1] /\ Pow2[k - 1] \in Nat
      BY <3>1, Pow2Is
    <3>3. f[k] = 2 * f[k - 1] + s[k] /\ s[k] \in 0 .. 1 /\ f[k - 1] \in Nat
      BY <1>1, <1>3, <3>1
    <3>4. f[k - 1] < Pow2[k - 1]
      BY <2>2
    <3> QED
      BY <3>2, <3>3, <3>4
  <2> HIDE DEF T
  <2> QED
    BY <1>1, <2>1, <2>2, UpTo
<1>6. \A k \in 0 .. n : k \in U
  <2>1. 0 \in U
    <3>1. f[n] \div Pow2[0] = f[n]
      <4>1. Pow2[0] = 1
        BY Pow2Is
      <4>2. \A x \in Nat : x \div 1 = x
        OBVIOUS
      <4> QED
        BY <1>4, <4>1, <4>2
    <3>2. 0 \in 0 .. n /\ n - 0 = n
      BY <1>1
    <3> QED
      BY <3>1, <3>2
  <2>2. ASSUME NEW k \in 1 .. n, k - 1 \in U PROVE k \in U
    <3> DEFINE q == f[n] \div Pow2[k - 1]
    <3>1. k - 1 \in Nat /\ (k - 1) + 1 = k /\ n - (k - 1) \in 1 .. n /\ (n - (k - 1)) - 1 = n - k
      BY <1>1
    <3>2. q = 2 * (f[n] \div Pow2[k]) + (q % 2) /\ q % 2 \in 0 .. 1
      BY <1>4, <3>1, PowQuotient
    <3>3. q = f[n - (k - 1)]
      BY <2>2
    <3>4. q = 2 * f[n - k] + s[n - (k - 1)] /\ s[n - (k - 1)] \in 0 .. 1
      BY <1>1, <1>3, <3>1, <3>3
    <3>5. f[n - k] \in Nat /\ f[n] \div Pow2[k] \in Nat /\ q \in Nat
      <4>1. n - k \in 0 .. n /\ k \in Nat
        BY <1>1
      <4> QED
        BY <1>3, <1>4, <3>1, <4>1, PowQuotient
    <3> HIDE DEF q
    <3>6. f[n] \div Pow2[k] = f[n - k]
      BY <3>2, <3>4, <3>5
    <3> QED
      BY <3>6
  <2> HIDE DEF U
  <2> QED
    BY <1>1, <2>1, <2>2, UpTo
<1>7. f[n] < Pow2[n]
  BY <1>1, <1>5
<1>8. ASSUME NEW k \in 1 .. n PROVE (f[n] \div Pow2[n - k]) % 2 = s[k]
  <2>1. n - k \in 0 .. n /\ n - (n - k) = k /\ k - 1 \in 0 .. n
    BY <1>1
  <2>2. f[n] \div Pow2[n - k] = f[k]
    BY <1>6, <2>1
  <2>3. f[k] = 2 * f[k - 1] + s[k] /\ s[k] \in 0 .. 1 /\ f[k - 1] \in Nat
    BY <1>1, <1>3, <2>1
  <2>4. f[k] % 2 = s[k]
    BY <2>3
  <2> QED
    BY <2>2, <2>4
<1> QED
  BY <1>2, <1>4, <1>7, <1>8 DEF n

-----------------------------------------------------------------------------
(* Data: bits at a position, the bytes of data, what is in front of them.  *)

(* The bits s stand in d behind the first p.                               *)
Holds(d, p, s) ==
    /\ p \in Nat /\ p + Len(s) <= Len(d)
    /\ \A k \in 1 .. Len(s) : d[p + k] = s[k]

(* The widths of the code.                                                 *)
LEMMA Widths ==
    /\ ByteBits \in Nat \ {0, 1} /\ WordBytes \in Nat \ {0}
    /\ GroupBits \in Nat \ {0} /\ GroupBits = ByteBits - 1
    /\ WordBits \in Nat \ {0} /\ WordBits = ByteBits * WordBytes
    /\ MaxVarintLen \in Nat /\ MaxVarintLen <= 2 * WordBytes
    /\ WordBits <= GroupBits * MaxVarintLen
<1>1. /\ ByteBits \in Nat \ {0, 1} /\ WordBytes \in Nat \ {0}
      /\ GroupBits \in Nat \ {0} /\ GroupBits = ByteBits - 1
  BY CodecConstants DEF GroupBits
<1>2. WordBits = ByteBits * WordBytes /\ WordBits \in Nat \ {0}
  BY <1>1 DEF WordBits
<1> DEFINE g == GroupBits
           w == WordBytes
           b == WordBits
           m == MaxVarintLen
<1>3. b = g * w + w
  BY <1>1, <1>2
<1>4. m = (b + (g - 1)) \div g
  BY DEF MaxVarintLen
<1>5. g \in Nat \ {0} /\ w \in Nat \ {0} /\ b \in Nat \ {0}
  BY <1>1, <1>2
<1> HIDE DEF g, w, b, m
<1>6. m \in Int /\ m * g <= b + (g - 1) /\ b + (g - 1) < m * g + g
  <2>1. b + (g - 1) \in Nat
    BY <1>5
  <2> DEFINE a == b + (g - 1)
  <2>2. a \in Int /\ m = a \div g
    BY <1>4, <2>1
  <2> HIDE DEF a
  <2>3. m \in Int
    BY <1>5, <2>2, DivRemainder
  <2>4. m * g <= a /\ a < m * g + g
    BY <1>5, <2>2, <2>3, DivIs
  <2> QED
    BY <2>3, <2>4 DEF a
<1>7. b <= m * g /\ 0 < m
  <2>1. m * g \in Int
    BY <1>5, <1>6
  <2>2. b <= m * g
    BY <1>5, <1>6, <2>1
  <2>3. CASE m <= 0
    <3>1. CASE m = 0
      BY <1>5, <2>2, <3>1
    <3>2. CASE m < 0
      <4>1. m * g + g <= 0 * g
        BY <1>5, <1>6, <3>2, ProductOrder
      <4> QED
        BY <1>5, <2>1, <2>2, <4>1
    <3> QED
      BY <1>6, <2>3, <3>1, <3>2
  <2> QED
    BY <1>6, <2>2, <2>3
<1>8. m <= 2 * w
  <2> SUFFICES ASSUME 2 * w < m PROVE FALSE
    BY <1>5, <1>6
  <2>1. (2 * w) * g + g <= m * g
    BY <1>5, <1>6, ProductOrder
  <2>2. (2 * w) * g = g * w + g * w /\ g * w \in Nat /\ w <= g * w /\ m * g \in Int
    <3>1. g * w = w + (g - 1) * w /\ (g - 1) * w \in Nat
      BY <1>5
    <3> QED
      BY <1>5, <1>6, <3>1
  <2> QED
    BY <1>3, <1>5, <1>6, <2>1, <2>2
<1>9. g * m = m * g
  BY <1>5, <1>6
<1> QED
  BY <1>1, <1>2, <1>6, <1>7, <1>8, <1>9 DEF g, w, b, m

(* Concatenation, by position.                                             *)
LEMMA HoldsConcat ==
    ASSUME NEW d, NEW p \in Nat, NEW s \in Seq(0 .. 1), NEW t \in Seq(0 .. 1),
           Holds(d, p, s \o t)
    PROVE  Holds(d, p, s) /\ Holds(d, p + Len(s), t)
<1> DEFINE st == s \o t
           m == Len(s)
           n == Len(t)
<1>1. m \in Nat /\ n \in Nat
  OBVIOUS
<1>2. Len(st) = m + n /\ \A i \in 1 .. m + n : st[i] = IF i <= m THEN s[i] ELSE t[i - m]
  BY ConcatProperties
<1>3. p + Len(st) <= Len(d) /\ \A k \in 1 .. Len(st) : d[p + k] = st[k]
  BY DEF Holds
<1> HIDE DEF st
<1>4. \A k \in 1 .. m : d[p + k] = s[k]
  BY <1>1, <1>2, <1>3
<1>5. ASSUME NEW k \in 1 .. n PROVE d[(p + m) + k] = t[k]
  <2>1. m + k \in 1 .. m + n /\ ~(m + k <= m) /\ (m + k) - m = k /\ p + (m + k) = (p + m) + k
    BY <1>1
  <2>2. d[p + (m + k)] = t[k]
    BY <1>2, <1>3, <2>1
  <2> QED
    BY <2>1, <2>2
<1>6. p + (m + n) <= Len(d)
  BY <1>2, <1>3
<1> QED
  BY <1>1, <1>4, <1>5, <1>6 DEF Holds

(* The rest of d behind b bytes, by position.                              *)
LEMMA HoldsFrom ==
    ASSUME NEW d \in Seq(0 .. 1), NEW b \in Nat, ByteBits * b <= Len(d)
    PROVE  /\ From(d, b) \in Seq(0 .. 1) /\ Len(From(d, b)) = Len(d) - ByteBits * b
           /\ \A k \in 1 .. Len(d) - ByteBits * b : From(d, b)[k] = d[ByteBits * b + k]
           /\ \A s : \A q \in Nat : Holds(d, ByteBits * b + q, s) /\ Len(s) \in Nat => Holds(From(d, b), q, s)
<1> DEFINE p == ByteBits * b
           n == Len(d)
           r == From(d, b)
<1>1. p \in Nat /\ n \in Nat /\ p <= n
  BY Widths
<1>2. r = SubSeq(d, p + 1, n)
  BY DEF From
<1>3. \A i \in p + 1 .. n : d[i] \in 0 .. 1
  BY <1>1, ElementOfSeq
<1> HIDE DEF p, r
<1>4. /\ r \in Seq(0 .. 1) /\ Len(r) = IF p + 1 <= n THEN n - (p + 1) + 1 ELSE 0
      /\ \A i \in 1 .. n - (p + 1) + 1 : r[i] = d[(p + 1) + i - 1]
  BY <1>1, <1>2, <1>3, SubSeqProperties
<1> HIDE DEF n
<1>5. Len(r) = n - p
  BY <1>1, <1>4
<1>6. ASSUME NEW k \in 1 .. n - p PROVE r[k] = d[p + k]
  <2>1. k \in 1 .. n - (p + 1) + 1 /\ (p + 1) + k - 1 = p + k
    BY <1>1
  <2> QED
    BY <1>4, <2>1
<1>7. ASSUME NEW q \in Nat, NEW s, Holds(d, p + q, s), Len(s) \in Nat PROVE Holds(r, q, s)
  <2>1. (p + q) + Len(s) <= n /\ \A k \in 1 .. Len(s) : d[(p + q) + k] = s[k]
    BY <1>7 DEF Holds, n
  <2>2. ASSUME NEW k \in 1 .. Len(s) PROVE r[q + k] = s[k]
    <3>1. q + k \in 1 .. n - p /\ p + (q + k) = (p + q) + k
      BY <1>1, <1>7, <2>1
    <3>2. r[q + k] = d[p + (q + k)]
      BY <1>6, <3>1
    <3> QED
      BY <2>1, <3>1, <3>2
  <2>3. q + Len(s) <= n - p
    BY <1>1, <1>7, <2>1
  <2> QED
    BY <1>5, <2>2, <2>3 DEF Holds
<1> QED
  BY <1>4, <1>5, <1>6, <1>7 DEF n, p, r

(* Positions in groups: the quotient and the remainder of k - 1.           *)
LEMMA GroupOf ==
    ASSUME NEW w \in Nat \ {0}, NEW g \in Nat, NEW c \in 0 .. w - 1
    PROVE  (w * g + c) \div w = g /\ (w * g + c) % w = c
<1> DEFINE a == w * g + c
           p == w * g
<1>1. p \in Nat /\ g * w = p
  OBVIOUS
<1> HIDE DEF p
<1>2. a = p + c /\ a \in Nat
  BY <1>1 DEF p
<1> HIDE DEF a
<1>3. a \div w = g
  <2>1. g * w <= a /\ a < g * w + w
    BY <1>1, <1>2
  <2> QED
    BY <1>2, <2>1, DivIs
<1>4. a \div w \in Int /\ a % w \in 0 .. w - 1 /\ a = (a \div w) * w + (a % w)
  <2>1. a \in Int
    BY <1>2
  <2> QED
    BY <2>1, DivRemainder
<1>5. a % w = c
  BY <1>1, <1>2, <1>3, <1>4
<1> QED
  BY <1>3, <1>5 DEF a

(* A position among g groups of w: its group and its place in it.          *)
LEMMA InGroup ==
    ASSUME NEW w \in Nat \ {0}, NEW g \in Nat, NEW k \in 1 .. w * g
    PROVE  /\ (k - 1) \div w \in 0 .. g - 1 /\ (k - 1) % w \in 0 .. w - 1
           /\ k - 1 = w * ((k - 1) \div w) + ((k - 1) % w)
<1> DEFINE a == k - 1
           q == a \div w
           r == a % w
<1>1. a \in Nat /\ w * g \in Nat /\ a < w * g
  OBVIOUS
<1> HIDE DEF a
<1>2. q \in Int /\ r \in 0 .. w - 1 /\ a = q * w + r
  BY <1>1, DivRemainder
<1> HIDE DEF q, r
<1>3. q * w \in Int /\ q * w = w * q /\ g * w = w * g
  BY <1>2
<1>4. 0 <= q
  <2> SUFFICES ASSUME q < 0 PROVE FALSE
    BY <1>2
  <2>1. q * w + w <= 0 * w
    BY <1>2, ProductOrder
  <2> QED
    BY <1>1, <1>2, <1>3, <2>1
<1>5. q < g
  <2> SUFFICES ASSUME g <= q PROVE FALSE
    BY <1>2
  <2>1. CASE g = q
    BY <1>1, <1>2, <1>3, <2>1
  <2>2. CASE g < q
    <3>1. g * w + w <= q * w
      BY <1>2, <2>2, ProductOrder
    <3> QED
      BY <1>1, <1>2, <1>3, <3>1
  <2> QED
    BY <1>2, <2>1, <2>2
<1> QED
  BY <1>2, <1>3, <1>4, <1>5 DEF a, q, r

(* A word's number needs no more than the longest varint.                  *)
LEMMA GroupsIs ==
    ASSUME NEW n \in Nat, n < Pow2[WordBits]
    PROVE  Groups(n) \in 1 .. MaxVarintLen /\ n < Pow2[GroupBits * Groups(n)]
<1> DEFINE T == {m \in 1 .. MaxVarintLen : n < Pow2[GroupBits * m]}
<1>1. MaxVarintLen \in T
  <2>1. GroupBits * MaxVarintLen \in Nat /\ WordBits \in Nat /\ WordBits <= GroupBits * MaxVarintLen
    BY Widths
  <2>2. Pow2[WordBits] <= Pow2[GroupBits * MaxVarintLen] /\ Pow2[WordBits] \in Nat
    BY <2>1, Pow2Order
  <2>3. Pow2[GroupBits * MaxVarintLen] \in Nat
    BY <2>1, Pow2Is
  <2>4. MaxVarintLen \in 1 .. MaxVarintLen
    <3>1. CASE MaxVarintLen = 0
      BY <2>1, <3>1, Widths
    <3> QED
      BY <3>1, Widths
  <2> QED
    BY <2>2, <2>3, <2>4
<1>2. T \in SUBSET Nat
  BY Widths
<1>3. \E x \in T : \A m \in T : x <= m
  <2> HIDE DEF T
  <2> QED
    BY <1>1, <1>2, Least
<1>4. Groups(n) \in T
  BY <1>3, Zenon DEF Groups, Min
<1> QED
  BY <1>4

(* The bits of a varint.                                                   *)
LEMMA UvarintBits ==
    ASSUME NEW n \in Nat, n < Pow2[WordBits]
    PROVE  /\ Uvarint(n) \in Seq(0 .. 1) /\ Len(Uvarint(n)) = ByteBits * Groups(n)
           /\ \A g \in 0 .. Groups(n) - 1 :
                 /\ Uvarint(n)[ByteBits * g + 1] = IF g < Groups(n) - 1 THEN 1 ELSE 0
                 /\ \A c \in 1 .. GroupBits :
                       Uvarint(n)[ByteBits * g + c + 1] = (n \div Pow2[GroupBits * (g + 1) - c]) % 2
<1> DEFINE b == ByteBits
           m == Groups(n)
           u == Uvarint(n)
           e(k) == IF (k - 1) % b = 0
                     THEN IF (k - 1) \div b < m - 1 THEN 1 ELSE 0
                     ELSE (n \div Pow2[GroupBits * (((k - 1) \div b) + 1) - ((k - 1) % b)]) % 2
<1>1. b \in Nat \ {0} /\ GroupBits \in Nat \ {0} /\ GroupBits = b - 1 /\ m \in Nat \ {0}
  BY Widths, GroupsIs
<1>2. u = [k \in 1 .. b * m |-> e(k)]
  BY DEF Uvarint
<1> HIDE DEF b, m
<1>3. b * m \in Nat
  BY <1>1
<1>4. ASSUME NEW k \in 1 .. b * m PROVE e(k) \in 0 .. 1
  <2>1. /\ (k - 1) \div b \in 0 .. m - 1 /\ (k - 1) % b \in 0 .. b - 1
    BY <1>1, InGroup
  <2> DEFINE g == (k - 1) \div b
             c == (k - 1) % b
  <2>2. g \in 0 .. m - 1 /\ c \in 0 .. b - 1
    BY <2>1
  <2> HIDE DEF g, c
  <2>3. GroupBits * (g + 1) - c \in Nat
    <3>1. GroupBits * (g + 1) = GroupBits * g + GroupBits /\ GroupBits * g \in Nat
      BY <1>1, <2>2
    <3> QED
      BY <1>1, <2>2, <3>1
  <2>4. (n \div Pow2[GroupBits * (g + 1) - c]) % 2 \in 0 .. 1
    BY <2>3, PowQuotient
  <2> QED
    BY <2>4 DEF g, c
<1> HIDE DEF e
<1>5. u \in Seq(0 .. 1) /\ Len(u) = b * m
  BY <1>2, <1>3, <1>4, IsASeq
<1>6. ASSUME NEW g \in 0 .. m - 1, NEW c \in 0 .. b - 1
      PROVE  u[b * g + c + 1] = e(b * g + c + 1) /\ (b * g + c) \div b = g /\ (b * g + c) % b = c
             /\ ((b * g + c) + 1) - 1 = b * g + c
  <2>1. b * g + b <= b * m /\ b * g \in Nat
    <3>1. g * b + b <= m * b
      BY <1>1, ProductOrder
    <3> QED
      BY <1>1, <3>1
  <2>2. b * g + c + 1 \in 1 .. b * m
    BY <1>1, <1>3, <2>1
  <2>3. (b * g + c) \div b = g /\ (b * g + c) % b = c
    BY <1>1, GroupOf
  <2>4. ((b * g + c) + 1) - 1 = b * g + c
    BY <2>1
  <2> QED
    BY <1>2, <2>2, <2>3, <2>4
<1>7. ASSUME NEW g \in 0 .. m - 1
      PROVE  u[b * g + 1] = IF g < m - 1 THEN 1 ELSE 0
  <2>1. 0 \in 0 .. b - 1 /\ b * g \in Nat
    BY <1>1
  <2>2. b * g + 0 + 1 = b * g + 1 /\ (b * g + 1) - 1 = b * g + 0
    BY <2>1
  <2>3. u[b * g + 1] = e(b * g + 1) /\ (b * g + 0) \div b = g /\ (b * g + 0) % b = 0
    BY <1>6, <2>1, <2>2
  <2> QED
    BY <2>2, <2>3 DEF e
<1>8. ASSUME NEW g \in 0 .. m - 1, NEW c \in 1 .. GroupBits
      PROVE  u[b * g + c + 1] = (n \div Pow2[GroupBits * (g + 1) - c]) % 2
  <2>1. c \in 0 .. b - 1 /\ c # 0
    BY <1>1
  <2> DEFINE k == (b * g + c) + 1
  <2>2. u[k] = e(k) /\ (b * g + c) \div b = g /\ (b * g + c) % b = c /\ k - 1 = b * g + c
    BY <1>6, <2>1
  <2> HIDE DEF k
  <2>3. (k - 1) \div b = g /\ (k - 1) % b = c
    BY <2>2
  <2>4. e(k) = (n \div Pow2[GroupBits * (g + 1) - c]) % 2
    BY <2>1, <2>3 DEF e
  <2> QED
    BY <2>2, <2>4 DEF k
<1> QED
  BY <1>1, <1>5, <1>7, <1>8 DEF b, m

-----------------------------------------------------------------------------
(* Varints and words come back.                                            *)

(* Uvarint undoes PutUvarint, whatever follows.                            *)
LEMMA ReadsUvarint ==
    ASSUME NEW n \in Nat, n < Pow2[WordBits],
           NEW d \in Seq(0 .. 1), Holds(d, 0, Uvarint(n))
    PROVE  ReadUvarint(d) = [val |-> n, used |-> Groups(n)]
<1> DEFINE b == ByteBits
           m == Groups(n)
           g == GroupBits
           u == Uvarint(n)
           ends == {k \in 0 .. (Len(d) \div b) - 1 : d[b * k + 1] = 0}
<1>1. b \in Nat \ {0, 1} /\ g \in Nat \ {0} /\ g = b - 1 /\ m \in 1 .. MaxVarintLen /\ MaxVarintLen \in Nat
  BY Widths, GroupsIs
<1>2. n < Pow2[g * m]
  BY GroupsIs
<1>3. /\ u \in Seq(0 .. 1) /\ Len(u) = b * m
      /\ \A i \in 0 .. m - 1 :
            /\ u[b * i + 1] = IF i < m - 1 THEN 1 ELSE 0
            /\ \A c \in 1 .. g : u[b * i + c + 1] = (n \div Pow2[g * (i + 1) - c]) % 2
  BY UvarintBits
<1>4. b * m <= Len(d) /\ \A k \in 1 .. b * m : d[k] = u[k]
  <2>1. 0 + Len(u) <= Len(d) /\ \A k \in 1 .. Len(u) : d[0 + k] = u[k]
    BY DEF Holds
  <2>2. b * m \in Nat /\ \A k \in 1 .. b * m : 0 + k = k
    BY <1>1
  <2> HIDE DEF u, m, b
  <2> QED
    BY <1>3, <2>1, <2>2
<1> HIDE DEF b, m, g, u
<1>5. ASSUME NEW i \in 0 .. m - 1, NEW c \in 0 .. g
      PROVE  b * i + c + 1 \in 1 .. b * m
  <2>1. i * b + b <= m * b
    BY <1>1, ProductOrder
  <2>2. i * b = b * i /\ m * b = b * m /\ b * i \in Nat
    BY <1>1
  <2> QED
    BY <1>1, <2>1, <2>2
<1>6. \A i \in 0 .. m - 1 : d[b * i + 1] = IF i < m - 1 THEN 1 ELSE 0
  <2> SUFFICES ASSUME NEW i \in 0 .. m - 1 PROVE d[b * i + 1] = IF i < m - 1 THEN 1 ELSE 0
    OBVIOUS
  <2>1. 0 \in 0 .. g /\ b * i + 0 + 1 = b * i + 1
    BY <1>1
  <2>2. b * i + 1 \in 1 .. b * m
    BY <1>5, <2>1
  <2> QED
    BY <1>3, <1>4, <2>2
<1>7. Min(ends) = m - 1 /\ ends # {}
  <2>1. m <= Len(d) \div b /\ Len(d) \div b \in Int
    <3> DEFINE q == Len(d) \div b
    <3>1. Len(d) \in Nat
      OBVIOUS
    <3>2. q \in Int /\ q * b <= Len(d) /\ Len(d) < q * b + b
      <4>1. q \in Int
        BY <1>1, <3>1, DivRemainder
      <4> QED
        BY <1>1, <3>1, <4>1, DivIs
    <3> HIDE DEF q
    <3>3. CASE q < m
      <4>1. q * b + b <= m * b
        BY <1>1, <3>2, <3>3, ProductOrder
      <4>2. m * b = b * m /\ q * b \in Int /\ m * b \in Int
        BY <1>1, <3>2
      <4> QED
        BY <1>1, <1>4, <3>1, <3>2, <4>1, <4>2
    <3>4. CASE m <= q
      BY <3>2, <3>4 DEF q
    <3> QED
      BY <1>1, <3>2, <3>3, <3>4
  <2>2. m - 1 \in ends
    <3>1. m - 1 \in 0 .. m - 1 /\ ~(m - 1 < m - 1) /\ m - 1 \in 0 .. (Len(d) \div b) - 1
      BY <1>1, <2>1
    <3>2. d[b * (m - 1) + 1] = 0
      BY <1>6, <3>1
    <3> QED
      BY <3>1, <3>2
  <2>3. \A k \in ends : m - 1 <= k
    BY <1>1, <1>6
  <2>4. \A k \in ends : k \in Int
    OBVIOUS
  <2> HIDE DEF ends
  <2>5. Min(ends) \in ends /\ \A k \in ends : Min(ends) <= k
    BY <2>2, <2>3, Zenon DEF Min
  <2> QED
    BY <1>1, <2>2, <2>3, <2>4, <2>5
<1> DEFINE last == Min(ends)
           e(k) == d[b * (last - ((k - 1) \div g)) + ((k - 1) % g) + 2]
           s == [k \in 1 .. g * (last + 1) |-> e(k)]
<1>8. last = m - 1 /\ last + 1 = m
  BY <1>1, <1>7
<1> HIDE DEF ends, last
<1>9. ASSUME NEW k \in 1 .. g * m PROVE e(k) = (n \div Pow2[g * m - k]) % 2 /\ g * m - k \in Nat
  <2> DEFINE q == (k - 1) \div g
             r == (k - 1) % g
             i == last - q
             c == r + 1
  <2>1. q \in 0 .. m - 1 /\ r \in 0 .. g - 1 /\ k - 1 = g * q + r
    <3>1. m \in Nat
      BY <1>1
    <3> QED
      BY <1>1, <3>1, InGroup
  <2> HIDE DEF q, r
  <2>2. i \in 0 .. m - 1 /\ c \in 1 .. g /\ c \in 0 .. g
    BY <1>1, <1>8, <2>1
  <2>3. e(k) = d[b * i + c + 1]
    <3>1. b * i \in Nat
      BY <1>1, <2>2
    <3>2. b * i + r + 2 = b * i + c + 1
      BY <2>1, <3>1
    <3> QED
      BY <3>2 DEF q, r
  <2>4. g * (i + 1) - c = g * m - k
    <3>1. i + 1 = m - q
      BY <1>1, <1>8, <2>1
    <3>2. g * (m - q) = g * m - g * q /\ g * m \in Nat /\ g * q \in Nat
      BY <1>1, <2>1
    <3>3. k = g * q + c
      BY <2>1, <3>2
    <3> QED
      BY <1>1, <2>1, <3>1, <3>2, <3>3
  <2>5. d[b * i + c + 1] = u[b * i + c + 1]
    BY <1>4, <1>5, <2>2
  <2>6. u[b * i + c + 1] = (n \div Pow2[g * (i + 1) - c]) % 2
    BY <1>3, <2>2
  <2>7. g * m \in Nat
    BY <1>1
  <2> HIDE DEF e
  <2> QED
    BY <2>3, <2>4, <2>5, <2>6, <2>7
<1> HIDE DEF e
<1>10. g * m \in Nat /\ s = [k \in 1 .. g * m |-> e(k)]
  BY <1>1, <1>8
<1>11. ASSUME NEW k \in 1 .. g * m PROVE e(k) \in 0 .. 1
  <2>1. (n \div Pow2[g * m - k]) % 2 \in 0 .. 1
    BY <1>9, PowQuotient
  <2> QED
    BY <1>9, <2>1
<1> HIDE DEF s
<1>12. s \in Seq(0 .. 1) /\ Len(s) = g * m
  BY <1>10, <1>11, IsASeq
<1>13. \A k \in 1 .. g * m : s[k] = (n \div Pow2[g * m - k]) % 2
  BY <1>9, <1>10
<1>14. Number(s) = n
  BY <1>2, <1>10, <1>12, <1>13, NumberBits
<1>15. ReadUvarint(d) = IF ends = {} THEN [val |-> 0, used |-> 0]
                        ELSE IF last >= MaxVarintLen \/ Number(s) >= Pow2[WordBits] THEN [val |-> 0, used |-> 0]
                        ELSE [val |-> Number(s), used |-> last + 1]
  BY Zenon DEF ReadUvarint, ends, last, s, e, b, g
<1>16. ~(last >= MaxVarintLen) /\ ~(n >= Pow2[WordBits])
  <2>1. Pow2[WordBits] \in Nat
    BY Widths, Pow2Is
  <2> QED
    BY <1>1, <1>8, <2>1
<1> QED
  BY <1>7, <1>8, <1>14, <1>15, <1>16 DEF m

(* The two halves of the words.                                            *)
LEMMA HalfWord ==
    /\ Pow2[WordBits - 1] \in Nat \ {0} /\ Pow2[WordBits] \in Nat \ {0}
    /\ Pow2[WordBits] = 2 * Pow2[WordBits - 1]
<1>1. WordBits - 1 \in Nat /\ WordBits \in Nat \ {0}
  BY Widths
<1> QED
  BY <1>1, Pow2Is, Pow2Order

(* Signed: the number of a word's range that differs by whole words.       *)
LEMMA SignedIs ==
    ASSUME NEW x \in Int, NEW c \in Int, NEW y \in -Pow2[WordBits - 1] .. Pow2[WordBits - 1] - 1,
           x = y + c * Pow2[WordBits]
    PROVE  Signed(x) = y
<1> DEFINE h == Pow2[WordBits - 1]
           m == Pow2[WordBits]
           a == x + h
<1>1. h \in Nat \ {0} /\ m \in Nat \ {0} /\ m = 2 * h /\ y \in -h .. h - 1 /\ x = y + c * m
  BY HalfWord
<1>2. Signed(x) = (a % m) - h
  BY DEF Signed
<1> HIDE DEF h, m
<1>3. c * m \in Int /\ a \in Int
  BY <1>1
<1>4. c * m <= a /\ a < c * m + m
  BY <1>1, <1>3
<1> HIDE DEF a
<1>5. a \div m = c
  BY <1>1, <1>3, <1>4, DivIs
<1> DEFINE r == a % m
<1>6. r \in 0 .. m - 1 /\ a = c * m + r
  BY <1>1, <1>3, <1>5, DivRemainder
<1> HIDE DEF r
<1>7. r = a - c * m
  BY <1>1, <1>3, <1>6
<1> QED
  BY <1>1, <1>2, <1>3, <1>7 DEF a, r

(* Signed is a timestamp, and the same number modulo a word.               *)
LEMMA SignedRange ==
    ASSUME NEW x \in Int
    PROVE  /\ Signed(x) \in -Pow2[WordBits - 1] .. Pow2[WordBits - 1] - 1
           /\ \E c \in Int : x = Signed(x) + c * Pow2[WordBits]
<1> DEFINE h == Pow2[WordBits - 1]
           m == Pow2[WordBits]
           a == x + h
<1>1. h \in Nat \ {0} /\ m \in Nat \ {0} /\ m = 2 * h
  BY HalfWord
<1>2. Signed(x) = (a % m) - h
  BY DEF Signed
<1> HIDE DEF h, m
<1>3. a \in Int
  BY <1>1
<1>4. a \div m \in Int /\ a % m \in 0 .. m - 1 /\ a = (a \div m) * m + (a % m)
  <2> HIDE DEF a
  <2> QED
    BY <1>1, <1>3, DivRemainder
<1> DEFINE c == a \div m
           r == a % m
<1>5. c \in Int /\ r \in 0 .. m - 1 /\ a = c * m + r /\ Signed(x) = r - h
  BY <1>2, <1>4
<1> HIDE DEF c, r
<1>6. c * m \in Int
  BY <1>1, <1>5
<1>7. Signed(x) \in -h .. h - 1
  BY <1>1, <1>5
<1>8. x = Signed(x) + c * m
  BY <1>1, <1>5, <1>6
<1> QED
  BY <1>5, <1>7, <1>8 DEF h, m

(* A delta leads from one timestamp to the next.                           *)
LEMMA SignedAdd ==
    ASSUME NEW a \in -Pow2[WordBits - 1] .. Pow2[WordBits - 1] - 1,
           NEW z \in -Pow2[WordBits - 1] .. Pow2[WordBits - 1] - 1
    PROVE  Signed(a + Signed(z - a)) = z
<1> DEFINE d == Signed(z - a)
           m == Pow2[WordBits]
<1>0. a \in Int /\ z \in Int /\ m \in Nat /\ z - a \in Int
  BY HalfWord
<1>1. d \in -Pow2[WordBits - 1] .. Pow2[WordBits - 1] - 1
  BY <1>0, SignedRange
<1>2. PICK c \in Int : z - a = d + c * m
  BY <1>0, SignedRange
<1> HIDE DEF d, m
<1>3. d \in Int
  BY <1>1, HalfWord
<1>4. c * m \in Int /\ (-c) * m = -(c * m) /\ -c \in Int
  BY <1>0
<1>5. a + d = z + (-c) * m /\ a + d \in Int
  BY <1>0, <1>2, <1>3, <1>4
<1>6. Signed(a + d) = z
  BY <1>4, <1>5, SignedIs DEF m
<1> QED
  BY <1>6 DEF d

(* A timestamp stored as a word.                                           *)
LEMMA SignedMod ==
    ASSUME NEW z \in -Pow2[WordBits - 1] .. Pow2[WordBits - 1] - 1
    PROVE  z % Pow2[WordBits] \in 0 .. Pow2[WordBits] - 1 /\ Signed(z % Pow2[WordBits]) = z
<1> DEFINE m == Pow2[WordBits]
           c == z \div m
           r == z % m
<1>1. z \in Int /\ m \in Nat \ {0}
  BY HalfWord
<1>2. c \in Int /\ r \in 0 .. m - 1 /\ z = c * m + r
  <2> HIDE DEF m
  <2> QED
    BY <1>1, DivRemainder
<1> HIDE DEF c, r, m
<1>3. c * m \in Int /\ (-c) * m = -(c * m) /\ -c \in Int /\ r \in Int
  BY <1>1, <1>2
<1>4. r = z + (-c) * m
  BY <1>1, <1>2, <1>3
<1>5. Signed(r) = z
  BY <1>3, <1>4, SignedIs DEF m
<1> QED
  BY <1>2, <1>5 DEF m, r

(* Where the bit that stands at k goes when the bytes are swapped.         *)
Swapped(k) == ByteBits * (WordBytes - 1 - ((k - 1) \div ByteBits)) + ((k - 1) % ByteBits) + 1

(* Swapping the bytes is its own inverse.                                  *)
LEMMA SwappedTwice ==
    ASSUME NEW k \in 1 .. WordBits
    PROVE  Swapped(k) \in 1 .. WordBits /\ Swapped(Swapped(k)) = k
<1> DEFINE b == ByteBits
           w == WordBytes
           q == (k - 1) \div b
           r == (k - 1) % b
           p == (w - 1) - q
           j == b * p + r + 1
<1>1. b \in Nat \ {0} /\ w \in Nat \ {0} /\ WordBits = b * w
  BY Widths
<1>2. q \in 0 .. w - 1 /\ r \in 0 .. b - 1 /\ k - 1 = b * q + r
  <2>1. w \in Nat /\ k \in 1 .. b * w
    BY <1>1
  <2> HIDE DEF b, w
  <2> QED
    BY <1>1, <2>1, InGroup
<1>3. Swapped(k) = j
  BY <1>2, Widths DEF Swapped
<1>3a. \A i : Swapped(i) = b * ((w - 1) - ((i - 1) \div b)) + ((i - 1) % b) + 1
  BY Widths DEF Swapped
<1> HIDE DEF b, w, q, r
<1>4. p \in 0 .. w - 1 /\ w - 1 - p = q
  BY <1>1, <1>2
<1> HIDE DEF p
<1>5. (b * p + r) \div b = p /\ (b * p + r) % b = r
  BY <1>1, <1>2, <1>4, GroupOf
<1>6. b * p \in Nat
  BY <1>1, <1>4
<1>7. j - 1 = b * p + r
  BY <1>2, <1>6
<1>8. b * p + b <= b * w
  <2>1. p * b + b <= w * b
    BY <1>1, <1>4, ProductOrder
  <2> QED
    BY <1>1, <1>4, <2>1
<1>9. j \in 1 .. b * w
  BY <1>1, <1>2, <1>6, <1>8
<1> HIDE DEF j
<1>10. (j - 1) \div b = p /\ (j - 1) % b = r
  BY <1>5, <1>7
<1>11. Swapped(j) = b * q + r + 1
  BY <1>3a, <1>4, <1>10
<1>12. k = b * q + r + 1
  <2>1. b * q \in Nat /\ k \in Int
    BY <1>1, <1>2
  <2> QED
    BY <1>2, <2>1
<1> QED
  BY <1>1, <1>3, <1>9, <1>11, <1>12

(* The bits of a number.                                                   *)
LEMMA BitsAre ==
    ASSUME NEW x \in Nat, NEW n \in Nat
    PROVE  /\ Bits(x, n) \in Seq(0 .. 1) /\ Len(Bits(x, n)) = n
           /\ \A k \in 1 .. n : Bits(x, n)[k] = (x \div Pow2[n - k]) % 2
<1> DEFINE e(k) == (x \div Pow2[n - k]) % 2
<1>1. ASSUME NEW k \in 1 .. n PROVE e(k) \in 0 .. 1
  <2>1. n - k \in Nat
    OBVIOUS
  <2> QED
    BY <2>1, PowQuotient
<1>2. Bits(x, n) = [k \in 1 .. n |-> e(k)]
  BY DEF Bits
<1> HIDE DEF e
<1>3. Bits(x, n) \in Seq(0 .. 1) /\ Len(Bits(x, n)) = n
  BY <1>1, <1>2, IsASeq
<1>4. \A k \in 1 .. n : Bits(x, n)[k] = e(k)
  BY <1>2
<1> QED
  BY <1>3, <1>4 DEF e

(* The bytes of a word, the low one first.                                 *)
LEMMA LittleEndianIs ==
    ASSUME NEW s, \A k \in 1 .. WordBits : s[k] \in 0 .. 1
    PROVE  /\ LittleEndian(s) \in Seq(0 .. 1) /\ Len(LittleEndian(s)) = WordBits
           /\ \A k \in 1 .. WordBits : LittleEndian(s)[k] = s[Swapped(k)]
<1> DEFINE e(k) == s[Swapped(k)]
<1>1. ASSUME NEW k \in 1 .. WordBits PROVE e(k) \in 0 .. 1
  BY SwappedTwice
<1>2. LittleEndian(s) = [k \in 1 .. WordBits |-> e(k)]
  BY DEF LittleEndian, Swapped
<1>3. WordBits \in Nat
  BY Widths
<1> HIDE DEF e
<1>4. LittleEndian(s) \in Seq(0 .. 1) /\ Len(LittleEndian(s)) = WordBits
  BY <1>1, <1>2, <1>3, IsASeq
<1>5. \A k \in 1 .. WordBits : LittleEndian(s)[k] = e(k)
  BY <1>2
<1> QED
  BY <1>4, <1>5 DEF e

(* A word takes the bits of a word.                                        *)
LEMMA WordIs ==
    ASSUME NEW x \in 0 .. Pow2[WordBits] - 1
    PROVE  Word(x) \in Seq(0 .. 1) /\ Len(Word(x)) = WordBits
<1>1. x \in Nat /\ WordBits \in Nat
  BY Widths, HalfWord
<1>2. \A k \in 1 .. WordBits : Bits(x, WordBits)[k] \in 0 .. 1
  BY <1>1, BitsAre, ElementOfSeq
<1> QED
  BY <1>2, LittleEndianIs DEF Word

(* Uint64 undoes PutUint64.                                                *)
LEMMA ReadsWord ==
    ASSUME NEW x \in 0 .. Pow2[WordBits] - 1, NEW d \in Seq(0 .. 1), Holds(d, 0, Word(x))
    PROVE  WordAt(d) = x
<1> DEFINE n == WordBits
           t == Bits(x, n)
           s == LittleEndian(d)
<1>1. x \in Nat /\ n \in Nat /\ x < Pow2[n]
  BY Widths, HalfWord
<1>2. t \in Seq(0 .. 1) /\ Len(t) = n /\ \A k \in 1 .. n : t[k] = (x \div Pow2[n - k]) % 2
  <2> HIDE DEF n
  <2> QED
    BY <1>1, BitsAre
<1>3. \A k \in 1 .. n : t[k] \in 0 .. 1
  <2> HIDE DEF t, n
  <2> QED
    BY <1>2, ElementOfSeq
<1>4. Word(x) = LittleEndian(t)
  BY DEF Word
<1> HIDE DEF t
<1>5. /\ Len(Word(x)) = n /\ \A k \in 1 .. n : Word(x)[k] = t[Swapped(k)]
  BY <1>3, <1>4, LittleEndianIs
<1>6. n <= Len(d) /\ \A k \in 1 .. n : d[k] = Word(x)[k]
  <2>1. 0 + Len(Word(x)) <= Len(d) /\ \A k \in 1 .. Len(Word(x)) : d[0 + k] = Word(x)[k]
    BY DEF Holds
  <2>2. \A k \in 1 .. n : 0 + k = k
    OBVIOUS
  <2> HIDE DEF n
  <2> QED
    BY <1>1, <1>5, <2>1, <2>2
<1>7. \A k \in 1 .. n : d[k] \in 0 .. 1
  <2>1. \A k \in 1 .. n : k \in 1 .. Len(d)
    BY <1>1, <1>6
  <2> QED
    BY <2>1, ElementOfSeq
<1>8. s \in Seq(0 .. 1) /\ Len(s) = n /\ \A k \in 1 .. n : s[k] = d[Swapped(k)]
  BY <1>7, LittleEndianIs
<1>9. ASSUME NEW k \in 1 .. n PROVE s[k] = (x \div Pow2[n - k]) % 2
  <2>1. Swapped(k) \in 1 .. n /\ Swapped(Swapped(k)) = k
    BY SwappedTwice
  <2> HIDE DEF n, s
  <2>2. s[k] = t[Swapped(Swapped(k))]
    BY <1>5, <1>6, <1>8, <2>1
  <2> QED
    BY <1>2, <2>1, <2>2
<1>10. WordAt(d) = Number(s)
  BY DEF WordAt
<1> HIDE DEF s, n
<1>11. Number(s) = x
  BY <1>1, <1>8, <1>9, NumberBits
<1> QED
  BY <1>10, <1>11

(* Varint undoes PutVarint, whatever follows.                              *)
ZigZag(x) == IF x >= 0 THEN 2 * x ELSE -2 * x - 1

(* The number that stands for an integer in a varint, and back.            *)
LEMMA ZigZagIs ==
    ASSUME NEW x \in -Pow2[WordBits - 1] .. Pow2[WordBits - 1] - 1
    PROVE  /\ ZigZag(x) \in Nat /\ ZigZag(x) < Pow2[WordBits] /\ Varint(x) = Uvarint(ZigZag(x))
           /\ x = IF ZigZag(x) % 2 = 0 THEN ZigZag(x) \div 2 ELSE -((ZigZag(x) + 1) \div 2)
<1> DEFINE h == Pow2[WordBits - 1]
           m == Pow2[WordBits]
           z == ZigZag(x)
<1>1. h \in Nat \ {0} /\ m \in Nat \ {0} /\ m = 2 * h /\ x \in -h .. h - 1
  BY HalfWord
<1>2. Varint(x) = Uvarint(z)
  BY DEF Varint, ZigZag
<1>3. z = IF x >= 0 THEN 2 * x ELSE -2 * x - 1
  BY DEF ZigZag
<1> HIDE DEF h, m, z
<1>4. z \in Nat /\ z < m
  BY <1>1, <1>3
<1>5. CASE x >= 0
  <2>1. z = 2 * x /\ x \in Nat
    BY <1>1, <1>3, <1>5
  <2>2. z % 2 = 0 /\ z \div 2 = x
    BY <2>1
  <2> QED
    BY <1>2, <1>4, <2>2 DEF z, m
<1>6. CASE ~(x >= 0)
  <2>1. z = 2 * (-x) - 1 /\ -x \in Nat
    BY <1>1, <1>3, <1>6
  <2>2. z % 2 = 1 /\ (z + 1) \div 2 = -x
    BY <2>1
  <2> QED
    BY <1>1, <1>2, <1>4, <2>2 DEF z, m
<1> QED
  BY <1>5, <1>6

(* A varint takes whole bytes.                                             *)
LEMMA VarintIs ==
    ASSUME NEW x \in -Pow2[WordBits - 1] .. Pow2[WordBits - 1] - 1
    PROVE  /\ Varint(x) \in Seq(0 .. 1) /\ Groups(ZigZag(x)) \in 1 .. MaxVarintLen
           /\ Len(Varint(x)) = ByteBits * Groups(ZigZag(x))
  BY ZigZagIs, UvarintBits, GroupsIs

(* binary.Varint returns what binary.PutVarint wrote.                      *)
LEMMA ReadsVarint ==
    ASSUME NEW x \in -Pow2[WordBits - 1] .. Pow2[WordBits - 1] - 1,
           NEW d \in Seq(0 .. 1), Holds(d, 0, Varint(x))
    PROVE  ReadVarint(d) = [val |-> x, used |-> Groups(ZigZag(x))]
<1> DEFINE z == ZigZag(x)
           u == ReadUvarint(d)
<1>1. z \in Nat /\ z < Pow2[WordBits] /\ Holds(d, 0, Uvarint(z))
  BY ZigZagIs
<1> HIDE DEF z
<1>2. u = [val |-> z, used |-> Groups(z)]
  BY <1>1, ReadsUvarint
<1>3. ReadVarint(d) =
          [val |-> IF u.val % 2 = 0 THEN u.val \div 2 ELSE -((u.val + 1) \div 2), used |-> u.used]
  BY DEF ReadVarint
<1> HIDE DEF u
<1>4. ReadVarint(d) = [val |-> IF z % 2 = 0 THEN z \div 2 ELSE -((z + 1) \div 2), used |-> Groups(z)]
  BY <1>2, <1>3
<1>5. x = IF z % 2 = 0 THEN z \div 2 ELSE -((z + 1) \div 2)
  BY ZigZagIs DEF z
<1> QED
  BY <1>4, <1>5 DEF z

-----------------------------------------------------------------------------
(* Version 1: what is written.                                             *)

(* Timestamps, and values as Float64bits.                                  *)
TimeRange == -Pow2[WordBits - 1] .. Pow2[WordBits - 1] - 1
WordRange == 0 .. Pow2[WordBits] - 1

(* A concatenation starts with its first part.                             *)
LEMMA HoldsFirst ==
    ASSUME NEW s \in Seq(0 .. 1), NEW t \in Seq(0 .. 1)
    PROVE  s \o t \in Seq(0 .. 1) /\ Len(s \o t) = Len(s) + Len(t) /\ Holds(s \o t, 0, s)
<1> DEFINE st == s \o t
           m == Len(s)
           n == Len(t)
<1>1. m \in Nat /\ n \in Nat
  OBVIOUS
<1>2. st \in Seq(0 .. 1) /\ Len(st) = m + n /\ \A i \in 1 .. m + n : st[i] = IF i <= m THEN s[i] ELSE t[i - m]
  BY ConcatProperties
<1> HIDE DEF st
<1>3. ASSUME NEW k \in 1 .. m PROVE st[0 + k] = s[k]
  BY <1>1, <1>2
<1>4. 0 + m <= Len(st)
  BY <1>1, <1>2
<1> QED
  BY <1>1, <1>2, <1>3, <1>4 DEF Holds

(* What stands in s stands in what starts with s.                          *)
LEMMA HoldsIn ==
    ASSUME NEW d, NEW s, NEW t, Len(s) \in Nat, Len(t) \in Nat, Len(d) \in Nat,
           Holds(d, 0, s), Holds(s, 0, t)
    PROVE  Holds(d, 0, t)
<1>1. 0 + Len(s) <= Len(d) /\ \A k \in 1 .. Len(s) : d[0 + k] = s[k]
  BY DEF Holds
<1>2. 0 + Len(t) <= Len(s) /\ \A k \in 1 .. Len(t) : s[0 + k] = t[k]
  BY DEF Holds
<1>3. ASSUME NEW k \in 1 .. Len(t) PROVE d[0 + k] = t[k]
  <2>1. k \in 1 .. Len(s) /\ 0 + k = k
    BY <1>2
  <2> QED
    BY <1>1, <1>2, <2>1
<1> QED
  BY <1>1, <1>2, <1>3 DEF Holds

(* The bytes that decodeSeriesAt reads.                                    *)
Window(file, n) == SubSeq(file, 1, Min({Len(file), n}))

(* It starts with what the file starts with.                               *)
LEMMA WindowIs ==
    ASSUME NEW file \in Seq(0 .. 1), NEW n \in Nat
    PROVE  /\ Window(file, n) \in Seq(0 .. 1)
           /\ Len(Window(file, n)) = IF Len(file) <= n THEN Len(file) ELSE n
           /\ \A s : Len(s) \in 0 .. n /\ Holds(file, 0, s) => Holds(Window(file, n), 0, s)
<1> DEFINE m == Min({Len(file), n})
           w == Window(file, n)
<1>1. Len(file) \in Nat
  OBVIOUS
<1>2. m = IF Len(file) <= n THEN Len(file) ELSE n
  <2> DEFINE T == {Len(file), n}
             l == IF Len(file) <= n THEN Len(file) ELSE n
  <2>1. l \in T /\ \A y \in T : l <= y
    BY <1>1
  <2>2. T \subseteq Int
    BY <1>1
  <2> HIDE DEF T, l
  <2>3. Min(T) \in T /\ \A y \in T : Min(T) <= y
    BY <2>1, Zenon DEF Min
  <2>4. Min(T) = l
    <3>1. l \in Int /\ Min(T) \in Int
      BY <2>1, <2>2, <2>3
    <3>2. l <= Min(T) /\ Min(T) <= l
      BY <2>1, <2>3
    <3> QED
      BY <3>1, <3>2
  <2> QED
    BY <2>4 DEF T, l
<1>3. w = SubSeq(file, 1, m)
  BY DEF Window
<1> HIDE DEF m, w
<1>4. m \in Nat /\ m <= Len(file) /\ m <= n
  BY <1>1, <1>2
<1>5. \A i \in 1 .. m : file[i] \in 0 .. 1
  BY <1>1, <1>4, ElementOfSeq
<1>6. /\ w \in Seq(0 .. 1) /\ Len(w) = IF 1 <= m THEN m - 1 + 1 ELSE 0
      /\ \A i \in 1 .. m - 1 + 1 : w[i] = file[1 + i - 1]
  BY <1>3, <1>4, <1>5, SubSeqProperties
<1>7. Len(w) = m /\ \A i \in 1 .. m : w[i] = file[i]
  BY <1>4, <1>6
<1>8. ASSUME NEW s, Len(s) \in 0 .. n, Holds(file, 0, s) PROVE Holds(w, 0, s)
  <2>1. 0 + Len(s) <= Len(file) /\ \A k \in 1 .. Len(s) : file[0 + k] = s[k]
    BY <1>8 DEF Holds
  <2>2. 0 + Len(s) <= m
    BY <1>1, <1>2, <1>8, <2>1
  <2>3. ASSUME NEW k \in 1 .. Len(s) PROVE w[0 + k] = s[k]
    <3>1. k \in 1 .. m /\ 0 + k = k
      BY <1>4, <1>8, <2>2
    <3> QED
      BY <1>7, <2>1, <3>1
  <2> QED
    BY <1>7, <2>2, <2>3 DEF Holds
<1> QED
  BY <1>2, <1>6, <1>7, <1>8 DEF m, w

(* The values, word by word.                                               *)
LEMMA WordsAre ==
    ASSUME NEW vs \in Seq(WordRange)
    PROVE  /\ Words(vs) \in Seq(0 .. 1) /\ Len(Words(vs)) = WordBits * Len(vs)
           /\ \A d \in Seq(0 .. 1), p \in Nat, i \in 1 .. Len(vs) :
                 Holds(d, p, Words(vs)) => Holds(d, p + WordBits * (i - 1), Word(vs[i]))
<1> DEFINE b == WordBits
           n == Len(vs)
           e(k) == Word(vs[((k - 1) \div b) + 1])[((k - 1) % b) + 1]
           ws == Words(vs)
<1>1. b \in Nat \ {0} /\ n \in Nat
  BY Widths
<1>2. ws = [k \in 1 .. b * n |-> e(k)]
  BY DEF Words
<1>3. \A i \in 1 .. n : vs[i] \in WordRange
  BY ElementOfSeq
<1>4. \A i \in 1 .. n : Word(vs[i]) \in Seq(0 .. 1) /\ Len(Word(vs[i])) = b
  BY <1>3, WordIs DEF WordRange
<1> HIDE DEF b, n
<1>5. ASSUME NEW k \in 1 .. b * n PROVE e(k) \in 0 .. 1
  <2> DEFINE q == (k - 1) \div b
             r == (k - 1) % b
  <2>1. q \in 0 .. n - 1 /\ r \in 0 .. b - 1
    BY <1>1, InGroup
  <2> HIDE DEF q, r
  <2>2. q + 1 \in 1 .. n /\ r + 1 \in 1 .. b
    BY <1>1, <2>1
  <2>3. Word(vs[q + 1])[r + 1] \in 0 .. 1
    BY <1>4, <2>2, ElementOfSeq
  <2> QED
    BY <2>3 DEF q, r
<1>6. b * n \in Nat
  BY <1>1
<1>7. ASSUME NEW i \in 1 .. n, NEW k \in 1 .. b
      PROVE  ws[b * (i - 1) + k] = Word(vs[i])[k] /\ b * (i - 1) + k \in 1 .. b * n
  <2> DEFINE g == i - 1
             c == k - 1
             j == b * g + k
  <2>1. g \in 0 .. n - 1 /\ c \in 0 .. b - 1 /\ g + 1 = i /\ c + 1 = k
    BY <1>1
  <2>2. b * g \in Nat /\ b * g + b <= b * n
    <3>1. g * b + b <= n * b
      BY <1>1, <2>1, ProductOrder
    <3> QED
      BY <1>1, <2>1, <3>1
  <2>3. (b * g + c) \div b = g /\ (b * g + c) % b = c
    <3>1. g \in Nat
      BY <1>1, <2>1
    <3> HIDE DEF g, c
    <3> QED
      BY <1>1, <2>1, <3>1, GroupOf
  <2>4. j - 1 = b * g + c /\ j \in 1 .. b * n
    BY <1>1, <2>1, <2>2
  <2> HIDE DEF g, c, j
  <2>5. e(j) = Word(vs[i])[k]
    BY <2>1, <2>3, <2>4
  <2>6. ws[j] = e(j)
    BY <1>2, <2>4
  <2> HIDE DEF e
  <2> QED
    BY <2>4, <2>5, <2>6 DEF g, j
<1> HIDE DEF e
<1>8. ws \in Seq(0 .. 1) /\ Len(ws) = b * n
  BY <1>2, <1>5, <1>6, IsASeq
<1> HIDE DEF ws
<1>9. ASSUME NEW d \in Seq(0 .. 1), NEW p \in Nat, NEW i \in 1 .. n, Holds(d, p, ws)
      PROVE  Holds(d, p + b * (i - 1), Word(vs[i]))
  <2> DEFINE g == b * (i - 1)
  <2>0. p + b * n <= Len(d) /\ \A k \in 1 .. b * n : d[p + k] = ws[k]
    BY <1>8, <1>9 DEF Holds
  <2>1. g \in Nat /\ \A k \in 1 .. b : ws[g + k] = Word(vs[i])[k] /\ g + k \in 1 .. b * n
    BY <1>1, <1>7
  <2>2. Len(Word(vs[i])) = b
    BY <1>4
  <2> HIDE DEF g
  <2>3. ASSUME NEW k \in 1 .. b PROVE d[(p + g) + k] = Word(vs[i])[k]
    <3>1. (p + g) + k = p + (g + k)
      BY <1>1, <2>1
    <3> QED
      BY <2>0, <2>1, <3>1
  <2>4. g + b \in 1 .. b * n
    <3>1. b \in 1 .. b
      BY <1>1
    <3> QED
      BY <2>1, <3>1
  <2>5. (p + g) + b <= Len(d)
    BY <1>1, <1>6, <2>0, <2>1, <2>4
  <2> QED
    BY <2>1, <2>2, <2>3, <2>5 DEF Holds, g
<1> QED
  BY <1>8, <1>9 DEF b, n, ws

(* A recursive function over 1 .. n, from where its first values come.     *)
IsBuffer(B, ts) ==
    /\ B \in [1 .. Len(ts) -> Seq(0 .. 1)] /\ B[1] = Word(ts[1] % Pow2[WordBits])
    /\ \A i \in 2 .. Len(ts) : B[i] = B[i - 1] \o Varint(Delta(ts, i))

(* A delta leads from one timestamp to the next, wrapping as int64 does.   *)
LEMMA DeltaRange ==
    ASSUME NEW ts \in Seq(TimeRange), NEW i \in 2 .. Len(ts)
    PROVE  Delta(ts, i) \in TimeRange /\ ts[i] \in TimeRange /\ ts[i - 1] \in TimeRange
           /\ Signed(ts[i - 1] + Delta(ts, i)) = ts[i]
<1>1. ts[i] \in TimeRange /\ ts[i - 1] \in TimeRange
  <2>1. i \in 1 .. Len(ts) /\ i - 1 \in 1 .. Len(ts)
    OBVIOUS
  <2> QED
    BY <2>1, ElementOfSeq
<1>2. ts[i] - ts[i - 1] \in Int
  BY <1>1, HalfWord DEF TimeRange
<1> QED
  BY <1>1, <1>2, SignedRange, SignedAdd DEF Delta, TimeRange

(* The encoder's buffer.                                                   *)
LEMMA BufferV1 ==
    ASSUME NEW ts \in Seq(TimeRange), ts # <<>>, NEW vs
    PROVE  \E B : IsBuffer(B, ts) /\ EncodeV1(ts, vs) = B[Len(ts)] \o Words(vs)
<1> DEFINE n == Len(ts)
           head == Word(ts[1] % Pow2[WordBits])
           code(i) == Varint(Delta(ts, i))
           G == [k \in 1 .. n - 1 |-> [s \in Seq(0 .. 1) |-> s \o code(k + 1)]]
           B == CHOOSE f : f = [i \in 1 .. n |-> IF i = 1 THEN head ELSE f[i - 1] \o code(i)]
<1>1. n \in Nat \ {0} /\ n - 1 \in Nat
  BY EmptySeq
<1>2. head \in Seq(0 .. 1)
  <2>1. 1 \in 1 .. Len(ts)
    BY <1>1
  <2>2. ts[1] \in TimeRange
    BY <2>1, ElementOfSeq
  <2> QED
    BY <2>2, SignedMod, WordIs DEF TimeRange
<1>3. \A i \in 2 .. n : code(i) \in Seq(0 .. 1)
  BY DeltaRange, VarintIs DEF TimeRange
<1>4. EncodeV1(ts, vs) = B[n] \o Words(vs)
  BY Zenon DEF EncodeV1, B, n, head, code
<1> HIDE DEF n, head, code
<1>5. ASSUME NEW k \in 1 .. n - 1, NEW s \in Seq(0 .. 1)
      PROVE  G[k][s] = s \o code(k + 1) /\ G[k][s] \in Seq(0 .. 1)
  <2>1. code(k + 1) \in Seq(0 .. 1)
    <3>1. k + 1 \in 2 .. n
      BY <1>1
    <3> QED
      BY <1>3, <3>1
  <2>2. s \o code(k + 1) \in Seq(0 .. 1)
    BY <2>1, ConcatProperties
  <2> QED
    BY <2>2
<1>6. PICK f : IsLoop(f, n - 1, Seq(0 .. 1), head, G)
  <2> HIDE DEF G
  <2> QED
    BY <1>1, <1>2, <1>5, LoopExists
<1>7. f \in [0 .. n - 1 -> Seq(0 .. 1)] /\ f[0] = head
  BY <1>6 DEF IsLoop
<1>8. ASSUME NEW i \in 2 .. n PROVE f[i - 1] = f[(i - 1) - 1] \o code(i)
  <2> DEFINE k == i - 1
  <2>1. k \in 1 .. n - 1 /\ k + 1 = i
    BY <1>1
  <2> HIDE DEF k, G
  <2>2. f[k - 1] \in Seq(0 .. 1) /\ f[k] = G[k][f[k - 1]]
    BY <1>1, <1>6, <2>1, LoopRound
  <2>3. f[k] = f[k - 1] \o code(i)
    BY <1>5, <2>1, <2>2
  <2> QED
    BY <2>3 DEF k
<1> HIDE DEF G
<1> DEFINE g == [i \in 1 .. n |-> f[i - 1]]
<1>9. g = [i \in 1 .. n |-> IF i = 1 THEN head ELSE g[i - 1] \o code(i)]
  <2>1. ASSUME NEW i \in 1 .. n PROVE g[i] = IF i = 1 THEN head ELSE g[i - 1] \o code(i)
    <3>1. CASE i = 1
      BY <1>7, <3>1
    <3>2. CASE i # 1
      <4>1. i \in 2 .. n /\ i - 1 \in 1 .. n
        BY <1>1, <3>2
      <4>2. g[i] = f[i - 1] /\ g[i - 1] = f[(i - 1) - 1]
        BY <4>1
      <4> HIDE DEF g
      <4> QED
        BY <1>8, <3>2, <4>1, <4>2
    <3> QED
      BY <3>1, <3>2
  <2> QED
    BY <2>1
<1> HIDE DEF g
<1>10. B = [i \in 1 .. n |-> IF i = 1 THEN head ELSE B[i - 1] \o code(i)]
  BY <1>9, Zenon
<1> HIDE DEF B
<1>11. B[1] = head
  BY <1>1, <1>10
<1>12. \A i \in 2 .. n : B[i] = B[i - 1] \o code(i)
  <2> SUFFICES ASSUME NEW i \in 2 .. n PROVE B[i] = B[i - 1] \o code(i)
    OBVIOUS
  <2>1. i \in 1 .. n /\ i # 1
    BY <1>1
  <2>2. B[i] = IF i = 1 THEN head ELSE B[i - 1] \o code(i)
    BY <1>10, <2>1, Zenon
  <2> QED
    BY <2>1, <2>2
<1> DEFINE T == {k \in 0 .. n - 1 : B[k + 1] \in Seq(0 .. 1)}
<1>13. 0 \in T
  BY <1>1, <1>2, <1>11
<1>14. ASSUME NEW k \in 1 .. n - 1, k - 1 \in T PROVE k \in T
  <2>1. k + 1 \in 2 .. n /\ (k + 1) - 1 = k /\ (k - 1) + 1 = k
    BY <1>1
  <2>2. B[k] \in Seq(0 .. 1)
    BY <1>14, <2>1
  <2>3. B[k + 1] = B[k] \o code(k + 1) /\ code(k + 1) \in Seq(0 .. 1)
    BY <1>3, <1>12, <2>1
  <2>4. B[k + 1] \in Seq(0 .. 1)
    BY <2>2, <2>3, ConcatProperties
  <2> QED
    BY <2>4
<1> HIDE DEF T
<1>15. \A k \in 0 .. n - 1 : k \in T
  BY <1>1, <1>13, <1>14, UpTo
<1>16. \A i \in 1 .. n : B[i] \in Seq(0 .. 1)
  <2> SUFFICES ASSUME NEW i \in 1 .. n PROVE B[i] \in Seq(0 .. 1)
    OBVIOUS
  <2>1. i - 1 \in 0 .. n - 1 /\ (i - 1) + 1 = i
    BY <1>1
  <2>2. B[(i - 1) + 1] \in Seq(0 .. 1)
    BY <1>15, <2>1 DEF T
  <2> QED
    BY <2>1, <2>2
<1>17. B \in [1 .. n -> Seq(0 .. 1)]
  BY <1>10, <1>16
<1>18. IsBuffer(B, ts)
  BY <1>11, <1>12, <1>17 DEF IsBuffer, n, head, code
<1> QED
  BY <1>4, <1>18 DEF n

(* The offsets of the deltas, in bytes.                                    *)
Offset(B, i) == Len(B[i]) \div ByteBits
Used(ts, i) == Groups(ZigZag(Delta(ts, i)))

(* Whole bytes have no remainder.                                          *)
LEMMA MultipleOfBytes ==
    ASSUME NEW m \in Nat
    PROVE  (ByteBits * m) \div ByteBits = m /\ (ByteBits * m) % ByteBits = 0
<1>1. ByteBits \in Nat \ {0} /\ 0 \in 0 .. ByteBits - 1
  BY Widths
<1>2. ByteBits * m + 0 = ByteBits * m
  BY <1>1
<1>3. (ByteBits * m + 0) \div ByteBits = m /\ (ByteBits * m + 0) % ByteBits = 0
  BY <1>1, GroupOf
<1> QED
  BY <1>2, <1>3

(* Every delta takes at most the bytes that MaxSize grants it.             *)
LEMMA Offsets ==
    ASSUME NEW ts \in Seq(TimeRange), ts # <<>>, NEW B, IsBuffer(B, ts)
    PROVE  /\ \A i \in 1 .. Len(ts) :
                 /\ Offset(B, i) \in Nat /\ Len(B[i]) = ByteBits * Offset(B, i)
                 /\ Offset(B, i) <= WordBytes + 2 * WordBytes * (i - 1)
           /\ Offset(B, 1) = WordBytes
           /\ \A i \in 2 .. Len(ts) : Offset(B, i) = Offset(B, i - 1) + Used(ts, i)
<1> DEFINE n == Len(ts)
           w == WordBytes
           OK(i) == /\ Offset(B, i) \in Nat /\ Len(B[i]) = ByteBits * Offset(B, i)
                    /\ Offset(B, i) <= w + 2 * w * (i - 1)
           T == {k \in 0 .. n - 1 : OK(k + 1)}
<1>1. n \in Nat \ {0} /\ n - 1 \in Nat /\ ByteBits \in Nat \ {0} /\ w \in Nat \ {0}
  BY EmptySeq, Widths
<1>2. /\ B \in [1 .. n -> Seq(0 .. 1)] /\ B[1] = Word(ts[1] % Pow2[WordBits])
      /\ \A i \in 2 .. n : B[i] = B[i - 1] \o Varint(Delta(ts, i))
  BY DEF IsBuffer
<1>3. Offset(B, 1) = w /\ OK(1)
  <2>1. 1 \in 1 .. Len(ts)
    BY <1>1
  <2>2. ts[1] \in TimeRange
    BY <2>1, ElementOfSeq
  <2>3. Len(B[1]) = WordBits
    BY <1>2, <2>2, SignedMod, WordIs DEF TimeRange
  <2>4. Len(B[1]) = ByteBits * w
    BY <2>3, Widths
  <2>5. Offset(B, 1) = w
    BY <1>1, <2>4, MultipleOfBytes DEF Offset
  <2>6. w <= w + 2 * w * (1 - 1)
    BY <1>1
  <2> QED
    BY <1>1, <2>4, <2>5, <2>6
<1>4. ASSUME NEW i \in 2 .. n, OK(i - 1) PROVE Offset(B, i) = Offset(B, i - 1) + Used(ts, i) /\ OK(i)
  <2> DEFINE u == Used(ts, i)
             v == Varint(Delta(ts, i))
             o == Offset(B, i - 1)
  <2>1. v \in Seq(0 .. 1) /\ u \in 1 .. MaxVarintLen /\ Len(v) = ByteBits * u
    BY DeltaRange, VarintIs DEF TimeRange, Used
  <2>2. B[i - 1] \in Seq(0 .. 1) /\ B[i] = B[i - 1] \o v
    <3>1. i - 1 \in 1 .. n
      BY <1>1
    <3> QED
      BY <1>2, <3>1
  <2> HIDE DEF v, u
  <2>3. Len(B[i]) = Len(B[i - 1]) + Len(v)
    BY <2>1, <2>2, ConcatProperties
  <2>4. o \in Nat /\ Len(B[i - 1]) = ByteBits * o /\ o <= w + 2 * w * ((i - 1) - 1)
    BY <1>4
  <2> HIDE DEF o
  <2>5. u \in Nat /\ u <= 2 * w
    BY <1>1, <2>1, Widths
  <2>6. Len(B[i]) = ByteBits * (o + u) /\ o + u \in Nat
    <3>1. ByteBits * (o + u) = ByteBits * o + ByteBits * u
      BY <1>1, <2>4, <2>5
    <3> QED
      BY <2>1, <2>3, <2>4, <2>5, <3>1
  <2>7. Offset(B, i) = o + u
    BY <2>6, MultipleOfBytes DEF Offset
  <2>8. o + u <= w + 2 * w * (i - 1)
    <3> DEFINE a == 2 * w
    <3>1. a \in Nat
      BY <1>1
    <3>2. a * (i - 1) = a * ((i - 1) - 1) + a
      BY <3>1
    <3>3. a * ((i - 1) - 1) \in Nat
      BY <3>1
    <3> QED
      BY <1>1, <2>4, <2>5, <3>1, <3>2, <3>3
  <2> QED
    BY <2>6, <2>7, <2>8 DEF o, u
<1> HIDE DEF n, w
<1>5. 0 \in T
  BY <1>1, <1>3
<1>6. ASSUME NEW k \in 1 .. n - 1, k - 1 \in T PROVE k \in T
  <2>1. k + 1 \in 2 .. n /\ (k + 1) - 1 = k /\ (k - 1) + 1 = k
    BY <1>1
  <2>2. OK(k)
    BY <1>6, <2>1
  <2> HIDE DEF OK
  <2>3. OK(k + 1)
    BY <1>4, <2>1, <2>2
  <2> QED
    BY <2>3
<1> HIDE DEF T
<1>7. \A k \in 0 .. n - 1 : k \in T
  BY <1>1, <1>5, <1>6, UpTo
<1> HIDE DEF OK
<1>8. ASSUME NEW i \in 1 .. n PROVE OK(i)
  <2>1. i - 1 \in 0 .. n - 1 /\ (i - 1) + 1 = i
    BY <1>1
  <2>2. OK((i - 1) + 1)
    BY <1>7, <2>1 DEF T
  <2> QED
    BY <2>1, <2>2
<1>9. ASSUME NEW i \in 2 .. n PROVE Offset(B, i) = Offset(B, i - 1) + Used(ts, i)
  <2>1. i - 1 \in 1 .. n
    BY <1>1
  <2> QED
    BY <1>4, <1>8, <2>1
<1> QED
  BY <1>3, <1>8, <1>9 DEF OK, n, w

-----------------------------------------------------------------------------
(* Version 1: what is read.                                                *)

(* Everything the encoder wrote stands where it wrote it.                  *)
LEMMA BufferHolds ==
    ASSUME NEW ts \in Seq(TimeRange), ts # <<>>, NEW B, IsBuffer(B, ts),
           NEW d \in Seq(0 .. 1), Holds(d, 0, B[Len(ts)])
    PROVE  /\ Holds(d, 0, Word(ts[1] % Pow2[WordBits]))
           /\ \A i \in 2 .. Len(ts) : Holds(d, ByteBits * Offset(B, i - 1), Varint(Delta(ts, i)))
<1> DEFINE n == Len(ts)
           v(i) == Varint(Delta(ts, i))
           T == {k \in 0 .. n - 1 : Holds(d, 0, B[n - k])}
<1>1. n \in Nat \ {0} /\ n - 1 \in Nat
  BY EmptySeq
<1>2. /\ B \in [1 .. n -> Seq(0 .. 1)] /\ B[1] = Word(ts[1] % Pow2[WordBits])
      /\ \A i \in 2 .. n : B[i] = B[i - 1] \o v(i)
  BY DEF IsBuffer
<1>3. \A i \in 2 .. n : v(i) \in Seq(0 .. 1)
  BY DeltaRange, VarintIs DEF TimeRange
<1>4. Holds(d, 0, B[n])
  OBVIOUS
<1>4a. \A i \in 1 .. n : Len(B[i]) = ByteBits * Offset(B, i)
  BY Offsets
<1> HIDE DEF n, v
<1>5. ASSUME NEW i \in 2 .. n, Holds(d, 0, B[i])
      PROVE  Holds(d, 0, B[i - 1]) /\ Holds(d, ByteBits * Offset(B, i - 1), v(i))
  <2>1. B[i - 1] \in Seq(0 .. 1) /\ B[i] = B[i - 1] \o v(i) /\ v(i) \in Seq(0 .. 1)
        /\ Len(B[i - 1]) = ByteBits * Offset(B, i - 1)
    <3>1. i - 1 \in 1 .. n
      BY <1>1
    <3> QED
      BY <1>2, <1>3, <1>4a, <3>1
  <2>2. Holds(d, 0, B[i - 1]) /\ Holds(d, 0 + Len(B[i - 1]), v(i))
    BY <1>5, <2>1, HoldsConcat
  <2>3. 0 + Len(B[i - 1]) = Len(B[i - 1])
    BY <2>1
  <2> QED
    BY <2>1, <2>2, <2>3
<1>6. 0 \in T
  BY <1>1, <1>4
<1>7. ASSUME NEW k \in 1 .. n - 1, k - 1 \in T PROVE k \in T
  <2>1. n - (k - 1) \in 2 .. n /\ (n - (k - 1)) - 1 = n - k
    BY <1>1
  <2>2. Holds(d, 0, B[n - (k - 1)])
    BY <1>7
  <2>3. Holds(d, 0, B[n - k])
    BY <1>5, <2>1, <2>2
  <2> QED
    BY <2>3
<1> HIDE DEF T
<1>8. \A k \in 0 .. n - 1 : k \in T
  BY <1>1, <1>6, <1>7, UpTo
<1>9. ASSUME NEW i \in 1 .. n PROVE Holds(d, 0, B[i])
  <2>1. n - i \in 0 .. n - 1 /\ n - (n - i) = i
    BY <1>1
  <2>2. Holds(d, 0, B[n - (n - i)])
    BY <1>8, <2>1 DEF T
  <2> QED
    BY <2>1, <2>2
<1>10. Holds(d, 0, B[1])
  BY <1>1, <1>9
<1>11. \A i \in 2 .. n : Holds(d, ByteBits * Offset(B, i - 1), v(i))
  <2> SUFFICES ASSUME NEW i \in 2 .. n PROVE Holds(d, ByteBits * Offset(B, i - 1), v(i))
    OBVIOUS
  <2>1. i \in 1 .. n
    BY <1>1
  <2> QED
    BY <1>5, <1>9, <2>1
<1> QED
  BY <1>2, <1>10, <1>11 DEF n, v

(* The decoder finds what the encoder's buffer holds, timestamp by         *)
(* timestamp.                                                              *)
LEMMA ReadsDeltas ==
    ASSUME NEW ts \in Seq(TimeRange), ts # <<>>, NEW B, IsBuffer(B, ts),
           NEW d \in Seq(0 .. 1), Holds(d, 0, B[Len(ts)])
    PROVE  \A i \in 1 .. Len(ts) :
              ReadDeltas(d, Len(ts))[i] = [ok |-> TRUE, off |-> Offset(B, i), t |-> ts[i]]
<1> DEFINE n == Len(ts)
           first == [ok |-> TRUE, off |-> WordBytes, t |-> Signed(WordAt(d))]
           next(r) == LET v == ReadVarint(From(d, r.off))
                      IN  IF r.ok /\ v.used > 0
                            THEN [ok |-> TRUE, off |-> r.off + v.used, t |-> Signed(r.t + v.val)]
                            ELSE [r EXCEPT !.ok = FALSE]
           state(i) == [ok |-> TRUE, off |-> Offset(B, i), t |-> ts[i]]
           R == CHOOSE f : f = [i \in 1 .. n |-> IF i = 1 THEN first ELSE next(f[i - 1])]
<1>1. n \in Nat \ {0} /\ n - 1 \in Nat
  BY EmptySeq
<1>2. ReadDeltas(d, n) = R
  BY Zenon DEF ReadDeltas, R, first, next
<1>3. first = state(1)
  <2>1. 1 \in 1 .. Len(ts)
    BY <1>1
  <2>2. ts[1] \in TimeRange
    BY <2>1, ElementOfSeq
  <2>3. Holds(d, 0, Word(ts[1] % Pow2[WordBits]))
    BY BufferHolds
  <2>4. ts[1] % Pow2[WordBits] \in 0 .. Pow2[WordBits] - 1 /\ Signed(ts[1] % Pow2[WordBits]) = ts[1]
    BY <2>2, SignedMod DEF TimeRange
  <2>5. WordAt(d) = ts[1] % Pow2[WordBits]
    BY <2>3, <2>4, ReadsWord
  <2>6. Offset(B, 1) = WordBytes
    BY Offsets
  <2> QED
    BY <2>4, <2>5, <2>6
<1>4. ASSUME NEW i \in 2 .. n PROVE next(state(i - 1)) = state(i)
  <2> DEFINE v == ReadVarint(From(d, Offset(B, i - 1)))
             o == Offset(B, i - 1)
             u == Used(ts, i)
             x == Delta(ts, i)
  <2>1. o \in Nat
    <3>1. i - 1 \in 1 .. n
      BY <1>1
    <3> QED
      BY <3>1, Offsets
  <2>2. x \in TimeRange /\ Signed(ts[i - 1] + x) = ts[i]
    BY DeltaRange
  <2>3. Holds(d, ByteBits * o, Varint(x))
    BY BufferHolds
  <2>4. Varint(x) \in Seq(0 .. 1) /\ u \in 1 .. MaxVarintLen /\ Len(Varint(x)) \in Nat
    BY <2>2, VarintIs DEF TimeRange, Used
  <2>5. Offset(B, i) = o + u
    BY Offsets
  <2>6. v = [val |-> x, used |-> u]
    <3> HIDE DEF o, x
    <3>1. ByteBits * o \in Nat /\ ByteBits * o + 0 = ByteBits * o
      BY <2>1, Widths
    <3>2. ByteBits * o <= Len(d) /\ Holds(d, ByteBits * o + 0, Varint(x))
      <4>1. ByteBits * o + Len(Varint(x)) <= Len(d) /\ Len(d) \in Nat
        BY <2>3 DEF Holds
      <4> QED
        BY <2>3, <2>4, <3>1, <4>1
    <3>3. From(d, o) \in Seq(0 .. 1) /\ Holds(From(d, o), 0, Varint(x))
      BY <2>1, <2>4, <3>2, HoldsFrom
    <3>4. ReadVarint(From(d, o)) = [val |-> x, used |-> Groups(ZigZag(x))]
      BY <2>2, <3>3, ReadsVarint DEF TimeRange
    <3> QED
      BY <3>4 DEF o, x, Used
  <2>7. MaxVarintLen \in Nat
    BY Widths
  <2> HIDE DEF v, u, x
  <2>8. u > 0
    BY <2>4, <2>7
  <2>9. next(state(i - 1)) = [ok |-> TRUE, off |-> o + v.used, t |-> Signed(ts[i - 1] + v.val)]
    BY <2>6, <2>8 DEF v
  <2> HIDE DEF next
  <2> QED
    BY <2>2, <2>5, <2>6, <2>9
<1> HIDE DEF n, first, next, state
<1> DEFINE g == [i \in 1 .. n |-> state(i)]
<1>5. g = [i \in 1 .. n |-> IF i = 1 THEN first ELSE next(g[i - 1])]
  <2>1. ASSUME NEW i \in 1 .. n PROVE g[i] = IF i = 1 THEN first ELSE next(g[i - 1])
    <3>1. CASE i = 1
      BY <1>3, <3>1
    <3>2. CASE i # 1
      <4>1. i \in 2 .. n /\ i - 1 \in 1 .. n
        BY <1>1, <3>2
      <4> QED
        BY <1>4, <3>2, <4>1
    <3> QED
      BY <3>1, <3>2
  <2> QED
    BY <2>1
<1> HIDE DEF g
<1>6. R = [i \in 1 .. n |-> IF i = 1 THEN first ELSE next(R[i - 1])]
  BY <1>5, Zenon
<1> HIDE DEF R
<1> DEFINE T == {k \in 0 .. n - 1 : R[k + 1] = state(k + 1)}
<1>7. 0 \in T
  BY <1>1, <1>3, <1>6
<1>8. ASSUME NEW k \in 1 .. n - 1, k - 1 \in T PROVE k \in T
  <2>1. k + 1 \in 2 .. n /\ k + 1 \in 1 .. n /\ k + 1 # 1 /\ (k + 1) - 1 = k /\ (k - 1) + 1 = k
    BY <1>1
  <2>2. R[k] = state(k)
    BY <1>8, <2>1
  <2>3. R[k + 1] = next(R[k])
    BY <1>6, <2>1
  <2>4. R[k + 1] = state(k + 1)
    BY <1>4, <2>1, <2>2, <2>3
  <2> QED
    BY <2>4
<1> HIDE DEF T
<1>9. \A k \in 0 .. n - 1 : k \in T
  BY <1>1, <1>7, <1>8, UpTo
<1>10. ASSUME NEW i \in 1 .. n PROVE R[i] = state(i)
  <2>1. i - 1 \in 0 .. n - 1 /\ (i - 1) + 1 = i
    BY <1>1
  <2>2. R[(i - 1) + 1] = state((i - 1) + 1)
    BY <1>9, <2>1 DEF T
  <2> QED
    BY <2>1, <2>2
<1> QED
  BY <1>2, <1>10 DEF n, state

(* Version 1: what is read of the series, whatever follows it.             *)
LEMMA V1Reads ==
    ASSUME NEW ts \in Seq(TimeRange), ts # <<>>, NEW vs \in Seq(WordRange), Len(vs) = Len(ts),
           NEW rest \in Seq(0 .. 1)
    PROVE  DecodeSeriesAt(1, EncodeV1(ts, vs) \o rest, Len(ts)) =
               IF Len(EncodeV1(ts, vs)) <= ByteBits * MaxSize(1, Len(ts))
                 THEN Decoded([i \in 1 .. Len(ts) |-> [t |-> ts[i], v |-> vs[i]]]) ELSE Panic
<1> DEFINE n == Len(ts)
           e == EncodeV1(ts, vs)
           max == ByteBits * MaxSize(1, n)
           d == Window(e \o rest, max)
           ws == Words(vs)
           b == ByteBits
           w == WordBytes
<1>1. n \in Nat \ {0} /\ b \in Nat \ {0} /\ w \in Nat \ {0} /\ WordBits = b * w
  BY EmptySeq, Widths
<1>2. PICK B : IsBuffer(B, ts) /\ e = B[n] \o ws
  BY BufferV1
<1> DEFINE o == Offset(B, n)
<1>3. B[n] \in Seq(0 .. 1) /\ Len(B[n]) = b * o /\ o \in Nat /\ o <= w + 2 * w * (n - 1) /\ w <= o
  <2>1. n \in 1 .. n /\ B \in [1 .. n -> Seq(0 .. 1)]
    BY <1>1, <1>2 DEF IsBuffer
  <2>2. Len(B[n]) = b * o /\ o \in Nat /\ o <= w + 2 * w * (n - 1)
    BY <1>2, <2>1, Offsets
  <2>3. w <= o
    <3> DEFINE T == {k \in 0 .. n - 1 : w <= Offset(B, k + 1)}
    <3>1. 0 \in T
      <4>1. Offset(B, 1) = w
        BY <1>2, Offsets
      <4> QED
        BY <1>1, <4>1
    <3>2. ASSUME NEW k \in 1 .. n - 1, k - 1 \in T PROVE k \in T
      <4>1. k + 1 \in 2 .. n /\ k + 1 \in 1 .. n /\ k \in 1 .. n /\ (k + 1) - 1 = k /\ (k - 1) + 1 = k
        BY <1>1
      <4>2. Offset(B, k + 1) = Offset(B, k) + Used(ts, k + 1) /\ Offset(B, k) \in Nat
        BY <1>2, <4>1, Offsets
      <4>3. Used(ts, k + 1) \in Nat
        BY <4>1, DeltaRange, VarintIs, Widths DEF TimeRange, Used
      <4>4. w <= Offset(B, k)
        BY <3>2, <4>1
      <4> QED
        BY <1>1, <4>2, <4>3, <4>4
    <3> HIDE DEF T
    <3>3. n - 1 \in T
      <4>1. n - 1 \in Nat /\ n - 1 \in 0 .. n - 1
        BY <1>1
      <4> HIDE DEF n
      <4> QED
        BY <3>1, <3>2, <4>1, UpTo
    <3>4. (n - 1) + 1 = n
      BY <1>1
    <3> QED
      BY <3>3, <3>4 DEF T
  <2> QED
    BY <2>1, <2>2, <2>3
<1>4. ws \in Seq(0 .. 1) /\ Len(ws) = WordBits * n
  BY WordsAre
<1>5. e \in Seq(0 .. 1) /\ Len(e) = b * o + WordBits * n /\ Holds(e, 0, B[n])
  <2> HIDE DEF e, ws, n, b, o
  <2> QED
    BY <1>2, <1>3, <1>4, HoldsFirst
<1>6. max = b * (w + 2 * w * n) /\ max \in Nat
  <2>1. max = b * (w + 2 * w * n)
    BY DEF MaxSize
  <2>2. w + 2 * w * n \in Nat
    BY <1>1
  <2> QED
    BY <1>1, <2>1, <2>2
<1>7. DecodeSeriesAt(1, e \o rest, n) = DecodePoints(d, n)
  <2>1. ~(1 >= 2)
    OBVIOUS
  <2> QED
    BY <2>1, Zenon DEF DecodeSeriesAt, Window
<1> HIDE DEF e, max, d, ws, n, b, w, o
<1>8. e \o rest \in Seq(0 .. 1) /\ Len(e \o rest) = Len(e) + Len(rest) /\ Holds(e \o rest, 0, e)
  BY <1>5, HoldsFirst
<1>9. /\ d \in Seq(0 .. 1) /\ Len(d) = IF Len(e \o rest) <= max THEN Len(e \o rest) ELSE max
      /\ \A s : Len(s) \in 0 .. max /\ Holds(e \o rest, 0, s) => Holds(d, 0, s)
  BY <1>6, <1>8, WindowIs DEF d
<1>10. b * o <= max /\ b * o \in Nat /\ WordBits * n \in Nat /\ Len(rest) \in Nat
  <2>1. 2 * w * n = 2 * w * (n - 1) + 2 * w /\ 2 * w * (n - 1) \in Nat
    <3>1. 2 * w \in Nat
      BY <1>1
    <3> QED
      BY <1>1, <3>1
  <2>2. o <= w + 2 * w * n /\ w + 2 * w * n \in Nat
    BY <1>1, <1>3, <2>1
  <2>3. PICK k \in Nat : w + 2 * w * n = o + k
    <3>1. (w + 2 * w * n) - o \in Nat
      BY <1>3, <2>2
    <3>2. w + 2 * w * n = o + ((w + 2 * w * n) - o)
      BY <1>3, <2>2
    <3> QED
      BY <3>1, <3>2
  <2>4. max = b * o + b * k /\ b * k \in Nat /\ b * o \in Nat
    BY <1>1, <1>3, <1>6, <2>3
  <2>5. WordBits * n \in Nat
    BY <1>1, Widths
  <2> QED
    BY <2>4, <2>5
<1>11. Holds(e \o rest, 0, B[n])
  BY <1>3, <1>5, <1>8, <1>10, HoldsIn
<1>12. Holds(d, 0, B[n])
  BY <1>3, <1>9, <1>10, <1>11
<1>13. ReadDeltas(d, n)[n] = [ok |-> TRUE, off |-> o, t |-> ts[n]]
       /\ \A i \in 1 .. n : ReadDeltas(d, n)[i].t = ts[i]
  <2>1. \A i \in 1 .. n : ReadDeltas(d, n)[i] = [ok |-> TRUE, off |-> Offset(B, i), t |-> ts[i]]
    BY <1>2, <1>9, <1>12, ReadsDeltas DEF n
  <2>2. n \in 1 .. n
    BY <1>1
  <2>3. ReadDeltas(d, n)[n] = [ok |-> TRUE, off |-> o, t |-> ts[n]]
    BY <2>1, <2>2, Zenon DEF o
  <2>4. ASSUME NEW i \in 1 .. n PROVE ReadDeltas(d, n)[i].t = ts[i]
    <3>1. ReadDeltas(d, n)[i] = [ok |-> TRUE, off |-> Offset(B, i), t |-> ts[i]]
      BY <2>1
    <3> QED
      BY <3>1
  <2> QED
    BY <2>3, <2>4
<1>14. ~(Len(d) < WordBits)
  <2>1. 0 + Len(B[n]) <= Len(d)
    BY <1>12 DEF Holds
  <2>2. b * w <= b * o
    <3>1. PICK k \in Nat : o = w + k
      <4>1. o - w \in Nat /\ o = w + (o - w)
        BY <1>1, <1>3
      <4> QED
        BY <4>1
    <3>2. b * o = b * w + b * k /\ b * k \in Nat /\ b * w \in Nat
      BY <1>1, <3>1
    <3> QED
      BY <3>2
  <2> QED
    <3>1. Len(d) \in Nat /\ b * w \in Nat
      BY <1>1, <1>9
    <3>2. b * o <= Len(d)
      BY <1>3, <1>10, <2>1
    <3> QED
      BY <1>1, <1>10, <2>2, <3>1, <3>2
<1> DEFINE out == [i \in 1 .. n |->
               [t |-> ReadDeltas(d, n)[i].t, v |-> WordAt(From(d, o + (i - 1) * WordBytes))]]
<1>15. DecodePoints(d, n) = IF Len(d) < b * o + n * WordBits THEN Panic ELSE Decoded(out)
  <2> DEFINE read == ReadDeltas(d, n)
  <2>1. DecodePoints(d, n) =
            IF Len(d) < WordBits THEN Panic
            ELSE IF ~read[n].ok THEN Corrupt
            ELSE IF Len(d) < ByteBits * read[n].off + n * WordBits THEN Panic
            ELSE Decoded([i \in 1 .. n |->
                     [t |-> read[i].t, v |-> WordAt(From(d, read[n].off + (i - 1) * WordBytes))]])
    BY Zenon DEF DecodePoints
  <2>2. read[n].ok = TRUE /\ read[n].off = o
    BY <1>13
  <2> HIDE DEF read
  <2> QED
    BY <1>14, <2>1, <2>2 DEF b, read
<1>16. n * WordBits = WordBits * n
  BY <1>1, Widths
<1>17. CASE Len(e) <= max
  <2>1. Holds(d, 0, e)
    <3>1. Len(e) \in 0 .. max
      BY <1>5, <1>6, <1>10, <1>17
    <3> QED
      BY <1>8, <1>9, <3>1
  <2>2. Len(e) <= Len(d)
    <3>1. 0 + Len(e) <= Len(d)
      BY <2>1 DEF Holds
    <3> QED
      BY <1>5, <1>9, <1>10, <3>1
  <2>3. Holds(d, b * o, ws)
    <3>1. Holds(d, 0 + Len(B[n]), ws)
      BY <1>2, <1>3, <1>4, <2>1, HoldsConcat
    <3> QED
      BY <1>3, <1>10, <3>1
  <2>4. ASSUME NEW i \in 1 .. n PROVE WordAt(From(d, o + (i - 1) * WordBytes)) = vs[i]
    <3> DEFINE at == o + (i - 1) * w
    <3>1. Holds(d, b * o + WordBits * (i - 1), Word(vs[i]))
      BY <1>9, <1>10, <2>3, WordsAre DEF n, ws
    <3>2. b * o + WordBits * (i - 1) = b * at /\ at \in Nat
      <4>1. b * at = b * o + b * ((i - 1) * w) /\ (i - 1) * w \in Nat
        BY <1>1, <1>3
      <4>2. b * ((i - 1) * w) = (b * w) * (i - 1)
        BY <1>1
      <4> QED
        <5> DEFINE x == (i - 1) * w
        <5>1. at \in Nat
          <6>1. x \in Nat /\ at = o + x
            BY <4>1
          <6> HIDE DEF x, at
          <6> QED
            BY <1>3, <6>1
        <5>2. WordBits * (i - 1) = b * ((i - 1) * w)
          BY <1>1, <4>2
        <5> QED
          BY <4>1, <5>1, <5>2
    <3>3. vs[i] \in WordRange
      BY ElementOfSeq DEF n
    <3>4. Word(vs[i]) \in Seq(0 .. 1) /\ Len(Word(vs[i])) \in Nat
      BY <3>3, WordIs DEF WordRange
    <3> HIDE DEF at
    <3>5. b * at \in Nat /\ b * at + 0 = b * at
      BY <1>1, <3>2
    <3>6. Holds(d, b * at + 0, Word(vs[i]))
      BY <3>1, <3>2, <3>5
    <3>7. b * at <= Len(d)
      <4>1. b * at + Len(Word(vs[i])) <= Len(d) /\ Len(d) \in Nat
        BY <1>9, <3>1, <3>2 DEF Holds
      <4> QED
        BY <3>4, <3>5, <4>1
    <3>8. From(d, at) \in Seq(0 .. 1) /\ Holds(From(d, at), 0, Word(vs[i]))
      BY <1>9, <3>2, <3>4, <3>6, <3>7, HoldsFrom DEF b
    <3>9. WordAt(From(d, at)) = vs[i]
      BY <3>3, <3>8, ReadsWord DEF WordRange
    <3> QED
      BY <3>9 DEF at, w
  <2>5. out = [i \in 1 .. n |-> [t |-> ts[i], v |-> vs[i]]]
    BY <1>13, <2>4
  <2> HIDE DEF out
  <2>6. ~(Len(d) < b * o + n * WordBits)
    BY <1>5, <1>9, <1>10, <1>16, <2>2
  <2> QED
    BY <1>7, <1>15, <1>17, <2>5, <2>6 DEF e, n, max
<1>18. CASE ~(Len(e) <= max)
  <2>1. Len(d) = max
    BY <1>5, <1>6, <1>8, <1>9, <1>10, <1>18
  <2>2. Len(d) < b * o + n * WordBits
    BY <1>5, <1>6, <1>10, <1>16, <1>18, <2>1
  <2> QED
    BY <1>7, <1>15, <1>18, <2>2 DEF e, n, max
<1> QED
  BY <1>17, <1>18

-----------------------------------------------------------------------------
(* A series of at most MaxPoints points.                                   *)
CodecTypeOK ==
    points \in Seq([t : Times, v : Values]) /\ Len(points) <= MaxPoints /\ behind \in Behind

(* Every state of the instance is such a series: the types of the inputs   *)
(* that the round trips below quantify over.                               *)
THEOREM CodecTyped == CodecSpec => []CodecTypeOK
<1>1. CodecInit => CodecTypeOK
  BY CodecConstants DEF CodecInit, CodecTypeOK
<1>2. CodecTypeOK /\ [AddPoint]_<<points, behind>> => CodecTypeOK'
  <2> SUFFICES ASSUME CodecTypeOK, [AddPoint]_<<points, behind>> PROVE CodecTypeOK'
    OBVIOUS
  <2>1. CASE AddPoint
    <3>1. /\ points \in Seq([t : Times, v : Values]) /\ behind \in Behind
          /\ Len(points) < MaxPoints /\ behind' = behind
      BY <2>1 DEF CodecTypeOK, AddPoint
    <3>2. PICK t \in Times, v \in Values : points' = Append(points, [t |-> t, v |-> v])
      BY <2>1 DEF AddPoint
    <3>3. [t |-> t, v |-> v] \in [t : Times, v : Values]
      OBVIOUS
    <3>4. points' \in Seq([t : Times, v : Values]) /\ Len(points') = Len(points) + 1
      BY <3>1, <3>2, <3>3, AppendProperties
    <3>5. Len(points') <= MaxPoints
      BY <3>1, <3>4, CodecConstants
    <3> QED
      BY <3>1, <3>4, <3>5 DEF CodecTypeOK
  <2>2. CASE UNCHANGED <<points, behind>>
    BY <2>2 DEF CodecTypeOK
  <2> QED
    BY <2>1, <2>2
<1> QED
  BY <1>1, <1>2, PTL DEF CodecSpec

(* The columns of the series.                                              *)
LEMMA Columns ==
    CodecTypeOK =>
        /\ Ts \in Seq(TimeRange) /\ Vs \in Seq(WordRange) /\ behind \in Seq(0 .. 1)
        /\ Len(Ts) = Len(points) /\ Len(Vs) = Len(points) /\ Len(points) \in Nat
        /\ points = [i \in 1 .. Len(points) |-> [t |-> Ts[i], v |-> Vs[i]]]
<1> HAVE CodecTypeOK
<1>1. points \in Seq([t : Times, v : Values]) /\ behind \in Behind
  BY DEF CodecTypeOK
<1>2. Times \subseteq TimeRange /\ Values \subseteq WordRange /\ Behind \subseteq Seq(0 .. 1)
  BY CodecConstants DEF TimeRange, WordRange
<1>3. DOMAIN points = 1 .. Len(points) /\ Len(points) \in Nat
      /\ \A i \in 1 .. Len(points) : points[i] \in [t : Times, v : Values]
  BY <1>1, ElementOfSeq, LenProperties
<1>4. Ts = [i \in 1 .. Len(points) |-> points[i].t] /\ Vs = [i \in 1 .. Len(points) |-> points[i].v]
  BY <1>3 DEF Ts, Vs
<1>5. \A i \in 1 .. Len(points) : points[i].t \in TimeRange /\ points[i].v \in WordRange
  BY <1>2, <1>3
<1>6. Ts \in Seq(TimeRange) /\ Len(Ts) = Len(points) /\ Vs \in Seq(WordRange) /\ Len(Vs) = Len(points)
  BY <1>3, <1>4, <1>5
<1>7. points = [i \in 1 .. Len(points) |-> [t |-> Ts[i], v |-> Vs[i]]]
  <2>1. \A i \in 1 .. Len(points) : points[i] = [t |-> Ts[i], v |-> Vs[i]]
    BY <1>3, <1>4
  <2>2. points = [i \in 1 .. Len(points) |-> points[i]]
    BY <1>1, <1>3
  <2> QED
    BY <2>1, <2>2
<1> QED
  BY <1>1, <1>2, <1>3, <1>6, <1>7

(* decodeSeriesAt returns every series that encodeSeries wrote in version  *)
(* 1, whatever follows it in the file, exactly if its bytes fit into what  *)
(* the reader asks for; otherwise the reader slices past its buffer.       *)
THEOREM V1RoundTripHolds == CodecSpec => []V1RoundTrip
<1>1. ASSUME CodecTypeOK PROVE V1RoundTrip
  <2> SUFFICES ASSUME points # <<>>
               PROVE  ReadBack(1) = IF Len(EncodeSeries(1)) <= ByteBits * MaxSize(1, Len(points))
                                      THEN Decoded(points) ELSE Panic
    BY DEF V1RoundTrip
  <2>1. /\ Ts \in Seq(TimeRange) /\ Vs \in Seq(WordRange) /\ behind \in Seq(0 .. 1)
        /\ Len(Ts) = Len(points) /\ Len(Vs) = Len(points) /\ Len(points) \in Nat
        /\ points = [i \in 1 .. Len(points) |-> [t |-> Ts[i], v |-> Vs[i]]]
    BY <1>1, Columns
  <2>2. Ts # <<>>
    <3>1. Len(points) # 0
      BY <1>1 DEF CodecTypeOK
    <3> QED
      BY <2>1, <3>1, EmptySeq
  <2>3. EncodeSeries(1) = EncodeV1(Ts, Vs)
    BY DEF EncodeSeries
  <2>4. ReadBack(1) = DecodeSeriesAt(1, EncodeV1(Ts, Vs) \o behind, Len(Ts))
    BY <2>1, <2>3 DEF ReadBack
  <2> QED
    BY <2>1, <2>2, <2>3, <2>4, V1Reads
<1> QED
  BY <1>1, CodecTyped, PTL

-----------------------------------------------------------------------------
(* Version 2: rounds that start anywhere, and the bit reader.              *)

(* Induction from one number to another.                                   *)
LEMMA FromTo ==
    ASSUME NEW m \in Int, NEW n \in Int, NEW T, m \in T, \A k \in m + 1 .. n : k - 1 \in T => k \in T
    PROVE  \A k \in m .. n : k \in T
<1> SUFFICES ASSUME NEW j \in m .. n PROVE j \in T
  OBVIOUS
<1> DEFINE N == n - m
           U == {i \in 0 .. N : m + i \in T}
<1>1. N \in Nat
  OBVIOUS
<1>2. 0 \in U
  BY <1>1
<1>3. ASSUME NEW k \in 1 .. N, k - 1 \in U PROVE k \in U
  <2>1. m + k \in m + 1 .. n /\ (m + k) - 1 = m + (k - 1) /\ k \in 0 .. N
    OBVIOUS
  <2>2. m + (k - 1) \in T
    BY <1>3
  <2>3. m + k \in T
    BY <2>1, <2>2
  <2> QED
    BY <2>1, <2>3
<1>4. j - m \in 0 .. N /\ m + (j - m) = j
  OBVIOUS
<1> HIDE DEF N, U
<1>5. j - m \in U
  BY <1>1, <1>2, <1>3, <1>4, UpTo
<1> QED
  BY <1>4, <1>5 DEF U

(* The rounds from m to n: the recursive function exists.                  *)
IsRounds(f, m, n, S, b, G) ==
    f \in [m .. n -> S] /\ f[m] = b /\ \A k \in m + 1 .. n : f[k] = G[k][f[k - 1]]

(* The rounds have a result.                                               *)
LEMMA RoundsExist ==
    ASSUME NEW m \in Int, NEW n \in Int, m <= n, NEW S, NEW b \in S, NEW G,
           \A k \in m + 1 .. n, s \in S : G[k][s] \in S
    PROVE  \E f : IsRounds(f, m, n, S, b, G)
<1> DEFINE N == n - m
           H == [k \in 1 .. N |-> G[m + k]]
<1>1. N \in Nat
  OBVIOUS
<1>2. ASSUME NEW k \in 1 .. N, NEW s \in S PROVE H[k][s] = G[m + k][s] /\ H[k][s] \in S
  <2>1. m + k \in m + 1 .. n
    OBVIOUS
  <2> QED
    BY <2>1
<1>3. PICK g : IsLoop(g, N, S, b, H)
  <2> HIDE DEF N, H
  <2> QED
    BY <1>1, <1>2, LoopExists
<1>4. g \in [0 .. N -> S] /\ g[0] = b
  BY <1>3 DEF IsLoop
<1> DEFINE f == [i \in m .. n |-> g[i - m]]
<1>5. f \in [m .. n -> S]
  BY <1>4
<1>6. f[m] = b
  BY <1>4
<1>7. ASSUME NEW k \in m + 1 .. n PROVE f[k] = G[k][f[k - 1]]
  <2> DEFINE j == k - m
  <2>1. j \in 1 .. N /\ m + j = k /\ (k - 1) - m = j - 1 /\ k \in m .. n /\ k - 1 \in m .. n
    OBVIOUS
  <2>2. f[k] = g[j] /\ f[k - 1] = g[j - 1]
    BY <2>1
  <2> HIDE DEF N, H, f, j
  <2>3. g[j - 1] \in S /\ g[j] = H[j][g[j - 1]]
    BY <1>1, <1>3, <2>1, LoopRound
  <2>4. g[j] = G[m + j][g[j - 1]]
    BY <1>2, <2>1, <2>3
  <2> QED
    BY <2>1, <2>2, <2>4
<1> HIDE DEF f
<1> QED
  BY <1>5, <1>6, <1>7 DEF IsRounds

(* A buffer that grows by c[i]: what was appended stands where it was.     *)
LEMMA ChainHolds ==
    ASSUME NEW m \in Int, NEW n \in Int, m <= n, NEW B, NEW c,
           \A i \in m .. n : B[i] \in Seq(0 .. 1),
           \A i \in m + 1 .. n : c[i] \in Seq(0 .. 1) /\ B[i] = B[i - 1] \o c[i],
           NEW d \in Seq(0 .. 1), Holds(d, 0, B[n])
    PROVE  /\ \A i \in m .. n : Holds(d, 0, B[i])
           /\ \A i \in m + 1 .. n : Holds(d, Len(B[i - 1]), c[i])
<1>1. ASSUME NEW i \in m + 1 .. n, Holds(d, 0, B[i])
      PROVE  Holds(d, 0, B[i - 1]) /\ Holds(d, Len(B[i - 1]), c[i])
  <2>1. B[i - 1] \in Seq(0 .. 1) /\ B[i] = B[i - 1] \o c[i] /\ c[i] \in Seq(0 .. 1)
    <3>1. i - 1 \in m .. n
      OBVIOUS
    <3> QED
      BY <3>1
  <2>2. Holds(d, 0, B[i - 1]) /\ Holds(d, 0 + Len(B[i - 1]), c[i])
    BY <1>1, <2>1, HoldsConcat
  <2>3. 0 + Len(B[i - 1]) = Len(B[i - 1])
    BY <2>1
  <2> QED
    BY <2>2, <2>3
<1> DEFINE T == {k \in 0 .. n - m : Holds(d, 0, B[n - k])}
<1>2. 0 \in T
  OBVIOUS
<1>3. ASSUME NEW k \in 1 .. n - m, k - 1 \in T PROVE k \in T
  <2>1. n - (k - 1) \in m + 1 .. n /\ (n - (k - 1)) - 1 = n - k
    OBVIOUS
  <2>2. Holds(d, 0, B[n - (k - 1)])
    BY <1>3
  <2>3. Holds(d, 0, B[n - k])
    BY <1>1, <2>1, <2>2
  <2> QED
    BY <2>3
<1> HIDE DEF T
<1>4. \A k \in 0 .. n - m : k \in T
  <2>1. n - m \in Nat
    OBVIOUS
  <2> QED
    BY <1>2, <1>3, <2>1, UpTo
<1>5. ASSUME NEW i \in m .. n PROVE Holds(d, 0, B[i])
  <2>1. n - i \in 0 .. n - m /\ n - (n - i) = i
    OBVIOUS
  <2>2. Holds(d, 0, B[n - (n - i)])
    BY <1>4, <2>1 DEF T
  <2> QED
    BY <2>1, <2>2
<1>6. ASSUME NEW i \in m + 1 .. n PROVE Holds(d, Len(B[i - 1]), c[i])
  <2>1. i \in m .. n
    OBVIOUS
  <2> QED
    BY <1>1, <1>5, <2>1
<1> QED
  BY <1>5, <1>6

-----------------------------------------------------------------------------
(* The bit reader.                                                         *)
LEMMA BitAtIs ==
    ASSUME NEW s \in Seq(0 .. 1), NEW p \in Nat
    PROVE  /\ BitAt(s, p) \in 0 .. 1
           /\ \A t : \A k \in 1 .. Len(t) : Len(t) \in Nat /\ Holds(s, p, t) => BitAt(s, p + k - 1) = t[k]
<1>1. Len(s) \in Nat
  OBVIOUS
<1>2. BitAt(s, p) \in 0 .. 1
  <2>1. CASE p < Len(s)
    <3>1. p + 1 \in 1 .. Len(s)
      BY <1>1, <2>1
    <3>2. s[p + 1] \in 0 .. 1
      BY <3>1, ElementOfSeq
    <3> QED
      BY <2>1, <3>2 DEF BitAt
  <2>2. CASE ~(p < Len(s))
    BY <2>2 DEF BitAt
  <2> QED
    BY <2>1, <2>2
<1>3. ASSUME NEW t, NEW k \in 1 .. Len(t), Len(t) \in Nat, Holds(s, p, t)
      PROVE  BitAt(s, p + k - 1) = t[k]
  <2>1. p + Len(t) <= Len(s) /\ s[p + k] = t[k]
    BY <1>3 DEF Holds
  <2>2. p + k - 1 < Len(s) /\ (p + k - 1) + 1 = p + k
    BY <1>1, <1>3, <2>1
  <2> QED
    BY <2>1, <2>2 DEF BitAt
<1> QED
  BY <1>2, <1>3

(* The reader moves on where there are bits left.                          *)
LEMMA SkipIs ==
    ASSUME NEW s \in Seq(0 .. 1), NEW p \in Nat, NEW n \in Nat, p + n <= Len(s)
    PROVE  Skip(s, p, n) = p + n
<1>1. Len(s) \in Nat /\ p + n \in Nat
  OBVIOUS
<1>2. Min({p + n, Len(s)}) = p + n
  <2> DEFINE T == {p + n, Len(s)}
  <2>1. p + n \in T /\ \A y \in T : p + n <= y /\ y \in Int
    BY <1>1
  <2> HIDE DEF T
  <2>2. Min(T) \in T /\ \A y \in T : Min(T) <= y
    BY <2>1, Zenon DEF Min
  <2>3. Min(T) \in Int /\ Min(T) <= p + n /\ p + n <= Min(T)
    BY <2>1, <2>2
  <2>4. Min(T) = p + n
    BY <1>1, <2>3
  <2> QED
    BY <2>4 DEF T
<1>3. Max({p, p + n}) = p + n
  <2> DEFINE T == {p, p + n}
  <2>1. p + n \in T /\ \A y \in T : p + n >= y /\ y \in Int
    BY <1>1
  <2> HIDE DEF T
  <2>2. Max(T) \in T /\ \A y \in T : Max(T) >= y
    BY <2>1, Zenon DEF Max
  <2>3. Max(T) \in Int /\ Max(T) >= p + n /\ p + n >= Max(T)
    BY <2>1, <2>2
  <2>4. Max(T) = p + n
    BY <1>1, <2>3
  <2> QED
    BY <2>4 DEF T
<1> QED
  BY <1>2, <1>3 DEF Skip

(* The reader sees the bits that the data holds.                           *)
LEMMA BitHeld ==
    ASSUME NEW s \in Seq(0 .. 1), NEW p \in Nat, NEW t, NEW k \in 1 .. Len(t), Len(t) \in Nat, Holds(s, p, t)
    PROVE  BitAt(s, p + k - 1) = t[k]
BY BitAtIs

(* The bits that ReadBits reads.                                           *)
BitsAt(s, p, n) == [k \in 1 .. n |-> BitAt(s, p + k - 1)]

(* They are n bits, and ReadBits is their number.                          *)
LEMMA BitsAtIs ==
    ASSUME NEW s \in Seq(0 .. 1), NEW p \in Nat, NEW n \in Nat
    PROVE  /\ BitsAt(s, p, n) \in Seq(0 .. 1) /\ Len(BitsAt(s, p, n)) = n
           /\ \A k \in 1 .. n : BitsAt(s, p, n)[k] = BitAt(s, p + k - 1)
           /\ ReadBits(s, p, n) = Number(BitsAt(s, p, n))
           /\ ReadBits(s, p, n) \in Nat /\ ReadBits(s, p, n) < Pow2[n]
<1> DEFINE e(k) == BitAt(s, p + k - 1)
           q == BitsAt(s, p, n)
<1>1. ASSUME NEW k \in 1 .. n PROVE e(k) \in 0 .. 1
  <2>1. p + k - 1 \in Nat
    OBVIOUS
  <2> QED
    BY <2>1, BitAtIs
<1>2. q = [k \in 1 .. n |-> e(k)]
  BY DEF BitsAt
<1>3. ReadBits(s, p, n) = Number(q)
  BY DEF ReadBits, BitsAt
<1> HIDE DEF e, q
<1>4. q \in Seq(0 .. 1) /\ Len(q) = n /\ \A k \in 1 .. n : q[k] = e(k)
  <2>1. q \in Seq(0 .. 1) /\ Len(q) = n
    BY <1>1, <1>2, IsASeq
  <2> QED
    BY <1>2, <2>1
<1>5. Number(q) \in Nat /\ Number(q) < Pow2[n]
  BY <1>4, BitsNumber
<1> QED
  BY <1>3, <1>4, <1>5 DEF e, q

(* Reading the bits of a number that was written gives the number.         *)
LEMMA ReadsBits ==
    ASSUME NEW s \in Seq(0 .. 1), NEW p \in Nat, NEW n \in Nat, NEW x \in Nat, x < Pow2[n],
           Holds(s, p, Bits(x, n))
    PROVE  ReadBits(s, p, n) = x
<1> DEFINE q == BitsAt(s, p, n)
           t == Bits(x, n)
<1>1. /\ q \in Seq(0 .. 1) /\ Len(q) = n /\ \A k \in 1 .. n : q[k] = BitAt(s, p + k - 1)
      /\ ReadBits(s, p, n) = Number(q)
  BY BitsAtIs
<1>2. t \in Seq(0 .. 1) /\ Len(t) = n /\ \A k \in 1 .. n : t[k] = (x \div Pow2[n - k]) % 2
  BY BitsAre
<1>3. ASSUME NEW k \in 1 .. n PROVE q[k] = (x \div Pow2[n - k]) % 2
  <2>1. BitAt(s, p + k - 1) = t[k]
    <3> HIDE DEF t
    <3> QED
      BY <1>2, BitAtIs DEF t
  <2> QED
    BY <1>1, <1>2, <2>1
<1> HIDE DEF q, t
<1>4. Number(q) = x
  BY <1>1, <1>3, NumberBits
<1> QED
  BY <1>1, <1>4

(* The prefix of a bucket.                                                 *)
LEMMA OnesAre ==
    ASSUME NEW k \in Nat
    PROVE  Ones(k) \in Seq(0 .. 1) /\ Len(Ones(k)) = k /\ \A i \in 1 .. k : Ones(k)[i] = 1
BY DEF Ones

(* The zeros up to the next whole byte.                                    *)
LEMMA PadToIs ==
    ASSUME NEW len \in Nat
    PROVE  /\ PadTo(len) \in Seq(0 .. 1)
           /\ Len(PadTo(len)) = (ByteBits - (len % ByteBits)) % ByteBits
           /\ \E m \in Nat : len + Len(PadTo(len)) = ByteBits * m
<1> DEFINE b == ByteBits
           r == len % b
           k == (b - r) % b
           q == len \div b
<1>1. b \in Nat \ {0, 1}
  BY Widths
<1>2. q \in Int /\ r \in 0 .. b - 1 /\ len = q * b + r
  <2>1. len \in Int /\ b \in Nat \ {0}
    BY <1>1
  <2> HIDE DEF b
  <2> QED
    BY <2>1, DivRemainder
<1>2a. q \in Nat
  <2> HIDE DEF q, r
  <2>1. CASE q < 0
    <3>1. q * b + b <= 0 * b
      BY <1>1, <1>2, <2>1, ProductOrder
    <3>2. q * b \in Int
      BY <1>1, <1>2
    <3> QED
      BY <1>1, <1>2, <3>1, <3>2
  <2> QED
    BY <1>2, <2>1
<1>3. PadTo(len) = [i \in 1 .. k |-> 0]
  BY DEF PadTo, Zeros
<1> HIDE DEF q, r
<1>4. k \in 0 .. b - 1 /\ k = IF r = 0 THEN 0 ELSE b - r
  <2>1. CASE r = 0
    <3>1. b % b = 0
      BY <1>1
    <3> QED
      BY <1>1, <2>1, <3>1
  <2>2. CASE r # 0
    <3> DEFINE c == b - r
    <3>1. c \in 0 .. b - 1
      BY <1>1, <1>2, <2>2
    <3> HIDE DEF c, b
    <3>2. c % b = c
      BY <1>1, <3>1
    <3> QED
      BY <1>1, <2>2, <3>1, <3>2 DEF c
  <2> QED
    BY <2>1, <2>2
<1> HIDE DEF k
<1>5. PadTo(len) \in Seq(0 .. 1) /\ Len(PadTo(len)) = k
  BY <1>1, <1>3, <1>4
<1>6. \E m \in Nat : len + k = b * m
  <2>1. CASE r = 0
    <3>1. len + k = b * q
      BY <1>1, <1>2, <1>2a, <1>4, <2>1
    <3> QED
      BY <1>2a, <3>1
  <2>2. CASE r # 0
    <3>1. len + k = b * (q + 1)
      BY <1>1, <1>2, <1>2a, <1>4, <2>2
    <3> QED
      BY <1>2a, <3>1
  <2> QED
    BY <2>1, <2>2
<1> QED
  BY <1>5, <1>6 DEF k, r, b

(* The offset of a delta of deltas in its bucket.                          *)
LEMMA BucketIs ==
    ASSUME NEW dod \in Int, BucketsOf(dod) # {}
    PROVE  /\ Min(BucketsOf(dod)) \in 1 .. Len(Buckets)
           /\ Buckets[Min(BucketsOf(dod))] \in Nat
           /\ Low(Min(BucketsOf(dod))) \in Int
           /\ dod - Low(Min(BucketsOf(dod))) \in Nat
           /\ dod - Low(Min(BucketsOf(dod))) < Pow2[Buckets[Min(BucketsOf(dod))]]
<1> DEFINE T == BucketsOf(dod)
           k == Min(T)
           w == Buckets[k]
<1>1. T = {i \in 1 .. Len(Buckets) : dod >= Low(i) /\ dod <= High(i)}
  BY CodecConstants, LenProperties DEF BucketsOf
<1>1a. Len(Buckets) \in Nat
  BY CodecConstants
<1>2. k \in T
  <2>1. T \in SUBSET Nat /\ T # {}
    BY <1>1, <1>1a
  <2> HIDE DEF T
  <2>2. \E x \in T : \A m \in T : x <= m
    BY <2>1, Least
  <2> QED
    BY <2>2, Zenon DEF Min
<1> HIDE DEF k, T
<1>3. k \in 1 .. Len(Buckets) /\ dod >= Low(k) /\ dod <= High(k)
  BY <1>1, <1>2
<1>4. w \in 1 .. WordBits
  BY <1>3, CodecConstants, ElementOfSeq
<1>5. Low(k) = -(Pow2[w - 1] - 1) /\ High(k) = Pow2[w - 1]
  BY DEF Low, High
<1> HIDE DEF w
<1>6. w \in Nat \ {0} /\ w - 1 \in Nat
  BY <1>4, Widths
<1>7. Pow2[w] = 2 * Pow2[w - 1] /\ Pow2[w - 1] \in Nat
  BY <1>6, Pow2Is
<1>8. Low(k) \in Int /\ dod - Low(k) \in Nat /\ dod - Low(k) < Pow2[w]
  BY <1>3, <1>5, <1>7
<1> QED
  BY <1>3, <1>6, <1>8 DEF k, T, w

(* A delta of deltas is written as bits.                                   *)
LEMMA DodCodeIs ==
    ASSUME NEW dod \in TimeRange, NEW p \in Nat
    PROVE  DodCode(dod, p) \in Seq(0 .. 1)
<1>0. dod \in Int
  BY HalfWord DEF TimeRange
<1>1. CASE dod = 0
  BY <1>1 DEF DodCode
<1>2. CASE dod # 0 /\ BucketsOf(dod) # {}
  <2> DEFINE k == Min(BucketsOf(dod))
  <2>1. k \in Nat /\ Buckets[k] \in Nat /\ dod - Low(k) \in Nat
    <3>1. k \in 1 .. Len(Buckets) /\ Buckets[k] \in Nat /\ dod - Low(k) \in Nat
      BY <1>0, <1>2, BucketIs
    <3>2. Len(Buckets) \in Nat
      BY CodecConstants
    <3> HIDE DEF k
    <3> QED
      BY <3>1, <3>2
  <2>2. DodCode(dod, p) = Ones(k) \o <<0>> \o Bits(dod - Low(k), Buckets[k])
    BY <1>2, Zenon DEF DodCode
  <2> HIDE DEF k
  <2>3. Ones(k) \in Seq(0 .. 1) /\ Bits(dod - Low(k), Buckets[k]) \in Seq(0 .. 1) /\ <<0>> \in Seq(0 .. 1)
    <3>1. Ones(k) \in Seq(0 .. 1)
      BY <2>1, OnesAre
    <3>2. Bits(dod - Low(k), Buckets[k]) \in Seq(0 .. 1)
      BY <2>1, BitsAre
    <3> QED
      BY <3>1, <3>2
  <2>4. Ones(k) \o <<0>> \in Seq(0 .. 1)
    BY <2>3, ConcatProperties
  <2> QED
    BY <2>2, <2>3, <2>4, ConcatProperties
<1>3. CASE dod # 0 /\ BucketsOf(dod) = {}
  <2> DEFINE e == Ones(Len(Buckets) + 1)
             z == PadTo(p + Len(e))
             v == Varint(dod)
  <2>1. DodCode(dod, p) = e \o z \o v
    BY <1>3, Zenon DEF DodCode
  <2>2. Len(Buckets) + 1 \in Nat
    BY CodecConstants
  <2>3. e \in Seq(0 .. 1) /\ Len(e) \in Nat
    BY <2>2, OnesAre
  <2> HIDE DEF e
  <2>4. z \in Seq(0 .. 1)
    <3>1. p + Len(e) \in Nat
      BY <2>3
    <3> QED
      BY <3>1, PadToIs
  <2>5. v \in Seq(0 .. 1)
    BY VarintIs DEF TimeRange
  <2> HIDE DEF z, v
  <2>6. e \o z \in Seq(0 .. 1)
    BY <2>3, <2>4, ConcatProperties
  <2> QED
    BY <2>1, <2>5, <2>6, ConcatProperties
<1> QED
  BY <1>1, <1>2, <1>3

(* The least of the positions that may hold the first zero.                *)
LEMMA MinIs ==
    ASSUME NEW T \in SUBSET Nat, NEW m \in T, \A x \in T : m <= x
    PROVE  Min(T) = m /\ T # {}
<1>1. Min(T) \in T /\ \A y \in T : Min(T) <= y
  BY Zenon DEF Min
<1>2. Min(T) \in Nat /\ Min(T) <= m /\ m <= Min(T) /\ m \in Nat
  BY <1>1
<1> QED
  BY <1>2

(* readDod finds the bucket by its ones and returns the delta of deltas.   *)
LEMMA ReadsDod ==
    ASSUME NEW d \in Seq(0 .. 1), NEW pos \in Nat, WordBits + pos <= Len(d),
           NEW dod \in TimeRange, dod = 0 \/ BucketsOf(dod) # {}, NEW p \in Nat,
           Holds(d, WordBits + pos, DodCode(dod, p))
    PROVE  ReadDod(d, pos) = [ok |-> TRUE, dod |-> dod, pos |-> pos + Len(DodCode(dod, p))]
<1> DEFINE rest == From(d, WordBytes)
           c == DodCode(dod, p)
           nb == Len(Buckets)
           ones == {j \in 0 .. nb : BitAt(rest, pos + j) = 0}
           k == Min(ones)
           at == Skip(rest, pos, k + 1)
           behindOnes == Skip(rest, pos, nb + 1)
           aligned == behindOnes + Len(PadTo(behindOnes))
           v == ReadVarint(From(d, aligned \div ByteBits))
<1>0. dod \in Int /\ nb \in Nat
  BY HalfWord, CodecConstants DEF TimeRange
<1>1. ReadDod(d, pos) =
        CASE ones = {} -> [ok |-> v.used > 0, dod |-> v.val, pos |-> aligned + v.used * ByteBits]
          [] ones # {} /\ k = 0 -> [ok |-> TRUE, dod |-> 0, pos |-> at]
          [] OTHER -> [ok |-> TRUE, dod |-> ReadBits(rest, at, Buckets[k]) + Low(k),
                       pos |-> Skip(rest, at, Buckets[k])]
  BY Zenon DEF ReadDod, rest, nb, ones, k, at, behindOnes, aligned, v
<1>2. c \in Seq(0 .. 1)
  BY DodCodeIs
<1>3. rest \in Seq(0 .. 1) /\ Holds(rest, pos, c)
  <2>1. WordBits = ByteBits * WordBytes /\ WordBytes \in Nat /\ ByteBits * WordBytes \in Nat
    BY Widths
  <2>2. ByteBits * WordBytes <= Len(d)
    BY <2>1
  <2>3. Len(c) \in Nat /\ Holds(d, ByteBits * WordBytes + pos, c)
    BY <1>2, <2>1
  <2> HIDE DEF c
  <2> QED
    BY <2>1, <2>2, <2>3, HoldsFrom
<1> HIDE DEF aligned, v, behindOnes, rest
<1>4. CASE dod = 0
  <2>1. c = <<0>>
    BY <1>4 DEF DodCode
  <2>2. Len(c) = 1 /\ c[1] = 0
    BY <2>1
  <2> HIDE DEF c
  <2>3. BitAt(rest, pos + 1 - 1) = 0 /\ pos + 1 - 1 = pos + 0
    BY <1>3, <2>2, BitAtIs
  <2>4. ones # {} /\ k = 0
    <3>1. 0 \in ones
      BY <1>0, <2>3
    <3>2. ones \in SUBSET Nat /\ \A x \in ones : 0 <= x
      OBVIOUS
    <3> HIDE DEF ones
    <3> QED
      BY <3>1, <3>2, MinIs
  <2>5. pos + 1 <= Len(rest)
    BY <1>3, <2>2 DEF Holds
  <2>6. at = pos + 1
    <3>1. at = Skip(rest, pos, 1)
      BY <2>4
    <3> HIDE DEF at
    <3> QED
      BY <1>3, <2>5, <3>1, SkipIs
  <2> HIDE DEF ones, k, at
  <2>7. ReadDod(d, pos) = [ok |-> TRUE, dod |-> 0, pos |-> at]
    BY <1>1, <2>4
  <2> QED
    BY <1>4, <2>2, <2>6, <2>7 DEF c
<1>5. CASE dod # 0
  <2> DEFINE g == Min(BucketsOf(dod))
             w == Buckets[g]
             x == dod - Low(g)
             o == Ones(g)
             y == Bits(x, w)
  <2>1. g \in 1 .. nb /\ w \in Nat /\ Low(g) \in Int /\ x \in Nat /\ x < Pow2[w]
    BY <1>0, <1>5, BucketIs
  <2>2. c = o \o <<0>> \o y
    BY <1>5, Zenon DEF DodCode
  <2> HIDE DEF g, w, x, nb
  <2>3. o \in Seq(0 .. 1) /\ Len(o) = g /\ \A i \in 1 .. g : o[i] = 1
    <3>1. g \in Nat
      BY <2>1
    <3> QED
      BY <3>1, OnesAre
  <2>4. y \in Seq(0 .. 1) /\ Len(y) = w
    BY <2>1, BitsAre
  <2> DEFINE z == <<0>>
  <2>5. z \in Seq(0 .. 1) /\ Len(z) = 1 /\ z[1] = 0
    OBVIOUS
  <2> HIDE DEF o, y, z, c
  <2>6. o \o z \in Seq(0 .. 1) /\ Len(o \o z) = g + 1
    <3>1. g \in Nat
      BY <1>0, <2>1
    <3>2. o \o z \in Seq(0 .. 1)
      BY <2>3, <2>5, ConcatProperties
    <3>3. Len(o \o z) = Len(o) + Len(z)
      <4>1. o \in Seq(0 .. 1) /\ z \in Seq(0 .. 1)
        BY <2>3, <2>5
      <4> QED
        BY <4>1, HoldsFirst
    <3> QED
      BY <2>3, <2>5, <3>1, <3>2, <3>3
  <2>7. c = (o \o z) \o y /\ Len(c) = (g + 1) + w
    <3>1. c = (o \o z) \o y
      BY <2>2 DEF z
    <3> QED
      BY <2>4, <2>6, <3>1, ConcatProperties
  <2>8. Holds(rest, pos, o \o z) /\ Holds(rest, pos + (g + 1), y)
    BY <1>3, <2>4, <2>6, <2>7, HoldsConcat
  <2>9. Holds(rest, pos, o) /\ Holds(rest, pos + g, z)
    BY <2>3, <2>5, <2>8, HoldsConcat
  <2>10. k = g /\ ones # {}
    <3>1. g \in ones
      <4>1. pos + g \in Nat
        BY <2>1
      <4>2. BitAt(rest, (pos + g) + 1 - 1) = z[1]
        BY <1>3, <2>5, <2>9, <4>1, BitAtIs
      <4>3. (pos + g) + 1 - 1 = pos + g /\ g \in 0 .. nb
        BY <1>0, <2>1
      <4> QED
        BY <2>5, <4>2, <4>3
    <3>2. ASSUME NEW j \in ones PROVE g <= j
      <4>1. j \in Nat /\ BitAt(rest, pos + j) = 0
        BY <1>0
      <4> SUFFICES ASSUME j < g PROVE FALSE
        BY <2>1, <4>1
      <4>2. j + 1 \in 1 .. g /\ pos + (j + 1) - 1 = pos + j
        BY <2>1, <4>1
      <4>3. BitAt(rest, pos + (j + 1) - 1) = o[j + 1]
        <5>1. j + 1 \in 1 .. Len(o) /\ Len(o) \in Nat
          BY <2>1, <2>3, <4>2
        <5> DEFINE i == j + 1
        <5>2. i \in 1 .. Len(o)
          BY <5>1
        <5> HIDE DEF i
        <5>3. BitAt(rest, pos + i - 1) = o[i]
          BY <1>3, <2>9, <5>1, <5>2, BitHeld
        <5> QED
          BY <5>3 DEF i
      <4> QED
        BY <2>3, <4>1, <4>2, <4>3
    <3>3. ones \in SUBSET Nat
      BY <1>0
    <3> HIDE DEF ones
    <3> QED
      BY <3>1, <3>2, <3>3, MinIs
  <2>11. (pos + (g + 1)) + w <= Len(rest) /\ Len(rest) \in Nat
    BY <1>3, <2>4, <2>8 DEF Holds
  <2> DEFINE a == pos + (g + 1)
  <2>12. a \in Nat /\ g + 1 \in Nat /\ a <= Len(rest)
    BY <2>1, <2>11
  <2>13. at = a
    <3>1. at = Skip(rest, pos, g + 1)
      BY <2>10
    <3> HIDE DEF at
    <3> QED
      BY <1>3, <2>12, <3>1, SkipIs
  <2> HIDE DEF at, a, ones, k
  <2>14. Skip(rest, a, w) = a + w
    BY <1>3, <2>1, <2>11, <2>12, SkipIs DEF a
  <2>15. ReadBits(rest, a, w) = x
    BY <1>3, <2>1, <2>8, <2>12, ReadsBits DEF a, y
  <2>16. ReadDod(d, pos) = [ok |-> TRUE, dod |-> ReadBits(rest, at, Buckets[k]) + Low(k),
                            pos |-> Skip(rest, at, Buckets[k])]
    <3>1. k # 0
      BY <2>1, <2>10
    <3> QED
      BY <1>1, <2>10, <3>1
  <2>17. ReadDod(d, pos) = [ok |-> TRUE, dod |-> x + Low(g), pos |-> a + w]
    BY <2>10, <2>13, <2>14, <2>15, <2>16 DEF w
  <2>18. x + Low(g) = dod
    BY <1>0, <2>1 DEF x
  <2>19. a + w = pos + Len(c)
    BY <2>1, <2>7 DEF a
  <2> QED
    BY <2>17, <2>18, <2>19 DEF c
<1> QED
  BY <1>4, <1>5

-----------------------------------------------------------------------------
(* Version 2: the timestamps.                                              *)

(* The buffer of the timestamps, delta of deltas by delta of deltas.       *)
IsDods(B, ts) ==
    /\ \A i \in 2 .. Len(ts) : B[i] \in Seq(0 .. 1)
    /\ B[2] = Word(ts[1] % Pow2[WordBits]) \o Varint(Delta(ts, 2))
    /\ \A i \in 3 .. Len(ts) : B[i] = B[i - 1] \o DodCode(Dod(ts, i), Len(B[i - 1]))

(* A delta of deltas leads from one delta to the next.                     *)
LEMMA DodRange ==
    ASSUME NEW ts \in Seq(TimeRange), NEW i \in 3 .. Len(ts)
    PROVE  Dod(ts, i) \in TimeRange /\ Signed(Delta(ts, i - 1) + Dod(ts, i)) = Delta(ts, i)
<1>1. i \in 2 .. Len(ts) /\ i - 1 \in 2 .. Len(ts)
  OBVIOUS
<1>2. Delta(ts, i) \in TimeRange /\ Delta(ts, i - 1) \in TimeRange
  BY <1>1, DeltaRange
<1> DEFINE a == Delta(ts, i - 1)
           z == Delta(ts, i)
<1>3. Dod(ts, i) = Signed(z - a)
  BY DEF Dod
<1> HIDE DEF a, z
<1>4. z - a \in Int
  BY <1>2, HalfWord DEF TimeRange, a, z
<1>5. Signed(z - a) \in TimeRange /\ Signed(a + Signed(z - a)) = z
  BY <1>2, <1>4, SignedRange, SignedAdd DEF TimeRange, a, z
<1> QED
  BY <1>3, <1>5 DEF a, z

(* The first timestamp is written as a word and comes back.                *)
LEMMA HeadIs ==
    ASSUME NEW ts \in Seq(TimeRange), ts # <<>>
    PROVE  /\ Len(ts) \in Nat \ {0} /\ ts[1] \in TimeRange
           /\ ts[1] % Pow2[WordBits] \in WordRange /\ Signed(ts[1] % Pow2[WordBits]) = ts[1]
           /\ Word(ts[1] % Pow2[WordBits]) \in Seq(0 .. 1) /\ Len(Word(ts[1] % Pow2[WordBits])) = WordBits
<1>1. Len(ts) \in Nat \ {0}
  BY EmptySeq
<1>2. 1 \in 1 .. Len(ts)
  BY <1>1
<1>3. ts[1] \in TimeRange
  BY <1>2, ElementOfSeq
<1> QED
  BY <1>1, <1>3, SignedMod, WordIs DEF TimeRange, WordRange

(* The loop of gorillaEncodeTimestamps builds that buffer.                 *)
LEMMA DodBuffer ==
    ASSUME NEW ts \in Seq(TimeRange), Len(ts) >= 2
    PROVE  \E B : IsDods(B, ts) /\ GorillaEncodeTimestamps(ts) = Pad(B[Len(ts)])
<1> DEFINE n == Len(ts)
           head == Word(ts[1] % Pow2[WordBits])
           base == head \o Varint(Delta(ts, 2))
           code(i, s) == DodCode(Dod(ts, i), Len(s))
           G == [i \in 3 .. n |-> [s \in Seq(0 .. 1) |-> s \o code(i, s)]]
           B == CHOOSE f : f = [i \in 2 .. n |-> IF i = 2 THEN base ELSE f[i - 1] \o code(i, f[i - 1])]
<1>1. n \in Nat /\ 2 <= n /\ 2 \in Int /\ n \in Int /\ n # 1
  <2>1. Len(ts) \in Nat
    BY LenProperties
  <2> QED
    BY <2>1
<1>2. base \in Seq(0 .. 1)
  <2>1. ts # <<>>
    BY <1>1
  <2>2. head \in Seq(0 .. 1)
    BY <2>1, HeadIs
  <2>3. 2 \in 2 .. Len(ts)
    BY <1>1
  <2>4. Varint(Delta(ts, 2)) \in Seq(0 .. 1)
    BY <2>3, DeltaRange, VarintIs DEF TimeRange
  <2> HIDE DEF head
  <2> QED
    BY <2>2, <2>4, ConcatProperties
<1>3. ASSUME NEW i \in 3 .. n, NEW s \in Seq(0 .. 1) PROVE code(i, s) \in Seq(0 .. 1)
  <2>1. Dod(ts, i) \in TimeRange
    BY DodRange
  <2>2. Len(s) \in Nat
    OBVIOUS
  <2> QED
    BY <2>1, <2>2, DodCodeIs
<1>4. GorillaEncodeTimestamps(ts) = Pad(B[n])
  <2>1. GorillaEncodeTimestamps(ts) = IF Len(ts) = 1 THEN head ELSE Pad(B[n])
    BY Zenon DEF GorillaEncodeTimestamps, B, n, head, base, code
  <2> QED
    BY <1>1, <2>1
<1> HIDE DEF n, base, code
<1>5. ASSUME NEW i \in 3 .. n, NEW s \in Seq(0 .. 1)
      PROVE  G[i][s] = s \o code(i, s) /\ G[i][s] \in Seq(0 .. 1)
  <2>1. s \o code(i, s) \in Seq(0 .. 1)
    BY <1>3, ConcatProperties
  <2> QED
    BY <2>1
<1>6. 2 + 1 = 3
  OBVIOUS
<1>7. PICK f : IsRounds(f, 2, n, Seq(0 .. 1), base, G)
  <2> HIDE DEF G
  <2> QED
    BY <1>1, <1>2, <1>5, <1>6, RoundsExist
<1>8. /\ f \in [2 .. n -> Seq(0 .. 1)] /\ f[2] = base
      /\ \A i \in 3 .. n : f[i] = G[i][f[i - 1]]
  BY <1>6, <1>7 DEF IsRounds
<1>9. f = [i \in 2 .. n |-> IF i = 2 THEN base ELSE f[i - 1] \o code(i, f[i - 1])]
  <2>1. ASSUME NEW i \in 2 .. n PROVE f[i] = IF i = 2 THEN base ELSE f[i - 1] \o code(i, f[i - 1])
    <3>1. CASE i = 2
      BY <1>8, <3>1
    <3>2. CASE i # 2
      <4>1. i \in 3 .. n /\ i - 1 \in 2 .. n
        BY <1>1, <3>2
      <4>2. f[i - 1] \in Seq(0 .. 1)
        BY <1>8, <4>1
      <4> HIDE DEF G
      <4> QED
        BY <1>5, <1>8, <3>2, <4>1, <4>2
    <3> QED
      BY <3>1, <3>2
  <2> QED
    BY <1>8, <2>1
<1>10. B = [i \in 2 .. n |-> IF i = 2 THEN base ELSE B[i - 1] \o code(i, B[i - 1])]
  BY <1>9, Zenon
<1> HIDE DEF B, G
<1>11. B[2] = base
  BY <1>1, <1>10
<1>12. ASSUME NEW i \in 3 .. n PROVE B[i] = B[i - 1] \o code(i, B[i - 1])
  <2>1. i \in 2 .. n /\ i # 2
    BY <1>1
  <2>2. B[i] = IF i = 2 THEN base ELSE B[i - 1] \o code(i, B[i - 1])
    BY <1>10, <2>1, Zenon
  <2> QED
    BY <2>1, <2>2
<1> DEFINE T == {i \in 2 .. n : B[i] \in Seq(0 .. 1)}
<1>13. 2 \in T
  BY <1>1, <1>2, <1>11
<1>14. ASSUME NEW k \in 2 + 1 .. n, k - 1 \in T PROVE k \in T
  <2>1. k \in 3 .. n /\ k \in 2 .. n
    BY <1>1
  <2>2. B[k - 1] \in Seq(0 .. 1)
    BY <1>14
  <2>3. B[k] = B[k - 1] \o code(k, B[k - 1]) /\ code(k, B[k - 1]) \in Seq(0 .. 1)
    BY <1>3, <1>12, <2>1, <2>2
  <2>4. B[k] \in Seq(0 .. 1)
    BY <2>2, <2>3, ConcatProperties
  <2> QED
    BY <2>1, <2>4
<1> HIDE DEF T
<1>15. \A k \in 2 .. n : k \in T
  BY <1>1, <1>13, <1>14, FromTo
<1>16. \A i \in 2 .. n : B[i] \in Seq(0 .. 1)
  BY <1>15 DEF T
<1>17. IsDods(B, ts)
  BY <1>11, <1>12, <1>16 DEF IsDods, n, base, code
<1> QED
  BY <1>4, <1>17 DEF n

(* The timestamps come back where no delta of deltas takes the escape.     *)
LEMMA ReadsTimestamps ==
    ASSUME NEW ts \in Seq(TimeRange), Len(ts) >= 2, NEW B, IsDods(B, ts),
           \A i \in 3 .. Len(ts) : Dod(ts, i) = 0 \/ BucketsOf(Dod(ts, i)) # {},
           NEW d \in Seq(0 .. 1), Holds(d, 0, B[Len(ts)])
    PROVE  GorillaDecodeTimestamps(d, Len(ts)) = [i \in 1 .. Len(ts) |-> ts[i]]
<1> DEFINE n == Len(ts)
           head == Word(ts[1] % Pow2[WordBits])
           code(i) == DodCode(Dod(ts, i), Len(B[i - 1]))
           c == [i \in 3 .. n |-> code(i)]
           first == Signed(WordAt(d))
           v == ReadVarint(From(d, WordBytes))
           base == [ok |-> v.used > 0, pos |-> v.used * ByteBits, delta |-> v.val,
                    t |-> Signed(first + v.val)]
           next(r) == LET x == ReadDod(d, r.pos)
                          delta == Signed(r.delta + x.dod)
                      IN  IF r.ok /\ x.ok
                            THEN [ok |-> TRUE, pos |-> x.pos, delta |-> delta,
                                  t |-> Signed(r.t + delta)]
                            ELSE [r EXCEPT !.ok = FALSE]
           state(i) == [ok |-> TRUE, pos |-> Len(B[i]) - WordBits, delta |-> Delta(ts, i), t |-> ts[i]]
           R == CHOOSE f : f = [i \in 2 .. n |-> IF i = 2 THEN base ELSE next(f[i - 1])]
<1>1. n \in Nat /\ 2 <= n /\ 2 \in Int /\ n \in Int /\ n # 1 /\ ts # <<>> /\ 2 + 1 = 3
  OBVIOUS
<1>2. /\ \A i \in 2 .. n : B[i] \in Seq(0 .. 1)
      /\ B[2] = head \o Varint(Delta(ts, 2))
      /\ \A i \in 3 .. n : B[i] = B[i - 1] \o code(i)
  BY DEF IsDods
<1>3. \A i \in 3 .. n : code(i) \in Seq(0 .. 1)
  <2> SUFFICES ASSUME NEW i \in 3 .. n PROVE code(i) \in Seq(0 .. 1)
    OBVIOUS
  <2>1. Dod(ts, i) \in TimeRange
    BY DodRange
  <2>2. i - 1 \in 2 .. n
    BY <1>1
  <2>3. Len(B[i - 1]) \in Nat
    BY <1>2, <2>2
  <2> QED
    BY <2>1, <2>3, DodCodeIs
<1>4. ReadDods(d, n) = R
  BY Zenon DEF ReadDods, R, first, v, base, next
<1>5. /\ head \in Seq(0 .. 1) /\ Len(head) = WordBits /\ ts[1] % Pow2[WordBits] \in WordRange
      /\ Signed(ts[1] % Pow2[WordBits]) = ts[1]
  BY <1>1, HeadIs
<1>6. Delta(ts, 2) \in TimeRange /\ Signed(ts[1] + Delta(ts, 2)) = ts[2]
  <2>1. 2 \in 2 .. Len(ts) /\ 2 - 1 = 1
    BY <1>1
  <2> QED
    BY <2>1, DeltaRange
<1>7. /\ Varint(Delta(ts, 2)) \in Seq(0 .. 1)
      /\ Groups(ZigZag(Delta(ts, 2))) \in 1 .. MaxVarintLen
      /\ Len(Varint(Delta(ts, 2))) = ByteBits * Groups(ZigZag(Delta(ts, 2)))
  BY <1>6, VarintIs DEF TimeRange
<1>8. /\ \A i \in 2 .. n : Holds(d, 0, B[i])
      /\ \A i \in 3 .. n : Holds(d, Len(B[i - 1]), code(i))
  <2>1. \A i \in 3 .. n : c[i] = code(i)
    OBVIOUS
  <2>2. Holds(d, 0, B[n])
    OBVIOUS
  <2> HIDE DEF n, code, c
  <2>3. \A i \in 2 + 1 .. n : c[i] \in Seq(0 .. 1) /\ B[i] = B[i - 1] \o c[i]
    BY <1>1, <1>2, <1>3, <2>1
  <2>4. /\ \A i \in 2 .. n : Holds(d, 0, B[i])
        /\ \A i \in 2 + 1 .. n : Holds(d, Len(B[i - 1]), c[i])
    BY <1>1, <1>2, <2>2, <2>3, ChainHolds
  <2> QED
    BY <1>1, <2>1, <2>4
<1> HIDE DEF code, c, head
<1>9. Holds(d, 0, head) /\ Holds(d, WordBits, Varint(Delta(ts, 2)))
  <2>1. 2 \in 2 .. n
    BY <1>1
  <2>2. Holds(d, 0, head \o Varint(Delta(ts, 2)))
    BY <1>2, <1>8, <2>1
  <2>3. Holds(d, 0, head) /\ Holds(d, 0 + Len(head), Varint(Delta(ts, 2)))
    BY <1>5, <1>7, <2>2, HoldsConcat
  <2>4. 0 + WordBits = WordBits
    BY Widths
  <2> QED
    BY <1>5, <2>3, <2>4
<1>10. first = ts[1]
  <2>1. WordAt(d) = ts[1] % Pow2[WordBits]
    BY <1>5, <1>9, ReadsWord DEF head, WordRange
  <2> QED
    BY <1>5, <2>1
<1> DEFINE u == Groups(ZigZag(Delta(ts, 2)))
<1>11. v = [val |-> Delta(ts, 2), used |-> u] /\ WordBits <= Len(d)
  <2> DEFINE x == Delta(ts, 2)
  <2>1. ByteBits * WordBytes = WordBits /\ WordBits \in Nat /\ WordBits + 0 = WordBits /\ WordBytes \in Nat
    BY Widths
  <2>2. Len(Varint(x)) \in Nat
    BY <1>7
  <2>3. WordBits <= Len(d)
    <3>1. WordBits + Len(Varint(x)) <= Len(d) /\ Len(d) \in Nat
      BY <1>9 DEF Holds
    <3> HIDE DEF x
    <3> QED
      BY <2>1, <2>2, <3>1
  <2>4. Holds(d, ByteBits * WordBytes + 0, Varint(x))
    BY <1>9, <2>1
  <2> HIDE DEF x
  <2>5. From(d, WordBytes) \in Seq(0 .. 1) /\ Holds(From(d, WordBytes), 0, Varint(x))
    BY <2>1, <2>2, <2>3, <2>4, HoldsFrom
  <2>6. ReadVarint(From(d, WordBytes)) = [val |-> x, used |-> Groups(ZigZag(x))]
    BY <1>6, <2>5, ReadsVarint DEF TimeRange, x
  <2> QED
    BY <2>3, <2>6 DEF x
<1> HIDE DEF first, v
<1>12. base = state(2)
  <2>1. u > 0 /\ u \in Nat
    BY <1>7, Widths
  <2>2. Len(B[2]) = WordBits + ByteBits * u
    <3> DEFINE x == Varint(Delta(ts, 2))
    <3>1. x \in Seq(0 .. 1) /\ Len(x) = ByteBits * u /\ B[2] = head \o x
      BY <1>2, <1>7
    <3> HIDE DEF x, u
    <3>2. Len(head \o x) = Len(head) + Len(x)
      BY <1>5, <3>1, HoldsFirst
    <3> QED
      BY <1>5, <3>1, <3>2
  <2>3. Len(B[2]) - WordBits = u * ByteBits
    <3> HIDE DEF u
    <3> QED
      BY <2>1, <2>2, Widths
  <2> HIDE DEF u
  <2> QED
    BY <1>6, <1>10, <1>11, <2>1, <2>3
<1>13. ASSUME NEW i \in 2 .. n PROVE Len(B[i]) \in Nat /\ WordBits <= Len(B[i])
  <2> DEFINE T == {j \in 2 .. n : WordBits <= Len(B[j])}
  <2>1. 2 \in T
    <3>1. Len(B[2]) = WordBits + Len(Varint(Delta(ts, 2)))
      BY <1>2, <1>5, <1>7, ConcatProperties
    <3>2. Len(Varint(Delta(ts, 2))) \in Nat
      BY <1>7
    <3> QED
      BY <1>1, <3>1, <3>2, Widths
  <2>2. ASSUME NEW k \in 2 + 1 .. n, k - 1 \in T PROVE k \in T
    <3>1. k \in 3 .. n /\ k \in 2 .. n
      BY <1>1
    <3>2. B[k - 1] \in Seq(0 .. 1) /\ WordBits <= Len(B[k - 1])
      BY <1>2, <2>2
    <3>3. B[k] = B[k - 1] \o code(k) /\ code(k) \in Seq(0 .. 1)
      BY <1>2, <1>3, <3>1
    <3>4. Len(B[k]) = Len(B[k - 1]) + Len(code(k)) /\ Len(code(k)) \in Nat /\ Len(B[k - 1]) \in Nat
      BY <3>2, <3>3, ConcatProperties
    <3> QED
      BY <3>1, <3>2, <3>4, Widths
  <2> HIDE DEF T
  <2>3. i \in T
    BY <1>1, <2>1, <2>2, FromTo
  <2> QED
    BY <1>2, <2>3 DEF T
<1>14. ASSUME NEW i \in 3 .. n PROVE next(state(i - 1)) = state(i)
  <2> DEFINE p == Len(B[i - 1])
             x == Dod(ts, i)
             r == ReadDod(d, p - WordBits)
  <2>0. i - 1 \in 2 .. n /\ i \in 2 .. n
    BY <1>1
  <2>1. p \in Nat /\ WordBits <= p /\ B[i - 1] \in Seq(0 .. 1)
    BY <1>2, <1>13, <2>0
  <2>2. x \in TimeRange /\ Signed(Delta(ts, i - 1) + x) = Delta(ts, i)
    BY DodRange
  <2>3. x = 0 \/ BucketsOf(x) # {}
    OBVIOUS
  <2>4. Holds(d, p, DodCode(x, p)) /\ code(i) = DodCode(x, p)
    BY <1>8 DEF code
  <2>5. Len(B[i]) = p + Len(code(i)) /\ Len(code(i)) \in Nat
    <3>1. B[i] = B[i - 1] \o code(i) /\ code(i) \in Seq(0 .. 1)
      BY <1>2, <1>3
    <3> QED
      BY <2>1, <3>1, ConcatProperties
  <2> HIDE DEF p, x
  <2>6. WordBits + (p - WordBits) = p /\ p - WordBits \in Nat /\ WordBits \in Nat
    BY <2>1, Widths
  <2>7. p <= Len(d)
    <3>1. p + Len(DodCode(x, p)) <= Len(d) /\ Len(d) \in Nat
      BY <2>4 DEF Holds
    <3> QED
      BY <2>1, <2>4, <2>5, <3>1
  <2>8. r = [ok |-> TRUE, dod |-> x, pos |-> (p - WordBits) + Len(DodCode(x, p))]
    BY <2>1, <2>2, <2>3, <2>4, <2>6, <2>7, ReadsDod
  <2>9. (p - WordBits) + Len(DodCode(x, p)) = Len(B[i]) - WordBits
    BY <2>1, <2>4, <2>5, <2>6
  <2>10. Signed(ts[i - 1] + Delta(ts, i)) = ts[i]
    BY <2>0, DeltaRange
  <2>11. next(state(i - 1)) = [ok |-> TRUE, pos |-> r.pos, delta |-> Signed(Delta(ts, i - 1) + r.dod),
                               t |-> Signed(ts[i - 1] + Signed(Delta(ts, i - 1) + r.dod))]
    BY <2>8 DEF p
  <2> HIDE DEF next, r
  <2> QED
    BY <2>2, <2>8, <2>9, <2>10, <2>11
<1> HIDE DEF n, base, next, state
<1> DEFINE g == [i \in 2 .. n |-> state(i)]
<1>15. g = [i \in 2 .. n |-> IF i = 2 THEN base ELSE next(g[i - 1])]
  <2>1. ASSUME NEW i \in 2 .. n PROVE g[i] = IF i = 2 THEN base ELSE next(g[i - 1])
    <3>1. CASE i = 2
      BY <1>12, <3>1
    <3>2. CASE i # 2
      <4>1. i \in 3 .. n /\ i - 1 \in 2 .. n
        BY <1>1, <3>2
      <4> QED
        BY <1>14, <3>2, <4>1
    <3> QED
      BY <3>1, <3>2
  <2> QED
    BY <2>1
<1> HIDE DEF g
<1>16. R = [i \in 2 .. n |-> IF i = 2 THEN base ELSE next(R[i - 1])]
  BY <1>15, Zenon
<1> HIDE DEF R
<1> DEFINE T == {i \in 2 .. n : R[i] = state(i)}
<1>17. 2 \in T
  BY <1>1, <1>12, <1>16
<1>18. ASSUME NEW k \in 2 + 1 .. n, k - 1 \in T PROVE k \in T
  <2>1. k \in 3 .. n /\ k \in 2 .. n /\ k # 2
    BY <1>1
  <2>2. R[k - 1] = state(k - 1)
    BY <1>18
  <2>3. R[k] = next(R[k - 1])
    <3>1. R[k] = IF k = 2 THEN base ELSE next(R[k - 1])
      BY <1>16, <2>1, Zenon
    <3> QED
      BY <2>1, <3>1
  <2>4. R[k] = state(k)
    BY <1>14, <2>1, <2>2, <2>3
  <2> QED
    BY <2>1, <2>4
<1> HIDE DEF T
<1>19. \A k \in 2 .. n : k \in T
  BY <1>1, <1>17, <1>18, FromTo
<1>20. \A i \in 2 .. n : R[i].ok = TRUE /\ R[i].t = ts[i]
  <2> SUFFICES ASSUME NEW i \in 2 .. n PROVE R[i].ok = TRUE /\ R[i].t = ts[i]
    OBVIOUS
  <2>1. R[i] = state(i)
    BY <1>19 DEF T
  <2> QED
    BY <2>1 DEF state
<1>21. GorillaDecodeTimestamps(d, n) =
          IF Len(d) < WordBits THEN Failed
          ELSE IF n = 1 THEN <<first>>
          ELSE IF ~R[n].ok THEN Failed
          ELSE [i \in 1 .. n |-> IF i = 1 THEN first ELSE R[i].t]
  BY <1>4, Zenon DEF GorillaDecodeTimestamps, first
<1>22. ~(Len(d) < WordBits)
  BY <1>11, Widths
<1>23. R[n].ok = TRUE
  <2>1. n \in 2 .. n
    BY <1>1
  <2> QED
    BY <1>20, <2>1
<1>24. GorillaDecodeTimestamps(d, n) = [i \in 1 .. n |-> IF i = 1 THEN first ELSE R[i].t]
  BY <1>1, <1>21, <1>22, <1>23
<1>25. ASSUME NEW i \in 1 .. n PROVE (IF i = 1 THEN first ELSE R[i].t) = ts[i]
  <2>1. CASE i = 1
    BY <1>10, <2>1
  <2>2. CASE i # 1
    <3>1. i \in 2 .. n
      BY <1>1, <2>2
    <3> QED
      BY <1>20, <2>2, <3>1
  <2> QED
    BY <2>1, <2>2
<1> QED
  BY <1>24, <1>25 DEF n

-----------------------------------------------------------------------------
(* Version 2: the exclusive or of two values.                              *)

(* Bit k of a word, the highest first.                                     *)
BitOf(x, k) == (x \div Pow2[WordBits - k]) % 2

(* A word is its bits.                                                     *)
LEMMA BitOfIs ==
    ASSUME NEW x \in WordRange
    PROVE  /\ x \in Nat /\ x < Pow2[WordBits] /\ WordBits \in Nat
           /\ \A k \in 1 .. WordBits : BitOf(x, k) \in 0 .. 1 /\ Bits(x, WordBits)[k] = BitOf(x, k)
<1>1. x \in Nat /\ x < Pow2[WordBits] /\ WordBits \in Nat
  BY HalfWord, Widths DEF WordRange
<1>2. ASSUME NEW k \in 1 .. WordBits PROVE BitOf(x, k) \in 0 .. 1 /\ Bits(x, WordBits)[k] = BitOf(x, k)
  <2>1. WordBits - k \in Nat
    BY <1>1
  <2> QED
    BY <1>1, <2>1, PowQuotient, BitsAre DEF BitOf
<1> QED
  BY <1>1, <1>2

(* A word is its bits.                                                     *)
LEMMA SameBits ==
    ASSUME NEW x \in WordRange, NEW y \in WordRange,
           \A k \in 1 .. WordBits : BitOf(x, k) = BitOf(y, k)
    PROVE  x = y
<1> DEFINE s == Bits(x, WordBits)
<1>1. x \in Nat /\ x < Pow2[WordBits] /\ y \in Nat /\ y < Pow2[WordBits] /\ WordBits \in Nat
  BY BitOfIs
<1>2. s \in Seq(0 .. 1) /\ Len(s) = WordBits
  BY <1>1, BitsAre
<1>3. \A k \in 1 .. WordBits : s[k] = (x \div Pow2[WordBits - k]) % 2
                               /\ s[k] = (y \div Pow2[WordBits - k]) % 2
  BY BitOfIs DEF BitOf
<1> HIDE DEF s
<1>4. Number(s) = x
  BY <1>1, <1>2, <1>3, NumberBits
<1>5. Number(s) = y
  BY <1>1, <1>2, <1>3, NumberBits
<1> QED
  BY <1>4, <1>5

(* The exclusive or of two words, bit by bit.                              *)
LEMMA XorIs ==
    ASSUME NEW a \in WordRange, NEW b \in WordRange
    PROVE  /\ Xor(a, b) \in WordRange
           /\ \A k \in 1 .. WordBits : BitOf(Xor(a, b), k) = (BitOf(a, k) + BitOf(b, k)) % 2
<1> DEFINE n == WordBits
           e(k) == (Bits(a, n)[k] + Bits(b, n)[k]) % 2
           s == [k \in 1 .. n |-> e(k)]
<1>1. n \in Nat /\ \A k \in 1 .. n : BitOf(a, k) \in 0 .. 1 /\ BitOf(b, k) \in 0 .. 1
                   /\ Bits(a, n)[k] = BitOf(a, k) /\ Bits(b, n)[k] = BitOf(b, k)
  BY BitOfIs
<1>2. ASSUME NEW k \in 1 .. n PROVE e(k) \in 0 .. 1 /\ e(k) = (BitOf(a, k) + BitOf(b, k)) % 2
  <2>1. BitOf(a, k) \in 0 .. 1 /\ BitOf(b, k) \in 0 .. 1 /\ e(k) = (BitOf(a, k) + BitOf(b, k)) % 2
    BY <1>1
  <2> HIDE DEF e
  <2> QED
    BY <2>1
<1>3. Xor(a, b) = Number(s)
  BY DEF Xor
<1> HIDE DEF n, e
<1>4. s \in Seq(0 .. 1) /\ Len(s) = n /\ \A k \in 1 .. n : s[k] = e(k)
  <2>1. s \in Seq(0 .. 1) /\ Len(s) = n
    BY <1>1, <1>2, IsASeq
  <2> QED
    BY <2>1
<1> HIDE DEF s
<1>5. /\ Number(s) \in Nat /\ Number(s) < Pow2[n]
      /\ \A k \in 1 .. n : (Number(s) \div Pow2[n - k]) % 2 = s[k]
  BY <1>4, BitsNumber
<1>6. Pow2[n] \in Nat
  BY <1>1, Pow2Is
<1>7. Number(s) \in WordRange
  BY <1>5, <1>6 DEF WordRange, n
<1>8. \A k \in 1 .. n : BitOf(Number(s), k) = s[k]
  BY <1>5 DEF BitOf, n
<1> QED
  BY <1>2, <1>3, <1>4, <1>7, <1>8 DEF n

(* It commutes, is undone by itself and is 0 for equal words only.         *)
LEMMA XorSame ==
    ASSUME NEW a \in WordRange, NEW b \in WordRange
    PROVE  /\ Xor(a, b) = Xor(b, a) /\ Xor(a, Xor(a, b)) = b
           /\ Xor(a, b) = 0 <=> a = b
<1>0. 0 \in WordRange
  BY HalfWord DEF WordRange
<1>1. Xor(a, b) \in WordRange /\ Xor(b, a) \in WordRange /\ Xor(a, Xor(a, b)) \in WordRange
  BY XorIs
<1>2. \A k \in 1 .. WordBits :
         /\ BitOf(Xor(a, b), k) = (BitOf(a, k) + BitOf(b, k)) % 2
         /\ BitOf(Xor(b, a), k) = (BitOf(b, k) + BitOf(a, k)) % 2
         /\ BitOf(Xor(a, Xor(a, b)), k) = (BitOf(a, k) + BitOf(Xor(a, b), k)) % 2
  BY <1>1, XorIs
<1>3. \A k \in 1 .. WordBits : BitOf(a, k) \in 0 .. 1 /\ BitOf(b, k) \in 0 .. 1 /\ BitOf(0, k) = 0
  <2> SUFFICES ASSUME NEW k \in 1 .. WordBits
               PROVE  BitOf(a, k) \in 0 .. 1 /\ BitOf(b, k) \in 0 .. 1 /\ BitOf(0, k) = 0
    OBVIOUS
  <2>1. Pow2[WordBits - k] \in Nat \ {0}
    <3>1. WordBits - k \in Nat
      BY Widths
    <3> QED
      BY <3>1, Pow2Order
  <2>2. \A m \in Nat \ {0} : (0 \div m) % 2 = 0
    <3> SUFFICES ASSUME NEW m \in Nat \ {0} PROVE 0 \div m = 0
      OBVIOUS
    <3> QED
      BY DivIs
  <2> QED
    BY <2>1, <2>2, BitOfIs DEF BitOf
<1>4. Xor(a, b) = Xor(b, a)
  <2>1. ASSUME NEW k \in 1 .. WordBits PROVE BitOf(Xor(a, b), k) = BitOf(Xor(b, a), k)
    <3> DEFINE x == BitOf(a, k)
               y == BitOf(b, k)
    <3>1. x \in 0 .. 1 /\ y \in 0 .. 1 /\ BitOf(Xor(a, b), k) = (x + y) % 2 /\ BitOf(Xor(b, a), k) = (y + x) % 2
      BY <1>2, <1>3
    <3> HIDE DEF x, y
    <3> QED
      BY <3>1
  <2> QED
    BY <1>1, <2>1, SameBits
<1>5. Xor(a, Xor(a, b)) = b
  <2>1. ASSUME NEW k \in 1 .. WordBits PROVE BitOf(Xor(a, Xor(a, b)), k) = BitOf(b, k)
    <3> DEFINE x == BitOf(a, k)
               y == BitOf(b, k)
    <3>1. x \in 0 .. 1 /\ y \in 0 .. 1 /\ BitOf(Xor(a, Xor(a, b)), k) = (x + ((x + y) % 2)) % 2
      BY <1>2, <1>3
    <3> HIDE DEF x, y
    <3>2. (x + ((x + y) % 2)) % 2 = y
      BY <3>1
    <3> QED
      BY <3>1, <3>2 DEF y
  <2> QED
    BY <1>1, <2>1, SameBits
<1>6. ASSUME Xor(a, b) = 0 PROVE a = b
  <2>1. ASSUME NEW k \in 1 .. WordBits PROVE BitOf(a, k) = BitOf(b, k)
    <3> DEFINE x == BitOf(a, k)
               y == BitOf(b, k)
    <3>1. x \in 0 .. 1 /\ y \in 0 .. 1 /\ (x + y) % 2 = 0
      BY <1>2, <1>3, <1>6
    <3> HIDE DEF x, y
    <3>2. x = y
      BY <3>1
    <3> QED
      BY <3>2 DEF x, y
  <2> QED
    BY <2>1, SameBits
<1>7. ASSUME a = b PROVE Xor(a, b) = 0
  <2>1. ASSUME NEW k \in 1 .. WordBits PROVE BitOf(Xor(a, b), k) = BitOf(0, k)
    <3> DEFINE x == BitOf(a, k)
    <3>1. x \in 0 .. 1 /\ BitOf(Xor(a, b), k) = (x + x) % 2 /\ BitOf(0, k) = 0
      BY <1>2, <1>3, <1>7
    <3> HIDE DEF x
    <3>2. (x + x) % 2 = 0
      BY <3>1
    <3> QED
      BY <3>1, <3>2
  <2> QED
    BY <1>0, <1>1, <2>1, SameBits
<1> QED
  BY <1>4, <1>5, <1>6, <1>7

(* A word that is not zero has a one, and so zeros before and behind it.   *)
LEMMA ZerosAre ==
    ASSUME NEW x \in WordRange, x # 0
    PROVE  /\ LeadingZeros(x) \in 0 .. WordBits - 1 /\ TrailingZeros(x) \in 0 .. WordBits - 1
           /\ LeadingZeros(x) + TrailingZeros(x) <= WordBits - 1
           /\ BitOf(x, LeadingZeros(x) + 1) = 1
           /\ \A k \in 1 .. LeadingZeros(x) : BitOf(x, k) = 0
           /\ \A k \in 0 .. TrailingZeros(x) - 1 : BitOf(x, WordBits - k) = 0
<1> DEFINE n == WordBits
           A == {k \in 0 .. n - 1 : Bits(x, n)[k + 1] = 1}
           Z == {k \in 0 .. n - 1 : Bits(x, n)[n - k] = 1}
           l == LeadingZeros(x)
           t == TrailingZeros(x)
<1>0. 0 \in WordRange
  BY HalfWord DEF WordRange
<1>1. n \in Nat /\ \A k \in 1 .. n : BitOf(x, k) \in 0 .. 1 /\ Bits(x, n)[k] = BitOf(x, k)
  BY BitOfIs
<1>2. \E k \in 1 .. n : BitOf(x, k) = 1
  <2> SUFFICES ASSUME \A k \in 1 .. n : BitOf(x, k) # 1 PROVE FALSE
    OBVIOUS
  <2>1. ASSUME NEW k \in 1 .. n PROVE BitOf(x, k) = 0 /\ BitOf(0, k) = 0
    <3>1. BitOf(x, k) \in 0 .. 1 /\ BitOf(x, k) # 1
      BY <1>1
    <3>2. Xor(0, 0) = 0
      BY <1>0, XorSame
    <3>3. BitOf(0, k) \in 0 .. 1 /\ BitOf(0, k) = (BitOf(0, k) + BitOf(0, k)) % 2
      BY <1>0, <3>2, BitOfIs, XorIs
    <3> DEFINE y == BitOf(0, k)
    <3>4. y \in 0 .. 1 /\ y = (y + y) % 2
      BY <3>3
    <3> HIDE DEF y
    <3>5. y = 0
      BY <3>4
    <3> QED
      BY <3>1, <3>5 DEF y
  <2>2. x = 0
    BY <1>0, <2>1, SameBits
  <2> QED
    BY <2>2
<1>3. PICK one \in 1 .. n : BitOf(x, one) = 1
  BY <1>2
<1> HIDE DEF n
<1>4. A = {k \in 0 .. n - 1 : BitOf(x, k + 1) = 1}
  <2>1. \A k \in 0 .. n - 1 : k + 1 \in 1 .. n
    BY <1>1
  <2> QED
    BY <1>1, <2>1
<1>5. Z = {k \in 0 .. n - 1 : BitOf(x, n - k) = 1}
  <2>1. \A k \in 0 .. n - 1 : n - k \in 1 .. n
    BY <1>1
  <2> QED
    BY <1>1, <2>1
<1>6. l = Min(A) /\ t = Min(Z)
  BY DEF LeadingZeros, TrailingZeros, n
<1> HIDE DEF A, Z, l, t
<1>7. l \in A /\ \A k \in A : l <= k
  <2>1. A \in SUBSET Nat
    BY <1>1, <1>4
  <2>2. one - 1 \in A
    <3>1. one - 1 \in 0 .. n - 1 /\ (one - 1) + 1 = one
      BY <1>1
    <3> QED
      BY <1>3, <1>4, <3>1
  <2>3. \E k \in A : \A m \in A : k <= m
    BY <2>1, <2>2, Least
  <2> QED
    BY <1>6, <2>3, Zenon DEF Min
<1>8. t \in Z /\ \A k \in Z : t <= k
  <2>1. Z \in SUBSET Nat
    BY <1>1, <1>5
  <2>2. n - one \in Z
    <3>1. n - one \in 0 .. n - 1 /\ n - (n - one) = one
      BY <1>1
    <3> QED
      BY <1>3, <1>5, <3>1
  <2>3. \E k \in Z : \A m \in Z : k <= m
    BY <2>1, <2>2, Least
  <2> QED
    BY <1>6, <2>3, Zenon DEF Min
<1>9. l \in 0 .. n - 1 /\ t \in 0 .. n - 1 /\ BitOf(x, l + 1) = 1
  BY <1>4, <1>5, <1>7, <1>8
<1>10. l + t <= n - 1
  <2>1. (n - 1) - l \in 0 .. n - 1 /\ n - ((n - 1) - l) = l + 1
    BY <1>1, <1>9
  <2>2. (n - 1) - l \in Z
    BY <1>5, <1>9, <2>1
  <2>3. t <= (n - 1) - l
    BY <1>8, <2>2
  <2> QED
    BY <1>1, <1>9, <2>3
<1>11. ASSUME NEW k \in 1 .. l PROVE BitOf(x, k) = 0
  <2>1. k \in 1 .. n /\ k - 1 \in 0 .. n - 1 /\ (k - 1) + 1 = k /\ ~(l <= k - 1)
    BY <1>1, <1>9
  <2>2. k - 1 \notin A
    BY <1>7, <2>1
  <2>3. BitOf(x, k) # 1
    BY <1>4, <2>1, <2>2
  <2>4. BitOf(x, k) \in 0 .. 1
    BY <1>1, <2>1
  <2> QED
    BY <2>3, <2>4
<1>12. ASSUME NEW k \in 0 .. t - 1 PROVE BitOf(x, n - k) = 0
  <2>1. n - k \in 1 .. n /\ k \in 0 .. n - 1 /\ ~(t <= k)
    BY <1>1, <1>9
  <2>2. k \notin Z
    BY <1>8, <2>1
  <2>3. BitOf(x, n - k) # 1
    BY <1>5, <2>1, <2>2
  <2>4. BitOf(x, n - k) \in 0 .. 1
    BY <1>1, <2>1
  <2> QED
    BY <2>3, <2>4
<1> QED
  BY <1>9, <1>10, <1>11, <1>12 DEF n, l, t

(* Products of naturals keep and reflect the order.                        *)
LEMMA Cancels ==
    ASSUME NEW a \in Nat, NEW b \in Nat, NEW p \in Nat \ {0}, a * p < b * p
    PROVE  a < b
<1> SUFFICES ASSUME b <= a PROVE FALSE
  OBVIOUS
<1>1. a * p \in Nat /\ b * p \in Nat
  OBVIOUS
<1>2. CASE a = b
  BY <1>1, <1>2
<1>3. CASE b < a
  <2>1. b * p + p <= a * p
    BY <1>3, ProductOrder
  <2> QED
    BY <1>1, <2>1
<1> QED
  BY <1>2, <1>3

(* The bits of x between the zeros at its ends, or between fewer.          *)
LEMMA InWindow ==
    ASSUME NEW x \in WordRange, x # 0, NEW w \in Nat \X Nat,
           w[1] <= LeadingZeros(x), w[2] <= TrailingZeros(x)
    PROVE  /\ Middle(w) \in Nat /\ x \div Pow2[w[2]] \in Nat
           /\ x \div Pow2[w[2]] < Pow2[Middle(w)]
           /\ (x \div Pow2[w[2]]) * Pow2[w[2]] = x
<1> DEFINE n == WordBits
           l == LeadingZeros(x)
           t == TrailingZeros(x)
           a == w[1]
           z == w[2]
           m == Middle(w)
<1>1. x \in Nat /\ x < Pow2[n] /\ n \in Nat
  BY BitOfIs
<1>2. /\ l \in 0 .. n - 1 /\ t \in 0 .. n - 1 /\ l + t <= n - 1
      /\ \A k \in 1 .. l : BitOf(x, k) = 0
      /\ \A k \in 0 .. t - 1 : BitOf(x, n - k) = 0
  BY ZerosAre
<1>3. a \in Nat /\ z \in Nat /\ a <= l /\ z <= t /\ m = (n - a) - z
  BY DEF Middle
<1>3a. \A k \in 1 .. n : BitOf(x, k) = (x \div Pow2[n - k]) % 2
  BY DEF BitOf
<1> HIDE DEF n, l, t, a, z, m
<1>4. m \in Nat /\ m + z = n - a /\ n - a \in Nat
  BY <1>1, <1>2, <1>3
<1> DEFINE T == {j \in 0 .. l : x \div Pow2[n - j] = 0}
           U == {j \in 0 .. t : (x \div Pow2[j]) * Pow2[j] = x}
<1>5. \A j \in 0 .. l : j \in T
  <2>1. 0 \in T
    <3>1. Pow2[n] \in Nat \ {0}
      BY <1>1, Pow2Order
    <3>2. x \div Pow2[n] = 0
      BY <1>1, <3>1, DivIs
    <3> QED
      BY <1>1, <1>2, <3>2
  <2>2. ASSUME NEW j \in 1 .. l, j - 1 \in T PROVE j \in T
    <3>1. n - j \in Nat /\ (n - j) + 1 = n - (j - 1) /\ j \in 1 .. n
      BY <1>1, <1>2
    <3>2. x \div Pow2[n - j] = 2 * (x \div Pow2[(n - j) + 1]) + ((x \div Pow2[n - j]) % 2)
      BY <1>1, <3>1, PowQuotient
    <3>3. (x \div Pow2[n - j]) % 2 = 0
      BY <1>2, <1>3a, <3>1
    <3>4. x \div Pow2[(n - j) + 1] = 0
      BY <2>2, <3>1
    <3>5. x \div Pow2[n - j] = 0
      BY <3>2, <3>3, <3>4
    <3> QED
      BY <3>5
  <2>3. l \in Nat
    BY <1>2
  <2> HIDE DEF T
  <2> QED
    BY <2>1, <2>2, <2>3, UpTo
<1>6. \A j \in 0 .. t : j \in U
  <2>1. 0 \in U
    <3>1. Pow2[0] = 1
      BY Pow2Is
    <3>2. x \div 1 = x /\ x * 1 = x
      BY <1>1
    <3> QED
      BY <1>2, <3>1, <3>2
  <2>2. ASSUME NEW j \in 1 .. t, j - 1 \in U PROVE j \in U
    <3> DEFINE i == j - 1
               q == x \div Pow2[i]
               h == x \div Pow2[i + 1]
               P == Pow2[i]
    <3>1. i \in Nat /\ i + 1 = j /\ i \in 0 .. t - 1 /\ n - i \in 1 .. n /\ n - (n - i) = i
      BY <1>1, <1>2
    <3>2. BitOf(x, n - i) = 0
      BY <1>2, <3>1
    <3>3. q % 2 = 0
      BY <1>3a, <3>1, <3>2
    <3>4. q = 2 * h + (q % 2) /\ q \in Nat
      BY <1>1, <3>1, PowQuotient
    <3>4a. h \in Nat
      <4>1. i + 1 \in Nat
        BY <3>1
      <4> HIDE DEF i
      <4> QED
        BY <1>1, <4>1, PowQuotient
    <3>5. q * P = x
      BY <2>2
    <3>6. Pow2[i + 1] = 2 * P /\ P \in Nat
      <4>1. i + 1 \in Nat \ {0} /\ (i + 1) - 1 = i
        BY <3>1
      <4> HIDE DEF i
      <4> QED
        BY <3>1, <4>1, Pow2Is
    <3> HIDE DEF q, h, P
    <3>7. q = 2 * h
      BY <3>3, <3>4, <3>4a
    <3>8. h * (2 * P) = (2 * h) * P
      BY <3>4a, <3>6
    <3>9. h * Pow2[i + 1] = x
      BY <3>5, <3>6, <3>7, <3>8
    <3> QED
      BY <3>1, <3>9 DEF h
  <2>3. t \in Nat
    BY <1>2
  <2> HIDE DEF U
  <2> QED
    BY <2>1, <2>2, <2>3, UpTo
<1>7. x < Pow2[n - a]
  <2>1. a \in 0 .. l
    BY <1>2, <1>3
  <2>2. x \div Pow2[n - a] = 0
    BY <1>5, <2>1
  <2>3. Pow2[n - a] \in Nat \ {0}
    BY <1>4, Pow2Order
  <2> DEFINE P == Pow2[n - a]
  <2>4. 0 * P <= x /\ x < 0 * P + P
    <3> HIDE DEF P
    <3> QED
      BY <1>1, <2>2, <2>3, DivIs DEF P
  <2> QED
    BY <2>3, <2>4
<1> DEFINE y == x \div Pow2[z]
           P == Pow2[z]
<1>8. P \in Nat \ {0} /\ Pow2[m] \in Nat /\ Pow2[n - a] = Pow2[m] * P
  <2>1. P \in Nat \ {0}
    BY <1>3, Pow2Order
  <2>2. Pow2[m] \in Nat
    BY <1>4, Pow2Is
  <2>3. Pow2[m + z] = Pow2[m] * Pow2[z]
    BY <1>3, <1>4, Pow2Sum
  <2> QED
    BY <1>4, <2>1, <2>2, <2>3
<1>9. y * P = x
  <2>1. z \in 0 .. t
    BY <1>2, <1>3
  <2> QED
    BY <1>6, <2>1
<1>10. y \in Nat
  BY <1>1, <1>3, PowQuotient
<1> HIDE DEF y, P
<1>11. y < Pow2[m]
  BY <1>7, <1>8, <1>9, <1>10, Cancels
<1> QED
  BY <1>4, <1>9, <1>10, <1>11 DEF m, y, P, z

(* Reading more bits than a number was written with.                       *)
LEMMA ReadsMore ==
    ASSUME NEW s \in Seq(0 .. 1), NEW p \in Nat, NEW m \in Nat, NEW n \in Nat, m <= n,
           NEW y \in Nat, y < Pow2[m], Holds(s, p, Bits(y, m))
    PROVE  y * Pow2[n - m] <= ReadBits(s, p, n)
<1> DEFINE q == BitsAt(s, p, n)
           N == Number(q)
           t == Bits(y, m)
           h == N \div Pow2[n - m]
<1>0. n - m \in Nat
  OBVIOUS
<1>1. /\ q \in Seq(0 .. 1) /\ Len(q) = n /\ \A k \in 1 .. n : q[k] = BitAt(s, p + k - 1)
      /\ ReadBits(s, p, n) = N
  BY BitsAtIs
<1>2. t \in Seq(0 .. 1) /\ Len(t) = m /\ \A k \in 1 .. m : t[k] = (y \div Pow2[m - k]) % 2
  BY BitsAre
<1>3. N \in Nat /\ N < Pow2[n] /\ \A k \in 1 .. n : (N \div Pow2[n - k]) % 2 = q[k]
  BY <1>1, BitsNumber
<1>4. Holds(s, p, t)
  OBVIOUS
<1> HIDE DEF q, N, t
<1>5. ASSUME NEW k \in 1 .. m PROVE q[k] = t[k]
  <2>1. k \in 1 .. Len(t) /\ Len(t) \in Nat
    BY <1>2
  <2>2. BitAt(s, p + k - 1) = t[k]
    BY <1>4, <2>1, BitHeld
  <2>3. k \in 1 .. n
    OBVIOUS
  <2> QED
    BY <1>1, <2>2, <2>3
<1> DEFINE P == Pow2[n - m]
<1>6. P \in Nat \ {0} /\ Pow2[m] \in Nat /\ Pow2[n] = Pow2[m] * P
  <2>1. P \in Nat \ {0} /\ Pow2[m] \in Nat
    <3>1. P \in Nat \ {0}
      BY <1>0, Pow2Order
    <3>2. Pow2[m] \in Nat
      BY Pow2Is
    <3> QED
      BY <3>1, <3>2
  <2>2. m + (n - m) = n
    OBVIOUS
  <2>3. Pow2[m + (n - m)] = Pow2[m] * Pow2[n - m]
    BY <1>0, Pow2Sum
  <2> QED
    BY <2>1, <2>2, <2>3
<1>7. h \in Nat /\ h * P <= N
  <2>1. h \in Nat
    BY <1>0, <1>3, PowQuotient
  <2> HIDE DEF P
  <2>2. h = N \div P
    BY DEF P
  <2> HIDE DEF h
  <2> QED
    BY <1>3, <1>6, <2>1, <2>2, DivIs
<1> HIDE DEF P
<1>8. h < Pow2[m]
  <2>1. h * P \in Nat /\ Pow2[m] * P \in Nat
    BY <1>6, <1>7
  <2>2. h * P < Pow2[m] * P
    BY <1>3, <1>6, <1>7, <2>1
  <2> HIDE DEF h
  <2> QED
    BY <1>6, <1>7, <2>2, Cancels
<1>9. ASSUME NEW k \in 1 .. m PROVE t[k] = (h \div Pow2[m - k]) % 2
  <2>1. m - k \in Nat /\ (n - m) + (m - k) = n - k /\ k \in 1 .. n
    OBVIOUS
  <2>2. Pow2[n - k] = P * Pow2[m - k] /\ Pow2[m - k] \in Nat \ {0}
    <3>1. Pow2[(n - m) + (m - k)] = Pow2[n - m] * Pow2[m - k]
      BY <1>0, <2>1, Pow2Sum
    <3> QED
      BY <2>1, <3>1, Pow2Order DEF P
  <2>3. h \div Pow2[m - k] = N \div (P * Pow2[m - k])
    BY <1>3, <1>6, <2>2, DivDiv DEF P
  <2>4. (N \div Pow2[n - k]) % 2 = t[k]
    BY <1>3, <1>5, <2>1
  <2> QED
    BY <2>2, <2>3, <2>4
<1> HIDE DEF h
<1>10. Number(t) = h
  BY <1>2, <1>7, <1>8, <1>9, NumberBits
<1>11. Number(t) = y
  BY <1>2, NumberBits
<1> QED
  BY <1>1, <1>7, <1>10, <1>11 DEF P

(* What the encoder appends for one value, and the window it leaves.       *)
Code(x, w) == IF x = 0 THEN [bits |-> <<0>>, window |-> w] ELSE XorCode(x, w)
(* The window of its own that a code can bring.                            *)
Own(x) == <<LeadingZeros(x), TrailingZeros(x)>>

(* The zeros at both ends, and the trailing ones fit their field.          *)
LEMMA OwnIs ==
    ASSUME NEW x \in WordRange, x # 0
    PROVE  /\ Own(x) \in Nat \X Nat /\ Own(x)[1] = LeadingZeros(x) /\ Own(x)[2] = TrailingZeros(x)
           /\ Own(x)[2] < Pow2[TrailBits]
           /\ Own(x)[1] < WordBits
<1>1. LeadingZeros(x) \in 0 .. WordBits - 1 /\ TrailingZeros(x) \in 0 .. WordBits - 1
  BY ZerosAre
<1>2. Own(x)[1] = LeadingZeros(x) /\ Own(x)[2] = TrailingZeros(x)
  BY DEF Own
<1>3. WordBits \in Nat /\ WordBits <= Pow2[TrailBits] /\ Pow2[TrailBits] \in Nat
  BY Widths, CodecConstants, Pow2Is
<1>4. Own(x) \in Nat \X Nat
  BY <1>1, <1>3 DEF Own
<1> QED
  BY <1>1, <1>2, <1>3, <1>4

(* No value fits the window that the loop starts with.                     *)
LEMMA NoWindowIs ==
    /\ NoWindow \in Nat \X Nat
    /\ \A x \in WordRange : x # 0 => ~Fits(x, NoWindow)
<1>1. Pow2[ByteBits] \in Nat /\ WordBits \in Nat /\ WordBits < Pow2[ByteBits]
  BY Widths, CodecConstants, Pow2Is
<1>2. NoWindow \in Nat \X Nat /\ NoWindow[1] = Pow2[ByteBits] - 1
  BY <1>1 DEF NoWindow
<1>3. ASSUME NEW x \in WordRange, x # 0 PROVE ~Fits(x, NoWindow)
  <2>1. LeadingZeros(x) \in 0 .. WordBits - 1
    BY <1>3, ZerosAre
  <2> QED
    BY <1>1, <1>2, <2>1 DEF Fits
<1> QED
  BY <1>2, <1>3

(* The code in the window of the value before.                             *)
LEMMA FittingCode ==
    ASSUME NEW x \in WordRange, x # 0, NEW w \in Nat \X Nat, Fits(x, w)
    PROVE  /\ XorCode(x, w).window = w
           /\ XorCode(x, w).bits = <<1, 0>> \o Bits(x \div Pow2[w[2]], Middle(w))
           /\ w[1] <= LeadingZeros(x) /\ w[2] <= TrailingZeros(x)
<1>1. XorCode(x, w) = [bits |-> <<1, 0>> \o Bits(x \div Pow2[w[2]], Middle(w)), window |-> w]
  BY Zenon DEF XorCode
<1>2. LeadingZeros(x) >= w[1] /\ TrailingZeros(x) >= w[2]
  BY DEF Fits
<1>3. LeadingZeros(x) \in Nat /\ TrailingZeros(x) \in Nat /\ w[1] \in Nat /\ w[2] \in Nat
  BY ZerosAre
<1> QED
  BY <1>1, <1>2, <1>3

(* The code with a window of its own.                                      *)
OwnBits(x) ==
    <<1, 1>> \o Bits(Own(x)[1], LeadBits) \o Bits(Own(x)[2], TrailBits)
        \o Bits(x \div Pow2[Own(x)[2]], Middle(Own(x)))

(* A value that does not fit the window before brings its own.             *)
LEMMA FreshCode ==
    ASSUME NEW x \in WordRange, x # 0, NEW w \in Nat \X Nat, ~Fits(x, w)
    PROVE  XorCode(x, w).window = Own(x) /\ XorCode(x, w).bits = OwnBits(x)
<1>1. XorCode(x, w) = [bits |-> OwnBits(x), window |-> Own(x)]
  BY Zenon DEF XorCode, OwnBits, Own
<1> QED
  BY <1>1

(* The parts of a code with a window of its own.                           *)
LEMMA OwnBitsAre ==
    ASSUME NEW x \in WordRange, x # 0
    PROVE  /\ OwnBits(x) \in Seq(0 .. 1)
           /\ Middle(Own(x)) \in Nat /\ x \div Pow2[Own(x)[2]] \in Nat
           /\ x \div Pow2[Own(x)[2]] < Pow2[Middle(Own(x))]
           /\ (x \div Pow2[Own(x)[2]]) * Pow2[Own(x)[2]] = x
           /\ Len(OwnBits(x)) = ((2 + LeadBits) + TrailBits) + Middle(Own(x))
           /\ \A d \in Seq(0 .. 1), p \in Nat :
                 Holds(d, p, OwnBits(x)) =>
                     /\ Holds(d, p, <<1, 1>>)
                     /\ Holds(d, p + 2, Bits(Own(x)[1], LeadBits))
                     /\ Holds(d, p + (2 + LeadBits), Bits(Own(x)[2], TrailBits))
                     /\ Holds(d, p + ((2 + LeadBits) + TrailBits),
                              Bits(x \div Pow2[Own(x)[2]], Middle(Own(x))))
<1> DEFINE w == Own(x)
           y == x \div Pow2[w[2]]
           a == <<1, 1>>
           b == Bits(w[1], LeadBits)
           c == Bits(w[2], TrailBits)
           e == Bits(y, Middle(w))
<1>1. w \in Nat \X Nat /\ w[1] = LeadingZeros(x) /\ w[2] = TrailingZeros(x)
  BY OwnIs
<1>2. w[1] \in Nat /\ w[2] \in Nat /\ w[1] <= LeadingZeros(x) /\ w[2] <= TrailingZeros(x)
  BY <1>1
<1>3. OwnBits(x) = ((a \o b) \o c) \o e
  BY DEF OwnBits
<1> HIDE DEF w
<1>4. Middle(w) \in Nat /\ y \in Nat /\ y < Pow2[Middle(w)] /\ y * Pow2[w[2]] = x
  BY <1>1, <1>2, InWindow
<1>5. LeadBits \in Nat /\ TrailBits \in Nat
  BY CodecConstants
<1> HIDE DEF y
<1>6. b \in Seq(0 .. 1) /\ Len(b) = LeadBits
  BY <1>2, <1>5, BitsAre
<1>7. c \in Seq(0 .. 1) /\ Len(c) = TrailBits
  BY <1>2, <1>5, BitsAre
<1>8. e \in Seq(0 .. 1) /\ Len(e) = Middle(w)
  BY <1>4, BitsAre
<1>9. a \in Seq(0 .. 1) /\ Len(a) = 2
  OBVIOUS
<1> HIDE DEF a, b, c, e
<1> DEFINE ab == a \o b
<1>10. ab \in Seq(0 .. 1) /\ Len(ab) = 2 + LeadBits
  BY <1>6, <1>9, HoldsFirst
<1> HIDE DEF ab
<1> DEFINE abc == ab \o c
<1>11. abc \in Seq(0 .. 1) /\ Len(abc) = (2 + LeadBits) + TrailBits
  BY <1>7, <1>10, HoldsFirst
<1> HIDE DEF abc
<1>12. OwnBits(x) = abc \o e
  BY <1>3 DEF ab, abc
<1>13. OwnBits(x) \in Seq(0 .. 1) /\ Len(OwnBits(x)) = ((2 + LeadBits) + TrailBits) + Middle(w)
  BY <1>8, <1>11, <1>12, HoldsFirst
<1>14. ASSUME NEW d \in Seq(0 .. 1), NEW p \in Nat, Holds(d, p, OwnBits(x))
       PROVE  /\ Holds(d, p, a) /\ Holds(d, p + 2, b) /\ Holds(d, p + (2 + LeadBits), c)
              /\ Holds(d, p + ((2 + LeadBits) + TrailBits), e)
  <2>1. Holds(d, p, abc) /\ Holds(d, p + ((2 + LeadBits) + TrailBits), e)
    BY <1>8, <1>11, <1>12, <1>14, HoldsConcat
  <2>2. Holds(d, p, ab) /\ Holds(d, p + (2 + LeadBits), c)
    BY <1>7, <1>10, <2>1, HoldsConcat DEF abc
  <2>3. Holds(d, p, a) /\ Holds(d, p + 2, b)
    BY <1>6, <1>9, <2>2, HoldsConcat DEF ab
  <2> QED
    BY <2>1, <2>2, <2>3
<1> QED
  BY <1>4, <1>13, <1>14 DEF a, b, c, e, y, w

(* A code is bits, and leaves a window.                                    *)
LEMMA CodeIs ==
    ASSUME NEW x \in WordRange, NEW w \in Nat \X Nat
    PROVE  Code(x, w).bits \in Seq(0 .. 1) /\ Code(x, w).window \in Nat \X Nat
<1>1. CASE x = 0
  <2>1. Code(x, w) = [bits |-> <<0>>, window |-> w]
    BY <1>1 DEF Code
  <2> QED
    BY <2>1
<1>2. CASE x # 0 /\ Fits(x, w)
  <2> DEFINE y == x \div Pow2[w[2]]
             m == Middle(w)
  <2>1. XorCode(x, w).window = w /\ XorCode(x, w).bits = <<1, 0>> \o Bits(y, m)
        /\ w[1] <= LeadingZeros(x) /\ w[2] <= TrailingZeros(x)
    BY <1>2, FittingCode
  <2>2. y \in Nat /\ m \in Nat
    BY <1>2, <2>1, InWindow
  <2> HIDE DEF y, m
  <2>3. Bits(y, m) \in Seq(0 .. 1)
    BY <2>2, BitsAre
  <2>4. <<1, 0>> \in Seq(0 .. 1)
    OBVIOUS
  <2>5. <<1, 0>> \o Bits(y, m) \in Seq(0 .. 1)
    BY <2>3, <2>4, ConcatProperties
  <2> QED
    BY <1>2, <2>1, <2>5 DEF Code
<1>3. CASE x # 0 /\ ~Fits(x, w)
  BY <1>3, FreshCode, OwnBitsAre, OwnIs DEF Code
<1> QED
  BY <1>1, <1>2, <1>3

-----------------------------------------------------------------------------
(* Version 2: one value is read.                                           *)

(* A reader at bit p with a window and the value before.                   *)
ReaderAt(p, w, v) == [pos |-> p, window |-> w, v |-> v]

(* The next two bits.                                                      *)
LEMMA TwoBits ==
    ASSUME NEW s \in Seq(0 .. 1), NEW p \in Nat, NEW i \in 0 .. 1, NEW j \in 0 .. 1,
           Holds(s, p, <<i, j>>)
    PROVE  BitAt(s, p) = i /\ BitAt(s, p + 1) = j /\ Skip(s, p, 2) = p + 2 /\ p + 2 <= Len(s)
<1> DEFINE t == <<i, j>>
<1>1. Len(t) = 2 /\ t[1] = i /\ t[2] = j /\ 1 \in 1 .. 2 /\ 2 \in 1 .. 2 /\ 2 \in Nat
  OBVIOUS
<1>2. Holds(s, p, t)
  OBVIOUS
<1> HIDE DEF t
<1>3. BitAt(s, p + 1 - 1) = i /\ BitAt(s, p + 2 - 1) = j
  <2>1. 1 \in 1 .. Len(t) /\ 2 \in 1 .. Len(t) /\ Len(t) \in Nat
    BY <1>1
  <2>2. BitAt(s, p + 1 - 1) = t[1]
    BY <1>2, <2>1, BitHeld
  <2>3. BitAt(s, p + 2 - 1) = t[2]
    BY <1>2, <2>1, BitHeld
  <2> QED
    BY <1>1, <2>2, <2>3
<1>4. p + 1 - 1 = p /\ p + 2 - 1 = p + 1
  OBVIOUS
<1>5. p + 2 <= Len(s)
  BY <1>1, <1>2 DEF Holds
<1>6. Skip(s, p, 2) = p + 2
  BY <1>5, SkipIs
<1> QED
  BY <1>3, <1>4, <1>5, <1>6

(* A zero bit repeats the value before.                                    *)
LEMMA ReadsZero ==
    ASSUME NEW s \in Seq(0 .. 1), NEW p \in Nat, NEW w, NEW v, Holds(s, p, << 0 >>)
    PROVE  ReadXor(s, ReaderAt(p, w, v)) = ReaderAt(p + 1, w, v)
<1> DEFINE t == <<0>>
           r == ReaderAt(p, w, v)
<1>1. Len(t) = 1 /\ t[1] = 0 /\ 1 \in 1 .. Len(t) /\ Len(t) \in Nat
  OBVIOUS
<1>2. Holds(s, p, t)
  OBVIOUS
<1> HIDE DEF t
<1>3. BitAt(s, p + 1 - 1) = 0
  BY <1>1, <1>2, BitHeld
<1>4. p + 1 - 1 = p
  OBVIOUS
<1>5. p + 1 <= Len(s)
  BY <1>1, <1>2 DEF Holds
<1>6. Skip(s, p, 1) = p + 1
  BY <1>5, SkipIs
<1>7. r.pos = p /\ [r EXCEPT !.pos = p + 1] = ReaderAt(p + 1, w, v)
  BY DEF ReaderAt
<1>8. BitAt(s, r.pos) = 0 => ReadXor(s, r) = [r EXCEPT !.pos = Skip(s, r.pos, 1)]
  BY Zenon DEF ReadXor
<1> HIDE DEF r
<1>9. BitAt(s, r.pos) = 0
  BY <1>3, <1>4, <1>7
<1>10. ReadXor(s, r) = [r EXCEPT !.pos = p + 1]
  BY <1>6, <1>7, <1>8, <1>9
<1> QED
  BY <1>7, <1>10 DEF r

(* What ReadXor makes of the bits behind the window.                       *)
ReadBehind(s, p, w, v, body) ==
    ReaderAt(Skip(s, body, Middle(w)), w,
             Xor(v, (ReadBits(s, body, Middle(w)) * Pow2[w[2]]) % Pow2[WordBits]))

(* The second bit says whether a window follows.                           *)
LEMMA ReadXorCases ==
    ASSUME NEW s \in Seq(0 .. 1), NEW p \in Nat, NEW w, NEW v, BitAt(s, p) = 1, Skip(s, p, 2) = p + 2
    PROVE  /\ BitAt(s, p + 1) = 0 => ReadXor(s, ReaderAt(p, w, v)) = ReadBehind(s, p, w, v, p + 2)
           /\ BitAt(s, p + 1) = 1 =>
                 ReadXor(s, ReaderAt(p, w, v)) =
                     ReadBehind(s, p, <<ReadBits(s, p + 2, LeadBits),
                                     ReadBits(s, (p + 2) + LeadBits, TrailBits)>>,
                             v, Skip(s, p + 2, LeadBits + TrailBits))
<1> DEFINE r == ReaderAt(p, w, v)
           fresh == BitAt(s, r.pos + 1) = 1
           at == Skip(s, r.pos, 2)
           own == <<ReadBits(s, at, LeadBits), ReadBits(s, at + LeadBits, TrailBits)>>
           ww == IF fresh THEN own ELSE r.window
           body == IF fresh THEN Skip(s, at, LeadBits + TrailBits) ELSE at
           x == (ReadBits(s, body, Middle(ww)) * Pow2[ww[2]]) % Pow2[WordBits]
<1>1. r.pos = p /\ r.window = w /\ r.v = v
  BY DEF ReaderAt
<1>2. BitAt(s, r.pos) # 0 =>
        ReadXor(s, r) = [pos |-> Skip(s, body, Middle(ww)), window |-> ww, v |-> Xor(r.v, x)]
  BY Zenon DEF ReadXor, fresh, at, own, ww, body, x
<1>3. BitAt(s, r.pos) # 0
  BY <1>1
<1>4. at = p + 2
  BY <1>1
<1> HIDE DEF r, x
<1>5. ReadXor(s, r) = [pos |-> Skip(s, body, Middle(ww)), window |-> ww, v |-> Xor(v, x)]
  BY <1>1, <1>2, <1>3
<1>6. ASSUME BitAt(s, p + 1) = 0 PROVE ReadXor(s, r) = ReadBehind(s, p, w, v, p + 2)
  <2>1. ~fresh
    BY <1>1, <1>6
  <2>2. ww = w /\ body = p + 2
    BY <1>1, <1>4, <2>1
  <2> HIDE DEF ww, body
  <2> QED
    BY <1>5, <2>2 DEF ReadBehind, ReaderAt, x
<1>7. ASSUME BitAt(s, p + 1) = 1
      PROVE  ReadXor(s, r) = ReadBehind(s, p, <<ReadBits(s, p + 2, LeadBits),
                                             ReadBits(s, (p + 2) + LeadBits, TrailBits)>>,
                                     v, Skip(s, p + 2, LeadBits + TrailBits))
  <2>1. fresh
    BY <1>1, <1>7
  <2>2. ww = <<ReadBits(s, p + 2, LeadBits), ReadBits(s, (p + 2) + LeadBits, TrailBits)>>
        /\ body = Skip(s, p + 2, LeadBits + TrailBits)
    BY <1>4, <2>1
  <2> HIDE DEF ww, body
  <2> QED
    BY <1>5, <2>2 DEF ReadBehind, ReaderAt, x
<1> QED
  BY <1>6, <1>7 DEF r

(* The bits behind the window give the value.                              *)
LEMMA ReadsMiddle ==
    ASSUME NEW s \in Seq(0 .. 1), NEW p \in Nat, NEW body \in Nat, NEW w \in Nat \X Nat,
           NEW a \in WordRange, NEW b \in WordRange, a # b,
           w[1] <= LeadingZeros(Xor(a, b)), w[2] <= TrailingZeros(Xor(a, b)),
           Holds(s, body, Bits(Xor(a, b) \div Pow2[w[2]], Middle(w)))
    PROVE  ReadBehind(s, p, w, a, body) = ReaderAt(body + Middle(w), w, b)
<1> DEFINE x == Xor(a, b)
           y == x \div Pow2[w[2]]
           m == Middle(w)
<1>1. x \in WordRange /\ x # 0 /\ Xor(a, x) = b
  BY XorIs, XorSame
<1>2. m \in Nat /\ y \in Nat /\ y < Pow2[m] /\ y * Pow2[w[2]] = x
  <2> HIDE DEF x
  <2>1. w[1] <= LeadingZeros(x) /\ w[2] <= TrailingZeros(x)
    BY DEF x
  <2> QED
    BY <1>1, <2>1, InWindow
<1>3. Holds(s, body, Bits(y, m))
  OBVIOUS
<1> HIDE DEF x, y, m
<1>4. ReadBits(s, body, m) = y
  BY <1>2, <1>3, ReadsBits
<1>5. x % Pow2[WordBits] = x
  <2>1. Pow2[WordBits] \in Nat \ {0} /\ x \in 0 .. Pow2[WordBits] - 1
    BY <1>1, HalfWord DEF WordRange
  <2> QED
    BY <2>1
<1>6. body + m <= Len(s)
  <2>1. Len(Bits(y, m)) = m
    BY <1>2, BitsAre
  <2> QED
    BY <1>3, <2>1 DEF Holds
<1>7. Skip(s, body, m) = body + m
  BY <1>2, <1>6, SkipIs
<1>8. ReadBehind(s, p, w, a, body) = ReaderAt(Skip(s, body, m), w, Xor(a, (ReadBits(s, body, m) * Pow2[w[2]]) % Pow2[WordBits]))
  BY DEF ReadBehind, m
<1> QED
  BY <1>1, <1>2, <1>4, <1>5, <1>7, <1>8 DEF m

(* One value comes back if it fits into the window before or the number of *)
(* its leading zeros fits its field.                                       *)
LEMMA ReadsXor ==
    ASSUME NEW s \in Seq(0 .. 1), NEW p \in Nat, NEW w \in Nat \X Nat,
           NEW a \in WordRange, NEW b \in WordRange,
           a # b => LeadingZeros(Xor(a, b)) < Pow2[LeadBits],
           Holds(s, p, Code(Xor(a, b), w).bits)
    PROVE  ReadXor(s, ReaderAt(p, w, a)) =
               ReaderAt(p + Len(Code(Xor(a, b), w).bits), Code(Xor(a, b), w).window, b)
<1> DEFINE x == Xor(a, b)
           c == Code(x, w)
<1>1. x \in WordRange /\ (x = 0 <=> a = b)
  BY XorIs, XorSame
<1>2. Holds(s, p, c.bits)
  OBVIOUS
<1>3. CASE a = b
  <2>1. c = [bits |-> <<0>>, window |-> w]
    BY <1>1, <1>3, Zenon DEF Code
  <2>2. c.bits = <<0>> /\ c.window = w /\ Len(c.bits) = 1
    BY <2>1
  <2> HIDE DEF c
  <2>3. Holds(s, p, <<0>>)
    BY <1>2, <2>2
  <2>4. ReadXor(s, ReaderAt(p, w, a)) = ReaderAt(p + 1, w, a)
    BY <2>3, ReadsZero
  <2> QED
    BY <1>3, <2>2, <2>4 DEF c
<1>4. CASE a # b /\ Fits(x, w)
  <2> DEFINE y == x \div Pow2[w[2]]
             m == Middle(w)
  <2> HIDE DEF x
  <2>1. c = XorCode(x, w)
    BY <1>1, <1>4, Zenon DEF Code
  <2>2. XorCode(x, w).window = w /\ XorCode(x, w).bits = <<1, 0>> \o Bits(y, m)
        /\ w[1] <= LeadingZeros(x) /\ w[2] <= TrailingZeros(x)
    BY <1>1, <1>4, FittingCode
  <2>3. y \in Nat /\ m \in Nat
    BY <1>1, <1>4, <2>2, InWindow
  <2> HIDE DEF c, y, m
  <2> DEFINE z == <<1, 0>>
             e == Bits(y, m)
  <2>4. z \in Seq(0 .. 1) /\ Len(z) = 2
    OBVIOUS
  <2>5. e \in Seq(0 .. 1) /\ Len(e) = m
    BY <2>3, BitsAre
  <2>6. c.bits = z \o e /\ c.window = w
    BY <2>1, <2>2
  <2> HIDE DEF z, e
  <2>7. Holds(s, p, z) /\ Holds(s, p + 2, e) /\ Len(c.bits) = 2 + m
    <3>1. Holds(s, p, z \o e)
      BY <1>2, <2>6
    <3>2. Holds(s, p, z) /\ Holds(s, p + Len(z), e)
      BY <2>4, <2>5, <3>1, HoldsConcat
    <3>3. Len(z \o e) = Len(z) + Len(e)
      BY <2>4, <2>5, HoldsFirst
    <3> QED
      BY <2>4, <2>5, <2>6, <3>2, <3>3
  <2>8. BitAt(s, p) = 1 /\ BitAt(s, p + 1) = 0 /\ Skip(s, p, 2) = p + 2
    <3>1. Holds(s, p, <<1, 0>>)
      BY <2>7 DEF z
    <3> QED
      BY <3>1, TwoBits
  <2>9. ReadXor(s, ReaderAt(p, w, a)) = ReadBehind(s, p, w, a, p + 2)
    BY <2>8, ReadXorCases
  <2>10. ReadBehind(s, p, w, a, p + 2) = ReaderAt((p + 2) + m, w, b)
    <3>1. p + 2 \in Nat
      OBVIOUS
    <3>2. Holds(s, p + 2, Bits(x \div Pow2[w[2]], Middle(w)))
      BY <2>7 DEF e, y, m
    <3> QED
      BY <1>4, <2>2, <3>1, <3>2, ReadsMiddle DEF x, m
  <2>11. (p + 2) + m = p + Len(c.bits)
    BY <2>3, <2>7
  <2> QED
    BY <2>6, <2>9, <2>10, <2>11 DEF c, x
<1>5. CASE a # b /\ ~Fits(x, w)
  <2> DEFINE o == Own(x)
             y == x \div Pow2[o[2]]
             m == Middle(o)
             h == (2 + LeadBits) + TrailBits
  <2> HIDE DEF x
  <2>0. LeadBits \in Nat /\ TrailBits \in Nat
    BY CodecConstants
  <2>1. c = XorCode(x, w)
    BY <1>1, <1>5, Zenon DEF Code
  <2>2. c.window = o /\ c.bits = OwnBits(x)
    BY <1>1, <1>5, <2>1, FreshCode
  <2>3. m \in Nat /\ Len(OwnBits(x)) = h + m
    BY <1>1, <1>5, OwnBitsAre
  <2>4. Holds(s, p, OwnBits(x))
    BY <1>2, <2>2
  <2>5. /\ Holds(s, p, <<1, 1>>) /\ Holds(s, p + 2, Bits(o[1], LeadBits))
        /\ Holds(s, p + (2 + LeadBits), Bits(o[2], TrailBits)) /\ Holds(s, p + h, Bits(y, m))
    BY <1>1, <1>5, <2>4, OwnBitsAre
  <2>6. /\ o \in Nat \X Nat /\ o[1] = LeadingZeros(x) /\ o[2] = TrailingZeros(x)
        /\ o[2] < Pow2[TrailBits] /\ o[1] < Pow2[LeadBits]
    <3>1. LeadingZeros(x) < Pow2[LeadBits]
      BY <1>5 DEF x
    <3> QED
      BY <1>1, <1>5, <3>1, OwnIs
  <2> HIDE DEF c, o
  <2>7. o[1] \in Nat /\ o[2] \in Nat /\ o = <<o[1], o[2]>>
    BY <2>6
  <2>8. BitAt(s, p) = 1 /\ BitAt(s, p + 1) = 1 /\ Skip(s, p, 2) = p + 2
    BY <2>5, TwoBits
  <2>9. ReadBits(s, p + 2, LeadBits) = o[1]
    <3>1. p + 2 \in Nat
      OBVIOUS
    <3> QED
      BY <2>0, <2>5, <2>6, <2>7, <3>1, ReadsBits
  <2>10. ReadBits(s, (p + 2) + LeadBits, TrailBits) = o[2]
    <3>1. (p + 2) + LeadBits \in Nat /\ (p + 2) + LeadBits = p + (2 + LeadBits)
      BY <2>0
    <3>2. Holds(s, (p + 2) + LeadBits, Bits(o[2], TrailBits))
      BY <2>5, <3>1
    <3> QED
      BY <2>0, <2>6, <2>7, <3>1, <3>2, ReadsBits
  <2>11. Skip(s, p + 2, LeadBits + TrailBits) = p + h
    <3>1. p + h <= Len(s) /\ p + h \in Nat
      <4>1. Len(Bits(y, m)) \in Nat /\ p + h + Len(Bits(y, m)) <= Len(s) /\ Len(s) \in Nat
        <5>1. Bits(y, m) \in Seq(0 .. 1)
          BY <1>1, <1>5, OwnBitsAre, BitsAre DEF o
        <5>2. Holds(s, p + h, Bits(y, m))
          BY <2>5
        <5> HIDE DEF y, m, h
        <5> QED
          BY <5>1, <5>2 DEF Holds
      <4> HIDE DEF y, m
      <4> QED
        BY <2>0, <4>1
    <3>2. p + 2 \in Nat /\ LeadBits + TrailBits \in Nat /\ (p + 2) + (LeadBits + TrailBits) = p + h
      BY <2>0
    <3> HIDE DEF h
    <3>3. (p + 2) + (LeadBits + TrailBits) <= Len(s)
      BY <3>1, <3>2
    <3> QED
      BY <3>2, <3>3, SkipIs
  <2>12. ReadXor(s, ReaderAt(p, w, a)) = ReadBehind(s, p, o, a, p + h)
    <3>1. ReadXor(s, ReaderAt(p, w, a)) =
             ReadBehind(s, p, <<ReadBits(s, p + 2, LeadBits), ReadBits(s, (p + 2) + LeadBits, TrailBits)>>,
                     a, Skip(s, p + 2, LeadBits + TrailBits))
      BY <2>8, ReadXorCases
    <3> QED
      BY <2>7, <2>9, <2>10, <2>11, <3>1
  <2>13. ReadBehind(s, p, o, a, p + h) = ReaderAt((p + h) + m, o, b)
    <3>1. p + h \in Nat
      BY <2>0
    <3>2. Holds(s, p + h, Bits(x \div Pow2[o[2]], Middle(o)))
      BY <2>5
    <3>3. o[1] <= LeadingZeros(x) /\ o[2] <= TrailingZeros(x)
      BY <2>6, <2>7
    <3> HIDE DEF h
    <3> QED
      BY <1>5, <2>6, <3>1, <3>2, <3>3, ReadsMiddle DEF x
  <2>14. (p + h) + m = p + Len(c.bits)
    BY <2>0, <2>2, <2>3
  <2> QED
    BY <2>2, <2>12, <2>13, <2>14 DEF c, x
<1> QED
  BY <1>3, <1>4, <1>5

-----------------------------------------------------------------------------
(* Version 2: the values.                                                  *)

(* What the encoder of the values keeps: the bits and the window.          *)
XorStates == [bits : Seq(0 .. 1), window : Nat \X Nat]
(* What is written for value i.                                            *)
XorOf(vs, i) == Xor(vs[i - 1], vs[i])

(* The buffer of the values, value by value.                               *)
IsXors(B, vs) ==
    /\ \A i \in 1 .. Len(vs) : B[i] \in XorStates
    /\ B[1] = [bits |-> Word(vs[1]), window |-> NoWindow]
    /\ \A i \in 2 .. Len(vs) :
          /\ B[i].bits = B[i - 1].bits \o Code(XorOf(vs, i), B[i - 1].window).bits
          /\ B[i].window = Code(XorOf(vs, i), B[i - 1].window).window

(* It is a word, and 0 where the value repeats.                            *)
LEMMA XorOfIs ==
    ASSUME NEW vs \in Seq(WordRange), NEW i \in 2 .. Len(vs)
    PROVE  /\ vs[i] \in WordRange /\ vs[i - 1] \in WordRange /\ XorOf(vs, i) \in WordRange
           /\ (XorOf(vs, i) = 0 <=> vs[i - 1] = vs[i])
<1>1. i \in 1 .. Len(vs) /\ i - 1 \in 1 .. Len(vs)
  OBVIOUS
<1>2. vs[i] \in WordRange /\ vs[i - 1] \in WordRange
  BY <1>1, ElementOfSeq
<1> QED
  BY <1>2, XorIs, XorSame DEF XorOf

(* The loop of gorillaEncodeValues builds that buffer.                     *)
LEMMA XorBuffer ==
    ASSUME NEW vs \in Seq(WordRange), vs # <<>>
    PROVE  \E B : IsXors(B, vs) /\ GorillaEncodeValues(vs) = Pad(B[Len(vs)].bits)
<1> DEFINE n == Len(vs)
           base == [bits |-> Word(vs[1]), window |-> NoWindow]
           next(i, s) == LET x == Xor(vs[i - 1], vs[i])
                             c == XorCode(x, s.window)
                         IN  IF x = 0
                               THEN [s EXCEPT !.bits = Append(@, 0)]
                               ELSE [bits |-> s.bits \o c.bits, window |-> c.window]
           G == [i \in 2 .. n |-> [s \in XorStates |-> next(i, s)]]
           B == CHOOSE f : f = [i \in 1 .. n |-> IF i = 1 THEN base ELSE next(i, f[i - 1])]
<1>1. n \in Nat /\ 1 <= n /\ 1 \in Int /\ n \in Int /\ 1 + 1 = 2
  BY EmptySeq
<1>2. base \in XorStates
  <2>1. vs[1] \in WordRange
    BY <1>1, ElementOfSeq
  <2>2. Word(vs[1]) \in Seq(0 .. 1)
    BY <2>1, WordIs DEF WordRange
  <2> QED
    BY <2>2, NoWindowIs DEF XorStates
<1>3. ASSUME NEW i \in 2 .. n, NEW s \in XorStates
      PROVE  /\ next(i, s) \in XorStates
             /\ next(i, s).bits = s.bits \o Code(XorOf(vs, i), s.window).bits
             /\ next(i, s).window = Code(XorOf(vs, i), s.window).window
  <2> DEFINE x == XorOf(vs, i)
             c == Code(x, s.window)
  <2>1. s.bits \in Seq(0 .. 1) /\ s.window \in Nat \X Nat
        /\ s = [bits |-> s.bits, window |-> s.window]
    BY DEF XorStates
  <2>2. x \in WordRange
    BY XorOfIs
  <2>3. c.bits \in Seq(0 .. 1) /\ c.window \in Nat \X Nat
    BY <2>1, <2>2, CodeIs
  <2>4. next(i, s) = IF x = 0 THEN [s EXCEPT !.bits = Append(@, 0)]
                     ELSE [bits |-> s.bits \o XorCode(x, s.window).bits, window |-> XorCode(x, s.window).window]
    BY Zenon DEF XorOf
  <2>5. next(i, s) = [bits |-> s.bits \o c.bits, window |-> c.window]
    <3>1. CASE x = 0
      <4>1. c = [bits |-> <<0>>, window |-> s.window]
        BY <3>1, Zenon DEF Code
      <4>2. c.bits = <<0>> /\ c.window = s.window
        BY <4>1
      <4>3. Append(s.bits, 0) = s.bits \o <<0>>
        BY <2>1
      <4> HIDE DEF c, next, x
      <4>4. next(i, s) = [s EXCEPT !.bits = Append(s.bits, 0)]
        BY <2>4, <3>1
      <4> QED
        BY <2>1, <4>2, <4>3, <4>4
    <3>2. CASE x # 0
      <4>1. c = XorCode(x, s.window)
        BY <3>2, Zenon DEF Code
      <4> HIDE DEF c, next, x
      <4> QED
        BY <2>4, <3>2, <4>1
    <3> QED
      BY <3>1, <3>2
  <2> HIDE DEF next, c
  <2>6. s.bits \o c.bits \in Seq(0 .. 1)
    BY <2>1, <2>3, ConcatProperties
  <2> QED
    BY <2>3, <2>5, <2>6 DEF XorStates, c
<1>4. GorillaEncodeValues(vs) = Pad(B[n].bits)
  BY Zenon DEF GorillaEncodeValues, B, n, base, next
<1> HIDE DEF n, base, next
<1>5. ASSUME NEW i \in 2 .. n, NEW s \in XorStates
      PROVE  G[i][s] = next(i, s) /\ G[i][s] \in XorStates
  BY <1>3
<1>6. PICK f : IsRounds(f, 1, n, XorStates, base, G)
  <2> HIDE DEF G
  <2> QED
    BY <1>1, <1>2, <1>5, RoundsExist
<1>7. /\ f \in [1 .. n -> XorStates] /\ f[1] = base
      /\ \A i \in 2 .. n : f[i] = G[i][f[i - 1]]
  BY <1>1, <1>6 DEF IsRounds
<1>8. f = [i \in 1 .. n |-> IF i = 1 THEN base ELSE next(i, f[i - 1])]
  <2>1. ASSUME NEW i \in 1 .. n PROVE f[i] = IF i = 1 THEN base ELSE next(i, f[i - 1])
    <3>1. CASE i = 1
      BY <1>7, <3>1
    <3>2. CASE i # 1
      <4>1. i \in 2 .. n /\ i - 1 \in 1 .. n
        BY <1>1, <3>2
      <4>2. f[i - 1] \in XorStates
        BY <1>7, <4>1
      <4> HIDE DEF G
      <4> QED
        BY <1>5, <1>7, <3>2, <4>1, <4>2
    <3> QED
      BY <3>1, <3>2
  <2> QED
    BY <1>7, <2>1
<1>9. B = [i \in 1 .. n |-> IF i = 1 THEN base ELSE next(i, B[i - 1])]
  BY <1>8, Zenon
<1> HIDE DEF B, G
<1>10. B[1] = base
  BY <1>1, <1>9
<1>11. ASSUME NEW i \in 2 .. n PROVE B[i] = next(i, B[i - 1])
  <2>1. i \in 1 .. n /\ i # 1
    BY <1>1
  <2>2. B[i] = IF i = 1 THEN base ELSE next(i, B[i - 1])
    BY <1>9, <2>1, Zenon
  <2> QED
    BY <2>1, <2>2
<1> DEFINE T == {i \in 1 .. n : B[i] \in XorStates}
<1>12. 1 \in T
  BY <1>1, <1>2, <1>10
<1>13. ASSUME NEW k \in 1 + 1 .. n, k - 1 \in T PROVE k \in T
  <2>1. k \in 2 .. n /\ k \in 1 .. n
    BY <1>1
  <2>2. B[k - 1] \in XorStates
    BY <1>13
  <2>3. B[k] \in XorStates
    BY <1>3, <1>11, <2>1, <2>2
  <2> QED
    BY <2>1, <2>3
<1> HIDE DEF T
<1>14. \A k \in 1 .. n : k \in T
  BY <1>1, <1>12, <1>13, FromTo
<1>15. \A i \in 1 .. n : B[i] \in XorStates
  BY <1>14 DEF T
<1>16. ASSUME NEW i \in 2 .. n
       PROVE  /\ B[i].bits = B[i - 1].bits \o Code(XorOf(vs, i), B[i - 1].window).bits
              /\ B[i].window = Code(XorOf(vs, i), B[i - 1].window).window
  <2>1. i - 1 \in 1 .. n
    BY <1>1
  <2>2. B[i - 1] \in XorStates
    BY <1>15, <2>1
  <2>3. B[i] = next(i, B[i - 1])
    BY <1>11
  <2>4. /\ next(i, B[i - 1]).bits = B[i - 1].bits \o Code(XorOf(vs, i), B[i - 1].window).bits
        /\ next(i, B[i - 1]).window = Code(XorOf(vs, i), B[i - 1].window).window
    BY <1>3, <2>2
  <2> QED
    BY <2>3, <2>4
<1>17. IsXors(B, vs)
  BY <1>10, <1>15, <1>16 DEF IsXors, n, base
<1> QED
  BY <1>4, <1>17 DEF n

(* The values come back where the numbers of leading zeros fit.            *)
LEMMA ReadsValues ==
    ASSUME NEW vs \in Seq(WordRange), vs # <<>>, NEW B, IsXors(B, vs),
           \A i \in 2 .. Len(vs) :
              vs[i - 1] # vs[i] => LeadingZeros(XorOf(vs, i)) < Pow2[LeadBits],
           NEW d \in Seq(0 .. 1), Holds(d, 0, B[Len(vs)].bits)
    PROVE  GorillaDecodeValues(d, Len(vs)) = [i \in 1 .. Len(vs) |-> vs[i]]
<1> DEFINE n == Len(vs)
           code(i) == Code(XorOf(vs, i), B[i - 1].window).bits
           D == [i \in 1 .. n |-> B[i].bits]
           c == [i \in 2 .. n |-> code(i)]
           s == From(d, WordBytes)
           base == [pos |-> 0, window |-> NoWindow, v |-> WordAt(d)]
           next(r) == ReadXor(s, r)
           state(i) == ReaderAt(Len(B[i].bits) - WordBits, B[i].window, vs[i])
           R == CHOOSE f : f = [i \in 1 .. n |-> IF i = 1 THEN base ELSE next(f[i - 1])]
<1>1. n \in Nat /\ 1 <= n /\ 1 \in Int /\ n \in Int /\ 1 + 1 = 2
  BY EmptySeq
<1>2. /\ \A i \in 1 .. n : B[i].bits \in Seq(0 .. 1) /\ B[i].window \in Nat \X Nat
      /\ B[1].bits = Word(vs[1]) /\ B[1].window = NoWindow
      /\ \A i \in 2 .. n : B[i].bits = B[i - 1].bits \o code(i)
      /\ \A i \in 2 .. n : B[i].window = Code(XorOf(vs, i), B[i - 1].window).window
  <2>1. \A i \in 1 .. n : B[i].bits \in Seq(0 .. 1) /\ B[i].window \in Nat \X Nat
    <3>1. \A i \in 1 .. n : B[i] \in XorStates
      BY DEF IsXors
    <3> QED
      BY <3>1 DEF XorStates
  <2>2. B[1].bits = Word(vs[1]) /\ B[1].window = NoWindow
    <3>1. B[1] = [bits |-> Word(vs[1]), window |-> NoWindow]
      BY DEF IsXors
    <3> QED
      BY <3>1
  <2>3. \A i \in 2 .. n : B[i].bits = B[i - 1].bits \o code(i)
    BY DEF IsXors
  <2>4. \A i \in 2 .. n : B[i].window = Code(XorOf(vs, i), B[i - 1].window).window
    BY DEF IsXors
  <2> QED
    BY <2>1, <2>2, <2>3, <2>4
<1>3. \A i \in 2 .. n : code(i) \in Seq(0 .. 1)
  <2> SUFFICES ASSUME NEW i \in 2 .. n PROVE code(i) \in Seq(0 .. 1)
    OBVIOUS
  <2>1. i - 1 \in 1 .. n
    BY <1>1
  <2>2. B[i - 1].window \in Nat \X Nat
    BY <1>2, <2>1
  <2>3. XorOf(vs, i) \in WordRange
    BY XorOfIs
  <2> QED
    BY <2>2, <2>3, CodeIs
<1>4. ReadXors(d, n) = R
  BY Zenon DEF ReadXors, R, base, next, s
<1>5. vs[1] \in WordRange /\ Word(vs[1]) \in Seq(0 .. 1) /\ Len(Word(vs[1])) = WordBits
  <2>1. vs[1] \in WordRange
    BY <1>1, ElementOfSeq
  <2> QED
    BY <2>1, WordIs DEF WordRange
<1>6. /\ \A i \in 1 .. n : Holds(d, 0, B[i].bits)
      /\ \A i \in 2 .. n : Holds(d, Len(B[i - 1].bits), code(i))
  <2>1. \A i \in 2 .. n : c[i] = code(i)
    OBVIOUS
  <2>2. Holds(d, 0, B[n].bits)
    OBVIOUS
  <2>3. \A i \in 1 .. n : D[i] = B[i].bits
    OBVIOUS
  <2> HIDE DEF n, code, c, D
  <2>4. \A i \in 1 .. n : D[i] \in Seq(0 .. 1)
    BY <1>2, <2>3
  <2>5. \A i \in 1 + 1 .. n : c[i] \in Seq(0 .. 1) /\ D[i] = D[i - 1] \o c[i] /\ D[i - 1] = B[i - 1].bits
    <3> SUFFICES ASSUME NEW i \in 2 .. n
                 PROVE  c[i] \in Seq(0 .. 1) /\ D[i] = D[i - 1] \o c[i] /\ D[i - 1] = B[i - 1].bits
      BY <1>1
    <3>1. i \in 1 .. n /\ i - 1 \in 1 .. n
      BY <1>1
    <3>2. D[i] = B[i].bits /\ D[i - 1] = B[i - 1].bits
      BY <2>3, <3>1
    <3>3. c[i] \in Seq(0 .. 1) /\ B[i].bits = B[i - 1].bits \o c[i]
      BY <1>2, <1>3, <2>1
    <3> QED
      BY <3>2, <3>3
  <2>6. n \in 1 .. n /\ D[n] = B[n].bits
    BY <1>1, <2>3
  <2>7. /\ \A i \in 1 .. n : Holds(d, 0, D[i])
        /\ \A i \in 1 + 1 .. n : Holds(d, Len(D[i - 1]), c[i])
    BY <1>1, <2>2, <2>4, <2>5, <2>6, ChainHolds
  <2> QED
    BY <1>1, <2>1, <2>3, <2>5, <2>7
<1> HIDE DEF code, c, D
<1>7. WordAt(d) = vs[1] /\ WordBits <= Len(d) /\ Len(d) \in Nat /\ WordBits \in Nat
  <2>1. 1 \in 1 .. n
    BY <1>1
  <2>2. Holds(d, 0, Word(vs[1]))
    BY <1>2, <1>6, <2>1
  <2>3. WordAt(d) = vs[1]
    BY <1>5, <2>2, ReadsWord DEF WordRange
  <2>4. 0 + WordBits <= Len(d) /\ Len(d) \in Nat
    BY <1>5, <2>2 DEF Holds
  <2> QED
    BY <2>3, <2>4, Widths
<1>8. ByteBits * WordBytes = WordBits /\ WordBytes \in Nat
  BY Widths
<1>9. s \in Seq(0 .. 1) /\ \A t : \A q \in Nat : Holds(d, WordBits + q, t) /\ Len(t) \in Nat => Holds(s, q, t)
  BY <1>7, <1>8, HoldsFrom
<1> HIDE DEF s
<1>10. base = state(1)
  <2>1. Len(B[1].bits) - WordBits = 0
    BY <1>2, <1>5, <1>7
  <2> QED
    BY <1>2, <1>7, <2>1 DEF ReaderAt
<1>11. ASSUME NEW i \in 1 .. n PROVE Len(B[i].bits) \in Nat /\ WordBits <= Len(B[i].bits)
  <2> DEFINE T == {j \in 1 .. n : WordBits <= Len(B[j].bits)}
  <2>1. 1 \in T
    BY <1>1, <1>2, <1>5, <1>7
  <2>2. ASSUME NEW k \in 1 + 1 .. n, k - 1 \in T PROVE k \in T
    <3>1. k \in 2 .. n /\ k \in 1 .. n
      BY <1>1
    <3>2. B[k - 1].bits \in Seq(0 .. 1) /\ WordBits <= Len(B[k - 1].bits)
      BY <1>2, <2>2
    <3>3. B[k].bits = B[k - 1].bits \o code(k) /\ code(k) \in Seq(0 .. 1)
      BY <1>2, <1>3, <3>1
    <3>4. Len(B[k].bits) = Len(B[k - 1].bits) + Len(code(k)) /\ Len(code(k)) \in Nat /\ Len(B[k - 1].bits) \in Nat
      BY <3>2, <3>3, ConcatProperties
    <3> QED
      BY <1>7, <3>1, <3>2, <3>4
  <2> HIDE DEF T
  <2>3. i \in T
    BY <1>1, <2>1, <2>2, FromTo
  <2>4. B[i].bits \in Seq(0 .. 1)
    BY <1>2
  <2> QED
    BY <2>3, <2>4 DEF T
<1>12. ASSUME NEW i \in 2 .. n PROVE next(state(i - 1)) = state(i)
  <2> DEFINE p == Len(B[i - 1].bits)
             q == p - WordBits
             w == B[i - 1].window
             a == vs[i - 1]
             z == vs[i]
             e == Code(Xor(a, z), w)
  <2>0. i - 1 \in 1 .. n /\ i \in 1 .. n
    BY <1>1
  <2>1. p \in Nat /\ WordBits <= p /\ B[i - 1].bits \in Seq(0 .. 1) /\ w \in Nat \X Nat
    BY <1>2, <1>11, <2>0
  <2>2. a \in WordRange /\ z \in WordRange
    BY XorOfIs
  <2>3. a # z => LeadingZeros(Xor(a, z)) < Pow2[LeadBits]
    BY DEF XorOf
  <2>4. code(i) = e.bits /\ B[i].window = e.window /\ e.bits \in Seq(0 .. 1)
    <3>1. code(i) \in Seq(0 .. 1)
      BY <1>3
    <3> QED
      BY <1>2, <3>1 DEF code, XorOf
  <2>5. Holds(d, p, e.bits)
    BY <1>6, <2>4
  <2>6. Len(B[i].bits) = p + Len(e.bits) /\ Len(e.bits) \in Nat
    <3>1. B[i].bits = B[i - 1].bits \o e.bits
      BY <1>2, <2>4
    <3> QED
      BY <2>1, <2>4, <3>1, ConcatProperties
  <2> HIDE DEF p
  <2>7. WordBits + q = p /\ q \in Nat
    BY <1>7, <2>1
  <2> HIDE DEF q, e, w, a, z
  <2>8. Holds(s, q, e.bits)
    BY <1>9, <2>5, <2>6, <2>7
  <2>9. ReadXor(s, ReaderAt(q, w, a)) = ReaderAt(q + Len(e.bits), e.window, z)
    BY <1>9, <2>1, <2>2, <2>3, <2>7, <2>8, ReadsXor DEF e
  <2>10. q + Len(e.bits) = Len(B[i].bits) - WordBits
    <3> DEFINE k == Len(e.bits)
               m == Len(B[i].bits)
    <3>1. k \in Nat /\ m = p + k /\ WordBits \in Nat /\ p \in Nat /\ q \in Nat /\ WordBits + q = p
      BY <1>7, <2>1, <2>6, <2>7
    <3> HIDE DEF k, m
    <3>2. q + k = m - WordBits
      BY <3>1
    <3> QED
      BY <3>2 DEF k, m
  <2> QED
    BY <2>4, <2>9, <2>10 DEF p, q, w, a, z
<1> HIDE DEF n, base, next, state
<1> DEFINE g == [i \in 1 .. n |-> state(i)]
<1>13. g = [i \in 1 .. n |-> IF i = 1 THEN base ELSE next(g[i - 1])]
  <2>1. ASSUME NEW i \in 1 .. n PROVE g[i] = IF i = 1 THEN base ELSE next(g[i - 1])
    <3>1. CASE i = 1
      BY <1>10, <3>1
    <3>2. CASE i # 1
      <4>1. i \in 2 .. n /\ i - 1 \in 1 .. n
        BY <1>1, <3>2
      <4> QED
        BY <1>12, <3>2, <4>1
    <3> QED
      BY <3>1, <3>2
  <2> QED
    BY <2>1
<1> HIDE DEF g
<1>14. R = [i \in 1 .. n |-> IF i = 1 THEN base ELSE next(R[i - 1])]
  BY <1>13, Zenon
<1> HIDE DEF R
<1> DEFINE T == {i \in 1 .. n : R[i] = state(i)}
<1>15. 1 \in T
  BY <1>1, <1>10, <1>14
<1>16. ASSUME NEW k \in 1 + 1 .. n, k - 1 \in T PROVE k \in T
  <2>1. k \in 2 .. n /\ k \in 1 .. n /\ k # 1
    BY <1>1
  <2>2. R[k - 1] = state(k - 1)
    BY <1>16
  <2>3. R[k] = next(R[k - 1])
    <3>1. R[k] = IF k = 1 THEN base ELSE next(R[k - 1])
      BY <1>14, <2>1, Zenon
    <3> QED
      BY <2>1, <3>1
  <2>4. R[k] = state(k)
    BY <1>12, <2>1, <2>2, <2>3
  <2> QED
    BY <2>1, <2>4
<1> HIDE DEF T
<1>17. \A k \in 1 .. n : k \in T
  BY <1>1, <1>15, <1>16, FromTo
<1>18. \A i \in 1 .. n : R[i].v = vs[i]
  <2> SUFFICES ASSUME NEW i \in 1 .. n PROVE R[i].v = vs[i]
    OBVIOUS
  <2>1. R[i] = state(i)
    BY <1>17 DEF T
  <2> QED
    BY <2>1 DEF state, ReaderAt
<1>19. GorillaDecodeValues(d, n) = IF Len(d) < WordBits THEN Failed ELSE [i \in 1 .. n |-> R[i].v]
  BY <1>4, Zenon DEF GorillaDecodeValues
<1>20. ~(Len(d) < WordBits)
  BY <1>7
<1> QED
  BY <1>18, <1>19, <1>20 DEF n

(* Too many leading zeros for their field: another value comes back.       *)
LEMMA ReadsNarrow ==
    ASSUME NEW s \in Seq(0 .. 1), NEW p \in Nat, NEW w \in Nat \X Nat,
           NEW a \in WordRange, NEW b \in WordRange, a # b, ~Fits(Xor(a, b), w),
           Pow2[LeadBits] <= LeadingZeros(Xor(a, b)),
           Holds(s, p, Code(Xor(a, b), w).bits)
    PROVE  ReadXor(s, ReaderAt(p, w, a)).v # b
<1> DEFINE x == Xor(a, b)
           c == Code(x, w)
           o == Own(x)
           y == x \div Pow2[o[2]]
           m == Middle(o)
           h == (2 + LeadBits) + TrailBits
           l == ReadBits(s, p + 2, LeadBits)
           u == <<l, o[2]>>
           n == Middle(u)
           V == ReadBits(s, p + h, n)
           P == Pow2[o[2]]
           X == V * P
<1>1. x \in WordRange /\ x # 0 /\ LeadBits \in Nat /\ TrailBits \in Nat
  BY XorIs, XorSame, CodecConstants
<1>2. Holds(s, p, c.bits) /\ ~Fits(x, w) /\ Pow2[LeadBits] <= LeadingZeros(x)
  OBVIOUS
<1> HIDE DEF x
<1>3. Holds(s, p, OwnBits(x))
  <2>1. c = XorCode(x, w)
    BY <1>1, Zenon DEF Code
  <2>2. c.bits = OwnBits(x)
    BY <1>1, <1>2, <2>1, FreshCode
  <2> HIDE DEF c
  <2> QED
    BY <1>2, <2>2
<1>4. /\ m \in Nat /\ y \in Nat /\ y * P = x /\ y < Pow2[m]
      /\ Holds(s, p, <<1, 1>>) /\ Holds(s, p + (2 + LeadBits), Bits(o[2], TrailBits))
      /\ Holds(s, p + h, Bits(y, m))
  BY <1>1, <1>3, OwnBitsAre
<1>5. /\ o \in Nat \X Nat /\ o[1] = LeadingZeros(x) /\ o[2] = TrailingZeros(x)
      /\ o[2] < Pow2[TrailBits]
  BY <1>1, OwnIs
<1>6. /\ o[1] \in Nat /\ o[2] \in Nat /\ Pow2[LeadBits] <= o[1] /\ o[1] + o[2] <= WordBits - 1
      /\ WordBits \in Nat /\ m = (WordBits - o[1]) - o[2]
  <2>1. LeadingZeros(x) + TrailingZeros(x) <= WordBits - 1
    BY <1>1, ZerosAre
  <2> HIDE DEF o
  <2> QED
    BY <1>2, <1>5, <2>1, Widths DEF Middle
<1> HIDE DEF c, o
<1>7. BitAt(s, p) = 1 /\ BitAt(s, p + 1) = 1 /\ Skip(s, p, 2) = p + 2
  BY <1>4, TwoBits
<1>8. l \in Nat /\ l < Pow2[LeadBits] /\ Pow2[LeadBits] \in Nat
  <2>1. p + 2 \in Nat
    OBVIOUS
  <2> QED
    BY <1>1, <2>1, BitsAtIs, Pow2Is
<1>9. ReadBits(s, (p + 2) + LeadBits, TrailBits) = o[2]
  <2>1. (p + 2) + LeadBits \in Nat /\ (p + 2) + LeadBits = p + (2 + LeadBits)
    BY <1>1
  <2>2. Holds(s, (p + 2) + LeadBits, Bits(o[2], TrailBits))
    BY <1>4, <2>1
  <2> QED
    BY <1>1, <1>5, <1>6, <2>1, <2>2, ReadsBits
<1>10. Skip(s, p + 2, LeadBits + TrailBits) = p + h /\ p + h \in Nat
  <2>1. p + h <= Len(s) /\ p + h \in Nat
    <3>1. Bits(y, m) \in Seq(0 .. 1)
      BY <1>4, BitsAre
    <3>2. Holds(s, p + h, Bits(y, m))
      BY <1>4
    <3>3. p + h \in Nat
      BY <1>1
    <3> HIDE DEF y, m, h
    <3>4. Len(Bits(y, m)) \in Nat /\ (p + h) + Len(Bits(y, m)) <= Len(s) /\ Len(s) \in Nat
      BY <3>1, <3>2 DEF Holds
    <3> QED
      BY <3>3, <3>4
  <2>2. p + 2 \in Nat /\ LeadBits + TrailBits \in Nat /\ (p + 2) + (LeadBits + TrailBits) = p + h
    BY <1>1
  <2> HIDE DEF h
  <2>3. (p + 2) + (LeadBits + TrailBits) <= Len(s)
    BY <2>1, <2>2
  <2> QED
    BY <2>1, <2>2, <2>3, SkipIs
<1>11. ReadXor(s, ReaderAt(p, w, a)) = ReadBehind(s, p, u, a, p + h)
  <2>1. ReadXor(s, ReaderAt(p, w, a)) =
           ReadBehind(s, p, <<ReadBits(s, p + 2, LeadBits), ReadBits(s, (p + 2) + LeadBits, TrailBits)>>,
                   a, Skip(s, p + 2, LeadBits + TrailBits))
    BY <1>7, ReadXorCases
  <2> QED
    BY <1>9, <1>10, <2>1
<1> HIDE DEF h, l, y, m
<1>12. u[1] = l /\ u[2] = o[2]
  OBVIOUS
<1> HIDE DEF u
<1>13. /\ n = (WordBits - l) - o[2] /\ n \in Nat /\ m <= n /\ n - m \in Nat \ {0}
       /\ n + o[2] = WordBits - l /\ WordBits - l \in Nat
  <2>1. n = (WordBits - l) - o[2]
    BY <1>12 DEF Middle
  <2> HIDE DEF n
  <2>2. l < o[1] /\ l \in Nat
    BY <1>6, <1>8
  <2> DEFINE k == o[1]
             j == o[2]
  <2>3. k \in Nat /\ j \in Nat /\ k + j <= WordBits - 1 /\ WordBits \in Nat /\ m = (WordBits - k) - j
    BY <1>6
  <2>4. n = (WordBits - l) - j /\ l < k
    BY <2>1, <2>2
  <2> HIDE DEF k, j
  <2>5. n \in Nat /\ m <= n /\ n - m \in Nat \ {0} /\ n + j = WordBits - l /\ WordBits - l \in Nat
    BY <2>2, <2>3, <2>4
  <2> QED
    BY <2>1, <2>5 DEF j
<1> HIDE DEF n
<1>14. V \in Nat /\ V < Pow2[n] /\ y * Pow2[n - m] <= V
  <2>1. V \in Nat /\ V < Pow2[n]
    BY <1>10, <1>13, BitsAtIs
  <2>2. y * Pow2[n - m] <= V
    BY <1>4, <1>10, <1>13, ReadsMore
  <2> QED
    BY <2>1, <2>2
<1> HIDE DEF V
<1>15. P \in Nat \ {0} /\ Pow2[n] \in Nat
  <2>1. o[2] \in Nat /\ n \in Nat
    BY <1>6, <1>13
  <2>2. \A k \in Nat : Pow2[k] \in Nat \ {0}
    BY Pow2Order
  <2> QED
    BY <2>1, <2>2
<1> HIDE DEF P
<1>16. y < V
  <2> DEFINE Q == Pow2[n - m]
             H == Pow2[(n - m) - 1]
  <2>1. Q = 2 * H /\ H \in Nat \ {0}
    <3> DEFINE k == n - m
    <3>1. k \in Nat \ {0} /\ k - 1 \in Nat
      BY <1>13
    <3> HIDE DEF k
    <3>2. Pow2[k] = 2 * Pow2[k - 1]
      BY <3>1, Pow2Is
    <3>3. Pow2[k - 1] \in Nat \ {0}
      BY <3>1, Pow2Order
    <3> QED
      BY <3>2, <3>3 DEF k
  <2>2. y # 0
    <3> SUFFICES ASSUME y = 0 PROVE FALSE
      OBVIOUS
    <3>1. 0 * P = 0
      BY <1>15
    <3> QED
      BY <1>1, <1>4, <3>1
  <2>3. y * Q <= V
    BY <1>14
  <2> HIDE DEF Q, H
  <2>4. 2 <= Q /\ Q \in Nat
    BY <2>1
  <2>5. y * 2 <= y * Q
    <3>1. Q - 2 \in Nat
      BY <2>4
    <3>2. y * (Q - 2) \in Nat /\ y * (Q - 2) = y * Q - y * 2
      BY <1>4, <2>4, <3>1
    <3>3. y * Q \in Nat /\ y * 2 \in Nat
      BY <1>4, <2>4
    <3> QED
      BY <3>2, <3>3
  <2>6. y * Q \in Nat
    BY <1>4, <2>4
  <2> QED
    BY <1>4, <1>14, <2>2, <2>3, <2>5, <2>6
<1>17. x < X /\ X \in Nat
  <2>1. y * P + P <= V * P
    BY <1>4, <1>14, <1>15, <1>16, ProductOrder
  <2>2. X \in Nat /\ y * P \in Nat
    BY <1>4, <1>14, <1>15
  <2> HIDE DEF X
  <2>3. y * P + P <= X
    BY <2>1 DEF X
  <2> QED
    BY <1>4, <1>15, <2>2, <2>3
<1>18. X < Pow2[WordBits] /\ Pow2[WordBits] \in Nat \ {0}
  <2>1. Pow2[n + o[2]] = Pow2[n] * P
    BY <1>6, <1>13, Pow2Sum DEF P
  <2>2. V * P + P <= Pow2[n] * P
    <3>1. V \in Int /\ Pow2[n] \in Int /\ V < Pow2[n]
      BY <1>14, <1>15
    <3> QED
      BY <1>15, <3>1, ProductOrder
  <2>3. Pow2[WordBits - l] <= Pow2[WordBits] /\ Pow2[WordBits] \in Nat /\ Pow2[WordBits - l] \in Nat
    <3>1. WordBits - l <= WordBits
      BY <1>6, <1>8
    <3> QED
      BY <1>6, <1>13, <3>1, Pow2Order, Pow2Is
  <2>4. X + P <= Pow2[WordBits - l]
    BY <1>13, <2>1, <2>2
  <2> HIDE DEF X
  <2> QED
    BY <1>15, <1>17, <2>3, <2>4
<1>19. X % Pow2[WordBits] = X /\ X \in WordRange
  <2> DEFINE N == Pow2[WordBits]
  <2>1. X \in Nat /\ X < N /\ N \in Nat \ {0}
    BY <1>17, <1>18
  <2> HIDE DEF X, N
  <2>2. X % N = X /\ X \in 0 .. N - 1
    BY <2>1
  <2> QED
    BY <2>2 DEF WordRange, N
<1>20. ReadBehind(s, p, u, a, p + h).v = Xor(a, X)
  <2>1. ReadBehind(s, p, u, a, p + h) =
           ReaderAt(Skip(s, p + h, n), u, Xor(a, X % Pow2[WordBits]))
    BY <1>12 DEF ReadBehind, X, V, P, n
  <2> HIDE DEF X
  <2> QED
    BY <1>19, <2>1 DEF ReaderAt
<1> HIDE DEF X
<1>21. Xor(a, X) # b
  <2> SUFFICES ASSUME Xor(a, X) = b PROVE FALSE
    OBVIOUS
  <2>1. Xor(a, Xor(a, X)) = X
    BY <1>19, XorSame
  <2>2. X = x
    BY <2>1 DEF x
  <2> QED
    BY <1>1, <1>17, <2>2, HalfWord DEF WordRange
<1> QED
  BY <1>11, <1>20, <1>21

(* Of two values that agree in too many bits the second never comes back.  *)
LEMMA LosesValue ==
    ASSUME NEW vs \in Seq(WordRange), Len(vs) = 2, NEW B, IsXors(B, vs),
           vs[1] # vs[2], Pow2[LeadBits] <= LeadingZeros(XorOf(vs, 2)),
           NEW d \in Seq(0 .. 1), Holds(d, 0, B[2].bits)
    PROVE  /\ ~(Len(d) < WordBits)
           /\ GorillaDecodeValues(d, 2) = [i \in 1 .. 2 |-> ReadXors(d, 2)[i].v]
           /\ ReadXors(d, 2)[2].v # vs[2]
<1> DEFINE s == From(d, WordBytes)
           c == Code(XorOf(vs, 2), NoWindow).bits
           base == [pos |-> 0, window |-> NoWindow, v |-> WordAt(d)]
           next(r) == ReadXor(s, r)
           R == CHOOSE f : f = [i \in 1 .. 2 |-> IF i = 1 THEN base ELSE next(f[i - 1])]
<1>1. 2 \in 2 .. Len(vs) /\ 1 \in 1 .. Len(vs) /\ 2 - 1 = 1
  OBVIOUS
<1>2. B[1] = [bits |-> Word(vs[1]), window |-> NoWindow] /\ B[2].bits = B[1].bits \o Code(XorOf(vs, 2), B[1].window).bits
  BY <1>1 DEF IsXors
<1>3. B[2].bits = Word(vs[1]) \o c
  BY <1>2
<1>4. vs[1] \in WordRange /\ vs[2] \in WordRange /\ XorOf(vs, 2) \in WordRange /\ XorOf(vs, 2) = Xor(vs[1], vs[2])
      /\ XorOf(vs, 2) # 0
  BY <1>1, XorOfIs DEF XorOf
<1>5. Word(vs[1]) \in Seq(0 .. 1) /\ Len(Word(vs[1])) = WordBits
  BY <1>4, WordIs DEF WordRange
<1>6. c \in Seq(0 .. 1)
  BY <1>4, NoWindowIs, CodeIs
<1>7. ReadXors(d, 2) = R
  BY Zenon DEF ReadXors, R, base, next, s
<1> HIDE DEF c
<1>8. Holds(d, 0, Word(vs[1])) /\ Holds(d, WordBits, c)
  <2>1. Holds(d, 0, Word(vs[1]) \o c)
    BY <1>3
  <2>2. Holds(d, 0, Word(vs[1])) /\ Holds(d, 0 + Len(Word(vs[1])), c)
    BY <1>5, <1>6, <2>1, HoldsConcat
  <2>3. 0 + WordBits = WordBits
    BY Widths
  <2> QED
    BY <1>5, <2>2, <2>3
<1>9. WordAt(d) = vs[1] /\ WordBits <= Len(d) /\ Len(d) \in Nat /\ WordBits \in Nat
  <2>1. WordAt(d) = vs[1]
    BY <1>4, <1>8, ReadsWord DEF WordRange
  <2>2. 0 + WordBits <= Len(d) /\ Len(d) \in Nat
    BY <1>5, <1>8 DEF Holds
  <2> QED
    BY <2>1, <2>2, Widths
<1>10. s \in Seq(0 .. 1) /\ Holds(s, 0, c)
  <2>1. ByteBits * WordBytes = WordBits /\ WordBytes \in Nat /\ WordBits + 0 = WordBits /\ Len(c) \in Nat
    BY <1>6, Widths
  <2>2. Holds(d, ByteBits * WordBytes + 0, c)
    BY <1>8, <2>1
  <2> QED
    BY <1>9, <2>1, <2>2, HoldsFrom
<1> HIDE DEF s
<1>11. base = ReaderAt(0, NoWindow, vs[1])
  BY <1>9 DEF ReaderAt
<1>12. ReadXor(s, ReaderAt(0, NoWindow, vs[1])).v # vs[2]
  <2>1. ~Fits(Xor(vs[1], vs[2]), NoWindow) /\ NoWindow \in Nat \X Nat
    BY <1>4, NoWindowIs
  <2>2. Holds(s, 0, Code(Xor(vs[1], vs[2]), NoWindow).bits)
    BY <1>4, <1>10 DEF c
  <2>3. Pow2[LeadBits] <= LeadingZeros(Xor(vs[1], vs[2]))
    BY <1>4
  <2>4. 0 \in Nat
    OBVIOUS
  <2> QED
    BY <1>4, <1>10, <2>1, <2>2, <2>3, <2>4, ReadsNarrow
<1> HIDE DEF base, next
<1> DEFINE g == [i \in 1 .. 2 |-> IF i = 1 THEN base ELSE next(base)]
<1>13. g = [i \in 1 .. 2 |-> IF i = 1 THEN base ELSE next(g[i - 1])]
  OBVIOUS
<1> HIDE DEF g
<1>14. R = [i \in 1 .. 2 |-> IF i = 1 THEN base ELSE next(R[i - 1])]
  BY <1>13, Zenon
<1> HIDE DEF R
<1>15. R[2] = next(base)
  BY <1>14
<1>16. R[2].v # vs[2]
  BY <1>11, <1>12, <1>15 DEF next
<1>17. GorillaDecodeValues(d, 2) = IF Len(d) < WordBits THEN Failed ELSE [i \in 1 .. 2 |-> ReadXors(d, 2)[i].v]
  BY Zenon DEF GorillaDecodeValues
<1>18. ~(Len(d) < WordBits)
  BY <1>9
<1> QED
  BY <1>7, <1>16, <1>17, <1>18

(* Padding adds bits behind, up to a whole byte.                           *)
LEMMA PadIs ==
    ASSUME NEW s \in Seq(0 .. 1)
    PROVE  /\ Pad(s) \in Seq(0 .. 1) /\ Len(s) <= Len(Pad(s))
           /\ \E m \in Nat : Len(Pad(s)) = ByteBits * m
           /\ \A d : Len(d) \in Nat /\ Holds(d, 0, Pad(s)) => Holds(d, 0, s)
<1> DEFINE z == PadTo(Len(s))
<1>1. z \in Seq(0 .. 1) /\ \E m \in Nat : Len(s) + Len(z) = ByteBits * m
  BY PadToIs
<1>2. Pad(s) = s \o z
  BY DEF Pad
<1> HIDE DEF z
<1>3. Pad(s) \in Seq(0 .. 1) /\ Len(Pad(s)) = Len(s) + Len(z) /\ Holds(Pad(s), 0, s)
  BY <1>1, <1>2, HoldsFirst
<1>4. Len(s) \in Nat /\ Len(z) \in Nat /\ Len(Pad(s)) \in Nat
  BY <1>1, <1>3
<1>5. \A d : Len(d) \in Nat /\ Holds(d, 0, Pad(s)) => Holds(d, 0, s)
  BY <1>3, <1>4, HoldsIn
<1> QED
  BY <1>1, <1>3, <1>4, <1>5

-----------------------------------------------------------------------------
(* Version 2: the series.                                                  *)

(* The bytes of a part of the data.                                        *)
LEMMA HoldsPart ==
    ASSUME NEW d \in Seq(0 .. 1), NEW p \in Nat, NEW s \in Seq(0 .. 1), Holds(d, p, s)
    PROVE  SubSeq(d, p + 1, p + Len(s)) \in Seq(0 .. 1) /\ Holds(SubSeq(d, p + 1, p + Len(s)), 0, s)
<1> DEFINE l == Len(s)
           w == SubSeq(d, p + 1, p + l)
<1>1. l \in Nat /\ p + l <= Len(d) /\ Len(d) \in Nat /\ \A k \in 1 .. l : d[p + k] = s[k]
  BY DEF Holds
<1> HIDE DEF l
<1>2. \A i \in p + 1 .. p + l : d[i] \in 0 .. 1
  BY <1>1, ElementOfSeq
<1>3. w \in Seq(0 .. 1) /\ Len(w) = l /\ \A k \in 1 .. l : w[k] = d[p + k]
  <2>1. p + 1 \in Int /\ p + l \in Int
    BY <1>1
  <2>2. /\ w \in Seq(0 .. 1)
        /\ Len(w) = IF p + 1 <= p + l THEN (p + l) - (p + 1) + 1 ELSE 0
        /\ \A i \in 1 .. (p + l) - (p + 1) + 1 : w[i] = d[(p + 1) + i - 1]
    BY <1>2, <2>1, SubSeqProperties
  <2> HIDE DEF w
  <2>3. Len(w) = l
    BY <1>1, <2>2
  <2>4. ASSUME NEW k \in 1 .. l PROVE w[k] = d[p + k]
    <3>1. k \in 1 .. (p + l) - (p + 1) + 1 /\ (p + 1) + k - 1 = p + k
      BY <1>1
    <3> QED
      BY <2>2, <3>1
  <2> QED
    BY <2>2, <2>3, <2>4
<1> HIDE DEF w
<1>4. Holds(w, 0, s)
  <2>1. ASSUME NEW k \in 1 .. Len(s) PROVE w[0 + k] = s[k]
    <3>1. k \in 1 .. l /\ 0 + k = k
      BY <1>1 DEF l
    <3> QED
      BY <1>1, <1>3, <3>1
  <2>2. 0 + Len(s) <= Len(w)
    BY <1>1, <1>3 DEF l
  <2> QED
    BY <2>1, <2>2 DEF Holds
<1> QED
  BY <1>3, <1>4 DEF w, l

(* The series as it is written: the length, the timestamps, the values.    *)
Series(m, t, v) == Uvarint(m) \o t \o v

(* Its parts, where they stand.                                            *)
LEMMA SeriesIs ==
    ASSUME NEW m \in Nat, m < Pow2[WordBits], NEW t \in Seq(0 .. 1), Len(t) = ByteBits * m,
           NEW v \in Seq(0 .. 1)
    PROVE  /\ Series(m, t, v) \in Seq(0 .. 1)
           /\ Len(Series(m, t, v)) = ByteBits * Groups(m) + ByteBits * m + Len(v)
           /\ \A d \in Seq(0 .. 1) : Holds(d, 0, Series(m, t, v)) =>
                 Holds(d, 0, Uvarint(m) \o t) /\ Holds(d, ByteBits * Groups(m) + ByteBits * m, v)
           /\ \A d \in Seq(0 .. 1) : Holds(d, 0, Uvarint(m) \o t) =>
                 Holds(d, 0, Uvarint(m)) /\ Holds(d, ByteBits * Groups(m), t)
<1> DEFINE u == Uvarint(m)
           g == Groups(m)
           ut == u \o t
<1>1. u \in Seq(0 .. 1) /\ Len(u) = ByteBits * g /\ g \in Nat
  BY UvarintBits, GroupsIs, Widths
<1> HIDE DEF u
<1>2. ut \in Seq(0 .. 1) /\ Len(ut) = ByteBits * g + ByteBits * m
  BY <1>1, HoldsFirst
<1>3. Series(m, t, v) = ut \o v
  BY DEF Series, u
<1> DEFINE h == ByteBits * g
           k == ByteBits * m
<1>4. h \in Nat /\ k \in Nat /\ 0 + h = h /\ 0 + (h + k) = h + k
  BY <1>1, Widths
<1> HIDE DEF g
<1>5. ASSUME NEW d \in Seq(0 .. 1), Holds(d, 0, ut)
      PROVE  Holds(d, 0, u) /\ Holds(d, h, t)
  <2>1. Holds(d, 0, u) /\ Holds(d, 0 + Len(u), t)
    BY <1>1, <1>5, HoldsConcat
  <2> QED
    BY <1>1, <1>4, <2>1
<1> HIDE DEF ut, h, k
<1>6. ut \o v \in Seq(0 .. 1) /\ Len(ut \o v) = h + k + Len(v)
  BY <1>2, HoldsFirst DEF h, k
<1>7. ASSUME NEW d \in Seq(0 .. 1), Holds(d, 0, ut \o v)
      PROVE  Holds(d, 0, ut) /\ Holds(d, h + k, v)
  <2>1. Holds(d, 0, ut) /\ Holds(d, 0 + Len(ut), v)
    BY <1>2, <1>7, HoldsConcat
  <2>2. Len(ut) = h + k
    BY <1>2 DEF h, k
  <2> QED
    BY <1>4, <2>1, <2>2
<1> QED
  BY <1>3, <1>5, <1>6, <1>7 DEF h, k, ut, u, g

(* The decoder finds the parts.                                            *)
LEMMA ReadsSeries ==
    ASSUME NEW m \in Nat, m < Pow2[WordBits], NEW t \in Seq(0 .. 1), Len(t) = ByteBits * m,
           NEW v \in Seq(0 .. 1), NEW d \in Seq(0 .. 1), Holds(d, 0, Series(m, t, v))
    PROVE  LET part == SubSeq(d, Groups(m) * ByteBits + 1, (Groups(m) + m) * ByteBits)
               rest == From(d, Groups(m) + m)
           IN  /\ ReadUvarint(d) = [val |-> m, used |-> Groups(m)] /\ Groups(m) \in Nat \ {0}
               /\ (Groups(m) + m) * ByteBits <= Len(d)
               /\ part \in Seq(0 .. 1) /\ Holds(part, 0, t)
               /\ rest \in Seq(0 .. 1) /\ Holds(rest, 0, v)
<1> DEFINE g == Groups(m)
           b == ByteBits
           part == SubSeq(d, g * b + 1, (g + m) * b)
           rest == From(d, g + m)
<1>1. g \in Nat \ {0} /\ b \in Nat /\ Len(d) \in Nat /\ Len(v) \in Nat
  BY GroupsIs, Widths
<1>2. Holds(d, 0, Uvarint(m)) /\ Holds(d, b * g, t) /\ Holds(d, b * g + b * m, v)
  BY SeriesIs
<1>3. ReadUvarint(d) = [val |-> m, used |-> g]
  BY <1>2, ReadsUvarint
<1> HIDE DEF g
<1>4. b * g \in Nat /\ g * b = b * g /\ (g + m) * b = b * g + b * m /\ b * (g + m) = b * g + b * m
      /\ b * g + b * m \in Nat /\ g + m \in Nat
  BY <1>1
<1>5. (g + m) * b <= Len(d) /\ b * (g + m) <= Len(d)
  <2>1. (b * g + b * m) + Len(v) <= Len(d)
    BY <1>2 DEF Holds
  <2> QED
    BY <1>1, <1>4, <2>1
<1>6. part \in Seq(0 .. 1) /\ Holds(part, 0, t)
  <2>1. SubSeq(d, b * g + 1, b * g + Len(t)) \in Seq(0 .. 1)
        /\ Holds(SubSeq(d, b * g + 1, b * g + Len(t)), 0, t)
    BY <1>2, <1>4, HoldsPart
  <2>2. part = SubSeq(d, b * g + 1, b * g + Len(t))
    BY <1>4
  <2> QED
    BY <2>1, <2>2
<1>7. rest \in Seq(0 .. 1) /\ Holds(rest, 0, v)
  <2> DEFINE q == g + m
  <2>1. q \in Nat /\ b * q <= Len(d) /\ b * q + 0 = b * g + b * m
    BY <1>1, <1>4, <1>5
  <2>2. Holds(d, b * q + 0, v)
    BY <1>2, <2>1
  <2> HIDE DEF q
  <2>3. From(d, q) \in Seq(0 .. 1) /\ Holds(From(d, q), 0, v)
    BY <1>1, <2>1, <2>2, HoldsFrom
  <2> QED
    BY <2>3 DEF q
<1> QED
  BY <1>1, <1>3, <1>5, <1>6, <1>7 DEF g

(* What decodeSeriesAt makes of a series that it could take apart.         *)
Timestamps(d, m, n) ==
    GorillaDecodeTimestamps(SubSeq(d, Groups(m) * ByteBits + 1, (Groups(m) + m) * ByteBits), n)
ValuesOf(d, m, n) == GorillaDecodeValues(From(d, Groups(m) + m), n)

(* gorillaDecodeSeries, once the length is read.                           *)
LEMMA DecodesSeries ==
    ASSUME NEW d, NEW m, NEW n, ReadUvarint(d) = [val |-> m, used |-> Groups(m)]
    PROVE  GorillaDecodeSeries(d, n) =
               IF Groups(m) = 0 \/ (Groups(m) + m) * ByteBits > Len(d) THEN Corrupt
               ELSE IF n > 1 /\ m < WordBytes THEN Panic
               ELSE IF Timestamps(d, m, n) = Failed \/ ValuesOf(d, m, n) = Failed THEN Corrupt
               ELSE Decoded([i \in 1 .. n |-> [t |-> Timestamps(d, m, n)[i], v |-> ValuesOf(d, m, n)[i]]])
<1> DEFINE len == ReadUvarint(d)
<1>1. len.val = m /\ len.used = Groups(m)
  OBVIOUS
<1>2. GorillaDecodeSeries(d, n) =
          LET tsEnd == len.used + len.val
              ts == GorillaDecodeTimestamps(SubSeq(d, len.used * ByteBits + 1, tsEnd * ByteBits), n)
              vs == GorillaDecodeValues(From(d, tsEnd), n)
          IN  IF len.used = 0 \/ tsEnd * ByteBits > Len(d) THEN Corrupt
              ELSE IF n > 1 /\ len.val < WordBytes THEN Panic
              ELSE IF ts = Failed \/ vs = Failed THEN Corrupt
              ELSE Decoded([i \in 1 .. n |-> [t |-> ts[i], v |-> vs[i]]])
  BY Zenon DEF GorillaDecodeSeries
<1> HIDE DEF len
<1> QED
  BY <1>1, <1>2, Zenon DEF Timestamps, ValuesOf

(* The data that decodeSeriesAt reads.                                     *)
DataOf(e, rest, n) == Window(e \o rest, ByteBits * MaxSize(2, n))

(* decodeSeriesAt reads 2 * WordBytes bytes for every point.               *)
LEMMA DataOfIs ==
    ASSUME NEW e \in Seq(0 .. 1), NEW rest \in Seq(0 .. 1), NEW n \in Nat
    PROVE  /\ MaxSize(2, n) = 2 * WordBytes * n /\ MaxSize(2, n) \in Nat
           /\ DecodeSeriesAt(2, e \o rest, n) = GorillaDecodeSeries(DataOf(e, rest, n), n)
           /\ DataOf(e, rest, n) \in Seq(0 .. 1)
           /\ Len(DataOf(e, rest, n)) <= ByteBits * MaxSize(2, n)
           /\ Len(e) <= ByteBits * MaxSize(2, n) => Holds(DataOf(e, rest, n), 0, e)
           /\ \A s : /\ Len(s) \in Nat /\ Len(s) <= ByteBits * MaxSize(2, n) /\ Holds(e, 0, s)
                     => Holds(DataOf(e, rest, n), 0, s)
           /\ ByteBits * MaxSize(2, n) <= Len(e) => Len(DataOf(e, rest, n)) = ByteBits * MaxSize(2, n)
<1> DEFINE file == e \o rest
           max == ByteBits * MaxSize(2, n)
           d == Window(file, max)
<1>1. 2 >= 2
  OBVIOUS
<1>2. MaxSize(2, n) = 2 * WordBytes * n
  BY DEF MaxSize
<1>3. MaxSize(2, n) \in Nat /\ max \in Nat
  BY <1>2, Widths
<1>4. DecodeSeriesAt(2, file, n) = GorillaDecodeSeries(d, n)
  <2>1. DecodeSeriesAt(2, file, n) = IF 2 >= 2 THEN GorillaDecodeSeries(d, n) ELSE DecodePoints(d, n)
    BY Zenon DEF DecodeSeriesAt, Window
  <2> QED
    BY <1>1, <2>1
<1>5. file \in Seq(0 .. 1) /\ Len(file) = Len(e) + Len(rest) /\ Holds(file, 0, e)
  BY HoldsFirst
<1> HIDE DEF file, max
<1>6. /\ d \in Seq(0 .. 1) /\ Len(d) = IF Len(file) <= max THEN Len(file) ELSE max
      /\ \A s : Len(s) \in 0 .. max /\ Holds(file, 0, s) => Holds(d, 0, s)
  BY <1>3, <1>5, WindowIs
<1>7. Len(e) \in Nat /\ Len(rest) \in Nat /\ Len(file) \in Nat
  BY <1>5
<1> HIDE DEF d
<1>8. Len(d) <= max /\ (max <= Len(e) => Len(d) = max)
  BY <1>3, <1>5, <1>6, <1>7
<1>9. ASSUME NEW s, Len(s) \in Nat, Len(s) <= max, Holds(e, 0, s) PROVE Holds(d, 0, s)
  <2>1. Holds(file, 0, s)
    BY <1>5, <1>7, <1>9, HoldsIn
  <2>2. Len(s) \in 0 .. max
    BY <1>3, <1>9
  <2> QED
    BY <1>6, <2>1, <2>2
<1>10. Len(e) <= max => Holds(d, 0, e)
  BY <1>3, <1>5, <1>6, <1>7
<1>11. DataOf(e, rest, n) = d
  BY DEF DataOf, d, file, max
<1> QED
  BY <1>2, <1>3, <1>4, <1>6, <1>8, <1>9, <1>10, <1>11 DEF file, max

(* The head of the timestamps is a word.                                   *)
LEMMA DodsLength ==
    ASSUME NEW ts \in Seq(TimeRange), Len(ts) >= 2, NEW B, IsDods(B, ts)
    PROVE  B[Len(ts)] \in Seq(0 .. 1) /\ WordBits <= Len(B[Len(ts)])
<1> DEFINE n == Len(ts)
           head == Word(ts[1] % Pow2[WordBits])
           T == {j \in 2 .. n : WordBits <= Len(B[j])}
<1>1. n \in Nat /\ 2 <= n /\ 2 \in Int /\ n \in Int /\ ts # <<>> /\ WordBits \in Nat
  BY Widths
<1>2. head \in Seq(0 .. 1) /\ Len(head) = WordBits
  BY <1>1, HeadIs
<1>3. /\ \A i \in 2 .. n : B[i] \in Seq(0 .. 1)
      /\ B[2] = head \o Varint(Delta(ts, 2))
      /\ \A i \in 3 .. n : B[i] = B[i - 1] \o DodCode(Dod(ts, i), Len(B[i - 1]))
  BY DEF IsDods
<1> HIDE DEF head
<1>4. 2 \in T
  <2>1. 2 \in 2 .. Len(ts)
    BY <1>1
  <2>2. Varint(Delta(ts, 2)) \in Seq(0 .. 1)
    BY <2>1, DeltaRange, VarintIs DEF TimeRange
  <2>3. Len(B[2]) = WordBits + Len(Varint(Delta(ts, 2))) /\ Len(Varint(Delta(ts, 2))) \in Nat
    <3> DEFINE x == Varint(Delta(ts, 2))
    <3>1. x \in Seq(0 .. 1) /\ B[2] = head \o x
      BY <1>3, <2>2
    <3> HIDE DEF x
    <3>2. Len(head \o x) = Len(head) + Len(x) /\ Len(x) \in Nat
      BY <1>2, <3>1, HoldsFirst
    <3> QED
      BY <1>2, <3>1, <3>2 DEF x
  <2> QED
    BY <1>1, <2>3
<1>5. ASSUME NEW k \in 2 + 1 .. n, k - 1 \in T PROVE k \in T
  <2>1. k \in 3 .. n /\ k \in 2 .. n
    BY <1>1
  <2>2. B[k - 1] \in Seq(0 .. 1) /\ WordBits <= Len(B[k - 1]) /\ Len(B[k - 1]) \in Nat
    BY <1>3, <1>5
  <2>3. DodCode(Dod(ts, k), Len(B[k - 1])) \in Seq(0 .. 1)
    <3>1. Dod(ts, k) \in TimeRange
      BY <2>1, DodRange
    <3> QED
      BY <2>2, <3>1, DodCodeIs
  <2> DEFINE c == DodCode(Dod(ts, k), Len(B[k - 1]))
  <2>4. B[k] = B[k - 1] \o c
    BY <1>3, <2>1
  <2> HIDE DEF c
  <2>5. Len(B[k]) = Len(B[k - 1]) + Len(c) /\ Len(c) \in Nat
    BY <2>2, <2>3, <2>4, HoldsFirst DEF c
  <2> QED
    BY <1>1, <2>1, <2>2, <2>5
<1> HIDE DEF T
<1>6. n \in T
  <2>1. n \in 2 .. n
    BY <1>1
  <2> HIDE DEF n
  <2> QED
    BY <1>1, <1>4, <1>5, <2>1, FromTo
<1>7. n \in 2 .. n
  BY <1>1
<1> QED
  BY <1>3, <1>6, <1>7 DEF T

(* Whole bytes, and at least the first word of them.                       *)
LEMMA BytesOrder ==
    ASSUME NEW m \in Nat, NEW k \in Nat, ByteBits * k <= ByteBits * m
    PROVE  k <= m
<1> SUFFICES ASSUME m < k PROVE FALSE
  OBVIOUS
<1>1. ByteBits \in Nat \ {0}
  BY Widths
<1>2. m * ByteBits + ByteBits <= k * ByteBits
  BY <1>1, ProductOrder
<1>3. m * ByteBits = ByteBits * m /\ k * ByteBits = ByteBits * k /\ m * ByteBits \in Nat /\ k * ByteBits \in Nat
  BY <1>1
<1> QED
  BY <1>1, <1>2, <1>3

(* The timestamps take whole bytes, at least a word.                       *)
LEMMA TimestampsAre ==
    ASSUME NEW ts \in Seq(TimeRange), ts # <<>>
    PROVE  /\ GorillaEncodeTimestamps(ts) \in Seq(0 .. 1)
           /\ \E m \in Nat : Len(GorillaEncodeTimestamps(ts)) = ByteBits * m /\ WordBytes <= m
           /\ Len(ts) = 1 => Len(GorillaEncodeTimestamps(ts)) = WordBits
<1> DEFINE head == Word(ts[1] % Pow2[WordBits])
           t == GorillaEncodeTimestamps(ts)
<1>1. Len(ts) \in Nat \ {0} /\ head \in Seq(0 .. 1) /\ Len(head) = WordBits
  BY HeadIs
<1>2. WordBits = ByteBits * WordBytes /\ WordBytes \in Nat /\ WordBits \in Nat
  BY Widths
<1>5. Len(ts) = 1 \/ (Len(ts) >= 2 /\ Len(ts) # 1)
  <2>1. \A k \in Nat \ {0} : k = 1 \/ (k >= 2 /\ k # 1)
    OBVIOUS
  <2>2. Len(ts) \in Nat \ {0}
    BY HeadIs
  <2> QED
    BY <2>1, <2>2, Zenon
<1>3. CASE Len(ts) = 1
  <2>1. Len(ts) = 1 => GorillaEncodeTimestamps(ts) = head
    BY Zenon DEF GorillaEncodeTimestamps
  <2>2. t = head
    BY <1>3, <2>1
  <2> HIDE DEF t
  <2> QED
    BY <1>1, <1>2, <2>2 DEF t
<1>4. CASE Len(ts) >= 2 /\ Len(ts) # 1
  <2>1. PICK B : IsDods(B, ts) /\ t = Pad(B[Len(ts)])
    BY <1>4, DodBuffer
  <2> DEFINE s == B[Len(ts)]
  <2>2. s \in Seq(0 .. 1) /\ WordBits <= Len(s)
    BY <1>4, <2>1, DodsLength
  <2> HIDE DEF s, t
  <2>3. t \in Seq(0 .. 1) /\ Len(s) <= Len(t) /\ \E m \in Nat : Len(t) = ByteBits * m
    BY <2>1, <2>2, PadIs DEF s
  <2>4. PICK m \in Nat : Len(t) = ByteBits * m
    BY <2>3
  <2>5. ByteBits * WordBytes <= ByteBits * m
    <3>1. Len(s) \in Nat /\ Len(t) \in Nat
      BY <2>2, <2>3
    <3> QED
      BY <1>2, <2>2, <2>3, <2>4, <3>1
  <2>6. WordBytes <= m
    BY <1>2, <2>5, BytesOrder
  <2>8. t \in Seq(0 .. 1) /\ \E k \in Nat : Len(t) = ByteBits * k /\ WordBytes <= k
    BY <2>3, <2>4, <2>6
  <2> QED
    BY <1>4, <2>8 DEF t
<1> QED
  BY <1>3, <1>4, <1>5

(* The values are bits.                                                    *)
LEMMA ValuesAre ==
    ASSUME NEW vs \in Seq(WordRange), vs # <<>>
    PROVE  GorillaEncodeValues(vs) \in Seq(0 .. 1)
<1>1. PICK B : IsXors(B, vs) /\ GorillaEncodeValues(vs) = Pad(B[Len(vs)].bits)
  BY XorBuffer
<1>2. Len(vs) \in 1 .. Len(vs)
  <2>1. Len(vs) \in Nat \ {0}
    BY EmptySeq
  <2> QED
    BY <2>1
<1>3. B[Len(vs)].bits \in Seq(0 .. 1)
  <2>1. B[Len(vs)] \in XorStates
    BY <1>1, <1>2 DEF IsXors
  <2> QED
    BY <2>1 DEF XorStates
<1> QED
  BY <1>1, <1>3, PadIs

(* What is written of a series, if its length fits into a word.            *)
LEMMA Encoded ==
    ASSUME NEW ts \in Seq(TimeRange), ts # <<>>, NEW vs \in Seq(WordRange), vs # <<>>
    PROVE  /\ GorillaEncodeSeries(ts, vs) \in Seq(0 .. 1)
           /\ \E m \in Nat :
                 /\ Len(GorillaEncodeTimestamps(ts)) = ByteBits * m /\ WordBytes <= m
                 /\ ByteBits * m <= Len(GorillaEncodeSeries(ts, vs))
                 /\ m < Pow2[WordBits] =>
                       GorillaEncodeSeries(ts, vs) =
                           Series(m, GorillaEncodeTimestamps(ts), GorillaEncodeValues(vs))
<1> DEFINE t == GorillaEncodeTimestamps(ts)
           v == GorillaEncodeValues(vs)
           e == GorillaEncodeSeries(ts, vs)
           N == Pow2[WordBits]
<1>1. t \in Seq(0 .. 1) /\ v \in Seq(0 .. 1) /\ \E m \in Nat : Len(t) = ByteBits * m /\ WordBytes <= m
  BY TimestampsAre, ValuesAre
<1>2. PICK m \in Nat : Len(t) = ByteBits * m /\ WordBytes <= m
  BY <1>1
<1>3. e = (Uvarint((Len(t) \div ByteBits) % N) \o t) \o v
  BY Zenon DEF GorillaEncodeSeries
<1>4. Len(t) \div ByteBits = m
  BY <1>2, MultipleOfBytes
<1> DEFINE r == m % N
           u == Uvarint(r)
<1>5. N \in Nat \ {0}
  BY HalfWord
<1>6. r \in Nat /\ r < N /\ (m < N => r = m)
  <2> HIDE DEF N
  <2> QED
    BY <1>5
<1> HIDE DEF t, v, e
<1>7. u \in Seq(0 .. 1)
  <2> HIDE DEF r
  <2> QED
    BY <1>6, UvarintBits
<1>8. e = (u \o t) \o v
  BY <1>3, <1>4
<1>9. m < N => e = Series(m, t, v)
  BY <1>6, <1>8 DEF Series
<1> HIDE DEF u
<1>10. u \o t \in Seq(0 .. 1) /\ Len(u \o t) = Len(u) + Len(t)
  BY <1>1, <1>7, HoldsFirst
<1>11. e \in Seq(0 .. 1) /\ Len(e) = Len(u \o t) + Len(v)
  BY <1>1, <1>8, <1>10, HoldsFirst
<1>12. Len(t) <= Len(e)
  <2>1. Len(u) \in Nat /\ Len(t) \in Nat /\ Len(v) \in Nat
    BY <1>1, <1>7
  <2> QED
    BY <1>10, <1>11, <2>1
<1> QED
  BY <1>2, <1>9, <1>11, <1>12 DEF t, v, e

(* A series that fits into what is read has a length that fits a word.     *)
LEMMA LengthFits ==
    ASSUME NEW n \in Nat, n <= MaxPoints, NEW m \in Nat, ByteBits * m <= ByteBits * (2 * WordBytes * n)
    PROVE  m < Pow2[WordBits]
<1>1. 2 * WordBytes * n \in Nat /\ WordBytes \in Nat
  BY Widths
<1>2. m <= 2 * WordBytes * n
  BY <1>1, BytesOrder
<1>3. 2 * WordBytes * MaxPoints < Pow2[WordBits] /\ MaxPoints \in Nat /\ Pow2[WordBits] \in Nat
  BY CodecConstants, HalfWord
<1>4. 2 * WordBytes * n <= 2 * WordBytes * MaxPoints
  <2>1. MaxPoints - n \in Nat
    BY <1>3
  <2>2. 2 * WordBytes * (MaxPoints - n) \in Nat
    BY <1>1, <2>1
  <2>3. 2 * WordBytes * MaxPoints = 2 * WordBytes * n + 2 * WordBytes * (MaxPoints - n)
    BY <1>1, <1>3
  <2> QED
    BY <1>1, <1>3, <2>2, <2>3
<1>5. 2 * WordBytes * MaxPoints \in Nat
  BY <1>1, <1>3
<1> QED
  BY <1>1, <1>2, <1>3, <1>4, <1>5

(* What the two decoders return, put together.                             *)
Joined(t, v, n) ==
    IF t = Failed \/ v = Failed THEN Corrupt
    ELSE Decoded([i \in 1 .. n |-> [t |-> t[i], v |-> v[i]]])

(* A series that fits is taken apart where it was put together.            *)
LEMMA TakenApart ==
    ASSUME NEW ts \in Seq(TimeRange), NEW vs \in Seq(WordRange), NEW rest \in Seq(0 .. 1),
           Len(ts) >= 2, Len(vs) = Len(ts), Len(ts) <= MaxPoints,
           Len(GorillaEncodeSeries(ts, vs)) <= ByteBits * MaxSize(2, Len(ts))
    PROVE  \E p \in Seq(0 .. 1), q \in Seq(0 .. 1) :
              /\ Holds(p, 0, GorillaEncodeTimestamps(ts)) /\ Holds(q, 0, GorillaEncodeValues(vs))
              /\ DecodeSeriesAt(2, GorillaEncodeSeries(ts, vs) \o rest, Len(ts)) =
                    Joined(GorillaDecodeTimestamps(p, Len(ts)), GorillaDecodeValues(q, Len(ts)), Len(ts))
<1> DEFINE n == Len(ts)
           t == GorillaEncodeTimestamps(ts)
           v == GorillaEncodeValues(vs)
           e == GorillaEncodeSeries(ts, vs)
           d == DataOf(e, rest, n)
<1>1. n \in Nat /\ n > 1 /\ ts # <<>> /\ vs # <<>> /\ n <= MaxPoints
  BY EmptySeq
<1>2. e \in Seq(0 .. 1) /\ Len(e) \in Nat
  <2>1. e \in Seq(0 .. 1)
    BY <1>1, Encoded
  <2> QED
    BY <2>1
<1>3. t \in Seq(0 .. 1) /\ v \in Seq(0 .. 1)
  BY <1>1, TimestampsAre, ValuesAre
<1>4. PICK m \in Nat :
         /\ Len(t) = ByteBits * m /\ WordBytes <= m /\ ByteBits * m <= Len(e)
         /\ m < Pow2[WordBits] => e = Series(m, t, v)
  BY <1>1, Encoded
<1>5. Len(e) <= ByteBits * MaxSize(2, n)
  OBVIOUS
<1> HIDE DEF n, t, v, e
<1>6. /\ MaxSize(2, n) = 2 * WordBytes * n
      /\ DecodeSeriesAt(2, e \o rest, n) = GorillaDecodeSeries(d, n)
      /\ d \in Seq(0 .. 1) /\ Holds(d, 0, e)
  BY <1>1, <1>2, <1>5, DataOfIs
<1>7. m < Pow2[WordBits]
  <2>1. ByteBits * m <= ByteBits * (2 * WordBytes * n)
    <3>1. ByteBits * m \in Nat /\ ByteBits * (2 * WordBytes * n) \in Nat
      BY <1>1, Widths
    <3>2. Len(e) <= ByteBits * (2 * WordBytes * n)
      BY <1>5, <1>6
    <3> QED
      BY <1>2, <1>4, <3>1, <3>2
  <2> QED
    BY <1>1, <2>1, LengthFits
<1>8. Holds(d, 0, Series(m, t, v))
  BY <1>4, <1>6, <1>7
<1> HIDE DEF d
<1> DEFINE p == SubSeq(d, Groups(m) * ByteBits + 1, (Groups(m) + m) * ByteBits)
           q == From(d, Groups(m) + m)
<1>9. /\ ReadUvarint(d) = [val |-> m, used |-> Groups(m)] /\ Groups(m) \in Nat \ {0}
      /\ (Groups(m) + m) * ByteBits <= Len(d)
      /\ p \in Seq(0 .. 1) /\ Holds(p, 0, t)
      /\ q \in Seq(0 .. 1) /\ Holds(q, 0, v)
  BY <1>3, <1>4, <1>6, <1>7, <1>8, ReadsSeries
<1>10. Timestamps(d, m, n) = GorillaDecodeTimestamps(p, n) /\ ValuesOf(d, m, n) = GorillaDecodeValues(q, n)
  BY DEF Timestamps, ValuesOf
<1> HIDE DEF p, q
<1>11. GorillaDecodeSeries(d, n) =
          IF Groups(m) = 0 \/ (Groups(m) + m) * ByteBits > Len(d) THEN Corrupt
          ELSE IF n > 1 /\ m < WordBytes THEN Panic
          ELSE IF Timestamps(d, m, n) = Failed \/ ValuesOf(d, m, n) = Failed THEN Corrupt
          ELSE Decoded([i \in 1 .. n |-> [t |-> Timestamps(d, m, n)[i], v |-> ValuesOf(d, m, n)[i]]])
  BY <1>9, DecodesSeries
<1>12. ~(Groups(m) = 0 \/ (Groups(m) + m) * ByteBits > Len(d)) /\ ~(n > 1 /\ m < WordBytes)
  <2>1. (Groups(m) + m) * ByteBits \in Nat /\ Len(d) \in Nat /\ WordBytes \in Nat
    BY <1>6, <1>9, Widths
  <2> QED
    BY <1>4, <1>9, <2>1
<1>13. GorillaDecodeSeries(d, n) = Joined(GorillaDecodeTimestamps(p, n), GorillaDecodeValues(q, n), n)
  BY <1>10, <1>11, <1>12, Zenon DEF Joined
<1>14. DecodeSeriesAt(2, e \o rest, n) = Joined(GorillaDecodeTimestamps(p, n), GorillaDecodeValues(q, n), n)
  BY <1>6, <1>13 DEF d
<1> QED
  BY <1>9, <1>14 DEF n, t, v, e

(* The series comes back.                                                  *)
LEMMA ComesBack ==
    ASSUME NEW ts \in Seq(TimeRange), NEW vs \in Seq(WordRange), NEW rest \in Seq(0 .. 1),
           Len(ts) >= 2, Len(vs) = Len(ts), Len(ts) <= MaxPoints,
           Len(GorillaEncodeSeries(ts, vs)) <= ByteBits * MaxSize(2, Len(ts)),
           \A i \in 3 .. Len(ts) : Dod(ts, i) = 0 \/ BucketsOf(Dod(ts, i)) # {},
           \A i \in 2 .. Len(vs) :
              vs[i - 1] # vs[i] => LeadingZeros(XorOf(vs, i)) < Pow2[LeadBits]
    PROVE  DecodeSeriesAt(2, GorillaEncodeSeries(ts, vs) \o rest, Len(ts)) =
               Decoded([i \in 1 .. Len(ts) |-> [t |-> ts[i], v |-> vs[i]]])
<1> DEFINE n == Len(ts)
           back == DecodeSeriesAt(2, GorillaEncodeSeries(ts, vs) \o rest, n)
<1>1. n \in Nat /\ n >= 2 /\ ts # <<>> /\ vs # <<>>
  BY EmptySeq
<1>2. PICK p \in Seq(0 .. 1), q \in Seq(0 .. 1) :
         /\ Holds(p, 0, GorillaEncodeTimestamps(ts)) /\ Holds(q, 0, GorillaEncodeValues(vs))
         /\ back = Joined(GorillaDecodeTimestamps(p, n), GorillaDecodeValues(q, n), n)
  BY TakenApart
<1> HIDE DEF back
<1>3. GorillaDecodeTimestamps(p, n) = [i \in 1 .. n |-> ts[i]]
  <2>1. PICK B : IsDods(B, ts) /\ GorillaEncodeTimestamps(ts) = Pad(B[Len(ts)])
    BY DodBuffer
  <2>2. B[Len(ts)] \in Seq(0 .. 1)
    BY <2>1, DodsLength
  <2>3. Len(p) \in Nat /\ Holds(p, 0, Pad(B[Len(ts)]))
    BY <1>2, <2>1
  <2>4. Holds(p, 0, B[Len(ts)])
    BY <2>2, <2>3, PadIs
  <2> QED
    BY <2>1, <2>4, ReadsTimestamps
<1>4. GorillaDecodeValues(q, n) = [i \in 1 .. n |-> vs[i]]
  <2>1. PICK B : IsXors(B, vs) /\ GorillaEncodeValues(vs) = Pad(B[Len(vs)].bits)
    BY <1>1, XorBuffer
  <2>2. B[Len(vs)].bits \in Seq(0 .. 1)
    <3>1. Len(vs) \in 1 .. Len(vs)
      BY <1>1
    <3>2. B[Len(vs)] \in XorStates
      BY <2>1, <3>1 DEF IsXors
    <3> QED
      BY <3>2 DEF XorStates
  <2>3. Len(q) \in Nat /\ Holds(q, 0, Pad(B[Len(vs)].bits))
    BY <1>2, <2>1
  <2>4. Holds(q, 0, B[Len(vs)].bits)
    BY <2>2, <2>3, PadIs
  <2>5. GorillaDecodeValues(q, Len(vs)) = [i \in 1 .. Len(vs) |-> vs[i]]
    BY <1>1, <2>1, <2>4, ReadsValues
  <2> QED
    BY <2>5
<1> HIDE DEF n
<1> DEFINE t == [i \in 1 .. n |-> ts[i]]
           v == [i \in 1 .. n |-> vs[i]]
<1>5. t # Failed /\ v # Failed
  <2>1. DOMAIN t = 1 .. n /\ DOMAIN v = 1 .. n /\ DOMAIN Failed = 1 .. 0 /\ 1 \in 1 .. n /\ ~(1 \in 1 .. 0)
    BY <1>1 DEF Failed
  <2> QED
    BY <2>1
<1>6. back = Joined(t, v, n)
  BY <1>2, <1>3, <1>4
<1>7. \A i \in 1 .. n : t[i] = ts[i] /\ v[i] = vs[i]
  OBVIOUS
<1> HIDE DEF t, v
<1>8. back = Decoded([i \in 1 .. n |-> [t |-> t[i], v |-> v[i]]])
  BY <1>5, <1>6, Zenon DEF Joined
<1>9. [i \in 1 .. n |-> [t |-> t[i], v |-> v[i]]] = [i \in 1 .. n |-> [t |-> ts[i], v |-> vs[i]]]
  BY <1>7
<1> QED
  BY <1>8, <1>9 DEF n, back

(* Two values that agree in too many bits do not.                          *)
LEMMA NeverComesBack ==
    ASSUME NEW ts \in Seq(TimeRange), NEW vs \in Seq(WordRange), NEW rest \in Seq(0 .. 1),
           Len(ts) = 2, Len(vs) = 2, Len(ts) <= MaxPoints,
           Len(GorillaEncodeSeries(ts, vs)) <= ByteBits * MaxSize(2, Len(ts)),
           vs[1] # vs[2], Pow2[LeadBits] <= LeadingZeros(XorOf(vs, 2))
    PROVE  DecodeSeriesAt(2, GorillaEncodeSeries(ts, vs) \o rest, 2) #
               Decoded([i \in 1 .. 2 |-> [t |-> ts[i], v |-> vs[i]]])
<1> DEFINE back == DecodeSeriesAt(2, GorillaEncodeSeries(ts, vs) \o rest, 2)
           good == [i \in 1 .. 2 |-> [t |-> ts[i], v |-> vs[i]]]
<1>1. ts # <<>> /\ vs # <<>> /\ Len(ts) >= 2 /\ Len(vs) = Len(ts)
  <2>1. Len(ts) >= 2 /\ Len(vs) = Len(ts)
    OBVIOUS
  <2>2. ts # <<>>
    OBVIOUS
  <2>3. vs # <<>>
    <3> SUFFICES ASSUME vs = <<>> PROVE FALSE
      OBVIOUS
    <3>1. Len(vs) = 0
      BY EmptySeq
    <3>2. Len(vs) = 2
      OBVIOUS
    <3>3. 0 # 2
      OBVIOUS
    <3> QED
      BY <3>1, <3>2, <3>3, Zenon
  <2> QED
    BY <2>1, <2>2, <2>3
<1>2. PICK p \in Seq(0 .. 1), q \in Seq(0 .. 1) :
         /\ Holds(q, 0, GorillaEncodeValues(vs))
         /\ back = Joined(GorillaDecodeTimestamps(p, 2), GorillaDecodeValues(q, 2), 2)
  <2>1. PICK p \in Seq(0 .. 1), q \in Seq(0 .. 1) :
           /\ Holds(p, 0, GorillaEncodeTimestamps(ts)) /\ Holds(q, 0, GorillaEncodeValues(vs))
           /\ DecodeSeriesAt(2, GorillaEncodeSeries(ts, vs) \o rest, Len(ts)) =
                 Joined(GorillaDecodeTimestamps(p, Len(ts)), GorillaDecodeValues(q, Len(ts)), Len(ts))
    BY <1>1, TakenApart
  <2>2. back = Joined(GorillaDecodeTimestamps(p, 2), GorillaDecodeValues(q, 2), 2)
    BY <2>1
  <2> HIDE DEF back
  <2> QED
    BY <2>1, <2>2
<1> HIDE DEF back
<1> DEFINE t == GorillaDecodeTimestamps(p, 2)
           v == GorillaDecodeValues(q, 2)
<1>3. v[2] # vs[2]
  <2>1. PICK B : IsXors(B, vs) /\ GorillaEncodeValues(vs) = Pad(B[Len(vs)].bits)
    BY <1>1, XorBuffer
  <2>2. B[2].bits \in Seq(0 .. 1)
    <3>1. 2 \in 1 .. Len(vs)
      BY <1>1
    <3>2. B[2] \in XorStates
      BY <2>1, <3>1 DEF IsXors
    <3> QED
      BY <3>2 DEF XorStates
  <2>3. Len(q) \in Nat /\ Holds(q, 0, Pad(B[2].bits))
    BY <1>2, <2>1
  <2>4. Holds(q, 0, B[2].bits)
    BY <2>2, <2>3, PadIs
  <2>5. v = [i \in 1 .. 2 |-> ReadXors(q, 2)[i].v] /\ ReadXors(q, 2)[2].v # vs[2]
    BY <2>1, <2>4, LosesValue
  <2> HIDE DEF v
  <2> QED
    BY <2>5
<1> HIDE DEF t, v
<1>4. back = IF t = Failed \/ v = Failed THEN Corrupt
             ELSE Decoded([i \in 1 .. 2 |-> [t |-> t[i], v |-> v[i]]])
  BY <1>2, Zenon DEF Joined, t, v
<1>5. Corrupt # Decoded(good)
  <2>1. Corrupt.err = "corrupt" /\ Decoded(good).err = "nil"
    BY DEF Corrupt, Decoded
  <2> QED
    BY <2>1
<1>6. Decoded([i \in 1 .. 2 |-> [t |-> t[i], v |-> v[i]]]) # Decoded(good)
  <2> DEFINE bad == [i \in 1 .. 2 |-> [t |-> t[i], v |-> v[i]]]
  <2>1. bad[2].v = v[2] /\ good[2].v = vs[2]
    OBVIOUS
  <2> HIDE DEF bad, good
  <2>2. Decoded(bad).pts = bad /\ Decoded(good).pts = good
    BY DEF Decoded
  <2> QED
    BY <1>3, <2>1, <2>2 DEF bad
<1> QED
  BY <1>4, <1>5, <1>6, Zenon DEF back

(* One point alone takes a byte more than is read and is reported corrupt. *)
LEMMA AloneCorrupt ==
    ASSUME NEW ts \in Seq(TimeRange), NEW vs \in Seq(WordRange), NEW rest \in Seq(0 .. 1),
           Len(ts) = 1, Len(vs) = 1, 1 <= MaxPoints
    PROVE  /\ DecodeSeriesAt(2, GorillaEncodeSeries(ts, vs) \o rest, 1) = Corrupt
           /\ ~(Len(GorillaEncodeSeries(ts, vs)) <= ByteBits * MaxSize(2, 1))
<1> DEFINE t == GorillaEncodeTimestamps(ts)
           v == GorillaEncodeValues(vs)
           e == GorillaEncodeSeries(ts, vs)
           d == DataOf(e, rest, 1)
           b == ByteBits
           w == WordBytes
           g == Groups(w)
<1>1. ts # <<>> /\ vs # <<>>
  <2>1. Len(<<>>) = 0 /\ 0 # 1
    BY EmptySeq
  <2>2. Len(ts) = 1 /\ Len(vs) = 1
    OBVIOUS
  <2> QED
    BY <2>1, <2>2, Zenon
<1>2. b \in Nat \ {0} /\ w \in Nat \ {0} /\ WordBits = b * w /\ MaxVarintLen \in Nat /\ MaxVarintLen <= 2 * w
  BY Widths
<1>3. t \in Seq(0 .. 1) /\ v \in Seq(0 .. 1) /\ e \in Seq(0 .. 1) /\ Len(t) = b * w
  <2>1. t \in Seq(0 .. 1) /\ Len(t) = WordBits
    BY <1>1, TimestampsAre
  <2>2. v \in Seq(0 .. 1) /\ e \in Seq(0 .. 1)
    BY <1>1, ValuesAre, Encoded
  <2> QED
    BY <1>2, <2>1, <2>2
<1>4. b * w <= Len(v)
  <2>1. PICK B : IsXors(B, vs) /\ v = Pad(B[Len(vs)].bits)
    BY <1>1, XorBuffer
  <2>2. B[1] = [bits |-> Word(vs[1]), window |-> NoWindow]
    BY <2>1 DEF IsXors
  <2>3. vs[1] \in WordRange
    <3>1. 1 \in 1 .. Len(vs)
      OBVIOUS
    <3> QED
      BY <3>1, ElementOfSeq
  <2>4. B[1].bits \in Seq(0 .. 1) /\ Len(B[1].bits) = WordBits
    BY <2>2, <2>3, WordIs DEF WordRange
  <2>5. v = Pad(B[1].bits)
    BY <2>1
  <2> HIDE DEF v
  <2>6. Len(B[1].bits) <= Len(v)
    BY <2>4, <2>5, PadIs
  <2> QED
    BY <1>2, <2>4, <2>6
<1>5. w < Pow2[WordBits]
  <2>1. b * w <= b * (2 * w * 1)
    BY <1>2
  <2> QED
    BY <1>2, <2>1, LengthFits
<1>6. e = Series(w, t, v)
  <2>1. PICK m \in Nat : Len(t) = b * m /\ (m < Pow2[WordBits] => e = Series(m, t, v))
    BY <1>1, Encoded
  <2> HIDE DEF t, v, e
  <2>2. m = w
    <3>1. b * m <= b * w /\ b * w <= b * m
      <4>1. b * m = b * w /\ b * m \in Int /\ b * w \in Int
        <5>1. b * m = b * w
          BY <1>3, <2>1, Zenon
        <5>2. b \in Int /\ m \in Int /\ w \in Int
          BY <1>2
        <5>3. \A i \in Int, j \in Int : i * j \in Int
          OBVIOUS
        <5> QED
          BY <5>1, <5>2, <5>3, Zenon
      <4>2. \A i \in Int, j \in Int : i = j => i <= j /\ j <= i
        OBVIOUS
      <4> QED
        BY <4>1, <4>2, Zenon
    <3>2. m <= w /\ w <= m
      BY <1>2, <3>1, BytesOrder
    <3> QED
      BY <1>2, <3>2
  <2> QED
    BY <1>5, <2>1, <2>2
<1> HIDE DEF t, v, e
<1>7. g \in Nat \ {0} /\ g <= 2 * w
  <2>1. g \in 1 .. MaxVarintLen
    BY <1>2, <1>5, GroupsIs
  <2> QED
    BY <1>2, <2>1
<1>8. Len(e) = b * g + b * w + Len(v) /\ Holds(e, 0, Uvarint(w)) /\ Uvarint(w) \in Seq(0 .. 1) /\ Len(Uvarint(w)) = b * g
  <2>1. Holds(e, 0, e)
    <3>1. Len(e) \in Nat /\ 0 + Len(e) <= Len(e) /\ \A k \in 1 .. Len(e) : 0 + k = k
      BY <1>3
    <3> QED
      BY <3>1 DEF Holds
  <2>2. Len(e) = b * g + b * w + Len(v) /\ Holds(e, 0, Uvarint(w) \o t)
    BY <1>2, <1>3, <1>5, <1>6, <2>1, SeriesIs
  <2>3. Holds(e, 0, Uvarint(w))
    BY <1>2, <1>3, <1>5, <2>2, SeriesIs
  <2>4. Uvarint(w) \in Seq(0 .. 1) /\ Len(Uvarint(w)) = b * g
    BY <1>2, <1>5, UvarintBits
  <2> QED
    BY <2>2, <2>3, <2>4
<1> HIDE DEF g
<1> DEFINE max == b * MaxSize(2, 1)
<1>9. max = b * w + b * w /\ MaxSize(2, 1) = 2 * w * 1
  <2>1. MaxSize(2, 1) = 2 * w * 1
    BY <1>3, DataOfIs
  <2> QED
    BY <1>2, <2>1
<1>10. b * w \in Nat /\ b * g \in Nat \ {0} /\ Len(v) \in Nat /\ b * g <= b * w + b * w
  <2>1. b * w \in Nat /\ b * g \in Nat /\ Len(v) \in Nat
    BY <1>2, <1>3, <1>7
  <2>2. b * g # 0
    BY <1>2, <1>7
  <2>3. b * g <= b * w + b * w
    <3>1. 2 * w - g \in Nat
      BY <1>2, <1>7
    <3>2. b * (2 * w - g) \in Nat
      BY <1>2, <3>1
    <3>3. b * (2 * w - g) = (b * w + b * w) - b * g
      BY <1>2, <1>7
    <3> QED
      BY <2>1, <3>2, <3>3
  <2> QED
    BY <2>1, <2>2, <2>3
<1> HIDE DEF max
<1>11. max < Len(e)
  BY <1>4, <1>8, <1>9, <1>10
<1>12. /\ DecodeSeriesAt(2, e \o rest, 1) = GorillaDecodeSeries(d, 1)
       /\ d \in Seq(0 .. 1) /\ Len(d) = max /\ Holds(d, 0, Uvarint(w))
  <2>1. max <= Len(e) /\ Len(Uvarint(w)) \in Nat /\ Len(Uvarint(w)) <= max
    BY <1>3, <1>8, <1>9, <1>10, <1>11
  <2>2. DecodeSeriesAt(2, e \o rest, 1) = GorillaDecodeSeries(d, 1) /\ d \in Seq(0 .. 1)
    BY <1>3, DataOfIs
  <2>3. Len(d) = max
    BY <1>3, <2>1, DataOfIs DEF max
  <2>4. Holds(d, 0, Uvarint(w))
    BY <1>3, <1>8, <2>1, DataOfIs DEF max
  <2> QED
    BY <2>2, <2>3, <2>4
<1> HIDE DEF d
<1>13. ReadUvarint(d) = [val |-> w, used |-> g]
  BY <1>2, <1>5, <1>12, ReadsUvarint DEF g
<1>14. GorillaDecodeSeries(d, 1) =
          IF g = 0 \/ (g + w) * b > Len(d) THEN Corrupt
          ELSE IF 1 > 1 /\ w < w THEN Panic
          ELSE IF Timestamps(d, w, 1) = Failed \/ ValuesOf(d, w, 1) = Failed THEN Corrupt
          ELSE Decoded([i \in 1 .. 1 |-> [t |-> Timestamps(d, w, 1)[i], v |-> ValuesOf(d, w, 1)[i]]])
  BY <1>13, DecodesSeries DEF g
<1>15. (g + w) * b = b * g + b * w /\ g + w \in Nat /\ b * (g + w) = b * g + b * w
  BY <1>2, <1>7
<1>16. CASE (g + w) * b > Len(d)
  <2>1. GorillaDecodeSeries(d, 1) = Corrupt
    BY <1>14, <1>16, Zenon
  <2>2. ~(Len(e) <= max)
    BY <1>3, <1>9, <1>10, <1>11
  <2> QED
    BY <1>12, <2>1, <2>2 DEF e, max
<1>17. CASE ~((g + w) * b > Len(d))
  <2>1. b * (g + w) <= Len(d)
    BY <1>9, <1>10, <1>12, <1>15, <1>17
  <2>2. Len(From(d, g + w)) = Len(d) - b * (g + w)
    BY <1>12, <1>15, <2>1, HoldsFrom
  <2>3. Len(From(d, g + w)) < WordBits
    BY <1>2, <1>9, <1>10, <1>12, <1>15, <2>2
  <2>4. GorillaDecodeValues(From(d, g + w), 1) = Failed
    BY <2>3, Zenon DEF GorillaDecodeValues
  <2>5. ValuesOf(d, w, 1) = Failed
    BY <2>4 DEF ValuesOf, g
  <2>6. ~(1 > 1 /\ w < w) /\ g # 0
    BY <1>7
  <2>7. GorillaDecodeSeries(d, 1) = Corrupt
    BY <1>14, <1>17, <2>5, <2>6, Zenon
  <2>8. ~(Len(e) <= max)
    BY <1>3, <1>9, <1>10, <1>11
  <2> QED
    BY <1>12, <2>7, <2>8 DEF e, max
<1> QED
  BY <1>16, <1>17

(* decodeSeriesAt returns every series that gorillaEncodeSeries wrote,     *)
(* whatever follows it, if its bytes fit into what the reader asks for, no *)
(* timestamp takes the escape and no two neighbours agree in too many      *)
(* leading bits; one point alone is always reported corrupt, and two values*)
(* that agree in too many leading bits never come back.                    *)
THEOREM V2RoundTripHolds == CodecSpec => []V2RoundTrip
<1>1. ASSUME CodecTypeOK PROVE V2RoundTrip
  <2> SUFFICES ASSUME points # <<>> PROVE V2RoundTrip
    BY DEF V2RoundTrip
  <2> DEFINE n == Len(points)
             e == GorillaEncodeSeries(Ts, Vs)
             fits == Len(EncodeSeries(2)) <= ByteBits * MaxSize(2, n)
             back == ReadBack(2)
             good == [i \in 1 .. n |-> [t |-> Ts[i], v |-> Vs[i]]]
  <2>1. /\ Ts \in Seq(TimeRange) /\ Vs \in Seq(WordRange) /\ behind \in Seq(0 .. 1)
        /\ Len(Ts) = n /\ Len(Vs) = n /\ n \in Nat /\ points = good
    BY <1>1, Columns
  <2>2. n \in Nat \ {0} /\ n <= MaxPoints /\ MaxPoints \in Nat
    BY <1>1, EmptySeq, CodecConstants DEF CodecTypeOK
  <2>3. EncodeSeries(2) = e
    <3>1. EncodeSeries(2) = IF 2 >= 2 THEN GorillaEncodeSeries(Ts, Vs) ELSE EncodeV1(Ts, Vs)
      BY Zenon DEF EncodeSeries
    <3> QED
      BY <3>1
  <2>4. back = DecodeSeriesAt(2, e \o behind, n)
    BY <2>3, Zenon DEF ReadBack
  <2>5. fits <=> Len(e) <= ByteBits * MaxSize(2, n)
    BY <2>3
  <2>6. \A i \in 2 .. n : /\ Xor(Vs[i], Vs[i - 1]) = XorOf(Vs, i)
                          /\ Vs[i] # Vs[i - 1] <=> Vs[i - 1] # Vs[i]
    <3> SUFFICES ASSUME NEW i \in 2 .. n PROVE Xor(Vs[i], Vs[i - 1]) = XorOf(Vs, i)
      OBVIOUS
    <3>1. i \in 2 .. Len(Vs)
      BY <2>1
    <3>2. Vs[i] \in WordRange /\ Vs[i - 1] \in WordRange
      BY <2>1, <3>1, XorOfIs
    <3> QED
      BY <3>2, XorSame DEF XorOf
  <2> HIDE DEF n, e, fits, back, good
  <2>7. V2RoundTrip <=> /\ fits /\ NoEscape /\ LeadFits => back = Decoded(points)
                        /\ n = 1 => back = Corrupt
                        /\ n = 2 /\ fits /\ ~LeadFits => back # Decoded(points)
    BY Zenon DEF V2RoundTrip, V2Answer, n, fits, back
  <2>8. CASE n = 1
    <3>1. back = Corrupt /\ ~fits
      BY <2>1, <2>2, <2>4, <2>5, <2>8, AloneCorrupt DEF e
    <3>2. n # 2
      BY <2>8
    <3> QED
      BY <2>7, <3>1, <3>2
  <2>9. CASE n >= 2 /\ n # 1
    <3>1. ASSUME fits, NoEscape, LeadFits PROVE back = Decoded(points)
      <4>1. \A i \in 3 .. n : Dod(Ts, i) = 0 \/ BucketsOf(Dod(Ts, i)) # {}
        BY <3>1 DEF NoEscape, n
      <4>2. \A i \in 2 .. n : Vs[i - 1] # Vs[i] => LeadingZeros(XorOf(Vs, i)) < Pow2[LeadBits]
        BY <2>6, <3>1 DEF LeadFits, n
      <4>3. Len(Ts) >= 2 /\ Len(Ts) <= MaxPoints /\ Len(Vs) = Len(Ts)
        BY <2>1, <2>2, <2>9
      <4>4. back = Decoded(good)
        BY <2>1, <2>4, <2>5, <3>1, <4>1, <4>2, <4>3, ComesBack DEF e, good
      <4> QED
        BY <2>1, <4>4
    <3>2. ASSUME n = 2, fits, ~LeadFits PROVE back # Decoded(points)
      <4>1. Vs[1] # Vs[2] /\ ~(LeadingZeros(XorOf(Vs, 2)) < Pow2[LeadBits])
        <5>1. PICK i \in 2 .. n : Vs[i] # Vs[i - 1] /\ ~(LeadingZeros(Xor(Vs[i], Vs[i - 1])) < Pow2[LeadBits])
          BY <3>2 DEF LeadFits, n
        <5>2. i = 2 /\ i - 1 = 1
          BY <3>2
        <5> QED
          BY <2>6, <5>1, <5>2
      <4>2. Pow2[LeadBits] <= LeadingZeros(XorOf(Vs, 2))
        <5>1. 2 \in 2 .. Len(Vs) /\ 2 - 1 = 1
          BY <2>1, <3>2
        <5>2. XorOf(Vs, 2) \in WordRange /\ XorOf(Vs, 2) # 0
          BY <2>1, <4>1, <5>1, XorOfIs
        <5>3. LeadingZeros(XorOf(Vs, 2)) \in 0 .. WordBits - 1
          BY <5>2, ZerosAre
        <5>4. WordBits \in Nat /\ Pow2[LeadBits] \in Nat
          BY Widths, CodecConstants, Pow2Is
        <5> QED
          BY <4>1, <5>3, <5>4
      <4>3. back # Decoded(good)
        <5>1. Len(Ts) = 2 /\ Len(Vs) = 2 /\ Len(Ts) <= MaxPoints
          BY <2>1, <2>2, <3>2
        <5>2. Len(GorillaEncodeSeries(Ts, Vs)) <= ByteBits * MaxSize(2, Len(Ts))
          BY <2>1, <2>5, <3>2 DEF e
        <5>3. DecodeSeriesAt(2, GorillaEncodeSeries(Ts, Vs) \o behind, 2) #
                 Decoded([i \in 1 .. 2 |-> [t |-> Ts[i], v |-> Vs[i]]])
          BY <2>1, <4>1, <4>2, <5>1, <5>2, NeverComesBack
        <5> QED
          BY <2>4, <3>2, <5>3 DEF e, good
      <4> QED
        BY <2>1, <4>3
    <3> QED
      BY <2>7, <2>9, <3>1, <3>2
  <2>10. \A k \in Nat \ {0} : k = 1 \/ (k >= 2 /\ k # 1)
    OBVIOUS
  <2> QED
    BY <2>2, <2>8, <2>9, <2>10
<1> QED
  BY <1>1, CodecTyped, PTL
=============================================================================
