------------------------------- MODULE GoSort -------------------------------
(***************************************************************************)
(* What the storage path uses of Go's package sort.                        *)
(***************************************************************************)
EXTENDS Integers, Sequences, FiniteSets, SequencesExt

(* sort.Search with the predicate P, a function on 0..n-1: the index in    *)
(* 0..n that its binary search of [i, j) ends at, after at most n rounds.  *)
Search(n, P) ==
    LET loop[k \in 0 .. n] ==
            IF k = 0
              THEN [i |-> 0, j |-> n]
              ELSE LET r == loop[k - 1]
                       h == (r.i + r.j) \div 2
                   IN  IF r.i >= r.j THEN r
                       ELSE IF P[h] THEN [r EXCEPT !.j = h]
                       ELSE [r EXCEPT !.i = h + 1]
    IN  loop[n].i

(* sort.Slice of the elements of S, a finite set of ids.                   *)
Ascending(S) ==
    LET I == 1 .. Cardinality(S)
    IN  CHOOSE s \in [I -> S] : ToSet(s) = S /\ \A i, k \in I : i < k => s[i] < s[k]
=============================================================================
