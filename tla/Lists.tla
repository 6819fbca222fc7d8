---- MODULE Lists ----
(***************************************************************************)
(* What Python's comprehensions, sorted() and sum() do with lists.         *)
(***************************************************************************)
EXTENDS Integers, Sequences, FiniteSets

\* The elements of fs at the positions idx, in their order.
Picked(fs, idx) ==
  LET Place(i) == Cardinality({j \in idx : j <= i})
  IN [k \in 1 .. Cardinality(idx) |-> fs[CHOOSE i \in idx : Place(i) = k]]

\* The elements of S in the order of ahead, a strict total order as a set of pairs.
Sorted(S, ahead) ==
  LET Place(x) == 1 + Cardinality({y \in S : <<y, x>> \in ahead})
  IN [k \in 1 .. Cardinality(S) |-> CHOOSE x \in S : Place(x) = k]

SumOf(numbers) ==
  LET sum[n \in 0 .. Len(numbers)] == IF n = 0 THEN 0 ELSE sum[n - 1] + numbers[n]
  IN sum[Len(numbers)]
====
