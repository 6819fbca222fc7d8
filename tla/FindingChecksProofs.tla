------------------------- MODULE FindingChecksProofs -------------------------
(***************************************************************************)
(* Lemmas about FindingChecks: what its checks keep of a list of findings: *)
(* a filter, the ranking, the two deduplications and the vote of a debate. *)
(* What a loop over a list does is proved element by element.              *)
(***************************************************************************)
EXTENDS FindingChecks, FiniteSetTheorems, WellFoundedInduction, TLAPS

-----------------------------------------------------------------------------
(* Findings *)

IsList(s) == s \in Seq(Range(s))

\* What every check leaves alone in a finding.
Good(f) ==
  DOMAIN f = Fields /\ f.path \in STRING /\ f.sev \in DOMAIN SeverityRank /\ f.conf \in 0 .. 100
Findings(fs) == IsList(fs) /\ \A f \in Range(fs) : Good(f)

\* The results of a debate that hold a finding of the file and category of f.
Backs(fs, f) == \E g \in Range(fs) : g.path = f.path /\ g.cat = f.cat
Backers(p, c, t, f) == {s \in {"primary", "challenger", "tie_break"} :
                          CASE s = "primary" -> Backs(p, f)
                            [] s = "challenger" -> Backs(c, f)
                            [] OTHER -> t # <<>> /\ Backs(t[1], f)}

-----------------------------------------------------------------------------
(* Lists *)

\* A set of numbers that is not empty has a least one.
LEMMA Least ==
  ASSUME NEW S \in SUBSET Nat, S # {}
  PROVE  Min(S) \in S /\ \A y \in S : Min(S) <= y
<1> DEFINE R == {ss \in Nat \X Nat : ss[1] < ss[2]}
<1>1. IsWellFoundedOn(R, Nat)
  BY NatLessThanWellFounded, Zenon DEF OpToRel
<1>2. PICK m \in S : \A y \in S : <<y, m>> \notin R
  <2> HIDE DEF R
  <2> QED
    BY <1>1, WFMin
<1>3. \A x, y \in S : <<y, x>> \notin R => x <= y
  OBVIOUS
<1>4. \A y \in S : m <= y
  <2> HIDE DEF R
  <2> QED
    BY <1>2, <1>3
<1> QED
  BY <1>4, Zenon DEF Min

\* A set that holds 0 and is closed under +1 below N holds every number up to N.
LEMMA UpTo ==
  ASSUME NEW N \in Nat, NEW S, 0 \in S, \A n \in 0 .. (N - 1) : n \in S => n + 1 \in S
  PROVE  \A n \in 0 .. N : n \in S
<1> DEFINE Bad == {n \in 0 .. N : n \notin S}
<1> SUFFICES ASSUME Bad # {} PROVE FALSE
  OBVIOUS
<1>1. PICK m \in Bad : \A n \in Bad : m <= n
  <2>1. Bad \in SUBSET Nat
    OBVIOUS
  <2> HIDE DEF Bad
  <2> QED
    BY <2>1, Least
<1>2. m \in 0 .. N /\ m \notin S /\ m # 0
  BY <1>1
<1>3. m - 1 \in 0 .. (N - 1) /\ m - 1 \in 0 .. N /\ ~(m <= m - 1)
  BY <1>2
<1>4. m - 1 \in S
  BY <1>1, <1>3
<1>5. (m - 1) + 1 \in S /\ (m - 1) + 1 = m
  BY <1>2, <1>3, <1>4
<1> QED
  BY <1>2, <1>5

LEMMA ListFacts ==
  ASSUME NEW s, IsList(s)
  PROVE  /\ Len(s) \in Nat /\ DOMAIN s = 1 .. Len(s)
         /\ \A i \in 1 .. Len(s) : s[i] \in Range(s)
         /\ \A x \in Range(s) : \E i \in 1 .. Len(s) : s[i] = x
BY DEF IsList, Range

\* A function on an initial segment is a list.
LEMMA FunctionList ==
  ASSUME NEW n \in Nat, NEW s, DOMAIN s = 1 .. n, s = [i \in 1 .. n |-> s[i]]
  PROVE  IsList(s) /\ Len(s) = n
<1>1. \A i \in 1 .. n : s[i] \in Range(s)
  BY DEF Range
<1>2. s \in [1 .. n -> Range(s)]
  BY <1>1
<1>3. s \in Seq(Range(s))
  BY <1>2
<1> QED
  BY <1>2, <1>3 DEF IsList

LEMMA EmptyList == IsList(<<>>) /\ Range(<<>>) = {} /\ Len(<<>>) = 0
BY DEF IsList, Range

LEMMA AppendList ==
  ASSUME NEW s, IsList(s), NEW x
  PROVE  /\ IsList(Append(s, x)) /\ Len(Append(s, x)) = Len(s) + 1
         /\ Range(Append(s, x)) = Range(s) \union {x}
<1> DEFINE t == Append(s, x)
           S == Range(s) \union {x}
<1>1. t \in Seq(S) /\ Len(t) = Len(s) + 1 /\ Len(s) \in Nat /\ DOMAIN s = 1 .. Len(s)
  BY ListFacts DEF IsList
<1>2. \A i \in 1 .. (Len(s) + 1) : t[i] = IF i = Len(s) + 1 THEN x ELSE s[i]
  BY ListFacts DEF IsList
<1>3. DOMAIN t = 1 .. (Len(s) + 1)
  BY <1>1
<1> HIDE DEF t
<1>4. \A i \in 1 .. (Len(s) + 1) : t[i] \in S
  <2>1. \A i \in 1 .. (Len(s) + 1) : i # Len(s) + 1 => i \in 1 .. Len(s)
    BY <1>1
  <2> QED
    BY <1>2, <2>1, ListFacts
<1>5. Range(t) \subseteq S
  BY <1>3, <1>4 DEF Range
<1>6. S \subseteq Range(t)
  <2>1. Len(s) + 1 \in 1 .. (Len(s) + 1) /\ \A i \in 1 .. Len(s) : i \in 1 .. (Len(s) + 1) /\ i # Len(s) + 1
    BY <1>1
  <2>2. x \in Range(t)
    BY <1>2, <1>3, <2>1 DEF Range
  <2>3. Range(s) \subseteq Range(t)
    BY <1>1, <1>2, <1>3, <2>1 DEF Range
  <2> QED
    BY <2>2, <2>3
<1>7. Range(t) = S
  BY <1>5, <1>6
<1> QED
  BY <1>1, <1>7 DEF IsList, t

LEMMA ConcatList ==
  ASSUME NEW s, IsList(s), NEW u, IsList(u)
  PROVE  IsList(s \o u) /\ Range(s \o u) = Range(s) \union Range(u)
<1> DEFINE t == s \o u
           S == Range(s) \union Range(u)
<1>0. s \in Seq(S) /\ u \in Seq(S) /\ Len(s) \in Nat /\ Len(u) \in Nat
      /\ DOMAIN s = 1 .. Len(s) /\ DOMAIN u = 1 .. Len(u)
  <2>1. ASSUME NEW A, NEW B, A \subseteq B, NEW a \in Seq(A) PROVE a \in Seq(B)
    BY <2>1
  <2> QED
    BY <2>1, ListFacts DEF IsList
<1>1. t \in Seq(S) /\ Len(t) = Len(s) + Len(u) /\ DOMAIN t = 1 .. (Len(s) + Len(u))
  BY <1>0
<1>2. \A i \in 1 .. (Len(s) + Len(u)) : t[i] = IF i <= Len(s) THEN s[i] ELSE u[i - Len(s)]
  BY <1>0
<1> HIDE DEF t
<1>3. \A i \in 1 .. (Len(s) + Len(u)) : t[i] \in S
  BY <1>1
<1>4. Range(t) \subseteq S
  BY <1>1, <1>3 DEF Range
<1>5. Range(s) \subseteq Range(t)
  <2>1. \A i \in 1 .. Len(s) : i \in 1 .. (Len(s) + Len(u)) /\ i <= Len(s)
    BY <1>0
  <2> QED
    BY <1>0, <1>1, <1>2, <2>1 DEF Range
<1>6. Range(u) \subseteq Range(t)
  <2>1. ASSUME NEW i \in 1 .. Len(u) PROVE u[i] \in Range(t)
    <3>1. /\ Len(s) + i \in 1 .. (Len(s) + Len(u)) /\ ~(Len(s) + i <= Len(s))
          /\ (Len(s) + i) - Len(s) = i
      BY <1>0
    <3>2. t[Len(s) + i] = u[i]
      BY <1>2, <3>1
    <3> QED
      BY <1>1, <3>1, <3>2 DEF Range
  <2> QED
    BY <1>0, <2>1 DEF Range
<1>7. Range(t) = S
  BY <1>4, <1>5, <1>6
<1> QED
  BY <1>1, <1>7 DEF IsList, t

LEMMA ReplaceList ==
  ASSUME NEW s, IsList(s), NEW i, NEW x
  PROVE  /\ IsList([s EXCEPT ![i] = x]) /\ Len([s EXCEPT ![i] = x]) = Len(s)
         /\ Range([s EXCEPT ![i] = x]) \subseteq Range(s) \union {x}
<1> DEFINE t == [s EXCEPT ![i] = x]
<1>1. Len(s) \in Nat /\ DOMAIN s = 1 .. Len(s)
  BY ListFacts
<1>2. DOMAIN t = 1 .. Len(s) /\ t = [j \in 1 .. Len(s) |-> t[j]]
  BY <1>1
<1>3. \A j \in 1 .. Len(s) : t[j] = x \/ t[j] = s[j]
  BY <1>1
<1> HIDE DEF t
<1>4. Range(t) \subseteq Range(s) \union {x}
  BY <1>1, <1>2, <1>3 DEF Range
<1>5. IsList(t) /\ Len(t) = Len(s)
  BY <1>1, <1>2, FunctionList
<1> QED
  BY <1>4, <1>5 DEF t

\* As many places as elements, no two at the same place: every place is taken.
LEMMA Onto ==
  ASSUME NEW I, IsFiniteSet(I), NEW p \in [I -> 1 .. Cardinality(I)],
         \A i, j \in I : p[i] = p[j] => i = j
  PROVE  \A k \in 1 .. Cardinality(I) : \E i \in I : p[i] = k
<1> DEFINE n == Cardinality(I)
<1> SUFFICES ASSUME NEW k \in 1 .. n, \A i \in I : p[i] # k PROVE FALSE
  OBVIOUS
<1>0. n \in Nat
  BY FS_CardinalityType
<1> DEFINE rest == (1 .. n) \ {k}
<1>1. p \in [I -> rest]
  OBVIOUS
<1>2. IsFiniteSet(1 .. n) /\ Cardinality(1 .. n) = n
  <2> HIDE DEF n
  <2> QED
    BY <1>0, FS_Interval
<1>3. IsFiniteSet(rest) /\ Cardinality(rest) = n - 1
  BY <1>2, FS_RemoveElement
<1>4. Cardinality(rest) < Cardinality(I)
  BY <1>0, <1>3
<1> HIDE DEF rest, n
<1>5. \E i, j \in I : i # j /\ p[i] = p[j]
  BY <1>1, <1>3, <1>4, FS_PigeonHole
<1> QED
  BY <1>5

-----------------------------------------------------------------------------
(* Filters, sorting and the ranking *)

\* Counted from the least, the numbers of a finite set have the places 1, 2, 3 and so on.
LEMMA CountedPlaces ==
  ASSUME NEW idx \in SUBSET Nat, IsFiniteSet(idx)
  PROVE  /\ Cardinality(idx) \in Nat
         /\ \A i \in idx : Cardinality({j \in idx : j <= i}) \in 1 .. Cardinality(idx)
         /\ \A i, k \in idx :
              Cardinality({j \in idx : j <= i}) = Cardinality({j \in idx : j <= k}) => i = k
         /\ \A k \in 1 .. Cardinality(idx) :
              \E i \in idx : Cardinality({j \in idx : j <= i}) = k
<1> DEFINE n == Cardinality(idx)
           Upto(i) == {j \in idx : j <= i}
           p == [i \in idx |-> Cardinality(Upto(i))]
<1>1. n \in Nat /\ idx \subseteq Nat
  BY FS_CardinalityType
<1>2. ASSUME NEW i \in idx
      PROVE  i \in Upto(i) /\ IsFiniteSet(Upto(i)) /\ Cardinality(Upto(i)) \in 1 .. n
  <2>1. Upto(i) \subseteq idx /\ i \in Upto(i)
    BY <1>1
  <2>2. IsFiniteSet(Upto(i)) /\ Cardinality(Upto(i)) \in Nat /\ Cardinality(Upto(i)) <= n
    BY <1>1, <2>1, FS_Subset, FS_CardinalityType
  <2>3. Cardinality(Upto(i)) # 0
    BY <2>1, <2>2, FS_EmptySet
  <2> QED
    BY <1>1, <2>1, <2>2, <2>3
<1>3. ASSUME NEW i \in idx, NEW j \in idx, i < j
      PROVE  Cardinality(Upto(i)) # Cardinality(Upto(j))
  <2>0. \A k \in idx : k \in Nat
    BY <1>1
  <2>3. ASSUME NEW k \in idx, k <= i PROVE k <= j
    <3>1. k \in Nat /\ i \in Nat /\ j \in Nat
      BY <2>0
    <3> QED
      BY <1>3, <2>3, <3>1
  <2>4. j \in Upto(j) /\ j \notin Upto(i)
    BY <2>0, <1>3
  <2>1. Upto(i) \subseteq Upto(j) /\ j \in Upto(j) /\ j \notin Upto(i)
    BY <2>3, <2>4
  <2>2. IsFiniteSet(Upto(j))
    BY <1>2
  <2> QED
    BY <2>1, <2>2, FS_Subset
<1>4. ASSUME NEW i \in idx, NEW j \in idx, Cardinality(Upto(i)) = Cardinality(Upto(j)) PROVE i = j
  <2>1. ~(i < j) /\ ~(j < i)
    BY <1>3, <1>4
  <2> QED
    BY <1>1, <2>1
<1>5. ASSUME NEW k \in 1 .. n PROVE \E i \in idx : Cardinality(Upto(i)) = k
  <2>1. p \in [idx -> 1 .. n]
    BY <1>2
  <2>2. \A i, j \in idx : p[i] = p[j] => i = j
    BY <1>4
  <2>3. \E i \in idx : p[i] = k
    <3> HIDE DEF p
    <3> QED
      BY <2>1, <2>2, Onto
  <2> QED
    BY <2>3
<1> QED
  BY <1>1, <1>2, <1>4, <1>5

\* A filter keeps the elements at the positions it names, and nothing else.
LEMMA PickedKeeps ==
  ASSUME NEW fs, IsList(fs), NEW idx \in SUBSET (DOMAIN fs)
  PROVE  /\ IsList(Picked(fs, idx)) /\ Range(Picked(fs, idx)) = {fs[i] : i \in idx}
         /\ Len(Picked(fs, idx)) = Cardinality(idx)
<1> DEFINE n == Cardinality(idx)
           count(i) == Cardinality({j \in idx : j <= i})
           at(k) == CHOOSE i \in idx : count(i) = k
           kept == [k \in 1 .. n |-> fs[at(k)]]
<1>1. Picked(fs, idx) = kept
  BY DEF Picked
<1>2. IsFiniteSet(idx) /\ n \in Nat /\ idx \subseteq Nat
  <2>1. Len(fs) \in Nat /\ DOMAIN fs = 1 .. Len(fs)
    BY ListFacts
  <2>2. IsFiniteSet(1 .. Len(fs))
    BY <2>1, FS_Interval
  <2>3. idx \subseteq 1 .. Len(fs) /\ idx \subseteq Nat
    BY <2>1
  <2> QED
    BY <2>2, <2>3, FS_Subset, FS_CardinalityType
<1>3. /\ \A i \in idx : count(i) \in 1 .. n
      /\ \A i, k \in idx : count(i) = count(k) => i = k
      /\ \A k \in 1 .. n : \E i \in idx : count(i) = k
  BY <1>2, CountedPlaces
<1> HIDE DEF count, n
<1>4. ASSUME NEW k \in 1 .. n PROVE at(k) \in idx
  BY <1>3
<1>5. ASSUME NEW i \in idx PROVE at(count(i)) = i
  <2>1. at(count(i)) \in idx /\ count(at(count(i))) = count(i)
    OBVIOUS
  <2> HIDE DEF at
  <2> QED
    BY <1>3, <2>1
<1>6. IsList(kept) /\ Len(kept) = n
  BY <1>2, FunctionList
<1>7. Range(kept) = {fs[i] : i \in idx}
  <2>1. ASSUME NEW k \in 1 .. n PROVE kept[k] \in {fs[i] : i \in idx}
    BY <1>4
  <2>2. ASSUME NEW i \in idx PROVE fs[i] \in Range(kept)
    <3>1. kept[count(i)] = fs[i] /\ count(i) \in DOMAIN kept
      BY <1>3, <1>5
    <3> HIDE DEF kept
    <3> QED
      BY <3>1 DEF Range
  <2>3. DOMAIN kept = 1 .. n
    OBVIOUS
  <2> HIDE DEF kept
  <2> QED
    BY <2>1, <2>2, <2>3 DEF Range
<1> QED
  BY <1>1, <1>6, <1>7 DEF n

\* A strict total order on S, as a set of pairs.
Orders(R, S) ==
  /\ \A x \in S : <<x, x>> \notin R
  /\ \A x, y, z \in S : <<x, y>> \in R /\ <<y, z>> \in R => <<x, z>> \in R
  /\ \A x, y \in S : x # y => <<x, y>> \in R \/ <<y, x>> \in R

\* A sorted list holds each element of the set once, in the order.
LEMMA SortedKeeps ==
  ASSUME NEW S, IsFiniteSet(S), NEW R, Orders(R, S)
  PROVE  /\ IsList(Sorted(S, R)) /\ Range(Sorted(S, R)) = S
         /\ \A m, n \in DOMAIN Sorted(S, R) :
              m < n => <<Sorted(S, R)[m], Sorted(S, R)[n]>> \in R
<1> DEFINE N == Cardinality(S)
           Precedes(x) == {y \in S : <<y, x>> \in R}
           place(x) == 1 + Cardinality(Precedes(x))
           p == [x \in S |-> place(x)]
           nth(k) == CHOOSE x \in S : place(x) = k
           sorted == [k \in 1 .. N |-> nth(k)]
<1>0. N \in Nat
  BY FS_CardinalityType
<1>1. Sorted(S, R) = sorted
  BY DEF Sorted
<1>2. ASSUME NEW x \in S
      PROVE  /\ IsFiniteSet(Precedes(x)) /\ Cardinality(Precedes(x)) \in Nat /\ place(x) \in 1 .. N
  <2>1. Precedes(x) \subseteq S \ {x}
    BY DEF Orders
  <2>2. IsFiniteSet(S \ {x}) /\ Cardinality(S \ {x}) = N - 1
    BY FS_RemoveElement
  <2> HIDE DEF Precedes
  <2>3. IsFiniteSet(Precedes(x)) /\ Cardinality(Precedes(x)) \in Nat /\ Cardinality(Precedes(x)) <= N - 1
    BY <2>1, <2>2, FS_Subset, FS_CardinalityType
  <2> QED
    BY <1>0, <2>3
<1>3. ASSUME NEW x \in S, NEW y \in S, <<x, y>> \in R PROVE place(x) < place(y)
  <2>1. Precedes(x) \subseteq Precedes(y) /\ x \in Precedes(y) /\ x \notin Precedes(x)
    BY <1>3 DEF Orders
  <2>2. /\ IsFiniteSet(Precedes(y)) /\ Cardinality(Precedes(x)) \in Nat
        /\ Cardinality(Precedes(y)) \in Nat
    BY <1>2
  <2> HIDE DEF Precedes
  <2>3. Cardinality(Precedes(x)) <= Cardinality(Precedes(y)) /\ Cardinality(Precedes(x)) # Cardinality(Precedes(y))
    BY <2>1, <2>2, FS_Subset
  <2> QED
    BY <2>2, <2>3
<1> HIDE DEF Precedes
<1>4. \A x \in S : place(x) \in Int
  BY <1>2
<1> HIDE DEF place
<1>5. \A x, y \in S : p[x] = p[y] => x = y
  <2> SUFFICES ASSUME NEW x \in S, NEW y \in S, place(x) = place(y), x # y PROVE FALSE
    OBVIOUS
  <2>1. <<x, y>> \in R \/ <<y, x>> \in R
    BY DEF Orders
  <2> QED
    BY <1>3, <1>4, <2>1
<1>6. p \in [S -> 1 .. N]
  BY <1>2
<1>7. ASSUME NEW k \in 1 .. N PROVE nth(k) \in S /\ place(nth(k)) = k
  <2>1. \E x \in S : p[x] = k
    <3> HIDE DEF p
    <3> QED
      BY <1>5, <1>6, Onto
  <2> QED
    BY <2>1
<1>8. ASSUME NEW x \in S PROVE \E k \in 1 .. N : nth(k) = x
  <2>1. place(x) \in 1 .. N
    BY <1>2
  <2>2. nth(place(x)) \in S /\ place(nth(place(x))) = place(x)
    BY <2>1, <1>7
  <2>3. nth(place(x)) = x
    BY <1>5, <2>2
  <2> QED
    BY <2>1, <2>3
<1>9. IsList(sorted) /\ Len(sorted) = N
  <2> HIDE DEF N, nth
  <2> QED
    BY <1>0, FunctionList
<1>10. DOMAIN sorted = 1 .. N /\ \A k \in 1 .. N : sorted[k] = nth(k)
  OBVIOUS
<1> HIDE DEF sorted, nth
<1>11. Range(sorted) = S
  BY <1>7, <1>8, <1>10 DEF Range
<1>12. ASSUME NEW m \in 1 .. N, NEW n \in 1 .. N, m < n PROVE <<nth(m), nth(n)>> \in R
  <2>1. /\ nth(m) \in S /\ place(nth(m)) = m /\ nth(n) \in S /\ place(nth(n)) = n
    BY <1>7
  <2>2. nth(m) # nth(n)
    BY <1>0, <1>12, <2>1
  <2>3. <<nth(m), nth(n)>> \in R \/ <<nth(n), nth(m)>> \in R
    BY <2>1, <2>2 DEF Orders
  <2>4. CASE <<nth(n), nth(m)>> \in R
    <3>1. n < m
      BY <1>3, <2>1, <2>4
    <3> QED
      BY <1>0, <1>12, <3>1
  <2> QED
    BY <2>3, <2>4
<1> QED
  BY <1>1, <1>9, <1>10, <1>11, <1>12

LEMMA RankIsNumber == ASSUME NEW f, Good(f) PROVE Rank(f) \in Int /\ f.conf \in Int
BY DEF Good, Rank, SeverityRank

\* The ranking is a permutation.
LEMMA RankedKeeps ==
  ASSUME NEW fs, Findings(fs)
  PROVE  /\ IsList(Ranked(fs)) /\ Range(Ranked(fs)) = Range(fs) /\ Len(Ranked(fs)) = Len(fs)
<1> DEFINE n == Len(fs)
           D == DOMAIN fs
           Leads(j, i) == Ahead(fs[j], fs[i]) \/ (j < i /\ ~Ahead(fs[i], fs[j]))
           Leaders(i) == {j \in D : Leads(j, i)}
           p == [i \in D |-> RankedAt(fs, i)]
           at(k) == CHOOSE i \in D : RankedAt(fs, i) = k
           ranked == [k \in D |-> fs[at(k)]]
<1>0. IsList(fs) /\ n \in Nat /\ D = 1 .. n /\ IsFiniteSet(D) /\ Cardinality(D) = n
  <2>1. IsList(fs) /\ n \in Nat /\ D = 1 .. n
    BY ListFacts DEF Findings
  <2>2. IsFiniteSet(1 .. n) /\ Cardinality(1 .. n) = n
    <3>1. n \in Nat
      BY <2>1
    <3> HIDE DEF n
    <3> QED
      BY <3>1, FS_Interval
  <2> QED
    BY <2>1, <2>2
<1>1. Ranked(fs) = ranked
  BY DEF Ranked
<1>2. /\ \A i \in D : ~Leads(i, i)
      /\ \A i, j, k \in D : Leads(i, j) /\ Leads(j, k) => Leads(i, k)
      /\ \A i, j \in D : i # j => Leads(i, j) \/ Leads(j, i)
  <2> DEFINE r == [i \in D |-> Rank(fs[i])]
             c == [i \in D |-> fs[i].conf]
  <2>1. \A i \in D : r[i] \in Int /\ c[i] \in Int
    <3>1. \A i \in D : Good(fs[i])
      BY <1>0 DEF Findings, Range
    <3> QED
      BY <3>1, RankIsNumber
  <2>2. \A i, j \in D : Leads(i, j) <=>
          \/ r[i] > r[j] \/ (r[i] = r[j] /\ c[i] > c[j])
          \/ (i < j /\ ~(r[j] > r[i] \/ (r[j] = r[i] /\ c[j] > c[i])))
    BY DEF Ahead
  <2>3. D \subseteq Int
    BY <1>0
  <2> HIDE DEF D, r, c, Leads
  <2>4. \A i \in D : ~Leads(i, i)
    BY <2>1, <2>2, <2>3
  <2>5. \A i, j \in D : i # j => Leads(i, j) \/ Leads(j, i)
    BY <2>1, <2>2, <2>3
  <2>6. \A i, j, k \in D : Leads(i, j) /\ Leads(j, k) => Leads(i, k)
    <3> SUFFICES ASSUME NEW i \in D, NEW j \in D, NEW k \in D, Leads(i, j), Leads(j, k)
                 PROVE  Leads(i, k)
      OBVIOUS
    <3>1. /\ r[i] \in Int /\ r[j] \in Int /\ r[k] \in Int /\ c[i] \in Int /\ c[j] \in Int
          /\ c[k] \in Int /\ i \in Int /\ j \in Int /\ k \in Int
      BY <2>1, <2>3
    <3>2. \/ r[i] > r[j] \/ (r[i] = r[j] /\ c[i] > c[j])
          \/ (i < j /\ ~(r[j] > r[i] \/ (r[j] = r[i] /\ c[j] > c[i])))
      BY <2>2
    <3>3. \/ r[j] > r[k] \/ (r[j] = r[k] /\ c[j] > c[k])
          \/ (j < k /\ ~(r[k] > r[j] \/ (r[k] = r[j] /\ c[k] > c[j])))
      BY <2>2
    <3>4. \/ r[i] > r[k] \/ (r[i] = r[k] /\ c[i] > c[k])
          \/ (i < k /\ ~(r[k] > r[i] \/ (r[k] = r[i] /\ c[k] > c[i])))
      BY <3>1, <3>2, <3>3
    <3> QED
      BY <2>2, <3>4
  <2> QED
    BY <2>4, <2>5, <2>6
<1> HIDE DEF Leads
<1>3. \A i \in D : RankedAt(fs, i) = 1 + Cardinality(Leaders(i))
  BY DEF RankedAt, Leads
<1>4. ASSUME NEW i \in D
      PROVE  /\ IsFiniteSet(Leaders(i)) /\ Cardinality(Leaders(i)) \in Nat
             /\ Cardinality(Leaders(i)) <= n - 1
  <2>1. Leaders(i) \subseteq D \ {i}
    BY <1>2
  <2>2. IsFiniteSet(D \ {i}) /\ Cardinality(D \ {i}) = n - 1
    <3> HIDE DEF D
    <3> QED
      BY <1>0, FS_RemoveElement
  <2> HIDE DEF Leaders, D
  <2> QED
    BY <2>1, <2>2, FS_Subset, FS_CardinalityType
<1>5. ASSUME NEW i \in D, NEW j \in D, Leads(i, j)
      PROVE  Cardinality(Leaders(i)) # Cardinality(Leaders(j))
  <2>1. Leaders(i) \subseteq Leaders(j) /\ i \in Leaders(j) /\ i \notin Leaders(i)
    BY <1>2, <1>5
  <2>2. IsFiniteSet(Leaders(j))
    BY <1>4
  <2> HIDE DEF Leaders
  <2> QED
    BY <2>1, <2>2, FS_Subset
<1>6. \A i, j \in D : RankedAt(fs, i) = RankedAt(fs, j) => i = j
  <2> SUFFICES ASSUME NEW i \in D, NEW j \in D, RankedAt(fs, i) = RankedAt(fs, j), i # j
               PROVE  FALSE
    OBVIOUS
  <2>1. Cardinality(Leaders(i)) = Cardinality(Leaders(j))
    <3>1. Cardinality(Leaders(i)) \in Nat /\ Cardinality(Leaders(j)) \in Nat
      BY <1>4
    <3>2. 1 + Cardinality(Leaders(i)) = 1 + Cardinality(Leaders(j))
      BY <1>3
    <3> HIDE DEF Leaders
    <3> QED
      BY <3>1, <3>2
  <2>2. Leads(i, j) \/ Leads(j, i)
    BY <1>2
  <2> HIDE DEF Leaders, D
  <2> QED
    BY <1>5, <2>1, <2>2
<1>7. p \in [D -> 1 .. n]
  <2>1. ASSUME NEW i \in D PROVE RankedAt(fs, i) \in 1 .. n
    <3>1. RankedAt(fs, i) = 1 + Cardinality(Leaders(i))
      BY <1>3
    <3>2. Cardinality(Leaders(i)) \in Nat /\ Cardinality(Leaders(i)) <= n - 1
      BY <1>4
    <3> HIDE DEF Leaders
    <3> QED
      BY <1>0, <3>1, <3>2
  <2> QED
    BY <2>1
<1>8. ASSUME NEW k \in D PROVE at(k) \in D
  <2>1. \A i, j \in D : p[i] = p[j] => i = j
    BY <1>6
  <2>2. \E i \in D : p[i] = k
    <3>1. IsFiniteSet(D) /\ k \in 1 .. Cardinality(D)
      BY <1>0
    <3>2. p \in [D -> 1 .. Cardinality(D)]
      BY <1>0, <1>7
    <3> HIDE DEF p, D, n
    <3>3. \A m \in 1 .. Cardinality(D) : \E i \in D : p[i] = m
      BY <2>1, <3>1, <3>2, Onto
    <3> QED
      BY <3>1, <3>3
  <2> QED
    BY <2>2
<1>9. ASSUME NEW i \in D PROVE RankedAt(fs, i) \in D /\ at(RankedAt(fs, i)) = i
  <2>1. at(RankedAt(fs, i)) \in D /\ RankedAt(fs, at(RankedAt(fs, i))) = RankedAt(fs, i)
    BY Zenon
  <2>2. RankedAt(fs, i) \in D
    BY <1>0, <1>7
  <2> HIDE DEF at
  <2> QED
    BY <1>6, <2>1, <2>2
<1>10. IsList(ranked) /\ Len(ranked) = n
  BY <1>0, FunctionList
<1>11. Range(ranked) = Range(fs)
  <2>1. \A k \in D : ranked[k] \in Range(fs)
    <3> HIDE DEF at
    <3> QED
      BY <1>8 DEF Range
  <2>2. ASSUME NEW i \in D PROVE fs[i] \in Range(ranked)
    <3>1. ranked[RankedAt(fs, i)] = fs[i] /\ RankedAt(fs, i) \in DOMAIN ranked
      BY <1>9
    <3> HIDE DEF ranked
    <3> QED
      BY <3>1 DEF Range
  <2>3. DOMAIN ranked = D
    OBVIOUS
  <2> HIDE DEF ranked
  <2> QED
    BY <2>1, <2>2, <2>3 DEF Range
<1> QED
  BY <1>1, <1>10, <1>11

-----------------------------------------------------------------------------
(* Loops over a list, unfolded *)

\* One finding after the other is put into what was kept.
LEMMA ExactDedupeUnfolds ==
  ASSUME NEW fs, IsList(fs)
  PROVE  \E g : /\ g[0] = <<>> /\ ExactDedupe(fs) = g[Len(fs)]
               /\ \A n \in 0 .. (Len(fs) - 1) : g[n + 1] = PutExact(g[n], fs[n + 1])
<1> DEFINE N == Len(fs)
           Is(g, m) == g = [n \in 0 .. m |-> IF n = 0 THEN <<>> ELSE PutExact(g[n - 1], fs[n])]
           S == {m \in 0 .. N : \E g : Is(g, m)}
           all == CHOOSE g : Is(g, N)
<1>0. N \in Nat
  BY ListFacts
<1>1. 0 \in S
  <2> DEFINE g == [n \in 0 .. 0 |-> <<>>]
  <2>1. \E f : Is(f, 0)
    <3>1. Is(g, 0)
      OBVIOUS
    <3> HIDE DEF Is, g
    <3> QED
      BY <3>1
  <2>2. 0 \in 0 .. N
    BY <1>0
  <2> HIDE DEF Is, g
  <2> QED
    BY <2>1, <2>2
<1>2. ASSUME NEW m \in 0 .. (N - 1), m \in S PROVE m + 1 \in S
  <2>1. PICK g : Is(g, m)
    BY <1>2
  <2> DEFINE h == [n \in 0 .. (m + 1) |-> IF n = 0 THEN <<>> ELSE PutExact(g[n - 1], fs[n])]
  <2>2. \A n \in 0 .. m : h[n] = g[n]
    BY <2>1
  <2>3. \A n \in 0 .. (m + 1) : n # 0 => h[n - 1] = g[n - 1]
    <3>1. \A n \in 0 .. (m + 1) : n # 0 => n - 1 \in 0 .. m
      BY <1>0, <1>2
    <3> HIDE DEF h
    <3> QED
      BY <2>2, <3>1
  <2>4. h = [n \in 0 .. (m + 1) |-> IF n = 0 THEN <<>> ELSE PutExact(h[n - 1], fs[n])]
    BY <2>3
  <2>5. m + 1 \in 0 .. N
    BY <1>0, <1>2
  <2> QED
    BY <2>4, <2>5
<1>3. \E g : Is(g, N)
  <2>1. \A n \in 0 .. N : n \in S
    <3> HIDE DEF S, N
    <3> QED
      BY <1>0, <1>1, <1>2, UpTo
  <2>2. N \in 0 .. N
    BY <1>0
  <2>3. N \in S
    <3> HIDE DEF S, N
    <3> QED
      BY <2>1, <2>2
  <2> HIDE DEF Is, N
  <2> QED
    BY <2>3
<1>4. Is(all, N)
  BY <1>3
<1>5. ExactDedupe(fs) = all[N]
  BY DEF ExactDedupe
<1> HIDE DEF N, all
<1>6. \A n \in 0 .. N : all[n] = IF n = 0 THEN <<>> ELSE PutExact(all[n - 1], fs[n])
  BY <1>4
<1>7. all[0] = <<>>
  <2>1. 0 \in 0 .. N
    BY <1>0
  <2> QED
    BY <2>1, <1>6, Zenon
<1>8. ASSUME NEW n \in 0 .. (N - 1) PROVE all[n + 1] = PutExact(all[n], fs[n + 1])
  <2>1. n + 1 \in 0 .. N /\ n + 1 # 0 /\ (n + 1) - 1 = n
    BY <1>0
  <2> QED
    BY <2>1, <1>6
<1> QED
  BY <1>5, <1>7, <1>8 DEF N

\* The same for near duplicates.
LEMMA NearDedupeUnfolds ==
  ASSUME NEW fs, IsList(fs), NEW w
  PROVE  \E g : /\ g[0] = <<>> /\ NearDedupe(fs, w) = g[Len(fs)]
               /\ \A n \in 0 .. (Len(fs) - 1) : g[n + 1] = PutNear(g[n], fs[n + 1], w)
<1> DEFINE N == Len(fs)
           Is(g, m) == g = [n \in 0 .. m |-> IF n = 0 THEN <<>> ELSE PutNear(g[n - 1], fs[n], w)]
           S == {m \in 0 .. N : \E g : Is(g, m)}
           all == CHOOSE g : Is(g, N)
<1>0. N \in Nat
  BY ListFacts
<1>1. 0 \in S
  <2> DEFINE g == [n \in 0 .. 0 |-> <<>>]
  <2>1. \E f : Is(f, 0)
    <3>1. Is(g, 0)
      OBVIOUS
    <3> HIDE DEF Is, g
    <3> QED
      BY <3>1
  <2>2. 0 \in 0 .. N
    BY <1>0
  <2> HIDE DEF Is, g
  <2> QED
    BY <2>1, <2>2
<1>2. ASSUME NEW m \in 0 .. (N - 1), m \in S PROVE m + 1 \in S
  <2>1. PICK g : Is(g, m)
    BY <1>2
  <2> DEFINE h == [n \in 0 .. (m + 1) |-> IF n = 0 THEN <<>> ELSE PutNear(g[n - 1], fs[n], w)]
  <2>2. \A n \in 0 .. m : h[n] = g[n]
    BY <2>1
  <2>3. \A n \in 0 .. (m + 1) : n # 0 => h[n - 1] = g[n - 1]
    <3>1. \A n \in 0 .. (m + 1) : n # 0 => n - 1 \in 0 .. m
      BY <1>0, <1>2
    <3> HIDE DEF h
    <3> QED
      BY <2>2, <3>1
  <2>4. h = [n \in 0 .. (m + 1) |-> IF n = 0 THEN <<>> ELSE PutNear(h[n - 1], fs[n], w)]
    BY <2>3
  <2>5. m + 1 \in 0 .. N
    BY <1>0, <1>2
  <2> QED
    BY <2>4, <2>5
<1>3. \E g : Is(g, N)
  <2>1. \A n \in 0 .. N : n \in S
    <3> HIDE DEF S, N
    <3> QED
      BY <1>0, <1>1, <1>2, UpTo
  <2>2. N \in 0 .. N
    BY <1>0
  <2>3. N \in S
    <3> HIDE DEF S, N
    <3> QED
      BY <2>1, <2>2
  <2> HIDE DEF Is, N
  <2> QED
    BY <2>3
<1>4. Is(all, N)
  BY <1>3
<1>5. NearDedupe(fs, w) = all[N]
  BY DEF NearDedupe
<1> HIDE DEF N, all
<1>6. \A n \in 0 .. N : all[n] = IF n = 0 THEN <<>> ELSE PutNear(all[n - 1], fs[n], w)
  BY <1>4
<1>7. all[0] = <<>>
  <2>1. 0 \in 0 .. N
    BY <1>0
  <2> QED
    BY <2>1, <1>6, Zenon
<1>8. ASSUME NEW n \in 0 .. (N - 1) PROVE all[n + 1] = PutNear(all[n], fs[n + 1], w)
  <2>1. n + 1 \in 0 .. N /\ n + 1 # 0 /\ (n + 1) - 1 = n
    BY <1>0
  <2> QED
    BY <2>1, <1>6
<1> QED
  BY <1>5, <1>7, <1>8 DEF N

\* One vote after the other joins the clusters.
LEMMA ClustersUnfold ==
  ASSUME NEW vs, IsList(vs)
  PROVE  \E g : /\ g[0] = <<>> /\ Clusters(vs) = g[Len(vs)]
               /\ \A n \in 0 .. (Len(vs) - 1) : g[n + 1] = Join(g[n], vs[n + 1])
<1> DEFINE N == Len(vs)
           Is(g, m) == g = [n \in 0 .. m |-> IF n = 0 THEN <<>> ELSE Join(g[n - 1], vs[n])]
           S == {m \in 0 .. N : \E g : Is(g, m)}
           all == CHOOSE g : Is(g, N)
<1>0. N \in Nat
  BY ListFacts
<1>1. 0 \in S
  <2> DEFINE g == [n \in 0 .. 0 |-> <<>>]
  <2>1. \E f : Is(f, 0)
    <3>1. Is(g, 0)
      OBVIOUS
    <3> HIDE DEF Is, g
    <3> QED
      BY <3>1
  <2>2. 0 \in 0 .. N
    BY <1>0
  <2> HIDE DEF Is, g
  <2> QED
    BY <2>1, <2>2
<1>2. ASSUME NEW m \in 0 .. (N - 1), m \in S PROVE m + 1 \in S
  <2>1. PICK g : Is(g, m)
    BY <1>2
  <2> DEFINE h == [n \in 0 .. (m + 1) |-> IF n = 0 THEN <<>> ELSE Join(g[n - 1], vs[n])]
  <2>2. \A n \in 0 .. m : h[n] = g[n]
    BY <2>1
  <2>3. \A n \in 0 .. (m + 1) : n # 0 => h[n - 1] = g[n - 1]
    <3>1. \A n \in 0 .. (m + 1) : n # 0 => n - 1 \in 0 .. m
      BY <1>0, <1>2
    <3> HIDE DEF h
    <3> QED
      BY <2>2, <3>1
  <2>4. h = [n \in 0 .. (m + 1) |-> IF n = 0 THEN <<>> ELSE Join(h[n - 1], vs[n])]
    BY <2>3
  <2>5. m + 1 \in 0 .. N
    BY <1>0, <1>2
  <2> QED
    BY <2>4, <2>5
<1>3. \E g : Is(g, N)
  <2>1. \A n \in 0 .. N : n \in S
    <3> HIDE DEF S, N
    <3> QED
      BY <1>0, <1>1, <1>2, UpTo
  <2>2. N \in 0 .. N
    BY <1>0
  <2>3. N \in S
    <3> HIDE DEF S, N
    <3> QED
      BY <2>1, <2>2
  <2> HIDE DEF Is, N
  <2> QED
    BY <2>3
<1>4. Is(all, N)
  BY <1>3
<1>5. Clusters(vs) = all[N]
  BY DEF Clusters
<1> HIDE DEF N, all
<1>6. \A n \in 0 .. N : all[n] = IF n = 0 THEN <<>> ELSE Join(all[n - 1], vs[n])
  BY <1>4
<1>7. all[0] = <<>>
  <2>1. 0 \in 0 .. N
    BY <1>0
  <2> QED
    BY <2>1, <1>6, Zenon
<1>8. ASSUME NEW n \in 0 .. (N - 1) PROVE all[n + 1] = Join(all[n], vs[n + 1])
  <2>1. n + 1 \in 0 .. N /\ n + 1 # 0 /\ (n + 1) - 1 = n
    BY <1>0
  <2> QED
    BY <2>1, <1>6
<1> QED
  BY <1>5, <1>7, <1>8 DEF N

\* The winners of one cluster after the other.
LEMMA WinnersUnfold ==
  ASSUME NEW cs, IsList(cs), NEW pv
  PROVE  \E g : /\ g[0] = <<>> /\ Winners(cs, pv) = g[Len(cs)]
               /\ \A n \in 0 .. (Len(cs) - 1) : g[n + 1] = g[n] \o ClusterWinner(cs[n + 1], pv)
<1> DEFINE N == Len(cs)
           Is(g, m) == g = [n \in 0 .. m |-> IF n = 0 THEN <<>> ELSE g[n - 1] \o ClusterWinner(cs[n], pv)]
           S == {m \in 0 .. N : \E g : Is(g, m)}
           all == CHOOSE g : Is(g, N)
<1>0. N \in Nat
  BY ListFacts
<1>1. 0 \in S
  <2> DEFINE g == [n \in 0 .. 0 |-> <<>>]
  <2>1. \E f : Is(f, 0)
    <3>1. Is(g, 0)
      OBVIOUS
    <3> HIDE DEF Is, g
    <3> QED
      BY <3>1
  <2>2. 0 \in 0 .. N
    BY <1>0
  <2> HIDE DEF Is, g
  <2> QED
    BY <2>1, <2>2
<1>2. ASSUME NEW m \in 0 .. (N - 1), m \in S PROVE m + 1 \in S
  <2>1. PICK g : Is(g, m)
    BY <1>2
  <2> DEFINE h == [n \in 0 .. (m + 1) |-> IF n = 0 THEN <<>> ELSE g[n - 1] \o ClusterWinner(cs[n], pv)]
  <2>2. \A n \in 0 .. m : h[n] = g[n]
    BY <2>1
  <2>3. \A n \in 0 .. (m + 1) : n # 0 => h[n - 1] = g[n - 1]
    <3>1. \A n \in 0 .. (m + 1) : n # 0 => n - 1 \in 0 .. m
      BY <1>0, <1>2
    <3> HIDE DEF h
    <3> QED
      BY <2>2, <3>1
  <2>4. h = [n \in 0 .. (m + 1) |-> IF n = 0 THEN <<>> ELSE h[n - 1] \o ClusterWinner(cs[n], pv)]
    BY <2>3
  <2>5. m + 1 \in 0 .. N
    BY <1>0, <1>2
  <2> QED
    BY <2>4, <2>5
<1>3. \E g : Is(g, N)
  <2>1. \A n \in 0 .. N : n \in S
    <3> HIDE DEF S, N
    <3> QED
      BY <1>0, <1>1, <1>2, UpTo
  <2>2. N \in 0 .. N
    BY <1>0
  <2>3. N \in S
    <3> HIDE DEF S, N
    <3> QED
      BY <2>1, <2>2
  <2> HIDE DEF Is, N
  <2> QED
    BY <2>3
<1>4. Is(all, N)
  BY <1>3
<1>5. Winners(cs, pv) = all[N]
  BY DEF Winners
<1> HIDE DEF N, all
<1>6. \A n \in 0 .. N : all[n] = IF n = 0 THEN <<>> ELSE all[n - 1] \o ClusterWinner(cs[n], pv)
  BY <1>4
<1>7. all[0] = <<>>
  <2>1. 0 \in 0 .. N
    BY <1>0
  <2> QED
    BY <2>1, <1>6, Zenon
<1>8. ASSUME NEW n \in 0 .. (N - 1) PROVE all[n + 1] = all[n] \o ClusterWinner(cs[n + 1], pv)
  <2>1. n + 1 \in 0 .. N /\ n + 1 # 0 /\ (n + 1) - 1 = n
    BY <1>0
  <2> QED
    BY <2>1, <1>6
<1> QED
  BY <1>5, <1>7, <1>8 DEF N


-----------------------------------------------------------------------------
(* What the checks keep *)

\* Validation keeps the valid findings.
LEMMA ValidatedKeeps ==
  ASSUME NEW fs, IsList(fs), NEW files, NEW lines
  PROVE  /\ IsList(Validated(fs, files, lines))
         /\ Range(Validated(fs, files, lines)) =
              {f \in Range(fs) : DropReason(f, files, lines) = "valid"}
<1> DEFINE idx == {i \in DOMAIN fs : DropReason(fs[i], files, lines) = "valid"}
<1>1. Validated(fs, files, lines) = Picked(fs, idx)
  BY DEF Validated
<1>2. {fs[i] : i \in idx} = {f \in Range(fs) : DropReason(f, files, lines) = "valid"}
  BY DEF Range
<1>3. idx \in SUBSET (DOMAIN fs)
  OBVIOUS
<1> HIDE DEF idx
<1> QED
  BY <1>1, <1>2, <1>3, PickedKeeps

\* The policy keeps the findings that meet it.
LEMMA PolicyKeeps ==
  ASSUME NEW fs, IsList(fs), NEW th, NEW ts, NEW facts, NEW vm
  PROVE  /\ IsList(ApplyPolicy(fs, th, ts, facts, vm))
         /\ Range(ApplyPolicy(fs, th, ts, facts, vm)) =
              {f \in Range(fs) : MeetsPolicy(f, th, ts, facts, vm)}
<1> DEFINE idx == {i \in DOMAIN fs : MeetsPolicy(fs[i], th, ts, facts, vm)}
<1>1. ApplyPolicy(fs, th, ts, facts, vm) = Picked(fs, idx)
  BY DEF ApplyPolicy
<1>2. {fs[i] : i \in idx} = {f \in Range(fs) : MeetsPolicy(f, th, ts, facts, vm)}
  BY DEF Range
<1>3. idx \in SUBSET (DOMAIN fs)
  OBVIOUS
<1> HIDE DEF idx
<1> QED
  BY <1>1, <1>2, <1>3, PickedKeeps

\* The configuration's filters keep what is wanted, and only the cap drops more.
LEMMA ConfigFiltersKeep ==
  ASSUME NEW fs, Findings(fs), NEW c, c.cap \in Nat
  PROVE  /\ IsList(ConfigFilters(fs, c)) /\ Len(ConfigFilters(fs, c)) <= c.cap
         /\ Range(ConfigFilters(fs, c)) \subseteq Range(fs)
         /\ Len(ConfigFilters(fs, c)) < c.cap =>
              \A f \in Range(fs) : Wanted(f, c) => f \in Range(ConfigFilters(fs, c))
<1> DEFINE idx == {i \in DOMAIN fs : Wanted(fs[i], c)}
           kept == Picked(fs, idx)
           ranked == Ranked(kept)
           cut == SubSeq(ranked, 1, c.cap)
<1>1. IsList(kept) /\ Range(kept) = {fs[i] : i \in idx} /\ Len(kept) \in Nat
  <2>1. idx \in SUBSET (DOMAIN fs)
    OBVIOUS
  <2> HIDE DEF idx
  <2> QED
    BY <2>1, PickedKeeps, ListFacts DEF Findings
<1>2. Range(kept) = {f \in Range(fs) : Wanted(f, c)}
  <2> HIDE DEF kept
  <2> QED
    BY <1>1 DEF Range
<1>3. ConfigFilters(fs, c) = IF Len(kept) > c.cap THEN cut ELSE kept
  BY DEF ConfigFilters
<1>4. Findings(kept)
  BY <1>1, <1>2 DEF Findings
<1> HIDE DEF kept, idx
<1>5. CASE Len(kept) > c.cap
  <2>1. IsList(ranked) /\ Range(ranked) = Range(kept) /\ Len(ranked) = Len(kept)
    BY <1>4, RankedKeeps
  <2>2. ranked \in Seq(Range(kept)) /\ c.cap <= Len(ranked)
    BY <1>1, <1>5, <2>1 DEF IsList
  <2> HIDE DEF ranked
  <2>3. DOMAIN cut = 1 .. c.cap /\ cut = [i \in 1 .. c.cap |-> cut[i]]
        /\ \A i \in 1 .. c.cap : cut[i] = ranked[i]
    BY <2>2
  <2>4. \A i \in 1 .. c.cap : ranked[i] \in Range(kept)
    <3>1. Len(ranked) \in Nat /\ \A i \in 1 .. Len(ranked) : ranked[i] \in Range(kept)
      BY <2>2
    <3>2. \A i \in 1 .. c.cap : i \in 1 .. Len(ranked)
      BY <2>2, <3>1
    <3> QED
      BY <3>1, <3>2
  <2> HIDE DEF cut
  <2>5. IsList(cut) /\ Len(cut) = c.cap
    BY <2>3, FunctionList
  <2>6. Range(cut) \subseteq Range(kept)
    BY <2>3, <2>4 DEF Range
  <2>7. ConfigFilters(fs, c) = cut /\ ~(c.cap < c.cap)
    BY <1>3, <1>5
  <2> QED
    BY <1>2, <2>5, <2>6, <2>7
<1>6. CASE ~(Len(kept) > c.cap)
  <2>1. ConfigFilters(fs, c) = kept
    BY <1>3, <1>6
  <2>2. Len(kept) <= c.cap
    BY <1>1, <1>6
  <2> QED
    BY <1>1, <1>2, <2>1, <2>2
<1> QED
  BY <1>5, <1>6

\* Repair moves a finding within its file and may replace its quoted text, no more.
LEMMA RepairKeeps ==
  ASSUME NEW fs, Findings(fs), NEW files, NEW lines, NEW w
  PROVE  Findings(RepairAll(fs, files, lines, w))
<1> DEFINE out_ == RepairAll(fs, files, lines, w)
<1>1. \A f : Good(f) => Good(RepairFinding(f, files, lines, w))
  BY DEF Good, RepairFinding, Fields
<1>2. Len(fs) \in Nat /\ DOMAIN fs = 1 .. Len(fs) /\ \A i \in 1 .. Len(fs) : Good(fs[i])
  BY ListFacts DEF Findings
<1>3. DOMAIN out_ = 1 .. Len(fs) /\ out_ = [i \in 1 .. Len(fs) |-> out_[i]]
      /\ \A i \in 1 .. Len(fs) : Good(out_[i])
  BY <1>1, <1>2 DEF RepairAll
<1> HIDE DEF out_
<1>4. IsList(out_)
  BY <1>2, <1>3, FunctionList
<1> QED
  BY <1>3, <1>4 DEF Findings, Range, out_

\* Anchoring sets the side a finding is on, no more.
LEMMA AnchorKeeps ==
  ASSUME NEW fs, Findings(fs), NEW diff
  PROVE  Findings(AttachAnchors(fs, diff))
<1> DEFINE out_ == AttachAnchors(fs, diff)
<1>1. \A f : Good(f) => Good(AttachAnchor(f, diff))
  BY DEF Good, AttachAnchor, Fields
<1>2. Len(fs) \in Nat /\ DOMAIN fs = 1 .. Len(fs) /\ \A i \in 1 .. Len(fs) : Good(fs[i])
  BY ListFacts DEF Findings
<1>3. DOMAIN out_ = 1 .. Len(fs) /\ out_ = [i \in 1 .. Len(fs) |-> out_[i]]
      /\ \A i \in 1 .. Len(fs) : Good(out_[i])
  BY <1>1, <1>2 DEF AttachAnchors
<1> HIDE DEF out_
<1>4. IsList(out_)
  BY <1>2, <1>3, FunctionList
<1> QED
  BY <1>3, <1>4 DEF Findings, Range, out_

\* A finding that is put into a list is added, replaces one, or is left out.
LEMMA FoldKeeps ==
  ASSUME NEW kept, IsList(kept), NEW f, NEW dup, NEW beaten
  PROVE  IsList(Fold(kept, f, dup, beaten)) /\ Range(Fold(kept, f, dup, beaten)) \subseteq Range(kept) \union {f}
<1>1. CASE dup = {}
  BY <1>1, AppendList DEF Fold
<1>2. CASE dup # {} /\ Min(dup) \in beaten
  <2>1. Fold(kept, f, dup, beaten) = [kept EXCEPT ![Min(dup)] = f]
    BY <1>2 DEF Fold
  <2>2. /\ IsList([kept EXCEPT ![Min(dup)] = f])
        /\ Range([kept EXCEPT ![Min(dup)] = f]) \subseteq Range(kept) \union {f}
    BY ReplaceList
  <2> QED
    BY <2>1, <2>2, Zenon
<1>3. CASE dup # {} /\ Min(dup) \notin beaten
  BY <1>3 DEF Fold
<1> QED
  BY <1>1, <1>2, <1>3

LEMMA ExactDedupeKeeps ==
  ASSUME NEW fs, IsList(fs)
  PROVE  IsList(ExactDedupe(fs)) /\ Range(ExactDedupe(fs)) \subseteq Range(fs)
<1>1. PICK g : /\ g[0] = <<>> /\ ExactDedupe(fs) = g[Len(fs)]
               /\ \A n \in 0 .. (Len(fs) - 1) : g[n + 1] = PutExact(g[n], fs[n + 1])
  BY ExactDedupeUnfolds
<1> DEFINE S == {n \in 0 .. Len(fs) : IsList(g[n]) /\ Range(g[n]) \subseteq Range(fs)}
<1>2. Len(fs) \in Nat /\ \A i \in 1 .. Len(fs) : fs[i] \in Range(fs)
  BY ListFacts
<1>3. 0 \in S
  BY <1>1, <1>2, EmptyList
<1>4. ASSUME NEW n \in 0 .. (Len(fs) - 1), n \in S PROVE n + 1 \in S
  <2>1. n + 1 \in 0 .. Len(fs) /\ n + 1 \in 1 .. Len(fs)
    BY <1>2
  <2>2. IsList(PutExact(g[n], fs[n + 1]))
        /\ Range(PutExact(g[n], fs[n + 1])) \subseteq Range(g[n]) \union {fs[n + 1]}
    BY <1>4, FoldKeeps DEF PutExact
  <2> QED
    BY <1>1, <1>2, <1>4, <2>1, <2>2
<1>5. \A n \in 0 .. Len(fs) : n \in S
  <2> HIDE DEF S
  <2> QED
    BY <1>2, <1>3, <1>4, UpTo
<1> QED
  BY <1>1, <1>2, <1>5

LEMMA NearDedupeKeeps ==
  ASSUME NEW fs, IsList(fs), NEW w
  PROVE  IsList(NearDedupe(fs, w)) /\ Range(NearDedupe(fs, w)) \subseteq Range(fs)
<1>1. PICK g : /\ g[0] = <<>> /\ NearDedupe(fs, w) = g[Len(fs)]
               /\ \A n \in 0 .. (Len(fs) - 1) : g[n + 1] = PutNear(g[n], fs[n + 1], w)
  BY NearDedupeUnfolds
<1> DEFINE S == {n \in 0 .. Len(fs) : IsList(g[n]) /\ Range(g[n]) \subseteq Range(fs)}
<1>2. Len(fs) \in Nat /\ \A i \in 1 .. Len(fs) : fs[i] \in Range(fs)
  BY ListFacts
<1>3. 0 \in S
  BY <1>1, <1>2, EmptyList
<1>4. ASSUME NEW n \in 0 .. (Len(fs) - 1), n \in S PROVE n + 1 \in S
  <2>1. n + 1 \in 0 .. Len(fs) /\ n + 1 \in 1 .. Len(fs)
    BY <1>2
  <2>2. IsList(PutNear(g[n], fs[n + 1], w))
        /\ Range(PutNear(g[n], fs[n + 1], w)) \subseteq Range(g[n]) \union {fs[n + 1]}
    BY <1>4, FoldKeeps DEF PutNear
  <2> QED
    BY <1>1, <1>2, <1>4, <2>1, <2>2
<1>5. \A n \in 0 .. Len(fs) : n \in S
  <2> HIDE DEF S
  <2> QED
    BY <1>2, <1>3, <1>4, UpTo
<1> QED
  BY <1>1, <1>2, <1>5

\* Deduplication makes up no finding.
LEMMA DedupeKeeps ==
  ASSUME NEW fs, Findings(fs)
  PROVE  Findings(Dedupe(fs)) /\ Range(Dedupe(fs)) \subseteq Range(fs)
<1> DEFINE near == NearDedupe(ExactDedupe(fs), 2)
<1>1. IsList(near) /\ Range(near) \subseteq Range(fs)
  BY ExactDedupeKeeps, NearDedupeKeeps DEF Findings
<1> HIDE DEF near
<1>2. Findings(near)
  BY <1>1 DEF Findings
<1>3. Dedupe(fs) = Ranked(near)
  BY DEF Dedupe, near
<1> QED
  BY <1>1, <1>2, <1>3, RankedKeeps DEF Findings

\* Every finding of fs has a finding of gs of its file, category and message.
Covers(gs, fs) == \A f \in Range(fs) : \E g \in Range(gs) : NearKey(g) = NearKey(f)

\* A fold replaces an entry only by one of its file, category and message.
LEMMA FoldCovers ==
  ASSUME NEW kept, IsList(kept), NEW f, NEW dup \in SUBSET (DOMAIN kept), NEW beaten,
         \A i \in dup : NearKey(kept[i]) = NearKey(f)
  PROVE  /\ Covers(Fold(kept, f, dup, beaten), kept)
         /\ \E g \in Range(Fold(kept, f, dup, beaten)) : NearKey(g) = NearKey(f)
<1>1. CASE dup = {}
  <2>1. Range(Fold(kept, f, dup, beaten)) = Range(kept) \union {f}
    BY <1>1, AppendList DEF Fold
  <2> QED
    BY <2>1 DEF Covers
<1>2. CASE dup # {}
  <2> DEFINE m == Min(dup)
             t == [kept EXCEPT ![m] = f]
  <2>1. m \in DOMAIN kept /\ NearKey(kept[m]) = NearKey(f)
    <3>1. dup \in SUBSET Nat
      BY ListFacts
    <3>2. m \in dup
      BY <1>2, <3>1, Least
    <3> QED
      BY <3>2
  <2> HIDE DEF m
  <2>2. DOMAIN t = DOMAIN kept /\ t[m] = f /\ \A i \in DOMAIN kept : i # m => t[i] = kept[i]
    BY <2>1
  <2>3. Fold(kept, f, dup, beaten) = t \/ Fold(kept, f, dup, beaten) = kept
    BY <1>2 DEF Fold, m
  <2>4. CASE Fold(kept, f, dup, beaten) = kept
    BY <2>1, <2>4 DEF Covers, Range
  <2>5. CASE Fold(kept, f, dup, beaten) = t
    <3> HIDE DEF t
    <3>1. \A i \in DOMAIN kept : NearKey(t[i]) = NearKey(kept[i])
      BY <2>1, <2>2
    <3>2. Covers(t, kept) /\ f \in Range(t)
      BY <2>1, <2>2, <3>1 DEF Covers, Range
    <3> QED
      BY <2>5, <3>2
  <2> QED
    BY <2>3, <2>4, <2>5
<1> QED
  BY <1>1, <1>2

LEMMA ExactDedupeCovers ==
  ASSUME NEW fs, IsList(fs)
  PROVE  Covers(ExactDedupe(fs), fs)
<1>1. PICK g : /\ g[0] = <<>> /\ ExactDedupe(fs) = g[Len(fs)]
               /\ \A n \in 0 .. (Len(fs) - 1) : g[n + 1] = PutExact(g[n], fs[n + 1])
  BY ExactDedupeUnfolds
<1> DEFINE Has(gs, f) == \E h \in Range(gs) : NearKey(h) = NearKey(f)
           S == {n \in 0 .. Len(fs) : IsList(g[n]) /\ \A i \in 1 .. n : Has(g[n], fs[i])}
<1>2. Len(fs) \in Nat /\ DOMAIN fs = 1 .. Len(fs)
  BY ListFacts
<1>3. 0 \in S
  BY <1>1, <1>2, EmptyList
<1>4. ASSUME NEW n \in 0 .. (Len(fs) - 1), n \in S PROVE n + 1 \in S
  <2>1. n + 1 \in 0 .. Len(fs) /\ \A i \in 1 .. (n + 1) : i \in 1 .. n \/ i = n + 1
    BY <1>2
  <2> DEFINE f == fs[n + 1]
             dup == {i \in DOMAIN g[n] : DedupeKey(g[n][i]) = DedupeKey(f)}
             beaten == {i \in DOMAIN g[n] : Rank(f) > Rank(g[n][i]) \/ f.conf > g[n][i].conf}
  <2>2. g[n + 1] = Fold(g[n], f, dup, beaten)
    BY <1>1 DEF PutExact
  <2>3. \A i \in dup : NearKey(g[n][i]) = NearKey(f)
    BY DEF DedupeKey, NearKey
  <2>4. dup \in SUBSET (DOMAIN g[n])
    OBVIOUS
  <2> HIDE DEF dup, beaten, f
  <2>5. IsList(g[n + 1]) /\ Covers(g[n + 1], g[n]) /\ Has(g[n + 1], f)
    BY <1>4, <2>2, <2>3, <2>4, FoldKeeps, FoldCovers
  <2>6. \A i \in 1 .. n : Has(g[n + 1], fs[i])
    BY <1>4, <2>5 DEF Covers
  <2> HIDE DEF Has
  <2> QED
    BY <2>1, <2>5, <2>6 DEF f
<1>5. \A n \in 0 .. Len(fs) : n \in S
  <2> HIDE DEF S
  <2> QED
    BY <1>2, <1>3, <1>4, UpTo
<1>6. Len(fs) \in S
  <2>1. Len(fs) \in 0 .. Len(fs)
    BY <1>2
  <2> HIDE DEF S
  <2> QED
    BY <1>5, <2>1
<1> QED
  BY <1>1, <1>2, <1>6 DEF Covers, Range

LEMMA NearDedupeCovers ==
  ASSUME NEW fs, IsList(fs), NEW w
  PROVE  Covers(NearDedupe(fs, w), fs)
<1>1. PICK g : /\ g[0] = <<>> /\ NearDedupe(fs, w) = g[Len(fs)]
               /\ \A n \in 0 .. (Len(fs) - 1) : g[n + 1] = PutNear(g[n], fs[n + 1], w)
  BY NearDedupeUnfolds
<1> DEFINE Has(gs, f) == \E h \in Range(gs) : NearKey(h) = NearKey(f)
           S == {n \in 0 .. Len(fs) : IsList(g[n]) /\ \A i \in 1 .. n : Has(g[n], fs[i])}
<1>2. Len(fs) \in Nat /\ DOMAIN fs = 1 .. Len(fs)
  BY ListFacts
<1>3. 0 \in S
  BY <1>1, <1>2, EmptyList
<1>4. ASSUME NEW n \in 0 .. (Len(fs) - 1), n \in S PROVE n + 1 \in S
  <2>1. n + 1 \in 0 .. Len(fs) /\ \A i \in 1 .. (n + 1) : i \in 1 .. n \/ i = n + 1
    BY <1>2
  <2> DEFINE f == fs[n + 1]
             dup == {i \in DOMAIN g[n] : NearKey(g[n][i]) = NearKey(f) /\ Apart(g[n][i], f) <= w}
             beaten == {i \in DOMAIN g[n] : Ahead(f, g[n][i])}
  <2>2. g[n + 1] = Fold(g[n], f, dup, beaten)
    BY <1>1 DEF PutNear
  <2>3. dup \in SUBSET (DOMAIN g[n]) /\ \A i \in dup : NearKey(g[n][i]) = NearKey(f)
    OBVIOUS
  <2> HIDE DEF dup, beaten, f
  <2>4. IsList(g[n + 1]) /\ Covers(g[n + 1], g[n]) /\ Has(g[n + 1], f)
    BY <1>4, <2>2, <2>3, FoldKeeps, FoldCovers
  <2>5. \A i \in 1 .. n : Has(g[n + 1], fs[i])
    BY <1>4, <2>4 DEF Covers
  <2> HIDE DEF Has
  <2> QED
    BY <2>1, <2>4, <2>5 DEF f
<1>5. \A n \in 0 .. Len(fs) : n \in S
  <2> HIDE DEF S
  <2> QED
    BY <1>2, <1>3, <1>4, UpTo
<1>6. Len(fs) \in S
  <2>1. Len(fs) \in 0 .. Len(fs)
    BY <1>2
  <2> HIDE DEF S
  <2> QED
    BY <1>5, <2>1
<1> QED
  BY <1>1, <1>2, <1>6 DEF Covers, Range

\* Deduplication drops a finding only beside a near duplicate.
LEMMA DedupeCovers ==
  ASSUME NEW fs, Findings(fs)
  PROVE  Covers(Dedupe(fs), fs)
<1> DEFINE exact == ExactDedupe(fs)
           near == NearDedupe(exact, 2)
<1>1. IsList(exact) /\ Range(exact) \subseteq Range(fs) /\ Covers(exact, fs)
  BY ExactDedupeKeeps, ExactDedupeCovers DEF Findings
<1> HIDE DEF exact
<1>2. IsList(near) /\ Range(near) \subseteq Range(exact) /\ Covers(near, exact)
  BY <1>1, NearDedupeKeeps, NearDedupeCovers
<1>3. Dedupe(fs) = Ranked(near)
  BY DEF Dedupe, near, exact
<1> HIDE DEF near
<1>4. Findings(near)
  BY <1>1, <1>2 DEF Findings
<1>5. Covers(near, fs)
  BY <1>1, <1>2 DEF Covers
<1>6. Range(Dedupe(fs)) = Range(near)
  BY <1>3, <1>4, RankedKeeps
<1> QED
  BY <1>5, <1>6 DEF Covers

-----------------------------------------------------------------------------
(* The debate *)

\* A vote of one of the three stages.
Cast(p, c, t) ==
  {[by |-> "primary", f |-> f] : f \in Range(p)} \union {[by |-> "challenger", f |-> f] : f \in Range(c)}
    \union (IF t = <<>> THEN {} ELSE {[by |-> "tie_break", f |-> f] : f \in Range(t[1])})

\* The members of a cluster are votes about one file and category.
OneIssue(cluster, cast) ==
  /\ IsList(cluster) /\ Range(cluster) \subseteq cast
  /\ \A u, v \in Range(cluster) : u.f.path = v.f.path /\ u.f.cat = v.f.cat

LEMMA VotesOf ==
  ASSUME NEW fs, IsList(fs), NEW by
  PROVE  IsList(Votes(fs, by)) /\ Range(Votes(fs, by)) = {[by |-> by, f |-> f] : f \in Range(fs)}
<1> DEFINE vs == Votes(fs, by)
<1>1. Len(fs) \in Nat /\ DOMAIN fs = 1 .. Len(fs)
  BY ListFacts
<1>2. DOMAIN vs = 1 .. Len(fs) /\ vs = [i \in 1 .. Len(fs) |-> vs[i]]
      /\ \A i \in 1 .. Len(fs) : vs[i] = [by |-> by, f |-> fs[i]]
  BY <1>1 DEF Votes
<1> HIDE DEF vs
<1>3. IsList(vs)
  BY <1>1, <1>2, FunctionList
<1>4. Range(vs) = {[by |-> by, f |-> f] : f \in Range(fs)}
  BY <1>1, <1>2 DEF Range
<1> QED
  BY <1>3, <1>4 DEF vs

\* A vote joins the first cluster about its issue, or starts one.
LEMMA JoinKeeps ==
  ASSUME NEW cast, NEW cs, IsList(cs), \A cluster \in Range(cs) : OneIssue(cluster, cast),
         NEW v \in cast
  PROVE  IsList(Join(cs, v)) /\ \A cluster \in Range(Join(cs, v)) : OneIssue(cluster, cast)
<1> DEFINE joins == {i \in DOMAIN cs : \E m \in Range(cs[i]) : SameIssue(m.f, v.f)}
           i == Min(joins)
           grown == Append(cs[i], v)
<1>1. CASE joins = {}
  <2>1. Join(cs, v) = Append(cs, <<v>>)
    BY <1>1 DEF Join
  <2>2. OneIssue(<<v>>, cast)
    <3>1. IsList(Append(<<>>, v)) /\ Range(Append(<<>>, v)) = {} \union {v}
      BY EmptyList, AppendList
    <3>2. IsList(<<v>>) /\ Range(<<v>>) = {v}
      <4>1. <<v>> = Append(<<>>, v)
        OBVIOUS
      <4> QED
        BY <3>1, <4>1, Zenon
    <3> QED
      BY <3>2 DEF OneIssue
  <2>3. IsList(Append(cs, <<v>>)) /\ Range(Append(cs, <<v>>)) = Range(cs) \union {<<v>>}
    BY AppendList
  <2> QED
    BY <2>1, <2>2, <2>3
<1>2. CASE joins # {}
  <2>1. i \in joins
    <3>1. joins \in SUBSET Nat
      BY ListFacts
    <3> HIDE DEF joins
    <3> QED
      BY <1>2, <3>1, Least
  <2>2. Join(cs, v) = [cs EXCEPT ![i] = grown]
    BY <1>2 DEF Join
  <2>3. OneIssue(cs[i], cast)
    BY <2>1 DEF Range
  <2>4. PICK m \in Range(cs[i]) : m.f.path = v.f.path /\ m.f.cat = v.f.cat
    BY <2>1 DEF SameIssue
  <2> HIDE DEF i, joins
  <2>5. IsList(grown) /\ Range(grown) = Range(cs[i]) \union {v}
    BY <2>3, AppendList DEF OneIssue
  <2> HIDE DEF grown
  <2>6. OneIssue(grown, cast)
    BY <2>3, <2>4, <2>5 DEF OneIssue
  <2>7. IsList([cs EXCEPT ![i] = grown]) /\ Range([cs EXCEPT ![i] = grown]) \subseteq Range(cs) \union {grown}
    BY ReplaceList
  <2>8. \A cluster \in Range(cs) \union {grown} : OneIssue(cluster, cast)
    BY <2>6
  <2> QED
    BY <2>2, <2>7, <2>8
<1> QED
  BY <1>1, <1>2

LEMMA ClustersKeep ==
  ASSUME NEW cast, NEW votes, IsList(votes), Range(votes) \subseteq cast
  PROVE  IsList(Clusters(votes)) /\ \A cluster \in Range(Clusters(votes)) : OneIssue(cluster, cast)
<1>1. PICK g : /\ g[0] = <<>> /\ Clusters(votes) = g[Len(votes)]
               /\ \A n \in 0 .. (Len(votes) - 1) : g[n + 1] = Join(g[n], votes[n + 1])
  BY ClustersUnfold
<1> DEFINE Fine(cs) == IsList(cs) /\ \A cluster \in Range(cs) : OneIssue(cluster, cast)
           S == {n \in 0 .. Len(votes) : Fine(g[n])}
<1>2. Len(votes) \in Nat /\ \A i \in 1 .. Len(votes) : votes[i] \in cast
  BY ListFacts
<1>3. 0 \in S
  BY <1>1, <1>2, EmptyList
<1>4. ASSUME NEW n \in 0 .. (Len(votes) - 1), n \in S PROVE n + 1 \in S
  <2>1. n + 1 \in 0 .. Len(votes) /\ n + 1 \in 1 .. Len(votes)
    BY <1>2
  <2>2. Fine(Join(g[n], votes[n + 1]))
    <3>1. IsList(g[n]) /\ (\A cluster \in Range(g[n]) : OneIssue(cluster, cast)) /\ votes[n + 1] \in cast
      BY <1>2, <1>4, <2>1
    <3> QED
      BY <3>1, JoinKeeps
  <2> HIDE DEF Fine
  <2> QED
    BY <1>1, <1>4, <2>1, <2>2
<1>5. \A n \in 0 .. Len(votes) : n \in S
  <2> HIDE DEF S
  <2> QED
    BY <1>2, <1>3, <1>4, UpTo
<1>6. Fine(g[Len(votes)])
  BY <1>2, <1>5
<1> QED
  BY <1>1, <1>6

\* The most confident of some findings is one of them.
LEMMA MostConfidentIsOne ==
  ASSUME NEW fs, Findings(fs), fs # <<>>
  PROVE  MostConfident(fs) \in Range(fs)
<1> DEFINE D == DOMAIN fs
           gaps == {100 - fs[i].conf : i \in D}
           best == {i \in D : 100 - fs[i].conf = Min(gaps)}
           Top(i) == \A j \in D : fs[i].conf > fs[j].conf \/ (fs[i].conf = fs[j].conf /\ i <= j)
<1>1. Len(fs) \in Nat /\ D = 1 .. Len(fs) /\ Len(fs) # 0
  <2>1. fs \in Seq(Range(fs))
    BY DEF Findings, IsList
  <2> QED
    BY <2>1
<1>2. \A i \in D : i \in Nat /\ fs[i].conf \in 0 .. 100
  BY <1>1 DEF Findings, Good, Range
<1>3. gaps \in SUBSET Nat /\ gaps # {}
  <2>1. \A i \in D : 100 - fs[i].conf \in Nat
    <3>1. \A x \in 0 .. 100 : 100 - x \in Nat
      OBVIOUS
    <3> QED
      BY <1>2, <3>1, Zenon
  <2>2. 1 \in D
    BY <1>1
  <2> QED
    BY <2>1, <2>2
<1>4. Min(gaps) \in gaps /\ \A y \in gaps : Min(gaps) <= y
  <2> HIDE DEF gaps
  <2> QED
    BY <1>3, Least
<1>5. best \in SUBSET Nat /\ best # {}
  BY <1>2, <1>4
<1>6. Min(best) \in best /\ \A y \in best : Min(best) <= y
  <2> HIDE DEF best
  <2> QED
    BY <1>5, Least
<1>7. Min(best) \in D /\ Top(Min(best))
  <2> DEFINE b == Min(best)
  <2>1. b \in D /\ 100 - fs[b].conf = Min(gaps)
    BY <1>6
  <2>2. ASSUME NEW j \in D PROVE fs[b].conf > fs[j].conf \/ (fs[b].conf = fs[j].conf /\ b <= j)
    <3>1. Min(gaps) <= 100 - fs[j].conf
      BY <1>4
    <3>2. 100 - fs[j].conf = Min(gaps) => b <= j
      BY <1>6
    <3>3. fs[b].conf \in 0 .. 100 /\ fs[j].conf \in 0 .. 100
      BY <1>2, <2>1
    <3>4. ASSUME NEW x \in 0 .. 100, NEW y \in 0 .. 100, NEW m, 100 - x = m, m <= 100 - y
          PROVE  x > y \/ (x = y /\ 100 - y = m)
      BY <3>4
    <3>5. fs[b].conf > fs[j].conf \/ (fs[b].conf = fs[j].conf /\ 100 - fs[j].conf = Min(gaps))
      BY <2>1, <3>1, <3>3, <3>4, Zenon
    <3> QED
      BY <3>2, <3>5, Zenon
  <2> HIDE DEF b
  <2> QED
    BY <2>1, <2>2 DEF b
<1>8. (CHOOSE i \in D : Top(i)) \in D
  <2>1. \E i \in D : Top(i)
    <3> HIDE DEF Top, best, D
    <3> QED
      BY <1>7
  <2> HIDE DEF Top, D
  <2> QED
    BY <2>1
<1>9. MostConfident(fs) = fs[CHOOSE i \in D : Top(i)]
  BY DEF MostConfident
<1> HIDE DEF Top
<1> QED
  BY <1>8, <1>9 DEF Range

\* A finding the debate may keep: the draft's own, or one two stages raised.
Kept(p, c, t, f) == f \in Range(p) \/ Cardinality(Backers(p, c, t, f)) >= 2

\* The stages that voted in a cluster back each of its findings.
LEMMA VotersBack ==
  ASSUME NEW p, NEW c, NEW t, NEW cluster, OneIssue(cluster, Cast(p, c, t)), NEW v \in Range(cluster)
  PROVE  Voters(cluster) \subseteq Backers(p, c, t, v.f)
<1> SUFFICES ASSUME NEW u \in Range(cluster) PROVE u.by \in Backers(p, c, t, v.f)
  BY DEF Voters
<1>1. u \in Cast(p, c, t) /\ u.f.path = v.f.path /\ u.f.cat = v.f.cat
  BY DEF OneIssue
<1>2. CASE u \in {[by |-> "primary", f |-> f] : f \in Range(p)}
  BY <1>1, <1>2 DEF Backers, Backs
<1>3. CASE u \in {[by |-> "challenger", f |-> f] : f \in Range(c)}
  BY <1>1, <1>3 DEF Backers, Backs
<1>4. CASE t # <<>> /\ u \in {[by |-> "tie_break", f |-> f] : f \in Range(t[1])}
  BY <1>1, <1>4 DEF Backers, Backs
<1> QED
  BY <1>1, <1>2, <1>3, <1>4 DEF Cast

LEMMA ClusterWinnerKept ==
  ASSUME NEW p, NEW c, NEW t, NEW cluster, OneIssue(cluster, Cast(p, c, t)),
         \A v \in Cast(p, c, t) : Good(v.f), NEW pv
  PROVE  /\ IsList(ClusterWinner(cluster, pv))
         /\ \A f \in Range(ClusterWinner(cluster, pv)) : Good(f) /\ Kept(p, c, t, f)
<1> DEFINE idx == {i \in DOMAIN cluster : cluster[i].by = "primary"}
           mine == Picked(cluster, idx)
           all == [i \in DOMAIN cluster |-> cluster[i].f]
           own == [i \in DOMAIN mine |-> mine[i].f]
<1>1. Len(cluster) \in Nat /\ DOMAIN cluster = 1 .. Len(cluster) /\ IsList(cluster)
      /\ Range(cluster) \subseteq Cast(p, c, t)
  BY ListFacts DEF OneIssue
<1>2. IsList(mine) /\ Range(mine) = {cluster[i] : i \in idx}
  <2>1. idx \in SUBSET (DOMAIN cluster)
    OBVIOUS
  <2> HIDE DEF idx
  <2> QED
    BY <1>1, <2>1, PickedKeeps
<1>3. Findings(all) /\ Len(all) = Len(cluster) /\ Range(all) = {v.f : v \in Range(cluster)}
  <2>1. IsList(all) /\ Len(all) = Len(cluster)
    BY <1>1, FunctionList
  <2>2. Range(all) = {v.f : v \in Range(cluster)}
    BY DEF Range
  <2> HIDE DEF all
  <2> QED
    BY <1>1, <2>1, <2>2 DEF Findings
<1>4. Findings(own) /\ Len(own) = Len(mine) /\ Range(own) = {v.f : v \in Range(mine)}
  <2>1. Len(mine) \in Nat /\ DOMAIN mine = 1 .. Len(mine)
    BY <1>2, ListFacts
  <2> HIDE DEF mine
  <2>2. IsList(own) /\ Len(own) = Len(mine)
    BY <2>1, FunctionList
  <2>3. Range(own) = {v.f : v \in Range(mine)}
    BY DEF Range
  <2>4. Range(mine) \subseteq Range(cluster)
    BY <1>2 DEF Range
  <2> HIDE DEF own
  <2> QED
    BY <1>1, <2>2, <2>3, <2>4 DEF Findings
<1>5. \A f \in Range(own) : f \in Range(p)
  <2>1. ASSUME NEW i \in idx PROVE cluster[i].f \in Range(p)
    <3>1. cluster[i] \in Cast(p, c, t) /\ cluster[i].by = "primary"
      BY <1>1 DEF Range
    <3>2. cluster[i] \in {[by |-> "primary", f |-> f] : f \in Range(p)}
      BY <3>1 DEF Cast
    <3> QED
      BY <3>2
  <2> HIDE DEF idx, mine, own
  <2> QED
    BY <1>2, <1>4, <2>1
<1>6. ClusterWinner(cluster, pv) =
        IF Cardinality(Voters(cluster)) >= 2 THEN <<MostConfident(all)>>
        ELSE IF pv /\ HasHighRisk(own, "high") THEN <<MostConfident(own)>>
        ELSE <<>>
  BY DEF ClusterWinner
<1>7. ASSUME NEW x PROVE IsList(<<x>>) /\ Range(<<x>>) = {x}
  <2>1. IsList(Append(<<>>, x)) /\ Range(Append(<<>>, x)) = {} \union {x}
    BY EmptyList, AppendList
  <2>2. <<x>> = Append(<<>>, x)
    OBVIOUS
  <2> QED
    BY <2>1, <2>2, Zenon
<1> HIDE DEF all, own, mine, idx
<1>8. CASE Cardinality(Voters(cluster)) >= 2
  <2>1. cluster # <<>>
    <3> SUFFICES ASSUME cluster = <<>> PROVE FALSE
      OBVIOUS
    <3>1. Voters(cluster) = {}
      BY EmptyList DEF Voters
    <3>2. Cardinality(Voters(cluster)) = 0
      BY <3>1, FS_EmptySet
    <3> QED
      BY <1>8, <3>2
  <2>2. all # <<>>
    <3>1. Len(cluster) # 0
      <4>1. cluster \in Seq(Range(cluster))
        BY <1>1 DEF IsList
      <4> QED
        BY <2>1, <4>1
    <3> QED
      BY <1>3, <3>1, EmptyList
  <2>3. PICK v \in Range(cluster) : MostConfident(all) = v.f
    BY <1>3, <2>2, MostConfidentIsOne
  <2>4. Voters(cluster) \subseteq Backers(p, c, t, v.f)
    BY VotersBack
  <2>5. IsFiniteSet(Backers(p, c, t, v.f))
    <3>1. IsFiniteSet({"primary", "challenger", "tie_break"})
      <4>1. IsFiniteSet({"primary"}) /\ IsFiniteSet({"challenger"}) /\ IsFiniteSet({"tie_break"})
        BY FS_Singleton
      <4>2. IsFiniteSet({"primary"} \union {"challenger"})
        BY <4>1, FS_Union
      <4>3. IsFiniteSet(({"primary"} \union {"challenger"}) \union {"tie_break"})
        BY <4>1, <4>2, FS_Union
      <4>4. ({"primary"} \union {"challenger"}) \union {"tie_break"}
              = {"primary", "challenger", "tie_break"}
        OBVIOUS
      <4> QED
        BY <4>3, <4>4, Zenon
    <3>2. Backers(p, c, t, v.f) \subseteq {"primary", "challenger", "tie_break"}
      BY DEF Backers
    <3> QED
      BY <3>1, <3>2, FS_Subset
  <2>6. Cardinality(Backers(p, c, t, v.f)) >= 2
    <3>1. IsFiniteSet(Voters(cluster)) /\ Cardinality(Voters(cluster)) <= Cardinality(Backers(p, c, t, v.f))
      BY <2>4, <2>5, FS_Subset
    <3>2. Cardinality(Voters(cluster)) \in Nat /\ Cardinality(Backers(p, c, t, v.f)) \in Nat
      BY <2>5, <3>1, FS_CardinalityType
    <3> QED
      BY <1>8, <3>1, <3>2
  <2>7. Good(v.f) /\ Kept(p, c, t, v.f)
    BY <1>1, <2>6 DEF Kept
  <2> QED
    BY <1>6, <1>7, <1>8, <2>3, <2>7
<1>9. CASE ~(Cardinality(Voters(cluster)) >= 2) /\ pv /\ HasHighRisk(own, "high")
  <2>1. own # <<>>
    BY <1>9 DEF HasHighRisk
  <2>2. MostConfident(own) \in Range(own)
    BY <1>4, <2>1, MostConfidentIsOne
  <2>3. Good(MostConfident(own)) /\ Kept(p, c, t, MostConfident(own))
    BY <1>4, <1>5, <2>2 DEF Findings, Kept
  <2> QED
    BY <1>6, <1>7, <1>9, <2>3
<1>10. CASE ~(Cardinality(Voters(cluster)) >= 2) /\ ~(pv /\ HasHighRisk(own, "high"))
  BY <1>6, <1>10, EmptyList
<1> QED
  BY <1>8, <1>9, <1>10

LEMMA WinnersKept ==
  ASSUME NEW p, NEW c, NEW t, NEW cs, IsList(cs),
         \A cluster \in Range(cs) : OneIssue(cluster, Cast(p, c, t)),
         \A v \in Cast(p, c, t) : Good(v.f), NEW pv
  PROVE  IsList(Winners(cs, pv)) /\ \A f \in Range(Winners(cs, pv)) : Good(f) /\ Kept(p, c, t, f)
<1>1. PICK g : /\ g[0] = <<>> /\ Winners(cs, pv) = g[Len(cs)]
               /\ \A n \in 0 .. (Len(cs) - 1) : g[n + 1] = g[n] \o ClusterWinner(cs[n + 1], pv)
  BY WinnersUnfold
<1> DEFINE Fine(fs) == IsList(fs) /\ \A f \in Range(fs) : Good(f) /\ Kept(p, c, t, f)
           S == {n \in 0 .. Len(cs) : Fine(g[n])}
<1>2. Len(cs) \in Nat /\ \A i \in 1 .. Len(cs) : OneIssue(cs[i], Cast(p, c, t))
  BY ListFacts
<1>3. 0 \in S
  BY <1>1, <1>2, EmptyList
<1>4. ASSUME NEW n \in 0 .. (Len(cs) - 1), n \in S PROVE n + 1 \in S
  <2>1. n + 1 \in 0 .. Len(cs) /\ n + 1 \in 1 .. Len(cs)
    BY <1>2
  <2>2. Fine(ClusterWinner(cs[n + 1], pv))
    BY <1>2, <2>1, ClusterWinnerKept
  <2>3. Fine(g[n] \o ClusterWinner(cs[n + 1], pv))
    <3>1. Fine(g[n])
      BY <1>4
    <3> QED
      BY <2>2, <3>1, ConcatList
  <2> HIDE DEF Fine
  <2> QED
    BY <1>1, <1>4, <2>1, <2>3
<1>5. \A n \in 0 .. Len(cs) : n \in S
  <2> HIDE DEF S
  <2> QED
    BY <1>2, <1>3, <1>4, UpTo
<1>6. Fine(g[Len(cs)])
  BY <1>2, <1>5
<1> QED
  BY <1>1, <1>6

\* The debate keeps findings of the draft and findings two stages raised, nothing else.
LEMMA MergeKeeps ==
  ASSUME NEW p, Findings(p), NEW c, Findings(c), NEW t, t = <<>> \/ Findings(t[1]), NEW pv
  PROVE  Findings(MergeDebate(p, c, t, pv)) /\ \A f \in Range(MergeDebate(p, c, t, pv)) : Kept(p, c, t, f)
<1> DEFINE third == IF t = <<>> THEN <<>> ELSE Votes(t[1], "tie_break")
           votes == Votes(p, "primary") \o Votes(c, "challenger") \o third
           won == Winners(Clusters(votes), pv)
<1>1. IsList(third)
      /\ Range(third) = IF t = <<>> THEN {} ELSE {[by |-> "tie_break", f |-> f] : f \in Range(t[1])}
  <2>1. CASE t = <<>>
    BY <2>1, EmptyList
  <2>2. CASE t # <<>>
    BY <2>2, VotesOf DEF Findings
  <2> QED
    BY <2>1, <2>2
<1> HIDE DEF third
<1>2. IsList(votes) /\ Range(votes) = Cast(p, c, t)
  <2> DEFINE two == Votes(p, "primary") \o Votes(c, "challenger")
  <2>1. IsList(Votes(p, "primary")) /\ Range(Votes(p, "primary")) = {[by |-> "primary", f |-> f] : f \in Range(p)}
    BY VotesOf DEF Findings
  <2>2. IsList(Votes(c, "challenger"))
        /\ Range(Votes(c, "challenger")) = {[by |-> "challenger", f |-> f] : f \in Range(c)}
    BY VotesOf DEF Findings
  <2>3. IsList(two) /\ Range(two) = {[by |-> "primary", f |-> f] : f \in Range(p)}
                                       \union {[by |-> "challenger", f |-> f] : f \in Range(c)}
    BY <2>1, <2>2, ConcatList
  <2> HIDE DEF two
  <2>4. IsList(two \o third) /\ Range(two \o third) = Range(two) \union Range(third)
    BY <1>1, <2>3, ConcatList
  <2>5. votes = two \o third
    BY DEF two
  <2> HIDE DEF votes
  <2> QED
    BY <1>1, <2>3, <2>4, <2>5 DEF Cast
<1> HIDE DEF votes
<1>3. \A v \in Cast(p, c, t) : Good(v.f)
  BY DEF Cast, Findings
<1>4. IsList(Clusters(votes)) /\ \A cluster \in Range(Clusters(votes)) : OneIssue(cluster, Cast(p, c, t))
  BY <1>2, ClustersKeep
<1>5. IsList(won) /\ \A f \in Range(won) : Good(f) /\ Kept(p, c, t, f)
  BY <1>3, <1>4, WinnersKept
<1>6. MergeDebate(p, c, t, pv) = Ranked(won)
  BY DEF MergeDebate, votes, third
<1> HIDE DEF won
<1>7. Findings(won)
  BY <1>5 DEF Findings
<1> QED
  BY <1>5, <1>6, <1>7, RankedKeeps DEF Findings

=============================================================================
