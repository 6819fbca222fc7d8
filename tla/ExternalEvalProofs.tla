-------------------------- MODULE ExternalEvalProofs --------------------------
(***************************************************************************)
(* Proofs about ExternalEval and RepoScan for any trees, rules, budgets    *)
(* and number of jobs: type correctness and, while no job is run twice,    *)
(* that the synthesis sees every shard, that findings are stored once, and *)
(* that what the jobs store is what ReviewEngine.review reports.           *)
(***************************************************************************)
EXTENDS ExternalEval, FindingChecksProofs

-----------------------------------------------------------------------------
(* Lists of lists of files *)

IsLists(s) == IsList(s) /\ \A n \in DOMAIN s : IsList(s[n])

\* f is in one of these lists.
Holds(s, f) == \E n \in DOMAIN s : f \in Range(s[n])

\* A part of a list.
LEMMA PartKeeps ==
  ASSUME NEW s, IsList(s), NEW m \in Nat \ {0}, NEW n \in Nat, m - 1 <= n, n <= Len(s)
  PROVE  /\ IsList(SubSeq(s, m, n)) /\ Len(SubSeq(s, m, n)) = n - m + 1
         /\ Range(SubSeq(s, m, n)) = {s[i] : i \in m .. n}
<1> DEFINE t == SubSeq(s, m, n)
           k == n - m + 1
<1>1. Len(s) \in Nat /\ DOMAIN s = 1 .. Len(s) /\ s \in Seq(Range(s))
  BY ListFacts DEF IsList
<1>2. t \in Seq(Range(s)) /\ Len(t) = k /\ DOMAIN t = 1 .. k /\ \A i \in 1 .. k : t[i] = s[m + i - 1]
  BY <1>1
<1>3. k \in Nat
  OBVIOUS
<1>4. t = [i \in 1 .. k |-> t[i]]
  BY <1>2
<1> HIDE DEF t
<1>5. IsList(t)
  <2> HIDE DEF k
  <2> QED
    BY <1>2, <1>3, <1>4, FunctionList
<1>6. Range(t) = {s[i] : i \in m .. n}
  <2>1. ASSUME NEW i \in 1 .. k PROVE m + i - 1 \in m .. n /\ t[i] = s[m + i - 1]
    BY <1>2
  <2>2. ASSUME NEW i \in m .. n PROVE \E j \in 1 .. k : t[j] = s[i]
    <3>1. i - m + 1 \in 1 .. k /\ m + (i - m + 1) - 1 = i
      OBVIOUS
    <3> QED
      BY <1>2, <3>1
  <2> HIDE DEF k
  <2>3. Range(t) \subseteq {s[i] : i \in m .. n}
    BY <1>2, <2>1 DEF Range
  <2>4. {s[i] : i \in m .. n} \subseteq Range(t)
    BY <1>2, <2>2 DEF Range
  <2> QED
    BY <2>3, <2>4
<1> QED
  BY <1>2, <1>5, <1>6 DEF t
-----------------------------------------------------------------------------
(* build_shards *)

\* The groups of a list of files hold its files.
LEMMA GroupsHold ==
  ASSUME NEW files, IsList(files)
  PROVE  IsLists(Groups(files)) /\ \A f : Holds(Groups(files), f) <=> f \in Range(files)
<1> DEFINE in(d) == {i \in DOMAIN files : files[i].dir = d}
           dirs == {files[i].dir : i \in DOMAIN files}
           R == {p \in dirs \X dirs :
                   \/ Cardinality(in(p[1])) > Cardinality(in(p[2]))
                   \/ /\ Cardinality(in(p[1])) = Cardinality(in(p[2]))
                      /\ Min(in(p[1])) < Min(in(p[2]))}
           order == Sorted(dirs, R)
           groups == [n \in DOMAIN order |-> Picked(files, in(order[n]))]
<1>1. DOMAIN files = 1 .. Len(files) /\ Len(files) \in Nat /\ IsFiniteSet(DOMAIN files)
  BY ListFacts, FS_Interval
<1>2. IsFiniteSet(dirs)
  <2> DEFINE dirOf == [i \in DOMAIN files |-> files[i].dir]
  <2>1. dirOf \in Surjection(DOMAIN files, dirs)
    BY DEF Surjection
  <2> HIDE DEF dirOf, dirs
  <2> QED
    BY <1>1, <2>1, FS_Surjection
<1>3. ASSUME NEW d \in dirs
      PROVE  /\ in(d) \in SUBSET (DOMAIN files) /\ in(d) \in SUBSET Nat /\ in(d) # {}
             /\ Cardinality(in(d)) \in Nat /\ Min(in(d)) \in in(d) /\ Min(in(d)) \in Nat
  <2>1. in(d) \in SUBSET (DOMAIN files) /\ in(d) # {}
    OBVIOUS
  <2> HIDE DEF in
  <2>2. in(d) \in SUBSET Nat
    BY <1>1, <2>1
  <2>3. IsFiniteSet(in(d))
    BY <1>1, <2>1, FS_Subset
  <2> QED
    BY <2>1, <2>2, <2>3, FS_CardinalityType, Least
<1>4. ASSUME NEW c \in dirs, NEW d \in dirs, c # d PROVE Min(in(c)) # Min(in(d))
  <2>1. Min(in(c)) \in in(c) /\ Min(in(d)) \in in(d)
    BY <1>3
  <2>2. in(c) \cap in(d) = {}
    BY <1>4
  <2> QED
    BY <2>1, <2>2
<1>5. Orders(R, dirs)
  <2> DEFINE n(d) == Cardinality(in(d))
             m(d) == Min(in(d))
  <2>1. \A d \in dirs : n(d) \in Nat /\ m(d) \in Nat
    BY <1>3
  <2>2. \A c, d \in dirs : c # d => m(c) # m(d)
    BY <1>4
  <2>3. \A c, d \in dirs : <<c, d>> \in R <=> n(c) > n(d) \/ (n(c) = n(d) /\ m(c) < m(d))
    OBVIOUS
  <2> HIDE DEF n, m, R, dirs
  <2>4. \A x \in dirs : <<x, x>> \notin R
    BY <2>1, <2>3
  <2>5. \A x, y, z \in dirs : <<x, y>> \in R /\ <<y, z>> \in R => <<x, z>> \in R
    BY <2>1, <2>3
  <2>6. \A x, y \in dirs : x # y => <<x, y>> \in R \/ <<y, x>> \in R
    BY <2>1, <2>2, <2>3
  <2> QED
    BY <2>4, <2>5, <2>6 DEF Orders
<1>6. IsList(order) /\ Range(order) = dirs
  <2> HIDE DEF dirs, R
  <2> QED
    BY <1>2, <1>5, SortedKeeps
<1>7. Groups(files) = groups
  BY DEF Groups
<1>8. DOMAIN order = 1 .. Len(order) /\ Len(order) \in Nat /\ \A n \in DOMAIN order : order[n] \in dirs
  <2> HIDE DEF order
  <2> QED
    BY <1>6, ListFacts DEF Range
<1> HIDE DEF order
<1>9. IsList(groups)
  <2>1. DOMAIN groups = 1 .. Len(order) /\ groups = [n \in 1 .. Len(order) |-> groups[n]]
    BY <1>8
  <2> HIDE DEF groups
  <2> QED
    BY <1>8, <2>1, FunctionList
<1>10. ASSUME NEW n \in DOMAIN order
       PROVE  IsList(groups[n]) /\ Range(groups[n]) = {files[i] : i \in in(order[n])}
  <2>1. in(order[n]) \in SUBSET (DOMAIN files)
    OBVIOUS
  <2>2. groups[n] = Picked(files, in(order[n]))
    OBVIOUS
  <2> HIDE DEF groups, in
  <2> QED
    BY <2>1, <2>2, PickedKeeps
<1>11. DOMAIN groups = DOMAIN order
  OBVIOUS
<1> HIDE DEF groups
<1>12. ASSUME NEW f, Holds(groups, f) PROVE f \in Range(files)
  <2>1. PICK n \in DOMAIN order : f \in Range(groups[n])
    BY <1>11, <1>12 DEF Holds
  <2>2. f \in {files[i] : i \in in(order[n])}
    BY <1>10, <2>1
  <2> QED
    BY <2>2 DEF Range
<1>13. ASSUME NEW i \in DOMAIN files PROVE Holds(groups, files[i])
  <2>1. files[i].dir \in dirs /\ i \in in(files[i].dir)
    OBVIOUS
  <2>2. PICK n \in DOMAIN order : order[n] = files[i].dir
    BY <1>6, <2>1 DEF Range
  <2>3. files[i] \in Range(groups[n])
    BY <1>10, <2>1, <2>2
  <2> QED
    BY <1>11, <2>3 DEF Holds
<1>14. \A f \in Range(files) : Holds(groups, f)
  BY <1>13 DEF Range
<1> QED
  BY <1>7, <1>9, <1>10, <1>11, <1>12, <1>14 DEF IsLists

\* Of some buckets one holds least, and is the first of those that do.
LEMMA SomeLeast ==
  ASSUME NEW count \in Nat \ {0}, NEW v, \A b \in 1 .. count : v[b] \in Nat
  PROVE  \E b \in 1 .. count : \A c \in 1 .. count : v[b] < v[c] \/ (v[b] = v[c] /\ b <= c)
<1> DEFINE V == {v[b] : b \in 1 .. count}
           m == Min(V)
<1>1. V \in SUBSET Nat /\ V # {} /\ \A c \in 1 .. count : v[c] \in V
  <2>1. 1 \in 1 .. count
    OBVIOUS
  <2> QED
    BY <2>1
<1>2. m \in V /\ m \in Nat /\ \A y \in V : m <= y
  <2> HIDE DEF V
  <2> QED
    BY <1>1, Least
<1>3. PICK d \in 1 .. count : v[d] = m
  <2> HIDE DEF m
  <2> QED
    BY <1>2
<1> HIDE DEF V, m
<1> DEFINE B == {b \in 1 .. count : v[b] = m}
           first == Min(B)
<1>4. B \in SUBSET Nat /\ B # {}
  BY <1>3
<1>5. first \in B /\ \A c \in B : first <= c
  <2> HIDE DEF B
  <2> QED
    BY <1>4, Least
<1> HIDE DEF first
<1>6. \A c \in 1 .. count : m <= v[c]
  BY <1>1, <1>2
<1> QED
  BY <1>2, <1>5, <1>6

\* A group is put whole into a bucket.
LEMMA PutHolds ==
  ASSUME NEW s, IsLists(s), s # <<>>, NEW group, IsList(group)
  PROVE  /\ IsLists(Put(s, group)) /\ Len(Put(s, group)) = Len(s)
         /\ \A f : Holds(Put(s, group), f) <=> Holds(s, f) \/ f \in Range(group)
<1> DEFINE count == Len(s)
           Q(b) == \A c \in DOMAIN s : \/ Len(s[b]) < Len(s[c])
                                       \/ Len(s[b]) = Len(s[c]) /\ b <= c
           least == CHOOSE b \in DOMAIN s : Q(b)
           t == [s EXCEPT ![least] = @ \o group]
<1>0. count \in Nat \ {0} /\ DOMAIN s = 1 .. count
  BY ListFacts DEF IsLists, IsList
<1>1. Put(s, group) = t
  BY DEF Put
<1>2. least \in DOMAIN s
  <2> DEFINE v == [b \in 1 .. count |-> Len(s[b])]
  <2>1. \A b \in 1 .. count : v[b] \in Nat /\ v[b] = Len(s[b])
    BY <1>0, ListFacts DEF IsLists
  <2> HIDE DEF v
  <2>2. \E b \in 1 .. count : \A c \in 1 .. count : v[b] < v[c] \/ (v[b] = v[c] /\ b <= c)
    <3> HIDE DEF count
    <3> QED
      BY <1>0, <2>1, SomeLeast
  <2>3. \E b \in DOMAIN s : Q(b)
    BY <1>0, <2>1, <2>2
  <2> HIDE DEF Q
  <2> QED
    BY <2>3
<1> HIDE DEF least
<1>3. /\ DOMAIN t = DOMAIN s /\ t = [b \in DOMAIN s |-> t[b]]
      /\ \A b \in DOMAIN s : t[b] = IF b = least THEN s[b] \o group ELSE s[b]
  OBVIOUS
<1>4. IsList(t) /\ Len(t) = count
  <2> HIDE DEF t, count
  <2> QED
    BY <1>0, <1>3, FunctionList
<1> HIDE DEF t
<1>5. ASSUME NEW b \in DOMAIN s
      PROVE  /\ IsList(t[b])
             /\ Range(t[b]) = IF b = least THEN Range(s[b]) \union Range(group) ELSE Range(s[b])
  <2>1. IsList(s[b]) /\ t[b] = IF b = least THEN s[b] \o group ELSE s[b]
    BY <1>3 DEF IsLists
  <2>2. IsList(s[b] \o group) /\ Range(s[b] \o group) = Range(s[b]) \union Range(group)
    BY <2>1, ConcatList
  <2> QED
    BY <2>1, <2>2
<1>6. \A f : Holds(t, f) <=> Holds(s, f) \/ f \in Range(group)
  BY <1>2, <1>3, <1>5 DEF Holds
<1> QED
  BY <1>1, <1>3, <1>4, <1>5, <1>6 DEF IsLists

\* Dealing, group by group.
LEMMA DealUnfolds ==
  ASSUME NEW groups, IsList(groups), NEW count
  PROVE  \E g : /\ g[0] = [b \in 1 .. count |-> <<>>] /\ Deal(groups, count) = g[Len(groups)]
                /\ \A n \in 0 .. (Len(groups) - 1) : g[n + 1] = Put(g[n], groups[n + 1])
<1> DEFINE N == Len(groups)
           zero == [b \in 1 .. count |-> <<>>]
           Loop(g, m) == g = [n \in 0 .. m |-> IF n = 0 THEN zero ELSE Put(g[n - 1], groups[n])]
           S == {m \in 0 .. N : \E g : Loop(g, m)}
           all == CHOOSE g : Loop(g, N)
<1>0. N \in Nat
  BY ListFacts
<1>1. 0 \in S
  <2> DEFINE g == [n \in 0 .. 0 |-> zero]
  <2>1. \E f : Loop(f, 0)
    <3> HIDE DEF zero
    <3>1. Loop(g, 0)
      OBVIOUS
    <3> HIDE DEF Loop, g
    <3> QED
      BY <3>1
  <2>2. 0 \in 0 .. N
    BY <1>0
  <2> HIDE DEF Loop, g
  <2> QED
    BY <2>1, <2>2
<1> HIDE DEF zero
<1>2. ASSUME NEW m \in 0 .. (N - 1), m \in S PROVE m + 1 \in S
  <2>1. PICK g : Loop(g, m)
    BY <1>2
  <2> DEFINE h == [n \in 0 .. (m + 1) |-> IF n = 0 THEN zero ELSE Put(g[n - 1], groups[n])]
  <2>2. \A n \in 0 .. m : h[n] = g[n]
    BY <2>1
  <2>3. \A n \in 0 .. (m + 1) : n # 0 => h[n - 1] = g[n - 1]
    <3>1. \A n \in 0 .. (m + 1) : n # 0 => n - 1 \in 0 .. m
      BY <1>0, <1>2
    <3> HIDE DEF h
    <3> QED
      BY <2>2, <3>1
  <2>4. h = [n \in 0 .. (m + 1) |-> IF n = 0 THEN zero ELSE Put(h[n - 1], groups[n])]
    BY <2>3
  <2>5. m + 1 \in 0 .. N
    BY <1>0, <1>2
  <2> QED
    BY <2>4, <2>5
<1>3. \E g : Loop(g, N)
  <2>1. \A n \in 0 .. N : n \in S
    <3> HIDE DEF S, N
    <3> QED
      BY <1>0, <1>1, <1>2, UpTo
  <2>2. N \in 0 .. N
    BY <1>0
  <2>3. N \in S
    <3> HIDE DEF S, N
    <3> QED
      BY <2>1, <2>2
  <2> HIDE DEF Loop, N
  <2> QED
    BY <2>3
<1>4. Loop(all, N)
  BY <1>3
<1>5. Deal(groups, count) = all[N]
  BY DEF Deal, zero
<1> HIDE DEF N, all
<1>6. \A n \in 0 .. N : all[n] = IF n = 0 THEN zero ELSE Put(all[n - 1], groups[n])
  BY <1>4
<1> HIDE DEF Loop
<1>7. all[0] = zero
  BY <1>0, <1>6
<1>8. ASSUME NEW n \in 0 .. (N - 1) PROVE all[n + 1] = Put(all[n], groups[n + 1])
  <2>1. n + 1 \in 0 .. N /\ n + 1 # 0 /\ (n + 1) - 1 = n
    BY <1>0
  <2> QED
    BY <1>6, <2>1
<1> QED
  BY <1>5, <1>7, <1>8 DEF N, zero

\* The buckets hold what the groups do.
LEMMA DealHolds ==
  ASSUME NEW groups, IsLists(groups), NEW count \in Nat \ {0}
  PROVE  /\ IsLists(Deal(groups, count)) /\ Len(Deal(groups, count)) = count
         /\ \A f : Holds(Deal(groups, count), f) <=> Holds(groups, f)
<1>0. Len(groups) \in Nat /\ DOMAIN groups = 1 .. Len(groups)
  BY ListFacts DEF IsLists
<1>1. PICK g : /\ g[0] = [b \in 1 .. count |-> <<>>] /\ Deal(groups, count) = g[Len(groups)]
               /\ \A n \in 0 .. (Len(groups) - 1) : g[n + 1] = Put(g[n], groups[n + 1])
  BY DealUnfolds DEF IsLists
<1> DEFINE Among(n, f) == \E i \in 1 .. n : f \in Range(groups[i])
           S == {n \in 0 .. Len(groups) :
                   /\ IsLists(g[n]) /\ Len(g[n]) = count
                   /\ \A f : Holds(g[n], f) <=> Among(n, f)}
<1>2. 0 \in S
  <2> DEFINE zero == [b \in 1 .. count |-> <<>>]
  <2>1. DOMAIN zero = 1 .. count /\ zero = [b \in 1 .. count |-> zero[b]]
        /\ \A b \in 1 .. count : zero[b] = <<>>
    OBVIOUS
  <2> HIDE DEF zero
  <2>2. IsLists(zero) /\ Len(zero) = count
    BY <2>1, EmptyList, FunctionList DEF IsLists
  <2>3. \A f : ~Holds(zero, f)
    BY <2>1, EmptyList DEF Holds
  <2>4. \A f : ~Among(0, f)
    OBVIOUS
  <2>5. g[0] = zero /\ 0 \in 0 .. Len(groups)
    BY <1>0, <1>1 DEF zero
  <2> HIDE DEF Among
  <2> QED
    BY <2>2, <2>3, <2>4, <2>5
<1>3. ASSUME NEW n \in 0 .. (Len(groups) - 1), n \in S PROVE n + 1 \in S
  <2>1. /\ IsLists(g[n]) /\ Len(g[n]) = count /\ \A f : Holds(g[n], f) <=> Among(n, f)
        /\ n + 1 \in 0 .. Len(groups) /\ n + 1 \in DOMAIN groups
        /\ g[n + 1] = Put(g[n], groups[n + 1])
    BY <1>0, <1>1, <1>3
  <2>2. IsList(groups[n + 1]) /\ g[n] # <<>>
    BY <2>1, EmptyList DEF IsLists
  <2>3. /\ IsLists(g[n + 1]) /\ Len(g[n + 1]) = count
        /\ \A f : Holds(g[n + 1], f) <=> Holds(g[n], f) \/ f \in Range(groups[n + 1])
    <3> HIDE DEF Among, S
    <3> QED
      BY <2>1, <2>2, PutHolds
  <2>4. \A f : Among(n + 1, f) <=> Among(n, f) \/ f \in Range(groups[n + 1])
    <3>1. \A i : i \in 1 .. (n + 1) <=> i \in 1 .. n \/ i = n + 1
      BY <1>0
    <3> QED
      BY <3>1
  <2> HIDE DEF Among
  <2> QED
    BY <2>1, <2>3, <2>4
<1>4. Len(groups) \in S
  <2> HIDE DEF S
  <2>1. \A n \in 0 .. Len(groups) : n \in S
    BY <1>0, <1>2, <1>3, UpTo
  <2> QED
    BY <1>0, <2>1
<1> QED
  BY <1>0, <1>1, <1>4 DEF Holds

\* Whole division, products and the lesser of two numbers.
LEMMA Division ==
  ASSUME NEW a \in Nat, NEW s \in Nat \ {0}
  PROVE  a \div s \in Nat /\ (a \div s) * s <= a /\ a < (a \div s) * s + s
OBVIOUS

LEMMA Products ==
  ASSUME NEW a \in Nat, NEW b \in Nat, NEW s \in Nat
  PROVE  /\ a * s \in Nat /\ (a + 1) * s = a * s + s
         /\ a <= b => a * s <= b * s
OBVIOUS

LEMMA LesserOf ==
  ASSUME NEW a \in Nat, NEW b \in Nat
  PROVE  /\ Min({a, b}) \in {a, b} /\ Min({a, b}) \in Nat
         /\ Min({a, b}) <= a /\ Min({a, b}) <= b
         /\ a <= b => Min({a, b}) = a
<1> DEFINE m == Min({a, b})
<1>1. {a, b} \in SUBSET Nat /\ {a, b} # {}
  OBVIOUS
<1>2. m \in {a, b} /\ m <= a /\ m <= b
  BY <1>1, Least
<1> HIDE DEF m
<1>3. m \in Nat /\ (a <= b => m = a)
  BY <1>2
<1> QED
  BY <1>2, <1>3 DEF m

\* The chunks of a bucket hold its files, and none is longer than the bucket.
LEMMA ChunksHold ==
  ASSUME NEW bucket, IsList(bucket), NEW size \in Nat \ {0}
  PROVE  /\ IsLists(Chunks(bucket, size))
         /\ \A f : Holds(Chunks(bucket, size), f) <=> f \in Range(bucket)
         /\ \A i \in DOMAIN Chunks(bucket, size) : Len(Chunks(bucket, size)[i]) <= Len(bucket)
<1> DEFINE L == Len(bucket)
           K == (L + size - 1) \div size
           last(i) == Min({i * size, L})
           part(i) == SubSeq(bucket, (i - 1) * size + 1, last(i))
           t == [i \in 1 .. K |-> part(i)]
<1>1. L \in Nat /\ DOMAIN bucket = 1 .. L
  BY ListFacts
<1>2. K \in Nat /\ K * size <= L + size - 1 /\ L + size - 1 < K * size + size
  <2>1. L + size - 1 \in Nat
    BY <1>1
  <2> QED
    BY <2>1, Division
<1>3. t = Chunks(bucket, size)
  BY DEF Chunks
<1> HIDE DEF K, L
<1>4. ASSUME NEW i \in 1 .. K
      PROVE  /\ (i - 1) * size \in Nat /\ i * size \in Nat
             /\ i * size = (i - 1) * size + size
             /\ (i - 1) * size <= L - 1
             /\ last(i) \in Nat /\ last(i) \in {i * size, L} /\ last(i) <= L /\ last(i) <= i * size
             /\ (i - 1) * size + 1 <= last(i)
  <2>1. i \in Nat /\ i - 1 \in Nat /\ i <= K /\ (i - 1) + 1 = i
    BY <1>2
  <2>2. /\ (i - 1) * size \in Nat /\ i * size \in Nat
        /\ i * size = (i - 1) * size + size /\ i * size <= K * size
    BY <1>2, <2>1, Products
  <2>3. K * size \in Nat
    BY <1>2, Products
  <2>4. last(i) \in Nat /\ last(i) \in {i * size, L} /\ last(i) <= L /\ last(i) <= i * size
    BY <1>1, <2>2, LesserOf
  <2> HIDE DEF last
  <2> QED
    BY <1>1, <1>2, <2>2, <2>3, <2>4
<1> HIDE DEF last
<1>5. ASSUME NEW i \in 1 .. K
      PROVE  /\ IsList(part(i)) /\ Len(part(i)) <= L
             /\ Range(part(i)) = {bucket[p] : p \in ((i - 1) * size + 1) .. last(i)}
  <2>1. /\ (i - 1) * size + 1 \in Nat \ {0} /\ last(i) \in Nat
        /\ ((i - 1) * size + 1) - 1 <= last(i) /\ last(i) <= L
    BY <1>1, <1>4
  <2>2. /\ IsList(part(i)) /\ Len(part(i)) = last(i) - ((i - 1) * size + 1) + 1
        /\ Range(part(i)) = {bucket[p] : p \in ((i - 1) * size + 1) .. last(i)}
    BY <2>1, PartKeeps DEF L
  <2>3. last(i) - ((i - 1) * size + 1) + 1 <= L
    BY <1>1, <1>4
  <2> HIDE DEF part
  <2> QED
    BY <2>2, <2>3
<1> HIDE DEF part
<1>6. IsLists(t) /\ DOMAIN t = 1 .. K /\ \A i \in 1 .. K : t[i] = part(i)
  <2>1. DOMAIN t = 1 .. K /\ t = [i \in 1 .. K |-> t[i]] /\ \A i \in 1 .. K : t[i] = part(i)
    OBVIOUS
  <2> HIDE DEF t
  <2>2. IsList(t)
    BY <1>2, <2>1, FunctionList
  <2> QED
    BY <1>5, <2>1, <2>2 DEF IsLists
<1> HIDE DEF t
<1>7. ASSUME NEW f, Holds(t, f) PROVE f \in Range(bucket)
  <2>1. PICK i \in 1 .. K : f \in Range(part(i))
    BY <1>6, <1>7 DEF Holds
  <2>2. PICK p \in ((i - 1) * size + 1) .. last(i) : f = bucket[p]
    BY <1>5, <2>1
  <2>3. p \in DOMAIN bucket
    BY <1>1, <1>4, <2>2
  <2> QED
    BY <2>2, <2>3 DEF Range
<1>8. ASSUME NEW p \in 1 .. L PROVE Holds(t, bucket[p])
  <2> DEFINE q == (p - 1) \div size
  <2>1. p - 1 \in Nat /\ p <= L
    BY <1>1
  <2>2. q \in Nat /\ q * size <= p - 1 /\ p - 1 < q * size + size
    BY <2>1, Division
  <2> HIDE DEF q
  <2>3. q + 1 \in 1 .. K
    <3>1. CASE q + 1 <= K
      BY <1>2, <2>2, <3>1
    <3>2. CASE K <= q
      <4>1. K * size <= q * size /\ K * size \in Nat /\ q * size \in Nat
        BY <1>2, <2>2, <3>2, Products
      <4> QED
        BY <1>1, <1>2, <2>1, <2>2, <4>1
    <3> QED
      BY <1>2, <2>2, <3>1, <3>2
  <2>4. (q + 1) - 1 = q /\ (q + 1) * size = q * size + size /\ q * size \in Nat
    BY <2>2, Products
  <2>5. p \in (((q + 1) - 1) * size + 1) .. last(q + 1)
    <3>1. last(q + 1) \in {(q + 1) * size, L} /\ last(q + 1) \in Nat
      BY <1>4, <2>3
    <3> QED
      BY <1>1, <2>1, <2>2, <2>4, <3>1
  <2>6. bucket[p] \in Range(part(q + 1))
    BY <1>5, <2>3, <2>5
  <2> QED
    BY <1>6, <2>3, <2>6 DEF Holds
<1>9. \A f \in Range(bucket) : Holds(t, f)
  BY <1>1, <1>8 DEF Range
<1> QED
  BY <1>3, <1>5, <1>6, <1>7, <1>9 DEF L

\* Lists of lists are known by the lists in them.
LEMMA ListsInRange ==
  ASSUME NEW s, IsLists(s)
  PROVE  (\A x \in Range(s) : IsList(x)) /\ \A f : Holds(s, f) <=> \E x \in Range(s) : f \in Range(x)
BY DEF IsLists, Holds, Range

\* One list of lists after another holds what the two hold.
LEMMA JoinedLists ==
  ASSUME NEW s, IsLists(s), NEW u, IsLists(u)
  PROVE  /\ IsLists(s \o u) /\ Range(s \o u) = Range(s) \union Range(u)
         /\ \A f : Holds(s \o u, f) <=> Holds(s, f) \/ Holds(u, f)
<1>1. IsList(s \o u) /\ Range(s \o u) = Range(s) \union Range(u)
  BY ConcatList DEF IsLists
<1>2. (\A x \in Range(s) : IsList(x)) /\ (\A x \in Range(u) : IsList(x))
  BY ListsInRange
<1>3. IsLists(s \o u)
  <2>1. \A n \in DOMAIN (s \o u) : (s \o u)[n] \in Range(s \o u)
    BY DEF Range
  <2> QED
    BY <1>1, <1>2, <2>1 DEF IsLists
<1> QED
  BY <1>1, <1>3, ListsInRange

\* A bucket is split into parts that hold its files.
LEMMA SplitHolds ==
  ASSUME NEW bucket, IsList(bucket), NEW size \in Nat
  PROVE  /\ IsLists(Split(bucket, size))
         /\ \A f : Holds(Split(bucket, size), f) <=> f \in Range(bucket)
         /\ \A x \in Range(Split(bucket, size)) : bucket # <<>> /\ Len(x) <= Len(bucket)
         /\ size = 0 /\ bucket # <<>> => bucket \in Range(Split(bucket, size))
<1>1. CASE bucket = <<>>
  <2>1. Split(bucket, size) = <<>>
    BY <1>1 DEF Split
  <2> QED
    BY <1>1, <2>1, EmptyList DEF IsLists, Holds
<1>2. CASE bucket # <<>> /\ (size = 0 \/ Len(bucket) <= size)
  <2>1. Split(bucket, size) = Append(<<>>, bucket)
    BY <1>2 DEF Split
  <2>2. IsList(Append(<<>>, bucket)) /\ Range(Append(<<>>, bucket)) = {bucket}
    <3>1. PICK none : none = <<>>
      OBVIOUS
    <3>2. IsList(none) /\ Range(none) = {}
      BY <3>1, EmptyList
    <3>3. IsList(Append(none, bucket)) /\ Range(Append(none, bucket)) = Range(none) \union {bucket}
      BY <3>2, AppendList
    <3> QED
      BY <3>1, <3>2, <3>3
  <2>3. IsLists(Append(<<>>, bucket))
    <3>1. \A n \in DOMAIN Append(<<>>, bucket) : Append(<<>>, bucket)[n] \in Range(Append(<<>>, bucket))
      BY DEF Range
    <3> QED
      BY <2>2, <3>1 DEF IsLists
  <2>4. Len(bucket) \in Nat
    BY ListFacts
  <2> QED
    BY <1>2, <2>1, <2>2, <2>3, <2>4, ListsInRange
<1>3. CASE bucket # <<>> /\ ~(size = 0 \/ Len(bucket) <= size)
  <2>1. Split(bucket, size) = Chunks(bucket, size)
    BY <1>3 DEF Split
  <2>2. /\ IsLists(Chunks(bucket, size))
        /\ \A f : Holds(Chunks(bucket, size), f) <=> f \in Range(bucket)
        /\ \A i \in DOMAIN Chunks(bucket, size) : Len(Chunks(bucket, size)[i]) <= Len(bucket)
    BY <1>3, ChunksHold
  <2>3. \A x \in Range(Chunks(bucket, size)) : Len(x) <= Len(bucket)
    BY <2>2 DEF Range
  <2> QED
    BY <1>3, <2>1, <2>2, <2>3
<1> QED
  BY <1>1, <1>2, <1>3

\* build_shards, bucket by bucket.
Eligible(files, excluded) ==
  Picked(files, {i \in DOMAIN files : files[i].path \notin excluded})
Buckets(files, count, excluded) == Deal(Groups(Eligible(files, excluded)), count)

\* The steps of the loop over the buckets.
SplitInto(g, buckets, size, shards) ==
  /\ g[0] = <<>> /\ shards = g[Len(buckets)]
  /\ \A n \in 0 .. (Len(buckets) - 1) : g[n + 1] = g[n] \o Split(buckets[n + 1], size)

LEMMA ShardsUnfold ==
  ASSUME NEW files, NEW count, NEW size, NEW excluded,
         NEW buckets, IsList(buckets), buckets = Buckets(files, count, excluded)
  PROVE  \E g : SplitInto(g, buckets, size, BuildShards(files, count, size, excluded))
<1> DEFINE N == Len(buckets)
           Loop(g, m) == g = [n \in 0 .. m |-> IF n = 0 THEN <<>>
                                               ELSE g[n - 1] \o Split(buckets[n], size)]
           S == {m \in 0 .. N : \E g : Loop(g, m)}
           all == CHOOSE g : Loop(g, N)
<1>0. N \in Nat
  BY ListFacts
<1>5. BuildShards(files, count, size, excluded) = all[N]
  BY DEF BuildShards, Buckets, Eligible
<1>1. 0 \in S
  <2> DEFINE g == [n \in 0 .. 0 |-> <<>>]
  <2>1. \E f : Loop(f, 0)
    <3>1. Loop(g, 0)
      OBVIOUS
    <3> HIDE DEF Loop, g
    <3> QED
      BY <3>1
  <2>2. 0 \in 0 .. N
    BY <1>0
  <2> HIDE DEF Loop, g
  <2> QED
    BY <2>1, <2>2
<1>2. ASSUME NEW m \in 0 .. (N - 1), m \in S PROVE m + 1 \in S
  <2>1. PICK g : Loop(g, m)
    BY <1>2
  <2> HIDE DEF N
  <2> DEFINE h == [n \in 0 .. (m + 1) |-> IF n = 0 THEN <<>>
                                          ELSE g[n - 1] \o Split(buckets[n], size)]
  <2>2. \A n \in 0 .. m : h[n] = g[n]
    BY <2>1
  <2>3. \A n \in 0 .. (m + 1) : n # 0 => h[n - 1] = g[n - 1]
    <3>1. \A n \in 0 .. (m + 1) : n # 0 => n - 1 \in 0 .. m
      BY <1>0, <1>2
    <3> HIDE DEF h
    <3> QED
      BY <2>2, <3>1
  <2>4. h = [n \in 0 .. (m + 1) |-> IF n = 0 THEN <<>>
                                    ELSE h[n - 1] \o Split(buckets[n], size)]
    BY <2>3
  <2>5. m + 1 \in 0 .. N
    BY <1>0, <1>2
  <2> QED
    BY <2>4, <2>5
<1>3. \E g : Loop(g, N)
  <2>1. \A n \in 0 .. N : n \in S
    <3> HIDE DEF S, N
    <3> QED
      BY <1>0, <1>1, <1>2, UpTo
  <2>2. N \in 0 .. N
    BY <1>0
  <2>3. N \in S
    <3> HIDE DEF S, N
    <3> QED
      BY <2>1, <2>2
  <2> HIDE DEF Loop, N
  <2> QED
    BY <2>3
<1>4. Loop(all, N)
  BY <1>3
<1> HIDE DEF N, all
<1>6. \A n \in 0 .. N : all[n] = IF n = 0 THEN <<>> ELSE all[n - 1] \o Split(buckets[n], size)
  BY <1>4
<1> HIDE DEF Loop
<1>7. all[0] = <<>>
  BY <1>0, <1>6
<1>8. ASSUME NEW n \in 0 .. (N - 1) PROVE all[n + 1] = all[n] \o Split(buckets[n + 1], size)
  <2>1. n + 1 \in 0 .. N /\ n + 1 # 0 /\ (n + 1) - 1 = n
    BY <1>0
  <2> QED
    BY <1>6, <2>1
<1> QED
  BY <1>5, <1>7, <1>8 DEF N, SplitInto

\* The shards hold the files not excluded, each shard comes from a bucket, and without a
\* size the buckets are the shards.
LEMMA ShardsHold ==
  ASSUME NEW files, IsList(files), NEW count \in Nat \ {0}, NEW size \in Nat, NEW excluded
  PROVE  LET shards == BuildShards(files, count, size, excluded)
             buckets == Range(Buckets(files, count, excluded))
         IN /\ IsLists(shards) /\ \A x \in buckets : Len(x) \in Nat
            /\ \A f : Holds(shards, f) <=> f \in Range(files) /\ f.path \notin excluded
            /\ \A x \in Range(shards) : \E y \in buckets : y # <<>> /\ Len(x) <= Len(y)
            /\ size = 0 => \A y \in buckets : y # <<>> => y \in Range(shards)
<1> DEFINE shards == BuildShards(files, count, size, excluded)
           B == Buckets(files, count, excluded)
           some == {i \in DOMAIN files : files[i].path \notin excluded}
<1>1. IsLists(B) /\ \A f : Holds(B, f) <=> f \in Range(files) /\ f.path \notin excluded
  <2>1. some \in SUBSET (DOMAIN files) /\ Eligible(files, excluded) = Picked(files, some)
    BY DEF Eligible
  <2>2. {files[i] : i \in some} = {f \in Range(files) : f.path \notin excluded}
    BY DEF Range
  <2> HIDE DEF some
  <2>3. IsList(Eligible(files, excluded))
        /\ Range(Eligible(files, excluded)) = {f \in Range(files) : f.path \notin excluded}
    BY <2>1, <2>2, PickedKeeps
  <2>4. /\ IsLists(Groups(Eligible(files, excluded)))
        /\ \A f : Holds(Groups(Eligible(files, excluded)), f) <=> f \in Range(Eligible(files, excluded))
    BY <2>3, GroupsHold
  <2>5. IsLists(B) /\ \A f : Holds(B, f) <=> Holds(Groups(Eligible(files, excluded)), f)
    BY <2>4, DealHolds DEF Buckets
  <2> HIDE DEF B
  <2> QED
    BY <2>3, <2>4, <2>5
<1> HIDE DEF B
<1>2. /\ Len(B) \in Nat /\ DOMAIN B = 1 .. Len(B) /\ IsList(B)
      /\ \A x \in Range(B) : IsList(x) /\ Len(x) \in Nat
  BY <1>1, ListFacts, ListsInRange DEF IsLists
<1> HIDE DEF shards
<1>3. PICK g : SplitInto(g, B, size, shards)
  <2>1. B = Buckets(files, count, excluded) /\ shards = BuildShards(files, count, size, excluded)
    BY DEF B, shards
  <2> QED
    BY <1>2, <2>1, ShardsUnfold
<1> DEFINE Among(n, f) == \E i \in 1 .. n : f \in Range(B[i])
           S == {n \in 0 .. Len(B) :
                   /\ IsLists(g[n])
                   /\ \A f : Holds(g[n], f) <=> Among(n, f)
                   /\ \A x \in Range(g[n]) : \E y \in Range(B) : y # <<>> /\ Len(x) <= Len(y)
                   /\ size = 0 => \A i \in 1 .. n : B[i] # <<>> => B[i] \in Range(g[n])}
<1>4. 0 \in S
  <2>1. IsLists(<<>>) /\ \A f : ~Holds(<<>>, f)
    BY EmptyList DEF IsLists, Holds
  <2>2. (\A f : ~Among(0, f)) /\ 1 .. 0 = {}
    OBVIOUS
  <2>3. g[0] = <<>> /\ 0 \in 0 .. Len(B) /\ Range(<<>>) = {}
    BY <1>2, <1>3, EmptyList DEF SplitInto
  <2> HIDE DEF Among
  <2> QED
    BY <2>1, <2>2, <2>3
<1>5. ASSUME NEW n \in 0 .. (Len(B) - 1), n \in S PROVE n + 1 \in S
  <2>1. /\ IsLists(g[n])
        /\ \A f : Holds(g[n], f) <=> Among(n, f)
        /\ \A x \in Range(g[n]) : \E y \in Range(B) : y # <<>> /\ Len(x) <= Len(y)
        /\ size = 0 => \A i \in 1 .. n : B[i] # <<>> => B[i] \in Range(g[n])
    BY <1>5
  <2>2. /\ n + 1 \in 0 .. Len(B) /\ n + 1 \in DOMAIN B /\ B[n + 1] \in Range(B)
        /\ g[n + 1] = g[n] \o Split(B[n + 1], size)
    <3>1. n + 1 \in 0 .. Len(B) /\ n + 1 \in DOMAIN B
      BY <1>2
    <3> QED
      BY <1>3, <3>1 DEF SplitInto, Range
  <2>3. IsList(B[n + 1])
    BY <1>2, <2>2
  <2> DEFINE parts == Split(B[n + 1], size)
  <2>4. /\ IsLists(parts) /\ \A f : Holds(parts, f) <=> f \in Range(B[n + 1])
        /\ \A x \in Range(parts) : B[n + 1] # <<>> /\ Len(x) <= Len(B[n + 1])
        /\ size = 0 /\ B[n + 1] # <<>> => B[n + 1] \in Range(parts)
    BY <2>3, SplitHolds
  <2>5. g[n + 1] = g[n] \o parts
    BY <2>2
  <2> HIDE DEF parts
  <2>6. /\ IsLists(g[n + 1]) /\ Range(g[n + 1]) = Range(g[n]) \union Range(parts)
        /\ \A f : Holds(g[n + 1], f) <=> Holds(g[n], f) \/ Holds(parts, f)
    BY <2>1, <2>4, <2>5, JoinedLists
  <2>7. \A i : i \in 1 .. (n + 1) <=> i \in 1 .. n \/ i = n + 1
    BY <1>2
  <2>8. \A f : Among(n + 1, f) <=> Among(n, f) \/ f \in Range(B[n + 1])
    BY <2>7
  <2> HIDE DEF Among
  <2>9. \A f : Holds(g[n + 1], f) <=> Among(n + 1, f)
    BY <2>1, <2>4, <2>6, <2>8
  <2>10. \A x \in Range(g[n + 1]) : \E y \in Range(B) : y # <<>> /\ Len(x) <= Len(y)
    BY <2>1, <2>2, <2>4, <2>6
  <2>11. size = 0 => \A i \in 1 .. (n + 1) : B[i] # <<>> => B[i] \in Range(g[n + 1])
    BY <2>1, <2>4, <2>6, <2>7
  <2> QED
    BY <2>2, <2>6, <2>9, <2>10, <2>11
<1>6. Len(B) \in S
  <2> HIDE DEF S
  <2>1. \A n \in 0 .. Len(B) : n \in S
    BY <1>2, <1>4, <1>5, UpTo
  <2> QED
    BY <1>2, <2>1
<1>7. \A f : Holds(shards, f) <=> f \in Range(files) /\ f.path \notin excluded
  BY <1>1, <1>2, <1>3, <1>6 DEF SplitInto, Holds
<1>8. size = 0 => \A y \in Range(B) : y # <<>> => y \in Range(shards)
  BY <1>2, <1>3, <1>6 DEF SplitInto, Range
<1>9. IsLists(shards) /\ \A x \in Range(shards) : \E y \in Range(B) : y # <<>> /\ Len(x) <= Len(y)
  BY <1>3, <1>6 DEF SplitInto
<1> QED
  BY <1>2, <1>7, <1>8, <1>9 DEF B, shards

\* A plan has shards and a size.
LEMMA PlanIsSized ==
  ASSUME NEW files
  PROVE  Plan(files).shards \in Nat \ {0} /\ Plan(files).size \in Nat \ {0}
<1> DEFINE fits(t) == Len(Inspectable(files)) >= t.files \/ Cardinality(RiskyPaths(files)) >= t.risky
           fitting == {i \in DOMAIN Tiers : fits(Tiers[i])} \union {Len(Tiers)}
<1>1. Plan(files) = Tiers[Min(fitting)]
  BY DEF Plan
<1>2. DOMAIN Tiers = 1 .. Len(Tiers) /\ Len(Tiers) \in Nat \ {0}
  BY ScanAssumption
<1> HIDE DEF fits
<1>3. fitting \in SUBSET Nat /\ fitting # {} /\ fitting \subseteq DOMAIN Tiers
  BY <1>2
<1> HIDE DEF fitting
<1>4. Min(fitting) \in DOMAIN Tiers
  BY <1>3, Least
<1> QED
  BY <1>1, <1>4, ScanAssumption

\* A listing is a list.
LEMMA ListedIsList ==
  ASSUME NEW repo \in Repos
  PROVE  IsList(Listed(repo)) /\ Range(Listed(repo)) \subseteq ToSet(repo)
<1> DEFINE n == Len(repo)
           m == Min({n, MaxFiles})
<1>1. n \in Nat /\ DOMAIN repo = 1 .. n /\ repo = [i \in 1 .. n |-> repo[i]]
  <2>1. PICK X : repo \in Seq(X)
    BY ScanAssumption
  <2> QED
    BY <2>1
<1> HIDE DEF n
<1>2. IsList(repo) /\ Len(repo) = n
  BY <1>1, FunctionList
<1>3. m \in Nat /\ m <= n
  BY <1>1, LesserOf, ScanAssumption
<1>4. Listed(repo) = SubSeq(repo, 1, m)
  BY <1>2 DEF Listed
<1> HIDE DEF m
<1>5. 1 \in Nat \ {0} /\ 1 - 1 <= m
  BY <1>3
<1>6. IsList(Listed(repo)) /\ Range(Listed(repo)) = {repo[i] : i \in 1 .. m}
  BY <1>2, <1>3, <1>4, <1>5, PartKeeps
<1> QED
  BY <1>1, <1>3, <1>6 DEF ToSet

\* The jobs and the engine scan the same files, those the prepass did not exclude, and no
\* shard of the engine is longer than every shard of the jobs.
ShardsOf(repo) == JobShards(Listed(repo), Excluded(Sampled(Listed(repo))))

LEMMA SameFilesScanned ==
  ASSUME NEW repo \in Repos
  PROVE  LET files == Listed(repo)
             scanned(f) == f \in Range(files) /\ f.path \notin Excluded(Sampled(files))
         IN /\ IsLists(ShardsOf(repo)) /\ IsLists(EngineShards(files))
            /\ \A f : Holds(ShardsOf(repo), f) <=> scanned(f)
            /\ \A f : Holds(EngineShards(files), f) <=> scanned(f)
            /\ \A x \in Range(EngineShards(files)) :
                 \E y \in Range(ShardsOf(repo)) : Len(x) <= Len(y)
<1> DEFINE files == Listed(repo)
           count == Plan(files).shards
           size == Min({Plan(files).size, MaxShardFiles})
           out == Excluded(Sampled(files))
           jobs == ShardsOf(repo)
<1>1. IsList(files) /\ count \in Nat \ {0}
  BY ListedIsList, PlanIsSized
<1>2. size \in Nat
  BY PlanIsSized, LesserOf, ScanAssumption
<1>3. jobs = BuildShards(files, count, 0, out)
      /\ EngineShards(files) = BuildShards(files, count, size, out)
  BY DEF ShardsOf, JobShards, EngineShards
<1> HIDE DEF files, count, size, out, jobs
<1>4. /\ IsLists(jobs)
      /\ \A f : Holds(jobs, f) <=> f \in Range(files) /\ f.path \notin out
      /\ \A y \in Range(Buckets(files, count, out)) : y # <<>> => y \in Range(jobs)
  BY <1>1, <1>3, ShardsHold
<1>5. /\ IsLists(EngineShards(files))
      /\ \A f : Holds(EngineShards(files), f) <=> f \in Range(files) /\ f.path \notin out
      /\ \A x \in Range(EngineShards(files)) :
           \E y \in Range(Buckets(files, count, out)) : y # <<>> /\ Len(x) <= Len(y)
  BY <1>1, <1>2, <1>3, ShardsHold
<1> QED
  BY <1>4, <1>5 DEF files, out, jobs

-----------------------------------------------------------------------------
(* Analysis *)

\* All of a shard is analyzed that is not too long.
LEMMA WholeShardAnalyzed ==
  ASSUME NEW shards, IsLists(shards), NEW x \in Range(shards), Len(x) <= MaxAnalyzed
  PROVE  AnalyzeShard(x) = UNION {AnalyzeFile(f) : f \in Range(x)}
<1> DEFINE m == Min({Len(x), MaxAnalyzed})
<1>1. IsList(x) /\ Len(x) \in Nat /\ DOMAIN x = 1 .. Len(x)
  BY ListsInRange, ListFacts
<1>2. m = Len(x)
  <2>1. MaxAnalyzed \in Nat
    BY ScanAssumption
  <2> QED
    BY <1>1, <2>1, LesserOf
<1> HIDE DEF m
<1>3. Analyzed(x) = SubSeq(x, 1, Len(x))
  BY <1>2 DEF Analyzed, m
<1>4. Range(Analyzed(x)) = {x[i] : i \in 1 .. Len(x)}
  <2>1. 1 \in Nat \ {0} /\ 1 - 1 <= Len(x) /\ Len(x) <= Len(x)
    BY <1>1
  <2> QED
    BY <1>1, <1>3, <2>1, PartKeeps
<1>5. ToSet(Analyzed(x)) = Range(x)
  BY <1>1, <1>4 DEF ToSet, Range
<1> QED
  BY <1>5 DEF AnalyzeShard, AnalyzeTexts

\* What the shards of a scan hold decides what the analysis finds.
LEMMA FoundInShards ==
  ASSUME NEW shards, IsLists(shards), \A x \in Range(shards) : Len(x) <= MaxAnalyzed
  PROVE  \A h : h \in UNION {AnalyzeShard(x) : x \in Range(shards)}
                  <=> \E f : Holds(shards, f) /\ h \in AnalyzeFile(f)
<1>1. \A x \in Range(shards) : \A h : h \in AnalyzeShard(x) <=> \E f \in Range(x) : h \in AnalyzeFile(f)
  BY WholeShardAnalyzed
<1>2. \A f : Holds(shards, f) <=> \E x \in Range(shards) : f \in Range(x)
  BY ListsInRange
<1> QED
  BY <1>1, <1>2

\* The engine's scan, shard by shard.
NothingScanned == [used |-> 0, raw |-> {}, truncated |-> FALSE]
Scans(g, shards) ==
  /\ g[0] = NothingScanned
  /\ \A n \in 0 .. (Len(shards) - 1) : g[n + 1] = Scan(g[n], shards[n + 1])

LEMMA ReportUnfolds ==
  ASSUME NEW repo, NEW files, files = Listed(repo),
         NEW shards, IsList(shards), shards = EngineShards(files)
  PROVE  \E g : /\ Scans(g, shards)
                /\ Report(repo).status = IF g[Len(shards)].truncated THEN "partial" ELSE "complete"
                /\ Report(repo).findings =
                     Reproducible(files, Synthesize(g[Len(shards)].raw) \union Followups(files))
<1> DEFINE N == Len(shards)
           zero == NothingScanned
           Loop(g, m) == g = [n \in 0 .. m |-> IF n = 0 THEN zero ELSE Scan(g[n - 1], shards[n])]
           S == {m \in 0 .. N : \E g : Loop(g, m)}
           all == CHOOSE g : Loop(g, N)
<1>0. N \in Nat
  BY ListFacts
<1>5. /\ Report(repo).status = IF all[N].truncated THEN "partial" ELSE "complete"
      /\ Report(repo).findings = Reproducible(files, Synthesize(all[N].raw) \union Followups(files))
  BY DEF Report, NothingScanned
<1> HIDE DEF zero
<1>1. 0 \in S
  <2> DEFINE g == [n \in 0 .. 0 |-> zero]
  <2>1. \E f : Loop(f, 0)
    <3>1. Loop(g, 0)
      OBVIOUS
    <3> HIDE DEF Loop, g
    <3> QED
      BY <3>1
  <2>2. 0 \in 0 .. N
    BY <1>0
  <2> HIDE DEF Loop, g
  <2> QED
    BY <2>1, <2>2
<1>2. ASSUME NEW m \in 0 .. (N - 1), m \in S PROVE m + 1 \in S
  <2>1. PICK g : Loop(g, m)
    BY <1>2
  <2> HIDE DEF N
  <2> DEFINE h == [n \in 0 .. (m + 1) |-> IF n = 0 THEN zero ELSE Scan(g[n - 1], shards[n])]
  <2>2. \A n \in 0 .. m : h[n] = g[n]
    BY <2>1
  <2>3. \A n \in 0 .. (m + 1) : n # 0 => h[n - 1] = g[n - 1]
    <3>1. \A n \in 0 .. (m + 1) : n # 0 => n - 1 \in 0 .. m
      BY <1>0, <1>2
    <3> HIDE DEF h
    <3> QED
      BY <2>2, <3>1
  <2>4. h = [n \in 0 .. (m + 1) |-> IF n = 0 THEN zero ELSE Scan(h[n - 1], shards[n])]
    BY <2>3
  <2>5. m + 1 \in 0 .. N
    BY <1>0, <1>2
  <2> QED
    BY <2>4, <2>5
<1>3. \E g : Loop(g, N)
  <2>1. \A n \in 0 .. N : n \in S
    <3> HIDE DEF S, N
    <3> QED
      BY <1>0, <1>1, <1>2, UpTo
  <2>2. N \in 0 .. N
    BY <1>0
  <2>3. N \in S
    <3> HIDE DEF S, N
    <3> QED
      BY <2>1, <2>2
  <2> HIDE DEF Loop, N
  <2> QED
    BY <2>3
<1>4. Loop(all, N)
  BY <1>3
<1> HIDE DEF N, all
<1>6. \A n \in 0 .. N : all[n] = IF n = 0 THEN zero ELSE Scan(all[n - 1], shards[n])
  BY <1>4
<1> HIDE DEF Loop
<1>7. all[0] = zero
  BY <1>0, <1>6
<1>8. ASSUME NEW n \in 0 .. (N - 1) PROVE all[n + 1] = Scan(all[n], shards[n + 1])
  <2>1. n + 1 \in 0 .. N /\ n + 1 # 0 /\ (n + 1) - 1 = n
    BY <1>0
  <2> QED
    BY <1>6, <2>1
<1>9. Scans(all, shards)
  BY <1>7, <1>8 DEF N, Scans, zero
<1> QED
  BY <1>5, <1>9 DEF N

\* A scan that left nothing out found what each shard has.
LEMMA ScanFinds ==
  ASSUME NEW shards, IsList(shards), NEW g, Scans(g, shards), ~g[Len(shards)].truncated
  PROVE  g[Len(shards)].raw = UNION {AnalyzeShard(x) : x \in Range(shards)}
<1> DEFINE gathered(n) == UNION {AnalyzeShard(shards[i]) : i \in 1 .. n}
           Record(r) == r = [used |-> r.used, raw |-> r.raw, truncated |-> r.truncated]
           Decided(n) == g[n].truncated \in {TRUE, FALSE}
           Found(n) == g[n].truncated = FALSE => g[n].raw = gathered(n)
           S == {n \in 0 .. Len(shards) : Record(g[n]) /\ Decided(n) /\ Found(n)}
<1>1. Len(shards) \in Nat /\ DOMAIN shards = 1 .. Len(shards)
  BY ListFacts
<1>2. 0 \in S
  <2>1. g[0] = NothingScanned /\ 0 \in 0 .. Len(shards)
    BY <1>1 DEF Scans
  <2>2. gathered(0) = {}
    OBVIOUS
  <2> HIDE DEF gathered
  <2>3. Record(g[0]) /\ Decided(0)
    BY <2>1 DEF NothingScanned
  <2>4. Found(0)
    BY <2>1, <2>2 DEF NothingScanned
  <2> HIDE DEF Record, Decided, Found
  <2> QED
    BY <2>1, <2>3, <2>4
<1>3. ASSUME NEW n \in 0 .. (Len(shards) - 1), n \in S PROVE n + 1 \in S
  <2>1. Record(g[n]) /\ Decided(n) /\ Found(n)
    BY <1>3
  <2>2. g[n + 1] = Scan(g[n], shards[n + 1]) /\ n + 1 \in 0 .. Len(shards)
    BY <1>1 DEF Scans
  <2>3. gathered(n + 1) = gathered(n) \union AnalyzeShard(shards[n + 1])
    <3>1. \A i : i \in 1 .. (n + 1) <=> i \in 1 .. n \/ i = n + 1
      BY <1>1
    <3> QED
      BY <3>1
  <2> HIDE DEF gathered
  <2>4. CASE g[n].used + ShardTokens(Len(shards[n + 1])) > EngineCap
    <3>1. g[n + 1] = [used |-> g[n].used, raw |-> g[n].raw, truncated |-> TRUE]
      BY <2>1, <2>2, <2>4 DEF Scan
    <3>2. Record(g[n + 1]) /\ Decided(n + 1) /\ Found(n + 1)
      BY <3>1
    <3> HIDE DEF Record, Decided, Found
    <3> QED
      BY <2>2, <3>2
  <2>5. CASE ~(g[n].used + ShardTokens(Len(shards[n + 1])) > EngineCap)
    <3>1. g[n + 1] = [used |-> g[n].used + ShardTokens(Len(Analyzed(shards[n + 1]))),
                      raw |-> g[n].raw \union AnalyzeShard(shards[n + 1]),
                      truncated |-> g[n].truncated]
      BY <2>1, <2>2, <2>5 DEF Scan
    <3>2. Record(g[n + 1])
      BY <3>1
    <3>3. Found(n + 1)
      <4>1. g[n + 1].truncated = g[n].truncated
            /\ g[n + 1].raw = g[n].raw \union AnalyzeShard(shards[n + 1])
        BY <3>1
      <4> QED
        BY <2>1, <2>3, <4>1
    <3>4. Decided(n + 1)
      <4>1. g[n + 1].truncated = g[n].truncated
        BY <3>1
      <4> QED
        BY <2>1, <4>1
    <3> HIDE DEF Record, Decided, Found
    <3> QED
      BY <2>2, <3>2, <3>3, <3>4
  <2> QED
    BY <2>4, <2>5
<1>4. Len(shards) \in S
  <2> HIDE DEF S
  <2>1. \A n \in 0 .. Len(shards) : n \in S
    BY <1>1, <1>2, <1>3, UpTo
  <2> QED
    BY <1>1, <2>1
<1>5. g[Len(shards)].raw = gathered(Len(shards))
  <2>1. Decided(Len(shards)) /\ Found(Len(shards))
    BY <1>4
  <2>2. g[Len(shards)].truncated = FALSE
    BY <2>1
  <2> QED
    BY <2>1, <2>2
<1> QED
  BY <1>1, <1>5 DEF Range

\* A finding of a file is about that file, which could be read, and is no follow-up.
LEMMA FoundInFile ==
  ASSUME NEW f, NEW h \in AnalyzeFile(f)
  PROVE  h.path = f.path /\ ~Is(f, "unreadable") /\ h.rule # "injection"
<1>1. ~Is(f, "unreadable")
  BY DEF AnalyzeFile
<1>2. PICK r \in Rules : h = [path |-> f.path, rule |-> r.id, severity |-> r.severity,
                              confident |-> r.confident]
  BY DEF AnalyzeFile
<1> QED
  BY <1>1, <1>2, ScanAssumption

\* The two scans find the same, if neither leaves files out.
LEMMA SameFindings ==
  ASSUME NEW repo \in Repos, Report(repo).status = "complete",
         \A x \in Range(ShardsOf(repo)) : Len(x) <= MaxAnalyzed
  PROVE  UNION {Synthesize(AnalyzeShard(x)) : x \in Range(ShardsOf(repo))}
           = {h \in Report(repo).findings : h.rule # "injection"}
<1> DEFINE files == Listed(repo)
           jobs == ShardsOf(repo)
           shards == EngineShards(files)
           held == UNION {Synthesize(AnalyzeShard(x)) : x \in Range(jobs)}
<1> HIDE DEF files
<1>1. /\ IsLists(jobs) /\ IsLists(shards)
      /\ \A f : Holds(jobs, f) <=> f \in Range(files) /\ f.path \notin Excluded(Sampled(files))
      /\ \A f : Holds(shards, f) <=> f \in Range(files) /\ f.path \notin Excluded(Sampled(files))
      /\ \A x \in Range(shards) : \E y \in Range(jobs) : Len(x) <= Len(y)
  BY SameFilesScanned DEF files
<1>2. \A y \in Range(jobs) : Len(y) <= MaxAnalyzed
  BY DEF files
<1> HIDE DEF jobs, shards
<1>3. \A x \in Range(shards) : Len(x) <= MaxAnalyzed
  <2>1. ASSUME NEW x \in Range(shards), NEW y \in Range(jobs), Len(x) <= Len(y)
        PROVE  Len(x) <= MaxAnalyzed
    <3>1. IsList(x) /\ IsList(y)
      BY <1>1, ListsInRange
    <3>2. Len(x) \in Nat /\ Len(y) \in Nat
      BY <3>1, ListFacts
    <3>3. Len(y) <= MaxAnalyzed /\ MaxAnalyzed \in Nat
      BY <1>2, ScanAssumption
    <3> QED
      BY <2>1, <3>2, <3>3
  <2> QED
    BY <1>1, <2>1
<1>4. PICK g : /\ Scans(g, shards)
               /\ Report(repo).status = IF g[Len(shards)].truncated THEN "partial" ELSE "complete"
               /\ Report(repo).findings =
                    Reproducible(files, Synthesize(g[Len(shards)].raw) \union Followups(files))
  <2>1. files = Listed(repo) /\ shards = EngineShards(files) /\ IsList(shards)
    BY <1>1 DEF files, shards, IsLists
  <2> QED
    BY <2>1, ReportUnfolds
<1> DEFINE raw == g[Len(shards)].raw
<1>5. raw = UNION {AnalyzeShard(x) : x \in Range(shards)}
  <2>1. ~g[Len(shards)].truncated
    BY <1>4
  <2> QED
    BY <1>1, <1>4, <2>1, ScanFinds DEF IsLists
<1> HIDE DEF raw
<1>6. \A h : h \in raw <=> \E f : Holds(shards, f) /\ h \in AnalyzeFile(f)
  BY <1>1, <1>3, <1>5, FoundInShards
<1>7. \A h : h \in UNION {AnalyzeShard(x) : x \in Range(jobs)}
               <=> \E f : Holds(jobs, f) /\ h \in AnalyzeFile(f)
  BY <1>1, <1>2, FoundInShards
<1>8. \A h : h \in held <=> h \in raw /\ IsCritical(h)
  <2>1. \A h : h \in held <=> h \in UNION {AnalyzeShard(x) : x \in Range(jobs)} /\ IsCritical(h)
    BY DEF Synthesize
  <2> HIDE DEF held
  <2> QED
    BY <1>1, <1>6, <1>7, <2>1
<1>9. Report(repo).findings = Reproducible(files, Synthesize(raw) \union Followups(files))
  BY <1>4 DEF raw
<1> HIDE DEF held
<1>10. \A h \in Followups(files) : h.rule = "injection"
  BY DEF Followups
<1>11. ASSUME NEW h \in Synthesize(raw)
       PROVE  h.rule # "injection" /\ h \in Report(repo).findings
  <2>1. PICK f : Holds(shards, f) /\ h \in AnalyzeFile(f)
    BY <1>6, <1>11 DEF Synthesize
  <2>2. f \in ToSet(files)
    BY <1>1, <2>1 DEF Range, ToSet
  <2>3. h.path = f.path /\ ~Is(f, "unreadable") /\ h.rule # "injection"
    BY <2>1, FoundInFile
  <2> QED
    BY <1>9, <2>2, <2>3 DEF Reproducible
<1>12. \A h \in Report(repo).findings : h \in Synthesize(raw) \/ h \in Followups(files)
  BY <1>9 DEF Reproducible
<1>13. \A h : h \in Synthesize(raw) <=> h \in raw /\ IsCritical(h)
  BY DEF Synthesize
<1>14. \A h : h \in held <=> h \in Report(repo).findings /\ h.rule # "injection"
  BY <1>8, <1>10, <1>11, <1>12, <1>13
<1>15. held = {h \in Report(repo).findings : h.rule # "injection"}
  BY <1>14
<1> QED
  BY <1>15 DEF held, jobs, files

-----------------------------------------------------------------------------
(* Reading the branch *)

\* What a job reads is a text of a tree the branch had, or none.
LEMMA TextsRead ==
    ASSUME NEW files, NEW heads, NEW failed, NEW texts \in Fetches(files, heads, failed)
    PROVE  \A g \in texts : /\ \E f \in files : g.path = f.path
                            /\ Is(g, "unreadable") \/ \E repo \in heads : g \in ToSet(repo)
  <1>1. ASSUME NEW f
        PROVE  /\ Blank(f).path = f.path /\ Is(Blank(f), "unreadable")
               /\ \A g \in Texts(f, heads) : /\ g.path = f.path
                                            /\ \/ Is(g, "unreadable")
                                               \/ \E repo \in heads : g \in ToSet(repo)
    BY DEF Blank, Texts, Is
  <1>2. QED
    BY <1>1 DEF Fetches

LEMMA FoundIsTyped ==
    ASSUME NEW files, NEW heads \in SUBSET Repos, NEW failed,
           NEW texts \in Fetches(files, heads, failed)
    PROVE  Synthesize(AnalyzeTexts(texts)) \in SUBSET Findable
  <1>1. \A g : Is(g, "unreadable") => AnalyzeFile(g) = {}
    BY DEF AnalyzeFile
  <1>2. \A g \in texts : Is(g, "unreadable") \/ \E repo \in Repos : g \in ToSet(repo)
    BY TextsRead
  <1>3. ASSUME NEW g \in texts PROVE AnalyzeFile(g) \subseteq Findable
    <2>1. CASE g \in UNION {ToSet(repo) : repo \in Repos}
      <3>1. AnalyzeFile(g) \in {AnalyzeFile(f) : f \in UNION {ToSet(repo) : repo \in Repos}}
        BY <2>1
      <3>2. QED
        BY <3>1 DEF Findable
    <2>2. QED
      BY <1>1, <1>2, <2>1
  <1>4. QED
    BY <1>3 DEF Synthesize, AnalyzeTexts

\* The prepass keeps out only files of the listing.
LEMMA ExcludedPaths ==
    ASSUME NEW repo \in Repos, NEW heads, NEW failed,
           NEW samples \in Fetches(Sampled(Listed(repo)), heads, failed)
    PROVE  Excluded(samples) \in SUBSET Paths(repo)
  <1>1. \A f \in Sampled(Listed(repo)) : f \in ToSet(repo)
    BY ListedIsList DEF Sampled, ToSet, Range
  <1>2. \A g \in samples : g.path \in Paths(repo)
    BY <1>1, TextsRead DEF ToSet, Paths
  <1>3. QED
    BY <1>2 DEF Excluded, Flagged

\* While the branch rests and no read fails, what is read is what is there.
LEMMA AllIsRead ==
    ASSUME NEW repo \in Repos, NEW files \in SUBSET ToSet(repo),
           NEW texts \in Fetches(files, {repo}, {})
    PROVE  texts = files
  <1>1. ASSUME NEW f \in files PROVE Texts(f, {repo}) = {f}
    <2>1. \A g \in ToSet(repo) : g.path = f.path => g = f
      BY ScanAssumption DEF ToSet
    <2>2. f \in ToSet(repo) /\ f.path \in Paths(repo)
      BY DEF ToSet, Paths
    <2>3. QED
      BY <2>1, <2>2 DEF Texts
  <1>2. PICK g : texts = {g[f] : f \in files} /\ \A f \in files : g[f] \in Texts(f, {repo})
    BY DEF Fetches
  <1>3. \A f \in files : g[f] = f
    BY <1>1, <1>2
  <1>4. QED
    BY <1>2, <1>3

\* A shard's files are files of the tree.
LEMMA ShardFiles ==
    ASSUME NEW repo \in Repos, NEW x \in Range(ShardsOf(repo))
    PROVE  ToSet(Analyzed(x)) \in SUBSET ToSet(repo)
  <1> DEFINE m == Min({Len(x), MaxAnalyzed})
  <1>1. IsList(x) /\ \A f \in Range(x) : f \in ToSet(repo)
    BY SameFilesScanned, ListsInRange, ListedIsList
  <1>2. Len(x) \in Nat /\ DOMAIN x = 1 .. Len(x) /\ MaxAnalyzed \in Nat
    BY <1>1, ListFacts, ScanAssumption
  <1>3. m \in Nat /\ m <= Len(x)
    BY <1>2, LesserOf
  <1>4. Analyzed(x) = SubSeq(x, 1, m)
    BY DEF Analyzed
  <1> HIDE DEF m
  <1>5. Range(SubSeq(x, 1, m)) = {x[i] : i \in 1 .. m}
    <2>1. 1 \in Nat \ {0} /\ 1 - 1 <= m
      BY <1>3
    <2>2. QED
      BY <1>1, <1>3, <2>1, PartKeeps
  <1>6. \A f \in Range(SubSeq(x, 1, m)) : f \in Range(x)
    BY <1>2, <1>3, <1>5 DEF Range
  <1>7. QED
    BY <1>1, <1>4, <1>6 DEF ToSet, Range

-----------------------------------------------------------------------------
(* What a step makes of the jobs. *)

Others(j, jobs) == \A k \in Jobs \ {j} : jobs[k] = job[k]

\* A job is enqueued into a free slot.
LEMMA EnqueuedSlot ==
    ASSUME NEW jobs, NEW kind, NEW row, NEW new \in Enqueued(jobs, kind, row)
    PROVE  \E k \in Jobs : jobs[k] = NoJob /\ new = [jobs EXCEPT ![k] = QueuedJob(kind, row, 0)]
  <1> DEFINE free == {k \in Jobs : jobs[k] = NoJob}
  <1>1. free # {} /\ new = [jobs EXCEPT ![CHOOSE k \in free : TRUE] = QueuedJob(kind, row, 0)]
    BY DEF Enqueued
  <1>2. (CHOOSE k \in free : TRUE) \in free
    BY <1>1
  <1> HIDE DEF free
  <1>3. QED
    BY <1>1, <1>2 DEF free

WorkStages == {"scan", "enqueue", "check", "analyze", "count", "merge", "end"}
JobsOK == job \in [Jobs -> JobRecord \cup {NoJob}]

LEMMA QueuedJobType ==
    ASSUME NEW kind \in {"prepass", "shard", "synthesize"}, NEW row \in Rows \cup {NoRow},
           NEW tries \in 0 .. MaxTries
    PROVE  LET queued == QueuedJob(kind, row, tries) IN
           /\ queued \in JobRecord
           /\ queued.stage = "queued" /\ queued.kind = kind /\ queued.row = row
           /\ queued.tries = tries /\ queued.todo = {}
  BY DEF QueuedJob, NoJob, JobRecord, ShardStatuses

\* A step of job j within its work changes its stage, the tries when it begins, and
\* nothing of other jobs.
LEMMA JobMoves ==
    ASSUME JobsOK, NEW j \in Jobs, job[j].stage # "absent"
    PROVE  /\ job[j] \in JobRecord
           /\ \A stage \in WorkStages :
                LET moved == Goto(j, stage) IN
                /\ moved \in [Jobs -> JobRecord \cup {NoJob}] /\ Others(j, moved)
                /\ moved[j].stage = stage /\ moved[j].kind = job[j].kind
                /\ moved[j].row = job[j].row /\ moved[j].tries = job[j].tries
                /\ moved[j].todo = job[j].todo
           /\ job[j].tries < MaxTries => \A stage \in WorkStages, heads \in SUBSET Repos :
                LET moved == Begin(j, stage, heads) IN
                /\ moved \in [Jobs -> JobRecord \cup {NoJob}] /\ Others(j, moved)
                /\ moved[j].stage = stage /\ moved[j].heads = heads
                /\ moved[j].kind = job[j].kind
                /\ moved[j].row = job[j].row /\ moved[j].tries = job[j].tries + 1
           /\ Ended(j) \in [Jobs -> JobRecord \cup {NoJob}] /\ Others(j, Ended(j))
           /\ Ended(j)[j] = NoJob
           /\ LET moved == Requeued(j) IN
                /\ moved \in [Jobs -> JobRecord \cup {NoJob}] /\ Others(j, moved)
                /\ moved[j].stage = "queued" /\ moved[j].kind = job[j].kind
                /\ moved[j].row = job[j].row /\ moved[j].tries = job[j].tries
  <1>1. job[j] \in JobRecord
    BY DEF NoJob, JobsOK
  <1>2. \A stage \in WorkStages :
          /\ Goto(j, stage) = [job EXCEPT ![j] = [job[j] EXCEPT !.stage = stage]]
          /\ [job[j] EXCEPT !.stage = stage] \in JobRecord
    BY <1>1 DEF Goto, WorkStages, JobRecord
  <1>3. ASSUME job[j].tries < MaxTries, NEW stage \in WorkStages,
               NEW heads \in SUBSET Repos
        PROVE  LET r == [job[j] EXCEPT !.stage = stage, !.tries = @ + 1, !.heads = heads] IN
               Begin(j, stage, heads) = [job EXCEPT ![j] = r] /\ r \in JobRecord
    <2>1. job[j].tries + 1 \in 0 .. MaxTries
      BY <1>1, <1>3, ConstantsAssumption DEF JobRecord
    <2>2. [job[j] EXCEPT !.stage = stage, !.tries = @ + 1, !.heads = heads] \in JobRecord
      BY <1>1, <2>1 DEF WorkStages, JobRecord
    <2>3. QED
      BY <2>2 DEF Begin
  <1>4. /\ QueuedJob(job[j].kind, job[j].row, job[j].tries) \in JobRecord
        /\ LET r == QueuedJob(job[j].kind, job[j].row, job[j].tries) IN
             /\ r.stage = "queued" /\ r.kind = job[j].kind
             /\ r.row = job[j].row /\ r.tries = job[j].tries
    BY <1>1, QueuedJobType DEF JobRecord
  <1>5. ASSUME NEW stage \in WorkStages
        PROVE  LET moved == Goto(j, stage) IN
               /\ moved \in [Jobs -> JobRecord \cup {NoJob}] /\ Others(j, moved)
               /\ moved[j].stage = stage /\ moved[j].kind = job[j].kind
               /\ moved[j].row = job[j].row /\ moved[j].tries = job[j].tries
               /\ moved[j].todo = job[j].todo
    <2>1. LET r == [job[j] EXCEPT !.stage = stage] IN
          /\ r.stage = stage /\ r.kind = job[j].kind /\ r.row = job[j].row
          /\ r.tries = job[j].tries /\ r.todo = job[j].todo
      BY <1>1 DEF JobRecord
    <2>2. QED
      BY <1>2, <2>1 DEF JobsOK, Others
  <1>6. ASSUME job[j].tries < MaxTries, NEW stage \in WorkStages, NEW heads \in SUBSET Repos
        PROVE  LET moved == Begin(j, stage, heads) IN
               /\ moved \in [Jobs -> JobRecord \cup {NoJob}] /\ Others(j, moved)
               /\ moved[j].stage = stage /\ moved[j].heads = heads /\ moved[j].kind = job[j].kind
               /\ moved[j].row = job[j].row /\ moved[j].tries = job[j].tries + 1
    <2> DEFINE r == [job[j] EXCEPT !.stage = stage, !.tries = @ + 1, !.heads = heads]
    <2>1. /\ r.stage = stage /\ r.heads = heads /\ r.kind = job[j].kind /\ r.row = job[j].row
          /\ r.tries = job[j].tries + 1
      BY <1>1 DEF JobRecord
    <2>2. Begin(j, stage, heads) = [job EXCEPT ![j] = r] /\ r \in JobRecord
      BY <1>3, <1>6
    <2> HIDE DEF r
    <2>3. QED
      BY <2>1, <2>2 DEF JobsOK, Others
  <1>7. /\ Ended(j) \in [Jobs -> JobRecord \cup {NoJob}] /\ Others(j, Ended(j))
        /\ Ended(j)[j] = NoJob
    BY DEF JobsOK, Others, Ended
  <1>8. LET moved == Requeued(j) IN
        /\ moved \in [Jobs -> JobRecord \cup {NoJob}] /\ Others(j, moved)
        /\ moved[j].stage = "queued" /\ moved[j].kind = job[j].kind
        /\ moved[j].row = job[j].row /\ moved[j].tries = job[j].tries
    BY <1>4 DEF JobsOK, Others, Requeued
  <1>9. QED
    BY <1>1, <1>5, <1>6, <1>7, <1>8

-----------------------------------------------------------------------------
(* Under any faults there is one prepass job, and shards only of its tries. *)

NoneBegun == (\A j \in Jobs : job[j] = NoJob) /\ Inserted = {}
Beginning ==
    /\ eval = "none" => api = "idle" /\ NoneBegun
    /\ api = "enqueue" => eval = "queued" /\ NoneBegun

TriesLeft == \A j \in Jobs : job[j].stage = "queued" => job[j].tries < MaxTries

Prepass(j) == job[j].kind = "prepass"
OnePrepass ==
    \A j \in Jobs : Prepass(j) =>
      /\ \A k \in Jobs : Prepass(k) => k = j
      /\ job[j].stage # "queued" => job[j].tries > 0
      /\ \A r \in Inserted : /\ r[2] <= job[j].tries
                             /\ job[j].stage = "scan" => r[2] < job[j].tries

ShardRows == \A j \in Jobs : job[j].kind = "shard" => job[j].row \in Inserted

StoredOK == persisted \in [Rows -> Nat] /\ found \in [Rows -> SUBSET Findable]

BaseInv == TypeOK /\ Beginning /\ TriesLeft /\ OnePrepass /\ ShardRows

LEMMA InitBase == Init => BaseInv
  <1> SUFFICES ASSUME Init PROVE BaseInv
    OBVIOUS
  <1>1. Inserted = {} /\ \A j \in Jobs : job[j].kind = "none" /\ job[j].stage = "absent"
    BY DEF Init, Inserted, NoJob
  <1>2. TypeOK
    BY <1>1, ConstantsAssumption DEF Init, TypeOK, EvalStatuses, ShardStatuses, Mishaps
  <1>3. QED
    BY <1>1, <1>2 DEF Init, BaseInv, Beginning, NoneBegun, TriesLeft, OnePrepass, Prepass,
                     ShardRows

\* A step that inserts no shard and plans none keeps the rows as they are.
LEMMA RowsKept ==
    ASSUME TypeOK, UNCHANGED plan, shard' \in [Rows -> ShardStatuses],
           \A r \in Rows : shard'[r] # "none" <=> shard[r] # "none"
    PROVE  Inserted' = Inserted /\ (\A r \in Inserted : r[1] \in DOMAIN plan[r[2]])'
  BY DEF TypeOK, Inserted

\* A push changes nothing of a job but what it may read.
SameBut(j) ==
    /\ job'[j].stage = job[j].stage /\ job'[j].kind = job[j].kind /\ job'[j].row = job[j].row
    /\ job'[j].tries = job[j].tries /\ job'[j].todo = job[j].todo /\ job'[j].read = job[j].read
    /\ job[j] = NoJob => job'[j] = NoJob

LEMMA PushedJobs ==
    ASSUME JobsOK, Push
    PROVE  JobsOK' /\ \A j \in Jobs : SameBut(j)
  <1>1. ASSUME NEW j \in Jobs
        PROVE  job'[j] \in JobRecord \cup {NoJob} /\ SameBut(j)
    <2>1. CASE job[j].stage \in Reading
      <3>1. job[j] \in JobRecord /\ job[j] # NoJob
        BY <2>1 DEF JobsOK, NoJob, Reading
      <3>2. job'[j] = [job[j] EXCEPT !.heads = @ \cup {tree'}] /\ {tree'} \in SUBSET Repos
        BY <2>1 DEF Push
      <3>3. QED
        BY <3>1, <3>2 DEF JobRecord, SameBut
    <2>2. CASE job[j].stage \notin Reading
      BY <2>2 DEF Push, JobsOK, SameBut
    <2>3. QED
      BY <2>1, <2>2
  <1>2. job' = [j \in Jobs |-> job'[j]]
    BY DEF Push
  <1>3. QED
    BY <1>1, <1>2 DEF JobsOK

\* What the prepass inserts, whatever it read.
Inserts(j, shards, failed) ==
    /\ plan' = [plan EXCEPT ![job[j].tries] = shards]
    /\ shard' = [r \in Rows |-> IF r[2] = job[j].tries /\ r[1] \in DOMAIN shards
                                THEN "queued" ELSE shard[r]]
    /\ job' = [job EXCEPT ![j].stage = "enqueue", ![j].todo = DOMAIN shards, ![j].heads = {}]
    /\ budget' = budget - Cardinality(failed)
    /\ mishaps' = mishaps \cup Unread(failed) \cup (IF shards = <<>> THEN {"empty"} ELSE {})

LEMMA PlanInserted ==
    ASSUME TypeOK, NEW j \in Jobs, PrepassPersist(j), job[j] \in JobRecord
    PROVE  \E shards \in Plans : \E failed :
             Inserts(j, shards, failed) /\ Cardinality(failed) \in 0 .. budget
  <1>1. \E listed \in {Listed(repo) : repo \in job[j].heads} :
          \E failed \in MayFail(Sampled(listed)) :
            \E samples \in Fetches(Sampled(listed), job[j].heads, failed) :
              Inserts(j, JobShards(listed, Excluded(samples)), failed)
    BY DEF PrepassPersist, ReadsFail, Inserts
  <1>2. PICK repo \in job[j].heads :
          \E failed \in MayFail(Sampled(Listed(repo))) :
            \E samples \in Fetches(Sampled(Listed(repo)), job[j].heads, failed) :
              Inserts(j, JobShards(Listed(repo), Excluded(samples)), failed)
    BY <1>1
  <1>3. repo \in Repos
    BY DEF JobRecord
  <1>4. PICK failed \in MayFail(Sampled(Listed(repo))) :
          \E samples \in Fetches(Sampled(Listed(repo)), job[j].heads, failed) :
            Inserts(j, JobShards(Listed(repo), Excluded(samples)), failed)
    BY <1>2
  <1>5. PICK samples \in Fetches(Sampled(Listed(repo)), job[j].heads, failed) :
          Inserts(j, JobShards(Listed(repo), Excluded(samples)), failed)
    BY <1>4
  <1>6. JobShards(Listed(repo), Excluded(samples)) \in Plans
    <2>1. Excluded(samples) \in SUBSET Paths(repo)
      BY <1>3, ExcludedPaths
    <2>2. QED
      BY <1>3, <2>1 DEF Plans
  <1>7. Cardinality(failed) \in 0 .. budget
    <2>1. budget \in Nat
      BY DEF TypeOK
    <2>2. CASE failed = {}
      BY <2>1, <2>2, FS_EmptySet
    <2>3. CASE failed # {}
      <3>1. Cardinality(failed) \in 1 .. budget
        BY <2>3 DEF MayFail
      <3>2. QED
        BY <2>1, <3>1
    <2>4. QED
      BY <2>2, <2>3
  <1>8. QED
    BY <1>5, <1>6, <1>7

LEMMA CommitKeepsTypes ==
    ASSUME TypeOK, NEW j \in Jobs, ShardCommit(j), job[j] \in JobRecord, job[j].row \in Rows
    PROVE  StoredOK' /\ budget' \in Nat /\ mishaps' \subseteq Mishaps
  <1> DEFINE files == ToSet(Analyzed(FilesOf(job[j].row)))
  <1> HIDE DEF files
  <1>1. PICK failed \in MayFail(files) : \E texts \in Fetches(files, job[j].heads, failed) :
             /\ found' = [found EXCEPT ![job[j].row] = @ \cup Synthesize(AnalyzeTexts(texts))]
             /\ persisted' = [persisted EXCEPT ![job[j].row] = @ + 1]
             /\ ReadsFail(failed)
             /\ mishaps' = mishaps \cup Unread(failed)
    BY DEF ShardCommit, files
  <1>2. \A texts \in Fetches(files, job[j].heads, failed) :
          Synthesize(AnalyzeTexts(texts)) \in SUBSET Findable
    BY FoundIsTyped DEF JobRecord
  <1>3. StoredOK'
    <2>1. PICK more \in SUBSET Findable :
            /\ found' = [found EXCEPT ![job[j].row] = @ \cup more]
            /\ persisted' = [persisted EXCEPT ![job[j].row] = @ + 1]
      BY <1>1, <1>2
    <2>2. found[job[j].row] \cup more \in SUBSET Findable /\ persisted[job[j].row] + 1 \in Nat
      BY DEF TypeOK
    <2>3. QED
      BY <2>1, <2>2 DEF TypeOK, StoredOK
  <1>4. Cardinality(failed) \in 0 .. budget
    <2>1. budget \in Nat
      BY DEF TypeOK
    <2>2. CASE failed = {}
      BY <2>1, <2>2, FS_EmptySet
    <2>3. CASE failed # {}
      <3>1. Cardinality(failed) \in 1 .. budget
        BY <2>3 DEF MayFail
      <3>2. QED
        BY <2>1, <3>1
    <2>4. QED
      BY <2>2, <2>3
  <1>5. budget' = budget - Cardinality(failed)
    BY <1>1 DEF ReadsFail
  <1>6. budget' \in Nat
    BY <1>4, <1>5 DEF TypeOK
  <1>7. mishaps' \subseteq Mishaps
    BY <1>1 DEF TypeOK, Unread, Mishaps
  <1>8. QED
    BY <1>3, <1>6, <1>7

LEMMA BaseStep == BaseInv /\ [Next]_vars => BaseInv'
  <1> SUFFICES ASSUME BaseInv, [Next]_vars PROVE BaseInv'
    OBVIOUS
  <1> USE DEF BaseInv, stored, StoredOK
  <1>0. JobsOK
    BY DEF TypeOK, JobsOK
  \* Steps that leave the jobs and the shards alone.
  <1>1. ASSUME UNCHANGED <<job, shard, plan, stored>>,
               eval' \in EvalStatuses, cap' \in Caps \cup {0}, tree' \in Repos,
               api' \in {"idle", "enqueue", "cancel"}, budget' \in Nat,
               mishaps' \subseteq Mishaps, Beginning'
        PROVE  BaseInv'
    <2>1. Inserted' = Inserted
      BY <1>1 DEF Inserted
    <2>2. TypeOK'
      BY <1>1, <2>1 DEF TypeOK
    <2>3. QED
      BY <1>1, <2>1, <2>2 DEF TriesLeft, OnePrepass, Prepass, ShardRows
  <1>2. CASE Create
    <2>1. Beginning'
      BY <1>2 DEF Create, Beginning, NoneBegun, Inserted
    <2>2. QED
      BY <1>1, <1>2, <2>1, ConstantsAssumption DEF Create, TypeOK, EvalStatuses
  <1>3. CASE Push
    <2>1. /\ UNCHANGED <<eval, cap, plan, shard, persisted, found, api>> /\ tree' \in Repos
          /\ budget' \in Nat /\ mishaps' \subseteq Mishaps /\ eval # "none"
      BY <1>3, ConstantsAssumption DEF Push, TypeOK, Mishaps
    <2>2. JobsOK' /\ \A j \in Jobs : SameBut(j)
      BY <1>0, <1>3, <2>1, PushedJobs
    <2>3. Inserted' = Inserted
      BY <2>1 DEF Inserted
    <2>4. TypeOK'
      BY <2>1, <2>2, <2>3 DEF TypeOK, JobsOK
    <2>5. Beginning'
      BY <2>1, <2>2, <2>3 DEF Beginning, NoneBegun, SameBut
    <2>6. TriesLeft' /\ OnePrepass' /\ ShardRows'
      BY <2>2, <2>3 DEF TriesLeft, OnePrepass, Prepass, ShardRows, SameBut
    <2>7. QED
      BY <2>4, <2>5, <2>6
  <1>4. CASE CancelRead \/ CancelCommit
    <2>1. Beginning'
      BY <1>4 DEF CancelRead, CancelCommit, Beginning, NoneBegun, Inserted
    <2>2. /\ UNCHANGED <<job, shard, plan, stored, cap, tree, mishaps>>
          /\ eval' \in {eval, "canceled"} /\ api' \in {"idle", "cancel"} /\ budget' \in Nat
      BY <1>4 DEF CancelRead, CancelCommit, Spend, TypeOK, scan
    <2>3. eval' \in EvalStatuses /\ cap \in Caps \cup {0} /\ tree \in Repos
      BY <2>2 DEF TypeOK, EvalStatuses, Terminal
    <2>4. mishaps \subseteq Mishaps
      BY DEF TypeOK
    <2>5. QED
      BY <1>1, <2>1, <2>2, <2>3, <2>4
  <1>5. CASE CreateEnqueue
    <2>1. api = "enqueue" /\ NoneBegun /\ eval = "queued"
      BY <1>5 DEF CreateEnqueue, Beginning
    <2>2. Inserted' = {}
      BY <1>5, <2>1 DEF CreateEnqueue, Inserted, NoneBegun
    <2>3. Beginning'
      BY <1>5, <2>1 DEF CreateEnqueue, Beginning
    <2>4. CASE UNCHANGED job
      BY <1>1, <1>5, <2>3, <2>4 DEF CreateEnqueue, Suffers, TypeOK, scan, Mishaps
    <2>5. CASE job' \in Enqueued(job, "prepass", NoRow)
      <3>1. PICK k \in Jobs : job[k] = NoJob /\ job' = [job EXCEPT ![k] = QueuedJob("prepass", NoRow, 0)]
        BY <2>5, EnqueuedSlot
      <3>2. /\ JobsOK' /\ job'[k].stage = "queued" /\ job'[k].kind = "prepass" /\ job'[k].tries = 0
            /\ \A i \in Jobs \ {k} : job'[i] = NoJob
        BY <1>0, <2>1, <3>1, QueuedJobType, ConstantsAssumption DEF JobsOK, NoneBegun
      <3>3. TypeOK'
        <4>1. /\ UNCHANGED <<eval, cap, tree, plan, shard, stored, budget>> /\ api' = "idle"
              /\ mishaps' \in {mishaps, mishaps \cup {"lost"}}
          BY <1>5 DEF CreateEnqueue, scan, Suffers
        <4>2. QED
          BY <2>2, <3>2, <4>1 DEF TypeOK, JobsOK, Mishaps
      <3>4. TriesLeft' /\ OnePrepass' /\ ShardRows'
        BY <2>2, <3>2, ConstantsAssumption DEF TriesLeft, OnePrepass, Prepass, ShardRows, NoJob
      <3>5. QED
        BY <2>3, <3>3, <3>4
    <2>6. QED
      BY <1>5, <2>4, <2>5 DEF CreateEnqueue
  \* Steps in which a job goes on or ends, and changes no row's being there.
  <1>6. ASSUME NEW j \in Jobs, job[j].stage # "absent",
               UNCHANGED <<cap, tree, plan, api>>, eval' \in EvalStatuses \ {"none"},
               shard' \in [Rows -> ShardStatuses],
               \A r \in Rows : shard'[r] # "none" <=> shard[r] # "none",
               StoredOK', budget' \in Nat,
               mishaps' \subseteq Mishaps,
               JobsOK', Others(j, job'),
               \/ job'[j] = NoJob
               \/ /\ job'[j].kind = job[j].kind /\ job'[j].row = job[j].row
                  /\ job'[j].stage = "queued" => job'[j].tries < MaxTries
                  /\ Prepass(j) =>
                       /\ job'[j].stage # "queued" => job'[j].tries > 0
                       /\ \A r \in Inserted : /\ r[2] <= job'[j].tries
                                              /\ job'[j].stage = "scan" => r[2] < job'[j].tries
        PROVE  BaseInv'
    <2>1. Inserted' = Inserted /\ (\A r \in Inserted : r[1] \in DOMAIN plan[r[2]])'
      BY <1>6, RowsKept
    <2>2. TypeOK'
      BY <1>6, <2>1 DEF TypeOK, JobsOK
    <2>3. eval # "none" /\ api # "enqueue" /\ Beginning'
      BY <1>6 DEF Beginning, NoneBegun, NoJob
    <2>4. ASSUME NEW i \in Jobs, i # j PROVE job'[i] = job[i]
      BY <1>6, <2>4 DEF Others
    <2>5. TriesLeft'
      BY <1>6, <2>4 DEF TriesLeft, NoJob
    <2>6. OnePrepass'
      BY <1>6, <2>1, <2>4 DEF OnePrepass, Prepass, NoJob
    <2>7. ShardRows'
      BY <1>6, <2>1, <2>4 DEF ShardRows, NoJob
    <2>8. QED
      BY <2>2, <2>3, <2>5, <2>6, <2>7
  <1>7. ASSUME NEW j \in Jobs, job[j].stage # "absent"
        PROVE  /\ eval # "none" /\ api # "enqueue" /\ job[j] \in JobRecord
               /\ job[j].kind = "shard" => job[j].row \in Inserted
    BY <1>0, <1>7, JobMoves DEF Beginning, NoneBegun, NoJob, ShardRows
  <1>8. ASSUME NEW j \in Jobs, PrepassStart(j) \/ SynthesizeStart(j) PROVE BaseInv'
    <2>1. PICK stage \in {"scan", "merge"}, heads \in SUBSET Repos : job' = Begin(j, stage, heads)
      BY <1>8 DEF PrepassStart, SynthesizeStart, TypeOK
    <2>2. job[j].stage = "queued" /\ job[j].tries < MaxTries
      BY <1>8 DEF PrepassStart, SynthesizeStart, At, TriesLeft
    <2>3. /\ job' \in [Jobs -> JobRecord \cup {NoJob}] /\ Others(j, job')
          /\ job'[j].stage = stage /\ job'[j].kind = job[j].kind
          /\ job'[j].row = job[j].row /\ job'[j].tries = job[j].tries + 1
      BY <1>0, <2>1, <2>2, JobMoves DEF WorkStages
    <2>4. job[j].tries \in Nat
      BY <1>7, <2>2 DEF JobRecord
    <2>5. Prepass(j) => \A r \in Inserted : r[2] \in Nat /\ r[2] <= job[j].tries
      BY DEF OnePrepass, Inserted, Rows
    <2>6. /\ UNCHANGED <<cap, tree, plan, shard, stored, api, budget, mishaps>>
          /\ eval' \in EvalStatuses \ {"none"}
      BY <1>8 DEF PrepassStart, SynthesizeStart, EvalStatuses, scan
    <2>7. shard \in [Rows -> ShardStatuses] /\ StoredOK /\ budget \in Nat
          /\ mishaps \subseteq Mishaps
      BY DEF TypeOK
    <2>8. QED
      BY <1>6, <2>2, <2>3, <2>4, <2>5, <2>6, <2>7 DEF JobsOK
  <1>9. ASSUME NEW j \in Jobs, PrepassFails(j) \/ PrepassReturn(j) \/ SynthesizeCommit(j)
                               \/ ShardSkip(j)
        PROVE  BaseInv'
    <2>1. job[j].stage \in {"scan", "enqueue", "merge", "check"} /\ job' = Goto(j, "end")
      BY <1>9 DEF PrepassFails, PrepassReturn, SynthesizeCommit, ShardSkip, At
    <2>2. /\ job' \in [Jobs -> JobRecord \cup {NoJob}] /\ Others(j, job')
          /\ job'[j].stage = "end" /\ job'[j].kind = job[j].kind
          /\ job'[j].row = job[j].row /\ job'[j].tries = job[j].tries
      BY <1>0, <2>1, JobMoves DEF WorkStages
    <2>3. /\ UNCHANGED <<cap, tree, plan, stored, api, budget>>
          /\ eval' \in EvalStatuses \ {"none"}
      BY <1>7, <1>9, <2>1
      DEF PrepassFails, PrepassReturn, SynthesizeCommit, ShardSkip, EvalStatuses, Terminal,
          scan, TypeOK
    <2>4. /\ shard' \in [Rows -> ShardStatuses]
          /\ \A r \in Rows : shard'[r] # "none" <=> shard[r] # "none"
      <3>1. CASE ShardSkip(j)
        BY <1>7, <3>1 DEF ShardSkip, At, Inserted, TypeOK, ShardStatuses
      <3>2. CASE UNCHANGED shard
        BY <3>2 DEF TypeOK
      <3>3. QED
        BY <1>9, <3>1, <3>2 DEF PrepassFails, PrepassReturn, SynthesizeCommit
    <2>5. mishaps' \subseteq Mishaps
      BY <1>9 DEF PrepassFails, PrepassReturn, SynthesizeCommit, ShardSkip, TypeOK, Mishaps
    <2>6. StoredOK /\ budget \in Nat
      BY DEF TypeOK
    <2>7. QED
      BY <1>6, <2>1, <2>2, <2>3, <2>4, <2>5, <2>6 DEF JobsOK, OnePrepass, Prepass
  <1>10. ASSUME NEW j \in Jobs, ShardStart(j) PROVE BaseInv'
    <2>1. /\ job[j].stage = "queued" /\ job[j].kind = "shard" /\ job[j].tries < MaxTries
          /\ job' = Begin(j, "check", {}) /\ shard' = [shard EXCEPT ![job[j].row] = "running"]
      BY <1>10 DEF ShardStart, At, TriesLeft
    <2>2. /\ job' \in [Jobs -> JobRecord \cup {NoJob}] /\ Others(j, job')
          /\ job'[j].stage = "check" /\ job'[j].kind = job[j].kind /\ job'[j].row = job[j].row
      BY <1>0, <2>1, JobMoves DEF WorkStages
    <2>3. /\ shard' \in [Rows -> ShardStatuses]
          /\ \A r \in Rows : shard'[r] # "none" <=> shard[r] # "none"
      BY <1>7, <2>1 DEF TypeOK, Inserted, ShardStatuses
    <2>4. /\ UNCHANGED <<cap, tree, plan, stored, api, budget, mishaps, eval>>
          /\ eval \in EvalStatuses \ {"none"}
      BY <1>7, <1>10, <2>1 DEF ShardStart, scan, TypeOK
    <2>5. /\ StoredOK /\ budget \in Nat
          /\ mishaps \subseteq Mishaps
      BY DEF TypeOK
    <2>6. QED
      BY <1>6, <2>1, <2>2, <2>3, <2>4, <2>5 DEF JobsOK, Prepass
  <1>11. ASSUME NEW j \in Jobs, ShardCheck(j) \/ ShardCommit(j) PROVE BaseInv'
    <2>1. /\ job[j].stage \in {"check", "analyze"} /\ job[j].kind = "shard"
          /\ UNCHANGED <<cap, tree, plan, api, eval>>
      BY <1>11 DEF ShardCheck, ShardCommit, At, scan
    <2>2. job[j] \in JobRecord /\ job[j].row \in Inserted /\ job[j].row \in Rows
      BY <1>7, <2>1 DEF Inserted
    <2>3. PICK stage \in {"analyze", "count"}, read \in ShardStatuses, heads \in SUBSET Repos :
            job' = [job EXCEPT ![j].stage = stage, ![j].read = read, ![j].heads = heads]
      <3>1. CASE ShardCheck(j)
        <4>1. job' = [job EXCEPT ![j].stage = "analyze", ![j].read = shard[job[j].row],
                                 ![j].heads = {tree}]
          BY <3>1 DEF ShardCheck
        <4>2. shard[job[j].row] \in ShardStatuses /\ {tree} \in SUBSET Repos
          BY <2>2 DEF TypeOK
        <4>3. QED
          BY <4>1, <4>2
      <3>2. CASE ShardCommit(j)
        <4>1. job' = [job EXCEPT ![j].stage = "count", ![j].read = "none", ![j].heads = {}]
          BY <3>2 DEF ShardCommit
        <4>2. "none" \in ShardStatuses /\ {} \in SUBSET Repos
          BY DEF ShardStatuses
        <4>3. QED
          BY <4>1, <4>2
      <3>3. QED
        BY <1>11, <3>1, <3>2
    <2>4. /\ [job[j] EXCEPT !.stage = stage, !.read = read, !.heads = heads] \in JobRecord
          /\ job' = [job EXCEPT ![j] = [job[j] EXCEPT !.stage = stage, !.read = read,
                                                    !.heads = heads]]
      BY <2>2, <2>3 DEF JobRecord
    <2>5. /\ JobsOK' /\ Others(j, job')
          /\ job'[j].stage = stage /\ job'[j].kind = job[j].kind /\ job'[j].row = job[j].row
      BY <1>0, <2>2, <2>4 DEF JobsOK, Others, JobRecord
    <2>6. /\ shard' \in [Rows -> ShardStatuses]
          /\ \A r \in Rows : shard'[r] # "none" <=> shard[r] # "none"
      BY <1>11, <2>2 DEF ShardCheck, ShardCommit, TypeOK, Inserted, ShardStatuses
    <2>7. StoredOK' /\ budget' \in Nat /\ mishaps' \subseteq Mishaps
      <3>1. CASE ShardCheck(j)
        BY <3>1 DEF ShardCheck, TypeOK
      <3>2. CASE ShardCommit(j)
        BY <2>2, <3>2, CommitKeepsTypes DEF TypeOK
      <3>3. QED
        BY <1>11, <3>1, <3>2
    <2>8. eval \in EvalStatuses \ {"none"}
      BY <1>7, <2>1 DEF TypeOK
    <2>9. QED
      BY <1>6, <2>1, <2>5, <2>6, <2>7, <2>8 DEF Prepass
  <1>12. ASSUME NEW j \in Jobs, JobEnd(j) \/ JobDies(j) \/ WorkerCrash(j) PROVE BaseInv'
    <2>1. /\ job[j].stage # "absent" /\ job[j].stage # "queued"
          /\ UNCHANGED <<eval, cap, tree, plan, shard, stored, api>>
      <3>1. CASE JobEnd(j)
        BY <3>1 DEF JobEnd, scan
      <3>2. CASE JobDies(j)
        BY <3>2 DEF JobDies, Running, scan
      <3>3. CASE WorkerCrash(j)
        BY <3>3 DEF WorkerCrash, Running, scan
      <3>4. QED
        BY <1>12, <3>1, <3>2, <3>3
    <2>2. \/ job' = Ended(j)
          \/ /\ job[j].tries < MaxTries
             /\ job' = Requeued(j)
      <3>1. CASE JobEnd(j) \/ JobDies(j)
        BY <3>1 DEF JobEnd, JobDies
      <3>2. CASE WorkerCrash(j)
        BY <3>2 DEF WorkerCrash
      <3>3. QED
        BY <1>12, <3>1, <3>2
    <2>3. \/ JobsOK' /\ Others(j, job') /\ job'[j] = NoJob
          \/ /\ JobsOK' /\ Others(j, job')
             /\ job'[j].stage = "queued" /\ job'[j].kind = job[j].kind
             /\ job'[j].row = job[j].row /\ job'[j].tries = job[j].tries
             /\ job[j].tries < MaxTries
      BY <1>0, <2>1, <2>2, JobMoves DEF JobsOK
    <2>4. Prepass(j) => \A r \in Inserted : r[2] <= job[j].tries
      BY DEF OnePrepass
    <2>5. budget' \in Nat /\ mishaps' \subseteq Mishaps
      <3>1. budget' \in Nat
        BY <1>12 DEF JobEnd, JobDies, WorkerCrash, Spend, TypeOK
      <3>2. mishaps' \in {mishaps, mishaps \cup {"lost"}, mishaps \cup {"rerun"}}
        BY <1>12 DEF JobEnd, JobDies, WorkerCrash, Suffers
      <3>3. QED
        BY <3>1, <3>2 DEF TypeOK, Mishaps
    <2>6. /\ eval \in EvalStatuses \ {"none"} /\ shard \in [Rows -> ShardStatuses]
          /\ StoredOK
      BY <1>7, <2>1 DEF TypeOK
    <2>7. QED
      BY <1>6, <2>1, <2>3, <2>4, <2>5, <2>6
  <1>13. ASSUME NEW j \in Jobs, PrepassPersist(j) PROVE BaseInv'
    <2>1. /\ job[j].stage = "scan" /\ Prepass(j) /\ job[j] \in JobRecord /\ job[j].tries > 0
          /\ eval # "none" /\ api # "enqueue"
      BY <1>7, <1>13 DEF PrepassPersist, At, Prepass, OnePrepass
    <2>2. PICK t \in 1 .. MaxTries : t = job[j].tries
      BY <2>1 DEF JobRecord
    <2>3. PICK shards, failed :
             /\ shards \in Plans
             /\ plan' = [plan EXCEPT ![t] = shards]
             /\ shard' = [r \in Rows |-> IF r[2] = t /\ r[1] \in DOMAIN shards
                                         THEN "queued" ELSE shard[r]]
             /\ job' = [job EXCEPT ![j].stage = "enqueue", ![j].todo = DOMAIN shards,
                                   ![j].heads = {}]
             /\ Cardinality(failed) \in 0 .. budget
             /\ budget' = budget - Cardinality(failed)
             /\ mishaps' = mishaps \cup Unread(failed) \cup (IF shards = <<>> THEN {"empty"} ELSE {})
      <3>1. \E shards \in Plans : \E failed :
              Inserts(j, shards, failed) /\ Cardinality(failed) \in 0 .. budget
        BY <1>13, <2>1, PlanInserted
      <3>2. PICK shards \in Plans : \E failed :
              Inserts(j, shards, failed) /\ Cardinality(failed) \in 0 .. budget
        BY <3>1
      <3>3. PICK failed : Inserts(j, shards, failed) /\ Cardinality(failed) \in 0 .. budget
        BY <3>2
      <3>4. /\ plan' = [plan EXCEPT ![t] = shards]
            /\ shard' = [r \in Rows |-> IF r[2] = t /\ r[1] \in DOMAIN shards
                                        THEN "queued" ELSE shard[r]]
        BY <2>2, <3>3 DEF Inserts
      <3>5. /\ job' = [job EXCEPT ![j].stage = "enqueue", ![j].todo = DOMAIN shards,
                                  ![j].heads = {}]
            /\ budget' = budget - Cardinality(failed)
            /\ mishaps' = mishaps \cup Unread(failed)
                            \cup (IF shards = <<>> THEN {"empty"} ELSE {})
        BY <3>3 DEF Inserts
      <3>6. QED
        BY <3>2, <3>3, <3>4, <3>5
    <2>4. DOMAIN shards \subseteq 1 .. MaxShards
      BY <2>3, ConstantsAssumption DEF Plans
    <2>5. /\ eval' = "analyzing" /\ UNCHANGED <<cap, tree, persisted, found, api>>
          /\ mishaps' \subseteq Mishaps /\ budget' \in Nat
      <3>1. budget \in Nat /\ mishaps \subseteq Mishaps /\ Unread(failed) \subseteq Mishaps
        BY DEF TypeOK, Unread, Mishaps
      <3>2. Cardinality(failed) \in 0 .. budget /\ budget' = budget - Cardinality(failed)
        BY <2>3
      <3>3. budget' \in Nat
        BY <3>1, <3>2
      <3>4. mishaps' \subseteq Mishaps
        BY <2>3, <3>1 DEF Mishaps
      <3>5. QED
        BY <1>13, <3>3, <3>4 DEF PrepassPersist
    <2>6. \A r \in Inserted : r \in Rows /\ r[2] < t
      BY <2>1, <2>2 DEF OnePrepass, Inserted
    <2>7. ASSUME NEW r \in Inserted'
          PROVE  r[1] \in DOMAIN plan'[r[2]] /\ r[2] <= t
      <3>1. r \in Rows /\ r[2] \in 1 .. MaxTries
        BY DEF Inserted, Rows
      <3>2. CASE r[2] = t /\ r[1] \in DOMAIN shards
        BY <2>3, <3>2 DEF TypeOK
      <3>3. CASE ~(r[2] = t /\ r[1] \in DOMAIN shards)
        <4>1. r \in Inserted
          BY <2>3, <3>1, <3>3 DEF Inserted
        <4>2. r[2] < t /\ r[2] # t
          BY <2>6, <3>1, <4>1
        <4>3. plan'[r[2]] = plan[r[2]]
          BY <2>3, <3>1, <4>2 DEF TypeOK
        <4>4. QED
          BY <3>1, <4>1, <4>2, <4>3 DEF TypeOK
      <3>4. QED
        BY <3>2, <3>3
    <2>8. /\ [job[j] EXCEPT !.stage = "enqueue", !.todo = DOMAIN shards, !.heads = {}] \in JobRecord
          /\ job' = [job EXCEPT ![j] = [job[j] EXCEPT !.stage = "enqueue", !.todo = DOMAIN shards,
                                                    !.heads = {}]]
      BY <2>1, <2>3, <2>4 DEF JobRecord
    <2>9. /\ JobsOK' /\ \A i \in Jobs \ {j} : job'[i] = job[i]
          /\ job'[j].stage = "enqueue" /\ job'[j].kind = job[j].kind /\ job'[j].row = job[j].row
          /\ job'[j].tries = t
      BY <1>0, <2>1, <2>2, <2>8 DEF JobsOK, JobRecord
    <2>10. TypeOK'
      <3>1. plan' \in [1 .. MaxTries -> {<<>>} \cup Plans]
        BY <2>3 DEF TypeOK
      <3>2. shard' \in [Rows -> ShardStatuses]
        BY <2>3 DEF TypeOK, ShardStatuses
      <3>3. \A r \in Inserted' : r[1] \in DOMAIN plan'[r[2]]
        BY <2>7
      <3>4. QED
        BY <2>5, <2>9, <3>1, <3>2, <3>3 DEF TypeOK, EvalStatuses, JobsOK
    <2>11. \A i \in Jobs : job[i].kind = "shard" => job[i].row \in Inserted'
      BY <2>3 DEF ShardRows, Inserted
    <2>12. Beginning' /\ TriesLeft'
      BY <2>1, <2>5, <2>9 DEF Beginning, TriesLeft
    <2>13. OnePrepass'
      BY <2>1, <2>2, <2>7, <2>9 DEF OnePrepass, Prepass
    <2>14. ShardRows'
      BY <2>1, <2>9, <2>11 DEF ShardRows, Prepass
    <2>15. QED
      BY <2>10, <2>12, <2>13, <2>14
  <1>14. ASSUME NEW j \in Jobs, job[j].stage # "absent",
                NEW moved \in [Jobs -> JobRecord \cup {NoJob}], Others(j, moved),
                moved[j].stage \notin {"absent", "queued", "scan"},
                moved[j].kind = job[j].kind, moved[j].row = job[j].row,
                moved[j].tries = job[j].tries, job[j].stage # "queued",
                NEW kind \in {"shard", "synthesize"}, NEW row \in Rows \cup {NoRow},
                kind = "shard" => row \in Inserted,
                job' \in Enqueued(moved, kind, row),
                UNCHANGED <<eval, scan, shard, stored, api, budget, mishaps>>
         PROVE  BaseInv'
    <2>1. PICK k \in Jobs \ {j} :
             /\ JobsOK' /\ job[k] = NoJob /\ job'[j] = moved[j]
             /\ job'[k].stage = "queued" /\ job'[k].kind = kind /\ job'[k].row = row
             /\ job'[k].tries = 0 /\ job'[k].todo = {}
             /\ \A i \in Jobs \ {j, k} : job'[i] = job[i]
      <3>1. PICK k \in Jobs : moved[k] = NoJob /\ job' = [moved EXCEPT ![k] = QueuedJob(kind, row, 0)]
        BY <1>14, EnqueuedSlot
      <3>2. k # j
        BY <1>14, <3>1 DEF NoJob
      <3>3. kind \in {"prepass", "shard", "synthesize"} /\ 0 \in 0 .. MaxTries
        BY ConstantsAssumption
      <3>4. QED
        BY <1>14, <3>1, <3>2, <3>3, QueuedJobType DEF Others, JobsOK
    <2>2. Inserted' = Inserted
      BY <1>14 DEF Inserted
    <2>3. TypeOK'
      BY <1>14, <2>1, <2>2 DEF TypeOK, JobsOK, scan
    <2>4. Beginning'
      BY <1>7, <1>14 DEF Beginning
    <2>5. TriesLeft'
      BY <1>14, <2>1, ConstantsAssumption DEF TriesLeft
    <2>6. OnePrepass'
      BY <1>14, <2>1, <2>2 DEF OnePrepass, Prepass
    <2>7. ShardRows'
      BY <1>14, <2>1, <2>2 DEF ShardRows
    <2>8. QED
      BY <2>3, <2>4, <2>5, <2>6, <2>7
  <1>15. ASSUME NEW j \in Jobs, PrepassEnqueue(j) PROVE BaseInv'
    <2>1. /\ job[j].stage = "enqueue" /\ job[j] \in JobRecord
          /\ UNCHANGED <<eval, scan, shard, stored, api, budget, mishaps>>
      BY <1>7, <1>15 DEF PrepassEnqueue, At
    <2>2. PICK k \in job[j].todo, r \in Inserted :
            r[1] = k /\ job' \in Enqueued([job EXCEPT ![j].todo = @ \ {k}], "shard", r)
      BY <1>15 DEF PrepassEnqueue
    <2>3. /\ [job[j] EXCEPT !.todo = @ \ {k}] \in JobRecord
          /\ [job EXCEPT ![j].todo = @ \ {k}] = [job EXCEPT ![j] = [job[j] EXCEPT !.todo = @ \ {k}]]
      BY <2>1 DEF JobRecord
    <2>4. LET moved == [job EXCEPT ![j].todo = @ \ {k}] IN
          /\ moved \in [Jobs -> JobRecord \cup {NoJob}] /\ Others(j, moved)
          /\ moved[j].stage = "enqueue" /\ moved[j].kind = job[j].kind
          /\ moved[j].row = job[j].row /\ moved[j].tries = job[j].tries
      BY <1>0, <2>1, <2>3 DEF JobsOK, Others, JobRecord
    <2>5. r \in Rows
      BY DEF Inserted
    <2>6. QED
      BY <1>14, <2>1, <2>2, <2>4, <2>5
  <1>16. ASSUME NEW j \in Jobs, ShardCount(j) PROVE BaseInv'
    <2>1. /\ job[j].stage = "count" /\ job[j].kind = "shard"
          /\ UNCHANGED <<eval, scan, shard, stored, api, budget, mishaps>>
          /\ job' = Goto(j, "end") \/ job' \in Enqueued(Goto(j, "end"), "synthesize", NoRow)
      BY <1>16 DEF ShardCount, At
    <2>2. LET moved == Goto(j, "end") IN
          /\ moved \in [Jobs -> JobRecord \cup {NoJob}] /\ Others(j, moved)
          /\ moved[j].stage = "end" /\ moved[j].kind = job[j].kind
          /\ moved[j].row = job[j].row /\ moved[j].tries = job[j].tries
      BY <1>0, <2>1, JobMoves DEF WorkStages
    <2>3. CASE job' = Goto(j, "end")
      <3>1. /\ eval \in EvalStatuses \ {"none"} /\ shard \in [Rows -> ShardStatuses]
            /\ StoredOK /\ budget \in Nat
            /\ mishaps \subseteq Mishaps
        BY <1>7, <2>1 DEF TypeOK
      <3>2. QED
        BY <1>6, <2>1, <2>2, <2>3, <3>1 DEF JobsOK, Prepass, scan
    <2>4. CASE job' \in Enqueued(Goto(j, "end"), "synthesize", NoRow)
      BY <1>14, <2>1, <2>2, <2>4
    <2>5. QED
      BY <2>1, <2>3, <2>4
  <1>17. CASE UNCHANGED vars
    <2>1. Inserted' = Inserted
      BY <1>17 DEF vars, Inserted
    <2>2. TypeOK'
      BY <1>17, <2>1 DEF vars, scan, TypeOK
    <2>3. QED
      BY <1>17, <2>1, <2>2
      DEF vars, Beginning, NoneBegun, TriesLeft, OnePrepass, Prepass, ShardRows
  <1>18. QED
    BY <1>2, <1>3, <1>4, <1>5, <1>8, <1>9, <1>10, <1>11, <1>12, <1>13, <1>15, <1>16, <1>17
    DEF Next, JobStep

-----------------------------------------------------------------------------
(* While no job is run twice, a shard has one job and the synthesis is last. *)

\* The prepass runs once.  Until it has inserted its shards nothing else goes on, and a
\* shard it has still to enqueue waits without a job.
FirstTry ==
    \A j \in Jobs : Prepass(j) =>
      /\ job[j].tries = IF job[j].stage = "queued" THEN 0 ELSE 1
      /\ job[j].stage \in {"queued", "scan"} =>
           /\ \A k \in Jobs \ {j} : job[k] = NoJob
           /\ Inserted = {}
           /\ eval \notin {"complete", "partial"}
      /\ job[j].stage = "enqueue" =>
           \A k \in job[j].todo :
             /\ <<k, 1>> \in Rows /\ shard[<<k, 1>>] = "queued"
             /\ \A i \in Jobs : job[i].kind = "shard" => job[i].row # <<k, 1>>

FirstRows == \A r \in Inserted : r[2] = 1

\* The shard's row follows its only job.
StatusAt(stage) ==
    CASE stage = "queued" -> {"queued"}
      [] stage \in {"check", "analyze"} -> {"running"}
      [] stage = "count" -> {"done"}
      [] OTHER -> {"done", "skipped"}
OneJobPerShard ==
    \A j \in Jobs : job[j].kind = "shard" =>
      /\ shard[job[j].row] \in StatusAt(job[j].stage)
      /\ job[j].stage = "analyze" => job[j].read = "running"
      /\ \A k \in Jobs : job[k].kind = "shard" /\ job[k].row = job[j].row => k = j

NonePending == \A r \in Rows : shard[r] \notin Pending
SynthesisLast ==
    eval \in {"complete", "partial"} \/ (\E j \in Jobs : job[j].kind = "synthesize")
      => NonePending
Verdict ==
    /\ eval = "complete" => \A r \in Inserted : shard[r] = "done"
    /\ eval = "partial" => \E r \in Inserted : shard[r] = "skipped"
PersistedOnce == \A r \in Rows : persisted[r] = IF shard[r] = "done" THEN 1 ELSE 0

Once == FirstTry /\ FirstRows /\ OneJobPerShard /\ SynthesisLast /\ Verdict /\ PersistedOnce
EvalInv == BaseInv /\ ("rerun" \notin mishaps => Once)

LEMMA InitOnce == Init => Once
  <1> SUFFICES ASSUME Init PROVE Once
    OBVIOUS
  <1>1. Inserted = {} /\ \A j \in Jobs : job[j].kind = "none"
    BY DEF Init, Inserted, NoJob
  <1>2. FirstTry /\ FirstRows /\ OneJobPerShard
    BY <1>1 DEF FirstTry, FirstRows, OneJobPerShard, Prepass
  <1>3. SynthesisLast /\ Verdict /\ PersistedOnce
    BY <1>1 DEF Init, SynthesisLast, Verdict, PersistedOnce
  <1>4. QED
    BY <1>2, <1>3 DEF Once

LEMMA OnceStep ==
    ASSUME BaseInv, Once, BaseInv', [Next]_vars, "rerun" \notin mishaps'
    PROVE  Once'
  <1> USE DEF stored
  <1>0. JobsOK /\ TypeOK /\ FirstTry /\ FirstRows /\ OneJobPerShard /\ SynthesisLast
        /\ Verdict /\ PersistedOnce
    BY DEF BaseInv, TypeOK, JobsOK, Once
  <1>1. ASSUME NEW j \in Jobs, job[j].stage # "absent"
        PROVE  /\ eval # "none" /\ api # "enqueue" /\ job[j] \in JobRecord
               /\ job[j].kind = "shard" => job[j].row \in Inserted /\ job[j].row \in Rows
    BY <1>0, <1>1, JobMoves DEF BaseInv, Beginning, NoneBegun, NoJob, ShardRows, Inserted
  \* Steps that leave the jobs and the shards alone.
  <1>2. ASSUME \A j \in Jobs : SameBut(j), UNCHANGED <<shard, persisted>>,
               eval' \in {"complete", "partial"} => eval' = eval
        PROVE  Once'
    <2>1. Inserted' = Inserted /\ NonePending' = NonePending
      BY <1>2 DEF Inserted, NonePending
    <2>2. FirstTry' /\ FirstRows' /\ OneJobPerShard'
      BY <1>0, <1>2, <2>1 DEF FirstTry, FirstRows, OneJobPerShard, Prepass, SameBut
    <2>3. SynthesisLast' /\ Verdict' /\ PersistedOnce'
      BY <1>0, <1>2, <2>1 DEF SynthesisLast, Verdict, PersistedOnce, SameBut
    <2>4. QED
      BY <2>2, <2>3 DEF Once
  <1>3. CASE Create \/ Push \/ CancelRead \/ CancelCommit
    <2>1. \A j \in Jobs : SameBut(j)
      BY <1>0, <1>3, PushedJobs DEF Create, CancelRead, CancelCommit, SameBut
    <2>2. QED
      BY <1>2, <1>3, <2>1 DEF Create, Push, CancelRead, CancelCommit
  <1>4. CASE CreateEnqueue
    <2>1. api = "enqueue" /\ NoneBegun /\ eval = "queued"
      BY <1>4 DEF CreateEnqueue, BaseInv, Beginning
    <2>2. CASE UNCHANGED job
      BY <1>2, <1>4, <2>2 DEF CreateEnqueue, SameBut
    <2>3. CASE job' \in Enqueued(job, "prepass", NoRow)
      <3>1. PICK k \in Jobs : job[k] = NoJob /\ job' = [job EXCEPT ![k] = QueuedJob("prepass", NoRow, 0)]
        BY <2>3, EnqueuedSlot
      <3>2. /\ job'[k].stage = "queued" /\ job'[k].kind = "prepass" /\ job'[k].tries = 0
            /\ \A i \in Jobs \ {k} : job'[i] = NoJob
        BY <1>0, <2>1, <3>1, QueuedJobType, ConstantsAssumption DEF JobsOK, NoneBegun
      <3>3. Inserted' = {} /\ UNCHANGED <<eval, shard, stored>>
        BY <1>4, <2>1 DEF CreateEnqueue, Inserted, NoneBegun
      <3>4. FirstTry' /\ FirstRows' /\ OneJobPerShard'
        BY <2>1, <3>2, <3>3 DEF FirstTry, FirstRows, OneJobPerShard, Prepass, NoJob
      <3>5. SynthesisLast' /\ Verdict' /\ PersistedOnce'
        BY <1>0, <2>1, <3>2, <3>3 DEF SynthesisLast, Verdict, PersistedOnce, NoJob
      <3>6. QED
        BY <3>4, <3>5 DEF Once
    <2>4. QED
      BY <1>4, <2>2, <2>3 DEF CreateEnqueue
  \* Steps in which a job goes on or ends and no shard changes.
  <1>5. ASSUME NEW j \in Jobs, job[j].stage # "absent", UNCHANGED <<shard, stored>>,
               Others(j, job'), Verdict',
               eval' \in {"complete", "partial"} => NonePending,
               \/ job'[j] = NoJob
               \/ /\ job'[j].kind = job[j].kind /\ job'[j].row = job[j].row
                  /\ job'[j].stage # "queued"
                  /\ Prepass(j) => /\ job'[j].tries = 1
                                   /\ job'[j].stage # "enqueue"
                                   /\ job'[j].stage = "scan" =>
                                        /\ job[j].stage = "queued"
                                        /\ eval' \notin {"complete", "partial"}
                  /\ job[j].kind = "shard" =>
                       /\ shard[job[j].row] \in StatusAt(job'[j].stage)
                       /\ job'[j].stage = "analyze" => job'[j].read = "running"
        PROVE  Once'
    <2>1. Inserted' = Inserted /\ NonePending' = NonePending
      BY <1>5 DEF Inserted, NonePending
    <2>2. ASSUME NEW i \in Jobs, i # j PROVE job'[i] = job[i]
      BY <1>5, <2>2 DEF Others
    <2>3. FirstTry'
      <3>1. ASSUME NEW i \in Jobs, Prepass(i)', i # j, job'[i].stage \in {"queued", "scan"}
            PROVE  FALSE
        BY <1>0, <1>5, <2>2, <3>1 DEF FirstTry, Prepass, NoJob
      <3>2. ASSUME NEW i \in Jobs PROVE job'[i].kind = "shard" =>
                     job[i].kind = "shard" /\ job'[i].row = job[i].row
        BY <1>5, <2>2 DEF NoJob
      <3>3. CASE Prepass(j)'
        <4>1. Prepass(j) /\ \A i \in Jobs : Prepass(i)' => i = j
          BY <1>5, <2>2, <3>3 DEF Prepass, NoJob, BaseInv, OnePrepass
        <4>2. job'[j].tries = 1 /\ job'[j].stage \notin {"queued", "enqueue"}
          BY <1>5, <3>3, <4>1 DEF Prepass, NoJob
        <4>3. job'[j].stage = "scan" =>
                /\ \A k \in Jobs \ {j} : job'[k] = NoJob
                /\ Inserted' = {} /\ eval' \notin {"complete", "partial"}
          <5>1. job'[j].stage = "scan" =>
                  job[j].stage = "queued" /\ eval' \notin {"complete", "partial"}
            BY <1>5, <4>1 DEF NoJob
          <5>2. QED
            BY <1>0, <2>1, <2>2, <4>1, <5>1 DEF FirstTry
        <4>4. QED
          BY <4>1, <4>2, <4>3 DEF FirstTry
      <3>4. CASE ~Prepass(j)'
        BY <1>0, <1>5, <2>1, <2>2, <3>1, <3>2, <3>4 DEF FirstTry, Prepass
      <3>5. QED
        BY <3>3, <3>4
    <2>4. FirstRows'
      BY <1>0, <2>1 DEF FirstRows
    <2>5. OneJobPerShard'
      BY <1>0, <1>5, <2>2 DEF OneJobPerShard, NoJob
    <2>6. SynthesisLast'
      BY <1>0, <1>5, <2>1, <2>2 DEF SynthesisLast, NoJob
    <2>7. PersistedOnce'
      BY <1>0, <1>5 DEF PersistedOnce
    <2>8. QED
      BY <1>5, <2>3, <2>4, <2>5, <2>6, <2>7 DEF Once
  \* Steps in which a shard's job writes the shard's status.
  <1>6. ASSUME NEW j \in Jobs, job[j].kind = "shard",
               job[j].stage \in {"queued", "check", "analyze"},
               Others(j, job'), job'[j].kind = "shard", job'[j].row = job[j].row,
               NEW status \in {"running", "skipped", "done"},
               shard' = [shard EXCEPT ![job[j].row] = status],
               UNCHANGED eval,
               status \in StatusAt(job'[j].stage), job'[j].stage # "analyze",
               persisted' = IF status = "done"
                            THEN [persisted EXCEPT ![job[j].row] = @ + 1] ELSE persisted
        PROVE  Once'
    <2>1. /\ job[j].row \in Rows /\ job[j].row \in Inserted
          /\ shard[job[j].row] \in {"queued", "running"}
      BY <1>0, <1>1, <1>6 DEF OneJobPerShard, StatusAt
    <2>2. ~NonePending
      BY <2>1 DEF NonePending, Pending
    <2>3. eval \notin {"complete", "partial"} /\ \A i \in Jobs : job[i].kind # "synthesize"
      BY <1>0, <2>2 DEF SynthesisLast
    <2>4. ASSUME NEW i \in Jobs, i # j PROVE job'[i] = job[i]
      BY <1>6, <2>4 DEF Others
    <2>5. Inserted' = Inserted /\ \A r \in Rows : r # job[j].row => shard'[r] = shard[r]
      BY <1>0, <1>6, <2>1 DEF Inserted, TypeOK
    <2>6. FirstTry'
      <3>1. ASSUME NEW i \in Jobs, Prepass(i)'
            PROVE  /\ i # j /\ job'[i] = job[i] /\ Prepass(i)
                   /\ job[i].stage \notin {"queued", "scan"}
        BY <1>0, <1>6, <2>1, <2>4, <3>1 DEF FirstTry, Prepass, NoJob
      <3>2. ASSUME NEW i \in Jobs, Prepass(i)', job[i].stage = "enqueue", NEW k \in job[i].todo
            PROVE  /\ <<k, 1>> \in Rows /\ shard'[<<k, 1>>] = "queued"
                   /\ \A l \in Jobs : job'[l].kind = "shard" => job'[l].row # <<k, 1>>
        <4>1. /\ <<k, 1>> \in Rows /\ shard[<<k, 1>>] = "queued"
              /\ \A l \in Jobs : job[l].kind = "shard" => job[l].row # <<k, 1>>
          BY <1>0, <3>1, <3>2 DEF FirstTry
        <4>2. QED
          BY <1>6, <2>4, <2>5, <4>1
      <3>3. QED
        BY <1>0, <3>1, <3>2 DEF FirstTry
    <2>7. FirstRows'
      BY <1>0, <2>5 DEF FirstRows
    <2>8. OneJobPerShard'
      <3>1. ASSUME NEW i \in Jobs, job'[i].kind = "shard"
            PROVE  job[i].kind = "shard" /\ job'[i].row = job[i].row
        BY <1>6, <2>4, <3>1
      <3>2. ASSUME NEW i \in Jobs, job'[i].kind = "shard", i # j
            PROVE  /\ shard'[job[i].row] \in StatusAt(job[i].stage)
                   /\ job[i].stage = "analyze" => job[i].read = "running"
        <4>1. job[i].row # job[j].row /\ job[i].row \in Rows
          BY <1>0, <1>6, <3>1, <3>2 DEF OneJobPerShard, BaseInv, ShardRows, Inserted
        <4>2. QED
          BY <1>0, <2>5, <3>1, <3>2, <4>1 DEF OneJobPerShard
      <3>3. shard'[job[j].row] = status
        BY <1>0, <1>6, <2>1 DEF TypeOK
      <3>4. QED
        BY <1>0, <1>6, <2>4, <3>1, <3>2, <3>3 DEF OneJobPerShard
    <2>9. SynthesisLast' /\ Verdict'
      BY <1>6, <2>3, <2>4 DEF SynthesisLast, Verdict
    <2>10. PersistedOnce'
      BY <1>0, <1>6, <2>1 DEF PersistedOnce, TypeOK
    <2>11. QED
      BY <2>6, <2>7, <2>8, <2>9, <2>10 DEF Once
  <1>7. ASSUME NEW j \in Jobs, PrepassStart(j) \/ PrepassFails(j) \/ PrepassReturn(j)
        PROVE  Once'
    <2>1. /\ Prepass(j) /\ job[j].stage \in {"queued", "scan", "enqueue"}
          /\ UNCHANGED <<shard, stored>>
          /\ eval' \in {"complete", "partial"} => eval' = eval /\ job[j].stage = "enqueue"
          /\ PrepassStart(j) => eval' \notin {"complete", "partial"}
      BY <1>7 DEF PrepassStart, PrepassFails, PrepassReturn, At, Prepass
    <2>2. /\ Others(j, job')
          /\ job'[j].kind = job[j].kind /\ job'[j].row = job[j].row
          /\ job'[j].tries = 1 /\ job'[j].stage \in {"scan", "end"}
          /\ job'[j].stage = "scan" => job[j].stage = "queued"
      <3>1. CASE PrepassStart(j)
        <4>1. job[j].stage = "queued" /\ job' = Begin(j, "scan", {tree}) /\ job[j].tries = 0 /\ {tree} \in SUBSET Repos
          BY <1>0, <2>1, <3>1 DEF PrepassStart, At, FirstTry, TypeOK
        <4>2. job[j].tries < MaxTries
          BY <4>1 DEF BaseInv, TriesLeft
        <4>3. QED
          BY <1>0, <4>1, <4>2, JobMoves DEF WorkStages
      <3>2. CASE PrepassFails(j) \/ PrepassReturn(j)
        <4>1. job[j].stage # "queued" /\ job' = Goto(j, "end") /\ job[j].tries = 1
          BY <1>0, <2>1, <3>2 DEF PrepassFails, PrepassReturn, At, FirstTry
        <4>2. QED
          BY <1>0, <2>1, <4>1, JobMoves DEF WorkStages
      <3>3. QED
        BY <1>7, <3>1, <3>2
    <2>3. (eval' \in {"complete", "partial"} => NonePending) /\ Verdict'
      BY <1>0, <2>1 DEF SynthesisLast, Verdict, Inserted
    <2>4. job'[j].stage = "scan" => eval' \notin {"complete", "partial"}
      BY <2>1, <2>2
    <2>5. job[j].stage # "absent" /\ job'[j].stage \notin {"queued", "enqueue"}
          /\ job[j].kind # "shard"
      BY <2>1, <2>2 DEF Prepass
    <2>6. QED
      BY <1>5, <2>1, <2>2, <2>3, <2>4, <2>5
  <1>8. ASSUME NEW j \in Jobs, SynthesizeStart(j) \/ SynthesizeCommit(j) PROVE Once'
    <2>1. /\ job[j].kind = "synthesize" /\ job[j].stage \in {"queued", "merge"}
          /\ UNCHANGED <<shard, stored>>
      BY <1>8 DEF SynthesizeStart, SynthesizeCommit, At
    <2>2. NonePending
      BY <1>0, <2>1 DEF SynthesisLast
    <2>3. \A r \in Inserted : shard[r] \in {"done", "skipped"}
      BY <1>0, <2>2 DEF NonePending, Inserted, TypeOK, ShardStatuses, Pending
    <2>4. Verdict'
      <3>1. Inserted' = Inserted
        BY <2>1 DEF Inserted
      <3>2. CASE SynthesizeStart(j)
        BY <3>2 DEF SynthesizeStart, Verdict
      <3>3. CASE SynthesizeCommit(j)
        BY <1>0, <2>1, <2>3, <3>1, <3>3 DEF SynthesizeCommit, Verdict, Inserted
      <3>4. QED
        BY <1>8, <3>2, <3>3
    <2>5. /\ Others(j, job') /\ job'[j].kind = job[j].kind /\ job'[j].row = job[j].row
          /\ job'[j].stage \in {"merge", "end"}
      <3>1. CASE SynthesizeStart(j)
        <4>1. job[j].stage = "queued" /\ job' = Begin(j, "merge", {}) /\ job[j].tries < MaxTries
          BY <2>1, <3>1 DEF SynthesizeStart, At, BaseInv, TriesLeft
        <4>2. QED
          BY <1>0, <4>1, JobMoves DEF WorkStages
      <3>2. CASE SynthesizeCommit(j)
        <4>1. job[j].stage # "absent" /\ job' = Goto(j, "end")
          BY <2>1, <3>2 DEF SynthesizeCommit, At
        <4>2. QED
          BY <1>0, <4>1, JobMoves DEF WorkStages
      <3>3. QED
        BY <1>8, <3>1, <3>2
    <2>6. QED
      BY <1>5, <2>1, <2>2, <2>4, <2>5 DEF Prepass
  <1>9. ASSUME NEW j \in Jobs, JobEnd(j) \/ JobDies(j) \/ WorkerCrash(j) PROVE Once'
    <2>1. /\ job[j].stage # "absent" /\ UNCHANGED <<eval, shard, stored>> /\ job' = Ended(j)
      <3>1. CASE JobEnd(j)
        BY <3>1 DEF JobEnd
      <3>2. CASE JobDies(j)
        BY <3>2 DEF JobDies, Running
      <3>3. CASE WorkerCrash(j)
        BY <3>3 DEF WorkerCrash, Running, Suffers
      <3>4. QED
        BY <1>9, <3>1, <3>2, <3>3
    <2>2. Others(j, job') /\ job'[j] = NoJob
      BY <1>0, <2>1, JobMoves
    <2>3. (eval' \in {"complete", "partial"} => NonePending) /\ Verdict'
      BY <1>0, <2>1 DEF SynthesisLast, Verdict, Inserted
    <2>4. QED
      BY <1>5, <2>1, <2>2, <2>3
  <1>10. ASSUME NEW j \in Jobs, ShardStart(j) PROVE Once'
    <2>1. /\ job[j].kind = "shard" /\ job[j].stage = "queued" /\ job[j].tries < MaxTries
          /\ job' = Begin(j, "check", {}) /\ shard' = [shard EXCEPT ![job[j].row] = "running"]
          /\ UNCHANGED <<eval, stored>>
      BY <1>10 DEF ShardStart, At, BaseInv, TriesLeft
    <2>2. /\ Others(j, job') /\ job'[j].kind = job[j].kind /\ job'[j].row = job[j].row
          /\ job'[j].stage = "check"
      BY <1>0, <2>1, JobMoves DEF WorkStages
    <2>3. "running" \in StatusAt("check")
      BY DEF StatusAt
    <2>4. QED
      BY <1>6, <2>1, <2>2, <2>3
  <1>11. ASSUME NEW j \in Jobs, ShardSkip(j) PROVE Once'
    <2>1. /\ job[j].kind = "shard" /\ job[j].stage = "check"
          /\ job' = Goto(j, "end") /\ shard' = [shard EXCEPT ![job[j].row] = "skipped"]
          /\ UNCHANGED <<eval, stored>>
      BY <1>11 DEF ShardSkip, At
    <2>2. /\ Others(j, job') /\ job'[j].kind = job[j].kind /\ job'[j].row = job[j].row
          /\ job'[j].stage = "end"
      BY <1>0, <2>1, JobMoves DEF WorkStages
    <2>3. "skipped" \in StatusAt("end")
      BY DEF StatusAt
    <2>4. QED
      BY <1>6, <2>1, <2>2, <2>3
  <1>12. ASSUME NEW j \in Jobs, ShardCommit(j) PROVE Once'
    <2>1. /\ job[j].kind = "shard" /\ job[j].stage = "analyze" /\ job[j].read = "running"
          /\ shard' = [shard EXCEPT ![job[j].row] = "done"]
          /\ persisted' = [persisted EXCEPT ![job[j].row] = @ + 1]
          /\ job' = [job EXCEPT ![j].stage = "count", ![j].read = "none", ![j].heads = {}]
          /\ UNCHANGED eval
      BY <1>0, <1>12 DEF ShardCommit, At, OneJobPerShard
    <2>2. job[j] \in JobRecord
      BY <1>1, <2>1
    <2>3. /\ Others(j, job') /\ job'[j].kind = job[j].kind /\ job'[j].row = job[j].row
          /\ job'[j].stage = "count"
      BY <1>0, <2>1, <2>2 DEF JobsOK, Others, JobRecord
    <2>4. "done" \in StatusAt("count")
      BY DEF StatusAt
    <2>5. QED
      BY <1>6, <2>1, <2>3, <2>4
  <1>13. ASSUME NEW j \in Jobs, ShardCheck(j) PROVE Once'
    <2>1. /\ job[j].kind = "shard" /\ job[j].stage = "check"
          /\ job' = [job EXCEPT ![j].stage = "analyze", ![j].read = shard[job[j].row],
                                ![j].heads = {tree}]
          /\ UNCHANGED <<eval, shard, stored>>
      BY <1>13 DEF ShardCheck, At
    <2>2. job[j] \in JobRecord /\ shard[job[j].row] = "running"
      BY <1>0, <1>1, <2>1 DEF OneJobPerShard, StatusAt
    <2>3. /\ Others(j, job') /\ job'[j].kind = job[j].kind /\ job'[j].row = job[j].row
          /\ job'[j].stage = "analyze" /\ job'[j].read = "running"
      BY <1>0, <2>1, <2>2 DEF JobsOK, Others, JobRecord
    <2>4. shard[job[j].row] \in StatusAt("analyze")
      BY <2>2 DEF StatusAt
    <2>5. (eval' \in {"complete", "partial"} => NonePending) /\ Verdict'
      BY <1>0, <2>1 DEF SynthesisLast, Verdict, Inserted
    <2>6. QED
      BY <1>5, <2>1, <2>3, <2>4, <2>5 DEF Prepass
  <1>14. ASSUME NEW j \in Jobs, PrepassPersist(j) PROVE Once'
    <2>1. /\ Prepass(j) /\ job[j].stage = "scan" /\ job[j].tries = 1 /\ job[j] \in JobRecord
          /\ Inserted = {} /\ \A k \in Jobs \ {j} : job[k] = NoJob
      BY <1>0, <1>1, <1>14 DEF PrepassPersist, At, Prepass, FirstTry
    <2>2. PICK shards : /\ shards \in Plans
                        /\ shard' = [r \in Rows |-> IF r[2] = 1 /\ r[1] \in DOMAIN shards
                                                    THEN "queued" ELSE shard[r]]
                        /\ job' = [job EXCEPT ![j].stage = "enqueue", ![j].todo = DOMAIN shards,
                                              ![j].heads = {}]
      <3>1. \E shards \in Plans : \E failed :
              Inserts(j, shards, failed) /\ Cardinality(failed) \in 0 .. budget
        BY <1>0, <1>14, <2>1, PlanInserted DEF BaseInv
      <3>2. PICK shards \in Plans : \E failed : Inserts(j, shards, failed)
        BY <3>1
      <3>3. /\ shard' = [r \in Rows |-> IF r[2] = 1 /\ r[1] \in DOMAIN shards
                                         THEN "queued" ELSE shard[r]]
            /\ job' = [job EXCEPT ![j].stage = "enqueue", ![j].todo = DOMAIN shards,
                                  ![j].heads = {}]
        BY <2>1, <3>2 DEF Inserts
      <3>4. QED
        BY <3>2, <3>3
    <2>3. DOMAIN shards \subseteq 1 .. MaxShards
      BY <2>2, ConstantsAssumption DEF Plans
    <2>4. eval' = "analyzing" /\ UNCHANGED stored
      BY <1>14 DEF PrepassPersist
    <2>5. \A r \in Rows : shard[r] = "none" /\ persisted[r] = 0
      BY <1>0, <2>1 DEF Inserted, PersistedOnce
    <2>6. \A r \in Rows : /\ shard'[r] \in {"none", "queued"}
                          /\ shard'[r] # "none" => r[2] = 1
      BY <2>2, <2>5
    <2>7. /\ \A k \in Jobs \ {j} : job'[k] = NoJob
          /\ job'[j].kind = "prepass" /\ job'[j].stage = "enqueue" /\ job'[j].tries = 1
          /\ job'[j].todo = DOMAIN shards
      BY <1>0, <2>1, <2>2 DEF JobsOK, Prepass, JobRecord
    <2>8. FirstTry'
      <3>1. \A k \in DOMAIN shards : <<k, 1>> \in Rows /\ shard'[<<k, 1>>] = "queued"
        BY <2>2, <2>3, ConstantsAssumption DEF Rows
      <3>2. \A i \in Jobs : Prepass(i)' => i = j
        BY <2>7 DEF Prepass, NoJob
      <3>3. \A i \in Jobs : job'[i].kind # "shard"
        BY <2>7 DEF NoJob
      <3>4. QED
        BY <2>7, <3>1, <3>2, <3>3 DEF FirstTry
    <2>9. FirstRows'
      BY <2>6 DEF FirstRows, Inserted
    <2>10. OneJobPerShard' /\ SynthesisLast' /\ Verdict'
      <3>1. \A i \in Jobs : job'[i].kind \notin {"shard", "synthesize"}
        BY <2>7 DEF NoJob
      <3>2. QED
        BY <2>4, <3>1 DEF OneJobPerShard, SynthesisLast, Verdict
    <2>11. PersistedOnce'
      BY <2>4, <2>5, <2>6 DEF PersistedOnce
    <2>12. QED
      BY <2>8, <2>9, <2>10, <2>11 DEF Once
  <1>15. ASSUME NEW j \in Jobs, PrepassEnqueue(j) PROVE Once'
    <2>1. /\ Prepass(j) /\ job[j].stage = "enqueue" /\ job[j] \in JobRecord /\ job[j].tries = 1
          /\ UNCHANGED <<eval, shard, stored>>
      BY <1>0, <1>1, <1>15 DEF PrepassEnqueue, At, Prepass, FirstTry
    <2>2. PICK s \in job[j].todo, r \in Inserted :
            r[1] = s /\ job' \in Enqueued([job EXCEPT ![j].todo = @ \ {s}], "shard", r)
      BY <1>15 DEF PrepassEnqueue
    <2>3. r = <<s, 1>> /\ r \in Rows
      BY <1>0, <2>2 DEF FirstRows, Inserted, Rows
    <2>4. shard[r] = "queued" /\ \A i \in Jobs : job[i].kind = "shard" => job[i].row # r
      BY <1>0, <2>1, <2>2, <2>3 DEF FirstTry
    <2>5. PICK moved : /\ moved = [job EXCEPT ![j].todo = @ \ {s}]
                       /\ job' \in Enqueued(moved, "shard", r)
      BY <2>2
    <2>6. /\ [job[j] EXCEPT !.todo = @ \ {s}] \in JobRecord
          /\ moved = [job EXCEPT ![j] = [job[j] EXCEPT !.todo = @ \ {s}]]
      BY <2>1, <2>5 DEF JobRecord
    <2>7. /\ moved \in [Jobs -> JobRecord \cup {NoJob}] /\ Others(j, moved)
          /\ moved[j].stage = "enqueue" /\ moved[j].kind = "prepass"
          /\ moved[j].tries = 1 /\ moved[j].todo = job[j].todo \ {s}
      BY <1>0, <2>1, <2>6 DEF JobsOK, Others, JobRecord, Prepass
    <2>8. PICK k \in Jobs : moved[k] = NoJob /\ job' = [moved EXCEPT ![k] = QueuedJob("shard", r, 0)]
      <3>1. job' \in Enqueued(moved, "shard", r)
        BY <2>5
      <3>2. QED
        BY <3>1, EnqueuedSlot
    <2>9. k # j
      BY <2>7, <2>8 DEF NoJob
    <2>10. /\ job'[k].stage = "queued" /\ job'[k].kind = "shard" /\ job'[k].row = r
           /\ \A i \in Jobs \ {j, k} : job'[i] = job[i]
           /\ job'[j] = moved[j]
      BY <2>3, <2>7, <2>8, <2>9, QueuedJobType, ConstantsAssumption DEF Others
    <2>11. Inserted' = Inserted /\ ~NonePending
      BY <2>1, <2>3, <2>4 DEF Inserted, NonePending, Pending
    <2>12. FirstTry'
      <3>1. \A i \in Jobs : Prepass(i)' => i = j
        BY <2>1, <2>10 DEF Prepass, BaseInv, OnePrepass
      <3>2. ASSUME NEW t \in job[j].todo \ {s}
            PROVE  /\ <<t, 1>> \in Rows /\ shard'[<<t, 1>>] = "queued"
                   /\ \A i \in Jobs : job'[i].kind = "shard" => job'[i].row # <<t, 1>>
        <4>1. /\ <<t, 1>> \in Rows /\ shard[<<t, 1>>] = "queued"
              /\ \A i \in Jobs : job[i].kind = "shard" => job[i].row # <<t, 1>>
          BY <1>0, <2>1, <3>2 DEF FirstTry
        <4>2. r # <<t, 1>>
          BY <2>3
        <4>3. QED
          BY <2>1, <2>7, <2>10, <4>1, <4>2
      <3>3. QED
        BY <2>7, <2>10, <3>1, <3>2 DEF FirstTry
    <2>13. FirstRows'
      BY <1>0, <2>11 DEF FirstRows
    <2>14. OneJobPerShard'
      <3>1. "queued" \in StatusAt("queued")
        BY DEF StatusAt
      <3>2. QED
        BY <1>0, <2>1, <2>4, <2>7, <2>10, <3>1 DEF OneJobPerShard
    <2>15. SynthesisLast'
      BY <1>0, <2>1, <2>7, <2>10, <2>11 DEF SynthesisLast
    <2>16. Verdict' /\ PersistedOnce'
      BY <1>0, <2>1, <2>11 DEF Verdict, PersistedOnce
    <2>17. QED
      BY <2>12, <2>13, <2>14, <2>15, <2>16 DEF Once
  <1>16. ASSUME NEW j \in Jobs, ShardCount(j) PROVE Once'
    <2>1. /\ job[j].stage = "count" /\ job[j].kind = "shard"
          /\ UNCHANGED <<eval, shard, stored>>
      BY <1>16 DEF ShardCount, At
    <2>2. PICK moved : moved = Goto(j, "end")
      OBVIOUS
    <2>3. /\ moved \in [Jobs -> JobRecord \cup {NoJob}] /\ Others(j, moved)
          /\ moved[j].stage = "end" /\ moved[j].kind = "shard" /\ moved[j].row = job[j].row
      BY <1>0, <2>1, <2>2, JobMoves DEF WorkStages
    <2>4. shard[job[j].row] \in StatusAt("end")
      BY <1>0, <2>1 DEF OneJobPerShard, StatusAt
    <2>5. CASE job' = moved
      <3>1. (eval' \in {"complete", "partial"} => NonePending) /\ Verdict'
        BY <1>0, <2>1 DEF SynthesisLast, Verdict, Inserted
      <3>2. QED
        BY <1>5, <2>1, <2>3, <2>4, <2>5, <3>1 DEF Prepass
    <2>6. CASE NonePending /\ job' \in Enqueued(moved, "synthesize", NoRow)
      <3>1. PICK k \in Jobs : /\ moved[k] = NoJob
                              /\ job' = [moved EXCEPT ![k] = QueuedJob("synthesize", NoRow, 0)]
        BY <2>6, EnqueuedSlot
      <3>2. k # j
        BY <2>3, <3>1 DEF NoJob
      <3>3. /\ job'[k].kind = "synthesize" /\ job'[j] = moved[j]
            /\ \A i \in Jobs \ {j, k} : job'[i] = job[i]
        BY <2>3, <3>1, <3>2, QueuedJobType, ConstantsAssumption DEF Others
      <3>4. Inserted' = Inserted /\ NonePending'
        BY <2>1, <2>6 DEF Inserted, NonePending
      <3>5. FirstTry'
        <4>1. ASSUME NEW i \in Jobs, Prepass(i)'
              PROVE  /\ i # j /\ job'[i] = job[i] /\ Prepass(i)
                     /\ job[i].stage \notin {"queued", "scan"}
          BY <1>0, <2>1, <2>3, <3>3, <4>1 DEF FirstTry, Prepass, NoJob
        <4>2. \A i \in Jobs : job'[i].kind = "shard" =>
                job[i].kind = "shard" /\ job'[i].row = job[i].row
          BY <2>1, <2>3, <3>3
        <4>3. QED
          BY <1>0, <2>1, <4>1, <4>2 DEF FirstTry
      <3>6. OneJobPerShard'
        BY <1>0, <2>1, <2>3, <2>4, <3>3 DEF OneJobPerShard
      <3>7. FirstRows' /\ SynthesisLast' /\ Verdict' /\ PersistedOnce'
        BY <1>0, <2>1, <3>4 DEF FirstRows, SynthesisLast, Verdict, PersistedOnce
      <3>8. QED
        BY <3>5, <3>6, <3>7 DEF Once
    <2>7. QED
      BY <1>16, <2>2, <2>5, <2>6 DEF ShardCount, NonePending
  <1>17. CASE UNCHANGED vars
    BY <1>2, <1>17 DEF vars, SameBut
  <1>18. QED
    BY <1>3, <1>4, <1>7, <1>8, <1>9, <1>10, <1>11, <1>12, <1>13, <1>14, <1>15, <1>16, <1>17
    DEF Next, JobStep

\* What befell the evaluation is not forgotten.
LEMMA MishapsStay == [Next]_vars => mishaps \subseteq mishaps'
  <1> SUFFICES ASSUME [Next]_vars PROVE mishaps \subseteq mishaps'
    OBVIOUS
  <1>1. CASE UNCHANGED mishaps
    BY <1>1
  <1>2. ASSUME NEW j \in Jobs, PrepassPersist(j) \/ ShardSkip(j) \/ ShardCommit(j)
                               \/ JobDies(j) \/ WorkerCrash(j)
        PROVE  mishaps \subseteq mishaps'
    BY <1>2 DEF PrepassPersist, ShardSkip, ShardCommit, JobDies, WorkerCrash, Suffers
  <1>3. CASE CreateEnqueue \/ Push
    BY <1>3 DEF CreateEnqueue, Push, Suffers
  <1>4. QED
    BY <1>1, <1>2, <1>3
    DEF Next, JobStep, Create, CancelRead, CancelCommit, PrepassStart, PrepassFails,
        PrepassEnqueue, PrepassReturn, ShardStart, ShardCheck, ShardCount,
        SynthesizeStart, SynthesizeCommit, JobEnd, vars

LEMMA EvalInvInductive == Spec => []EvalInv
  <1>1. Init => EvalInv
    BY InitBase, InitOnce DEF EvalInv
  <1>2. EvalInv /\ [Next]_vars => EvalInv'
    <2> SUFFICES ASSUME EvalInv, [Next]_vars PROVE EvalInv'
      OBVIOUS
    <2>1. BaseInv'
      BY BaseStep DEF EvalInv
    <2>2. QED
      BY <2>1, MishapsStay, OnceStep DEF EvalInv
  <1>3. QED
    BY <1>1, <1>2, PTL DEF Spec

\* However shards run together and whatever jobs are lost, while no job is run twice the
\* synthesis comes after the last shard: run_external_eval_synthesize writes "complete"
\* only with every shard done and "partial" only with one skipped, and no shard is still
\* to add findings.
THEOREM SynthesisComesLast == Spec => []SynthesisSeesEveryShard
  <1>1. EvalInv => SynthesisSeesEveryShard
    BY DEF EvalInv, Once, SynthesisLast, NonePending, Verdict, Inserted, SynthesisSeesEveryShard
  <1>2. QED
    BY <1>1, EvalInvInductive, PTL

\* More than the counting half of ScannedLikeTheEngine says: the findings of a shard are
\* inserted at most once at any time while no job is run twice, and exactly once when the
\* evaluation is complete.
StoredOnce ==
    "rerun" \notin mishaps =>
      /\ \A r \in Rows : persisted[r] <= 1
      /\ eval = "complete" => \A r \in Inserted : persisted[r] = 1

\* _run_shard's inserts neither repeat nor leave out a shard that a complete verdict counts.
THEOREM FindingsStoredOnce == Spec => []StoredOnce
  <1>1. EvalInv => StoredOnce
    BY DEF EvalInv, Once, PersistedOnce, Verdict, Inserted, StoredOnce
  <1>2. QED
    BY <1>1, EvalInvInductive, PTL

\* Every variable of every reachable state has the type the code gives it: the prepass's
\* tries stay within the worker's, and every row was planned by the try that inserted it.
THEOREM TypeCorrect == Spec => []TypeOK
  <1>1. BaseInv => TypeOK
    BY DEF BaseInv
  <1>2. QED
    BY <1>1, InitBase, BaseStep, PTL DEF Spec

-----------------------------------------------------------------------------
(* What the jobs stored is what the engine would have reported. *)

Clean == mishaps \cap {"rerun", "moved", "unread"} = {}

\* Until a job begins to read the branch may move, and from then on it rests.
Still ==
    /\ eval = "queued" => \A j \in Jobs : job[j].stage \in {"absent", "queued"}
    /\ \A j \in Jobs : job[j].stage \in Reading => job[j].heads = {tree}

\* The shards inserted are those of the tree, and all of them; without shards there is no
\* synthesis.
Scanned ==
    /\ Inserted # {} => /\ eval \notin {"none", "queued", "scanning"}
                        /\ plan[1] = ShardsOf(tree)
                        /\ \A k \in DOMAIN plan[1] : <<k, 1>> \in Inserted
    /\ eval \in {"complete", "partial"} \/ (\E j \in Jobs : job[j].kind = "synthesize")
         => Inserted # {}

\* What was found in a shard that is done is all there is to find.
FindingsOf(r) == Synthesize(AnalyzeShard(FilesOf(r)))
FoundAll == \A r \in Rows : found[r] = IF shard[r] = "done" THEN FindingsOf(r) ELSE {}

ScanInv == EvalInv /\ (Clean => Still /\ Scanned /\ FoundAll)

\* The prepass and a shard's job on a branch that rests.
LEMMA PlanOfTheTree ==
    ASSUME TypeOK, NEW j \in Jobs, PrepassPersist(j), job[j].heads = {tree}, Clean'
    PROVE  /\ plan' = [plan EXCEPT ![job[j].tries] = ShardsOf(tree)]
           /\ shard' = [r \in Rows |-> IF r[2] = job[j].tries /\ r[1] \in DOMAIN ShardsOf(tree)
                                       THEN "queued" ELSE shard[r]]
  <1> DEFINE files == Sampled(Listed(tree))
  <1>1. PICK failed \in MayFail(files) :
           \E samples \in Fetches(files, {tree}, failed) :
             LET shards == JobShards(Listed(tree), Excluded(samples)) IN
             /\ plan' = [plan EXCEPT ![job[j].tries] = shards]
             /\ shard' = [r \in Rows |-> IF r[2] = job[j].tries /\ r[1] \in DOMAIN shards
                                         THEN "queued" ELSE shard[r]]
             /\ mishaps' = mishaps \cup Unread(failed) \cup (IF shards = <<>> THEN {"empty"} ELSE {})
    BY DEF PrepassPersist
  <1>2. tree \in Repos
    BY DEF TypeOK
  <1>3. failed = {}
    BY <1>1 DEF Clean, Unread
  <1>4. files \in SUBSET ToSet(tree)
    BY <1>2, ListedIsList DEF Sampled, ToSet, Range
  <1> HIDE DEF files
  <1>5. \A samples \in Fetches(files, {tree}, {}) : samples = files
    BY <1>2, <1>4, AllIsRead
  <1>6. QED
    BY <1>1, <1>3, <1>5 DEF ShardsOf, files

LEMMA FindingsOfTheTree ==
    ASSUME TypeOK, NEW j \in Jobs, ShardCommit(j), job[j].heads = {tree}, Clean',
           FilesOf(job[j].row) \in Range(ShardsOf(tree))
    PROVE  found' = [found EXCEPT ![job[j].row] = @ \cup FindingsOf(job[j].row)]
  <1> DEFINE files == ToSet(Analyzed(FilesOf(job[j].row)))
  <1>1. PICK failed \in MayFail(files) :
           \E texts \in Fetches(files, {tree}, failed) :
             /\ found' = [found EXCEPT ![job[j].row] = @ \cup Synthesize(AnalyzeTexts(texts))]
             /\ mishaps' = mishaps \cup Unread(failed)
    BY DEF ShardCommit
  <1>2. tree \in Repos
    BY DEF TypeOK
  <1>3. failed = {}
    BY <1>1 DEF Clean, Unread
  <1>4. files \in SUBSET ToSet(tree)
    BY <1>2, ShardFiles
  <1> HIDE DEF files
  <1>5. \A texts \in Fetches(files, {tree}, {}) : texts = files
    BY <1>2, <1>4, AllIsRead
  <1>6. QED
    BY <1>1, <1>3, <1>5 DEF FindingsOf, AnalyzeShard, files

\* No step loses this while no job is run twice, the branch rests and no read fails.
LEMMA ScannedStep ==
    ASSUME BaseInv, Once, Still, Scanned, [Next]_vars, Clean'
    PROVE  Scanned'
  <1> USE DEF Clean
  <1>0. JobsOK
    BY DEF BaseInv, TypeOK, JobsOK
  \* Steps that insert nothing, and begin no synthesis where there was none.
  <1>1. ASSUME Inserted' = Inserted, UNCHANGED plan,
               Inserted # {} => UNCHANGED tree,
               eval' # eval /\ Inserted # {} => eval' \notin {"none", "queued", "scanning"},
               eval' # eval /\ Inserted = {} => eval' \notin {"complete", "partial"},
               \A j \in Jobs : job'[j].kind = "synthesize" =>
                 job[j].kind = "synthesize" \/ Inserted # {}
        PROVE  Scanned'
    BY <1>1 DEF Scanned
  <1>2. CASE Create
    BY <1>1, <1>2 DEF Create, Scanned, Inserted
  <1>3. CASE Push
    <2>1. eval = "queued" /\ UNCHANGED <<eval, plan, shard>>
      BY <1>3 DEF Push
    <2>2. Inserted = {} /\ Inserted' = Inserted
      BY <2>1 DEF Scanned, Inserted
    <2>3. \A j \in Jobs : job'[j].kind = job[j].kind
      BY <1>0, <1>3, PushedJobs DEF SameBut
    <2>4. QED
      BY <1>1, <2>1, <2>2, <2>3
  <1>4. CASE CancelRead \/ CancelCommit
    BY <1>1, <1>4 DEF CancelRead, CancelCommit, Inserted, scan
  <1>5. CASE CreateEnqueue
    <2>1. CASE UNCHANGED job
      BY <1>1, <1>5, <2>1 DEF CreateEnqueue, Inserted, scan
    <2>2. CASE job' \in Enqueued(job, "prepass", NoRow)
      <3>1. PICK k \in Jobs : job[k] = NoJob /\ job' = [job EXCEPT ![k] = QueuedJob("prepass", NoRow, 0)]
        BY <2>2, EnqueuedSlot
      <3>2. \A i \in Jobs : job'[i].kind = "synthesize" => job[i].kind = "synthesize"
        BY <1>0, <3>1, QueuedJobType, ConstantsAssumption DEF JobsOK
      <3>3. QED
        BY <1>1, <1>5, <3>2 DEF CreateEnqueue, Inserted, scan
    <2>3. QED
      BY <1>5, <2>1, <2>2 DEF CreateEnqueue
  \* A job goes on or ends.
  <1>6. ASSUME NEW j \in Jobs, job[j].stage # "absent",
               \/ \E stage \in WorkStages : job' = Goto(j, stage)
               \/ /\ job[j].tries < MaxTries
                  /\ \E stage \in WorkStages, heads \in SUBSET Repos : job' = Begin(j, stage, heads)
               \/ job' = Ended(j)
        PROVE  \A i \in Jobs : job'[i].kind = "synthesize" => job[i].kind = "synthesize"
    <2>1. Others(j, job') /\ (job'[j].kind = job[j].kind \/ job'[j] = NoJob)
      BY <1>0, <1>6, JobMoves
    <2>2. QED
      BY <2>1 DEF Others, NoJob
  <1>7. ASSUME NEW j \in Jobs, PrepassStart(j) PROVE Scanned'
    <2>1. Inserted = {} /\ job[j].tries < MaxTries /\ job[j].stage # "absent"
      BY <1>7 DEF PrepassStart, At, Once, FirstTry, Prepass, BaseInv, TriesLeft
    <2>2. \A i \in Jobs : job'[i].kind = "synthesize" => job[i].kind = "synthesize"
      BY <1>6, <1>7, <2>1 DEF PrepassStart, WorkStages, BaseInv, TypeOK
    <2>3. QED
      BY <1>1, <1>7, <2>1, <2>2 DEF PrepassStart, Inserted, scan
  <1>8. ASSUME NEW j \in Jobs, PrepassFails(j) \/ PrepassReturn(j) PROVE Scanned'
    <2>1. \A i \in Jobs : job'[i].kind = "synthesize" => job[i].kind = "synthesize"
      BY <1>6, <1>8 DEF PrepassFails, PrepassReturn, At, WorkStages
    <2>2. QED
      BY <1>1, <1>8, <2>1 DEF PrepassFails, PrepassReturn, Inserted, scan
  <1>9. ASSUME NEW j \in Jobs, PrepassPersist(j) PROVE Scanned'
    <2>1. /\ job[j].stage = "scan" /\ job[j].kind = "prepass" /\ job[j] \in JobRecord
          /\ job[j].tries = 1 /\ Inserted = {} /\ \A k \in Jobs \ {j} : job[k] = NoJob
      BY <1>0, <1>9, JobMoves DEF PrepassPersist, At, Once, FirstTry, Prepass
    <2>2. PICK shards : shards = ShardsOf(tree)
      OBVIOUS
    <2>3. /\ plan' = [plan EXCEPT ![1] = shards]
          /\ shard' = [r \in Rows |-> IF r[2] = 1 /\ r[1] \in DOMAIN shards
                                      THEN "queued" ELSE shard[r]]
          /\ eval' = "analyzing" /\ UNCHANGED tree
          /\ job'[j].kind = "prepass" /\ \A k \in Jobs \ {j} : job'[k] = job[k]
      <3>1. job[j].heads = {tree}
        BY <2>1 DEF Still, Reading
      <3>2. QED
        <4>1. /\ plan' = [plan EXCEPT ![1] = shards]
              /\ shard' = [r \in Rows |-> IF r[2] = 1 /\ r[1] \in DOMAIN shards
                                          THEN "queued" ELSE shard[r]]
          BY <1>9, <2>1, <2>2, <3>1, PlanOfTheTree DEF BaseInv
        <4>2. eval' = "analyzing" /\ UNCHANGED tree
          BY <1>9 DEF PrepassPersist
        <4>3. \E todo : job' = [job EXCEPT ![j].stage = "enqueue", ![j].todo = todo, ![j].heads = {}]
          BY <1>9, <2>1, PlanInserted DEF BaseInv, Inserts
        <4>4. job'[j].kind = "prepass" /\ \A k \in Jobs \ {j} : job'[k] = job[k]
          BY <1>0, <2>1, <4>3 DEF JobsOK, JobRecord
        <4>5. QED
          BY <4>1, <4>2, <4>4
    <2>4. DOMAIN shards \subseteq 1 .. MaxShards
      <3>1. PICK inserted \in Plans : plan' = [plan EXCEPT ![1] = inserted]
        BY <1>9, <2>1, PlanInserted DEF BaseInv, Inserts
      <3>2. inserted = shards
        <4>1. plan \in [1 .. MaxTries -> {<<>>} \cup Plans] /\ 1 \in 1 .. MaxTries
          BY ConstantsAssumption DEF BaseInv, TypeOK
        <4>2. plan'[1] = inserted /\ plan'[1] = shards
          BY <2>3, <3>1, <4>1
        <4>3. QED
          BY <4>2
      <3>3. QED
        BY <3>2, ConstantsAssumption DEF Plans
    <2>5. plan'[1] = shards
      <3>1. 1 \in DOMAIN plan
        BY ConstantsAssumption DEF BaseInv, TypeOK
      <3>2. QED
        BY <2>3, <3>1
    <2>6. \A k \in DOMAIN shards : <<k, 1>> \in Inserted'
      <3>1. \A k \in DOMAIN shards : <<k, 1>> \in Rows
        BY <2>4, ConstantsAssumption DEF Rows
      <3>2. QED
        BY <2>3, <3>1 DEF Inserted
    <2>7. \A i \in Jobs : job'[i].kind # "synthesize"
      BY <2>1, <2>3 DEF NoJob
    <2>8. QED
      BY <2>2, <2>3, <2>5, <2>6, <2>7 DEF Scanned
  <1>10. ASSUME NEW j \in Jobs, PrepassEnqueue(j) PROVE Scanned'
    <2>1. /\ job[j].stage = "enqueue" /\ job[j].kind = "prepass" /\ job[j] \in JobRecord
          /\ UNCHANGED <<eval, scan, shard>>
      BY <1>0, <1>10, JobMoves DEF PrepassEnqueue, At
    <2>2. PICK s \in job[j].todo, r \in Inserted :
            job' \in Enqueued([job EXCEPT ![j].todo = @ \ {s}], "shard", r)
      BY <1>10 DEF PrepassEnqueue
    <2>3. PICK moved : /\ moved = [job EXCEPT ![j].todo = @ \ {s}]
                       /\ job' \in Enqueued(moved, "shard", r)
      BY <2>2
    <2>4. \A i \in Jobs : moved[i].kind = job[i].kind
      BY <1>0, <2>1, <2>3 DEF JobsOK, JobRecord
    <2>5. PICK k \in Jobs : moved[k] = NoJob /\ job' = [moved EXCEPT ![k] = QueuedJob("shard", r, 0)]
      <3>1. job' \in Enqueued(moved, "shard", r)
        BY <2>3
      <3>2. QED
        BY <3>1, EnqueuedSlot
    <2>6. \A i \in Jobs : job'[i].kind = "synthesize" => job[i].kind = "synthesize"
      <3>1. r \in Rows /\ DOMAIN moved = Jobs
        BY <1>0, <2>3 DEF Inserted, JobsOK
      <3>2. job'[k].kind = "shard"
        BY <2>5, <3>1, QueuedJobType, ConstantsAssumption
      <3>3. QED
        BY <2>4, <2>5, <3>1, <3>2
    <2>7. QED
      BY <1>1, <2>1, <2>6 DEF Inserted, scan
  <1>11. ASSUME NEW j \in Jobs, ShardStart(j) \/ ShardSkip(j) \/ ShardCheck(j) \/ ShardCommit(j)
         PROVE  Scanned'
    <2>1. /\ job[j].kind = "shard" /\ job[j].stage # "absent" /\ job[j] \in JobRecord
          /\ job[j].row \in Inserted /\ UNCHANGED <<eval, scan>>
      BY <1>0, <1>11, JobMoves
      DEF ShardStart, ShardSkip, ShardCheck, ShardCommit, At, BaseInv, ShardRows
    <2>2. Inserted' = Inserted
      <3>1. shard' = shard \/ \E status \in {"running", "skipped", "done"} :
              shard' = [shard EXCEPT ![job[j].row] = status]
        BY <1>11 DEF ShardStart, ShardSkip, ShardCheck, ShardCommit
      <3>2. shard \in [Rows -> ShardStatuses]
        BY DEF BaseInv, TypeOK
      <3>3. QED
        BY <2>1, <3>1, <3>2 DEF Inserted
    <2>3. \A i \in Jobs : job'[i].kind = "synthesize" => job[i].kind = "synthesize"
      <3>1. CASE ShardStart(j)
        BY <1>6, <2>1, <3>1 DEF ShardStart, At, BaseInv, TriesLeft, WorkStages
      <3>2. CASE ShardSkip(j)
        BY <1>6, <2>1, <3>2 DEF ShardSkip, WorkStages
      <3>3. CASE ShardCheck(j) \/ ShardCommit(j)
        BY <1>0, <2>1, <3>3 DEF ShardCheck, ShardCommit, JobsOK, JobRecord
      <3>4. QED
        BY <1>11, <3>1, <3>2, <3>3
    <2>4. QED
      BY <1>1, <2>1, <2>2, <2>3 DEF scan
  <1>12. ASSUME NEW j \in Jobs, ShardCount(j) PROVE Scanned'
    <2>1. job[j].row \in Inserted /\ UNCHANGED <<eval, scan, shard>>
      BY <1>12 DEF ShardCount, At, BaseInv, ShardRows
    <2>2. QED
      BY <1>1, <2>1 DEF Inserted, scan
  <1>13. ASSUME NEW j \in Jobs, SynthesizeStart(j) \/ SynthesizeCommit(j) PROVE Scanned'
    <2>1. job[j].kind = "synthesize" /\ job[j].stage # "absent" /\ Inserted # {}
      BY <1>13 DEF SynthesizeStart, SynthesizeCommit, At, Scanned
    <2>2. QED
      BY <1>1, <1>13, <2>1 DEF SynthesizeStart, SynthesizeCommit, Inserted, scan
  <1>14. ASSUME NEW j \in Jobs, JobEnd(j) \/ JobDies(j) \/ WorkerCrash(j) PROVE Scanned'
    <2>1. /\ job[j].stage # "absent" /\ UNCHANGED <<eval, scan, shard>> /\ job' = Ended(j)
      <3>1. CASE JobEnd(j)
        BY <3>1 DEF JobEnd
      <3>2. CASE JobDies(j)
        BY <3>2 DEF JobDies, Running
      <3>3. CASE WorkerCrash(j)
        BY <3>3 DEF WorkerCrash, Running, Suffers
      <3>4. QED
        BY <1>14, <3>1, <3>2, <3>3
    <2>2. \A i \in Jobs : job'[i].kind = "synthesize" => job[i].kind = "synthesize"
      BY <1>6, <2>1
    <2>3. QED
      BY <1>1, <2>1, <2>2 DEF Inserted, scan
  <1>15. CASE UNCHANGED vars
    BY <1>1, <1>15 DEF vars, scan, Inserted
  <1>16. QED
    BY <1>2, <1>3, <1>4, <1>5, <1>7, <1>8, <1>9, <1>10, <1>11, <1>12, <1>13, <1>14, <1>15
    DEF Next, JobStep

\* Nor does the branch move under a job that reads it.
LEMMA StillStep ==
    ASSUME BaseInv, Still, Scanned, BaseInv', [Next]_vars, Clean'
    PROVE  Still'
  <1>0. JobsOK /\ tree \in Repos
    BY DEF BaseInv, TypeOK, JobsOK
  <1>1. ASSUME UNCHANGED tree,
               \A j \in Jobs : job'[j].stage \in Reading =>
                 \/ job'[j].heads = {tree}
                 \/ job[j].stage \in Reading /\ job'[j].heads = job[j].heads,
               eval' = "queued" => \A j \in Jobs : job'[j].stage \in {"absent", "queued"}
        PROVE  Still'
    BY <1>1 DEF Still
  \* A job goes on, ends, is enqueued or queued again.
  <1>2. ASSUME UNCHANGED tree, NEW j \in Jobs, eval' # "queued",
               \A i \in Jobs \ {j} : job'[i] = job[i] \/ job'[i].stage = "queued",
               job'[j].stage \in Reading => job'[j].heads = {tree}
        PROVE  Still'
    BY <1>1, <1>2 DEF Still, Reading
  <1>3. CASE Create
    <2>1. \A j \in Jobs : job'[j].stage = "absent" /\ UNCHANGED <<tree, job>>
      BY <1>3 DEF Create, BaseInv, Beginning, NoneBegun, NoJob
    <2>2. QED
      BY <1>1, <1>3, <2>1 DEF Create, Reading
  <1>4. CASE Push
    <2>1. eval = "queued"
      BY <1>4 DEF Push, Clean
    <2>2. \A j \in Jobs : job'[j].stage \in {"absent", "queued"}
      BY <1>0, <1>4, <2>1, PushedJobs DEF Still, SameBut
    <2>3. QED
      BY <2>2 DEF Still, Reading
  <1>5. CASE CancelRead \/ CancelCommit \/ UNCHANGED vars
    BY <1>1, <1>5 DEF CancelRead, CancelCommit, vars, scan, Still
  <1>6. CASE CreateEnqueue
    <2>1. CASE UNCHANGED job
      BY <1>1, <1>6, <2>1 DEF CreateEnqueue, scan, Still
    <2>2. CASE job' \in Enqueued(job, "prepass", NoRow)
      <3>1. PICK k \in Jobs : job' = [job EXCEPT ![k] = QueuedJob("prepass", NoRow, 0)]
        BY <2>2, EnqueuedSlot
      <3>2. \A i \in Jobs : job'[i] = job[i] \/ job'[i].stage = "queued"
        BY <1>0, <3>1, QueuedJobType, ConstantsAssumption DEF JobsOK
      <3>3. QED
        BY <1>1, <1>6, <3>2 DEF CreateEnqueue, scan, Still, Reading
    <2>3. QED
      BY <1>6, <2>1, <2>2 DEF CreateEnqueue
  \* A job that is not only queued tells that the evaluation is not, either.
  <1>7. ASSUME NEW j \in Jobs, job[j].stage # "absent"
        PROVE  /\ job[j].stage # "queued" => eval # "queued"
               /\ job[j].kind = "shard" => eval # "queued"
    BY <1>7 DEF Still, Scanned, BaseInv, ShardRows
  <1>8. ASSUME NEW j \in Jobs, PrepassStart(j) \/ ShardStart(j) \/ SynthesizeStart(j)
        PROVE  Still'
    <2>1. PICK stage \in WorkStages, heads \in SUBSET Repos :
            /\ job' = Begin(j, stage, heads)
            /\ stage \in Reading => heads = {tree}
      BY <1>0, <1>8 DEF PrepassStart, ShardStart, SynthesizeStart, WorkStages, Reading
    <2>2. job[j].stage = "queued" /\ job[j].tries < MaxTries /\ UNCHANGED tree /\ eval' # "queued"
      BY <1>7, <1>8
      DEF PrepassStart, ShardStart, SynthesizeStart, At, BaseInv, TriesLeft, scan
    <2>3. job[j].stage # "absent"
      BY <2>2
    <2>4. Others(j, job') /\ job'[j].stage = stage /\ job'[j].heads = heads
      <3>1. LET moved == Begin(j, stage, heads)
            IN  Others(j, moved) /\ moved[j].stage = stage /\ moved[j].heads = heads
        BY <1>0, <2>2, <2>3, JobMoves
      <3>2. QED
        BY <2>1, <3>1
    <2>5. QED
      BY <1>2, <2>1, <2>2, <2>4 DEF Others
  <1>9. ASSUME NEW j \in Jobs, \/ PrepassFails(j) \/ PrepassReturn(j) \/ ShardSkip(j)
                               \/ SynthesizeCommit(j)
        PROVE  Still'
    <2>1. /\ job[j].stage \notin {"absent", "queued"} /\ job' = Goto(j, "end")
          /\ UNCHANGED tree /\ eval' # "queued"
      BY <1>7, <1>9 DEF PrepassFails, PrepassReturn, ShardSkip, SynthesizeCommit, At, scan
    <2>2. Others(j, job') /\ job'[j].stage = "end"
      BY <1>0, <2>1, JobMoves DEF WorkStages
    <2>3. QED
      BY <1>2, <2>1, <2>2 DEF Others, Reading
  <1>10. ASSUME NEW j \in Jobs, PrepassPersist(j) \/ ShardCheck(j) \/ ShardCommit(j)
         PROVE  Still'
    <2>1. /\ job[j].stage \notin {"absent", "queued"} /\ UNCHANGED tree /\ eval' # "queued"
      BY <1>7, <1>10 DEF PrepassPersist, ShardCheck, ShardCommit, At, scan
    <2>2. job[j] \in JobRecord
      BY <1>0, <2>1, JobMoves
    <2>3. \A i \in Jobs \ {j} : job'[i] = job[i]
      BY <1>0, <1>10 DEF PrepassPersist, ShardCheck, ShardCommit, JobsOK
    <2>4. job'[j].stage \in Reading => job'[j].heads = {tree}
      <3>1. CASE PrepassPersist(j)
        <4>1. \E todo : job' = [job EXCEPT ![j].stage = "enqueue", ![j].todo = todo, ![j].heads = {}]
          BY <2>2, <3>1, PlanInserted DEF BaseInv, Inserts
        <4>2. job'[j].stage = "enqueue"
          BY <1>0, <2>2, <4>1 DEF JobsOK, JobRecord
        <4>3. QED
          BY <4>2 DEF Reading
      <3>2. CASE ShardCheck(j)
        BY <1>0, <2>2, <3>2 DEF ShardCheck, JobsOK, JobRecord
      <3>3. CASE ShardCommit(j)
        <4>1. job' = [job EXCEPT ![j].stage = "count", ![j].read = "none", ![j].heads = {}]
          BY <3>3 DEF ShardCommit
        <4>2. job'[j].stage = "count"
          BY <1>0, <2>2, <4>1 DEF JobsOK, JobRecord
        <4>3. QED
          BY <4>2 DEF Reading
      <3>4. QED
        BY <1>10, <3>1, <3>2, <3>3
    <2>5. QED
      BY <1>2, <2>1, <2>3, <2>4
  <1>11. ASSUME NEW j \in Jobs, PrepassEnqueue(j) \/ ShardCount(j) PROVE Still'
    <2>1. /\ job[j].stage \in {"enqueue", "count"} /\ UNCHANGED tree /\ eval' # "queued"
          /\ job[j] \in JobRecord
      <3>1. job[j].stage \in {"enqueue", "count"} /\ UNCHANGED <<tree, eval>>
        BY <1>11 DEF PrepassEnqueue, ShardCount, At, scan
      <3>2. QED
        BY <1>0, <1>7, <3>1, JobMoves
    <2>2. ASSUME NEW moved \in [Jobs -> JobRecord \cup {NoJob}],
                 \A i \in Jobs \ {j} : moved[i] = job[i],
                 moved[j].stage \in {"enqueue", "end"},
                 NEW kind \in {"shard", "synthesize"}, NEW row \in Rows \cup {NoRow},
                 job' \in Enqueued(moved, kind, row)
          PROVE  Still'
      <3>1. PICK k \in Jobs : moved[k] = NoJob /\ job' = [moved EXCEPT ![k] = QueuedJob(kind, row, 0)]
        BY <2>2, EnqueuedSlot
      <3>2. k # j /\ QueuedJob(kind, row, 0).stage = "queued"
        BY <2>2, <3>1, QueuedJobType, ConstantsAssumption DEF NoJob
      <3>3. \A i \in Jobs \ {j} : job'[i] = job[i] \/ job'[i].stage = "queued"
        BY <2>2, <3>1, <3>2
      <3>4. job'[j].stage \in {"enqueue", "end"}
        BY <2>2, <3>1, <3>2
      <3>5. QED
        BY <1>2, <2>1, <3>3, <3>4 DEF Reading
    <2>3. CASE ShardCount(j)
      <3>1. /\ Goto(j, "end") \in [Jobs -> JobRecord \cup {NoJob}]
            /\ \A i \in Jobs \ {j} : Goto(j, "end")[i] = job[i]
            /\ Goto(j, "end")[j].stage = "end"
        BY <1>0, <2>1, JobMoves DEF WorkStages, Others
      <3>2. CASE job' = Goto(j, "end")
        BY <1>2, <2>1, <3>1, <3>2 DEF Reading
      <3>3. CASE job' \in Enqueued(Goto(j, "end"), "synthesize", NoRow)
        BY <2>2, <3>1, <3>3
      <3>4. QED
        BY <2>3, <3>2, <3>3 DEF ShardCount
    <2>4. CASE PrepassEnqueue(j)
      <3>1. PICK k \in job[j].todo, r \in Inserted :
              job' \in Enqueued([job EXCEPT ![j].todo = @ \ {k}], "shard", r)
        BY <2>4 DEF PrepassEnqueue
      <3>2. PICK moved : /\ moved = [job EXCEPT ![j].todo = @ \ {k}]
                         /\ job' \in Enqueued(moved, "shard", r)
        BY <3>1
      <3>3. /\ [job[j] EXCEPT !.todo = @ \ {k}] \in JobRecord
            /\ moved = [job EXCEPT ![j] = [job[j] EXCEPT !.todo = @ \ {k}]]
        BY <2>1, <3>2 DEF JobRecord
      <3>4. /\ moved \in [Jobs -> JobRecord \cup {NoJob}]
            /\ \A i \in Jobs \ {j} : moved[i] = job[i]
            /\ moved[j].stage = "enqueue"
        BY <1>0, <2>1, <2>4, <3>3 DEF JobsOK, JobRecord, PrepassEnqueue, At
      <3>5. r \in Rows
        BY DEF Inserted
      <3>6. QED
        BY <2>2, <3>2, <3>4, <3>5
    <2>5. QED
      BY <1>11, <2>3, <2>4
  <1>12. ASSUME NEW j \in Jobs, JobEnd(j) \/ JobDies(j) \/ WorkerCrash(j) PROVE Still'
    <2>1. /\ job[j].stage \notin {"absent", "queued"} /\ UNCHANGED <<eval, tree>>
          /\ job' = Ended(j) \/ job' = Requeued(j)
      BY <1>12 DEF JobEnd, JobDies, WorkerCrash, Running, scan
    <2>2. Others(j, job') /\ job'[j].stage \in {"absent", "queued"}
      BY <1>0, <2>1, JobMoves DEF NoJob
    <2>3. QED
      BY <1>2, <1>7, <2>1, <2>2 DEF Others, Reading
  <1>13. QED
    BY <1>3, <1>4, <1>5, <1>6, <1>8, <1>9, <1>10, <1>11, <1>12 DEF Next, JobStep

LEMMA FoundStep ==
    ASSUME BaseInv, Once, Still, Scanned, FoundAll, BaseInv', [Next]_vars, Clean'
    PROVE  FoundAll'
  <1>0. JobsOK /\ TypeOK
    BY DEF BaseInv, TypeOK, JobsOK
  <1>1. ASSUME UNCHANGED <<found, plan>>,
               \A r \in Rows : shard'[r] = "done" <=> shard[r] = "done"
        PROVE  FoundAll'
    BY <1>1 DEF FoundAll, FindingsOf, FilesOf
  <1>2. ASSUME NEW j \in Jobs, ShardStart(j) \/ ShardSkip(j) PROVE FoundAll'
    <2>1. job[j].kind = "shard" /\ job[j].stage \in {"queued", "check"}
      BY <1>2 DEF ShardStart, ShardSkip, At
    <2>2. shard[job[j].row] # "done"
      BY <2>1 DEF Once, OneJobPerShard, StatusAt
    <2>3. QED
      BY <1>0, <1>1, <1>2, <2>2 DEF ShardStart, ShardSkip, TypeOK, scan, stored
  <1>3. ASSUME NEW j \in Jobs, PrepassPersist(j) PROVE FoundAll'
    <2>1. Inserted = {} /\ job[j] \in JobRecord
      BY <1>0, <1>3, JobMoves DEF PrepassPersist, At, Once, FirstTry, Prepass
    <2>2. \A r \in Rows : shard[r] = "none" /\ found[r] = {}
      BY <2>1 DEF Inserted, FoundAll
    <2>3. \A r \in Rows : shard'[r] # "done"
      <3>1. \E shards : shard' = [r \in Rows |-> IF r[2] = job[j].tries /\ r[1] \in DOMAIN shards
                                                THEN "queued" ELSE shard[r]]
        BY <1>0, <1>3, <2>1, PlanInserted DEF Inserts
      <3>2. QED
        BY <2>2, <3>1
    <2>4. UNCHANGED found
      BY <1>3 DEF PrepassPersist, stored
    <2>5. QED
      BY <2>2, <2>3, <2>4 DEF FoundAll
  <1>4. ASSUME NEW j \in Jobs, ShardCommit(j) PROVE FoundAll'
    <2>1. /\ job[j].kind = "shard" /\ job[j].stage = "analyze" /\ job[j].row \in Inserted
          /\ job[j].row \in Rows /\ job[j].heads = {tree}
      BY <1>4 DEF ShardCommit, At, BaseInv, ShardRows, Inserted, Still, Reading
    <2>2. job[j].read = "running" /\ shard[job[j].row] = "running"
      BY <2>1 DEF Once, OneJobPerShard, StatusAt
    <2>3. FilesOf(job[j].row) \in Range(ShardsOf(tree))
      <3>1. plan[1] = ShardsOf(tree) /\ job[j].row[2] = 1
        BY <2>1 DEF Scanned, Once, FirstRows
      <3>2. job[j].row[1] \in DOMAIN plan[1]
        BY <1>0, <2>1, <3>1 DEF TypeOK
      <3>3. QED
        BY <3>1, <3>2 DEF FilesOf, Range
    <2>4. found' = [found EXCEPT ![job[j].row] = @ \cup FindingsOf(job[j].row)]
      BY <1>0, <1>4, <2>1, <2>3, FindingsOfTheTree
    <2>5. shard' = [shard EXCEPT ![job[j].row] = "done"] /\ UNCHANGED plan
      BY <1>4, <2>2 DEF ShardCommit, scan
    <2>6. found[job[j].row] = {}
      BY <2>1, <2>2 DEF FoundAll
    <2>7. \A r \in Rows : FindingsOf(r)' = FindingsOf(r)
      BY <2>5 DEF FindingsOf, FilesOf
    <2>8. /\ found'[job[j].row] = FindingsOf(job[j].row) /\ shard'[job[j].row] = "done"
          /\ \A r \in Rows \ {job[j].row} : found'[r] = found[r] /\ shard'[r] = shard[r]
      BY <1>0, <2>1, <2>4, <2>5, <2>6 DEF TypeOK
    <2>9. QED
      BY <2>7, <2>8 DEF FoundAll
  <1>5. ASSUME UNCHANGED <<found, plan, shard>> PROVE FoundAll'
    BY <1>1, <1>5
  <1>6. QED
    BY <1>2, <1>3, <1>4, <1>5
    DEF Next, JobStep, Create, Push, CreateEnqueue, CancelRead, CancelCommit, PrepassStart,
        PrepassFails, PrepassEnqueue, PrepassReturn, ShardCheck, ShardCount, SynthesizeStart,
        SynthesizeCommit, JobEnd, JobDies, WorkerCrash, vars, scan, stored

LEMMA ScanInvInductive == Spec => []ScanInv
  <1>1. Init => Still /\ Scanned /\ FoundAll
    BY DEF Init, Still, Scanned, FoundAll, Inserted, NoJob, Reading
  <1>2. ScanInv /\ EvalInv' /\ [Next]_vars => ScanInv'
    BY MishapsStay, StillStep, ScannedStep, FoundStep DEF ScanInv, EvalInv, Clean
  <1>3. QED
    BY <1>1, <1>2, EvalInvInductive, PTL DEF Spec, ScanInv

\* Together with SameFindings it gives the property.
LEMMA ScannedAlike ==
    ASSUME ScanInv
    PROVE  ScannedLikeTheEngine
  <1>1. SUFFICES ASSUME eval = "complete", Clean,
                        \A r \in Inserted : Len(FilesOf(r)) <= MaxAnalyzed
                 PROVE  /\ \A r \in Inserted : persisted[r] = 1
                        /\ Report(tree).status = "complete" =>
                             UNION {found[r] : r \in Inserted}
                               = {h \in Report(tree).findings : h.rule # "injection"}
    BY DEF ScannedLikeTheEngine, Clean
  <1>2. EvalInv /\ Once /\ Scanned /\ FoundAll
    BY <1>1 DEF ScanInv, EvalInv, Clean
  <1>3. \A r \in Inserted : persisted[r] = 1
    BY <1>1, <1>2 DEF Once, PersistedOnce, Verdict, Inserted
  <1> DEFINE shards == ShardsOf(tree)
  <1>4. plan[1] = shards /\ \A k \in DOMAIN shards : <<k, 1>> \in Inserted
    BY <1>1, <1>2 DEF Scanned
  <1>5. \A r \in Inserted : r[2] = 1 /\ r[1] \in DOMAIN shards
    BY <1>2, <1>4 DEF EvalInv, BaseInv, TypeOK, Once, FirstRows
  <1> HIDE DEF shards
  <1>6. \A r \in Inserted : FilesOf(r) = shards[r[1]]
    BY <1>4, <1>5 DEF FilesOf
  <1>7. {FilesOf(r) : r \in Inserted} = Range(shards)
    <2>1. \A k \in DOMAIN shards : FilesOf(<<k, 1>>) = shards[k]
      BY <1>4, <1>6
    <2>2. \A k \in DOMAIN shards : shards[k] \in {FilesOf(r) : r \in Inserted}
      BY <1>4, <2>1
    <2>3. \A r \in Inserted : FilesOf(r) \in Range(shards)
      BY <1>5, <1>6 DEF Range
    <2>4. QED
      BY <2>2, <2>3 DEF Range
  <1>8. \A x \in Range(shards) : Len(x) <= MaxAnalyzed
    BY <1>1, <1>7
  <1>9. UNION {found[r] : r \in Inserted}
          = UNION {Synthesize(AnalyzeShard(x)) : x \in Range(shards)}
    <2>1. \A r \in Inserted : found[r] = Synthesize(AnalyzeShard(FilesOf(r)))
      BY <1>1, <1>2 DEF FoundAll, FindingsOf, Once, Verdict, Inserted
    <2>2. {found[r] : r \in Inserted} = {Synthesize(AnalyzeShard(x)) : x \in Range(shards)}
      BY <1>7, <2>1
    <2>3. QED
      BY <2>2
  <1>10. tree \in Repos
    BY <1>2 DEF EvalInv, BaseInv, TypeOK
  <1>11. Report(tree).status = "complete" =>
           UNION {found[r] : r \in Inserted}
             = {h \in Report(tree).findings : h.rule # "injection"}
    BY <1>8, <1>9, <1>10, SameFindings DEF shards
  <1>12. QED
    BY <1>3, <1>11

\* The jobs deal directories into whole buckets (build_shards without a size), the engine
\* splits the buckets (plan_shards) and stops at its budget; however the jobs run together
\* and whatever befalls them, a complete evaluation none of whose jobs was run twice holds,
\* once each, just what the engine reports of the tree, but for the follow-ups on flagged
\* files, if the branch rested since its prepass began, every read was answered and no
\* shard has more files than are analyzed.
THEOREM JobsScanLikeTheEngine == Spec => []ScannedLikeTheEngine
  <1>1. QED
    BY ScanInvInductive, ScannedAlike, PTL
====
