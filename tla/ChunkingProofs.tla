--------------------------- MODULE ChunkingProofs ---------------------------
(***************************************************************************)
(* Proofs about ChunkPlan and ChunkedReview, for any changed files, diff,  *)
(* configurations and pools of findings, and any number of interruptions;  *)
(* and, in the second half, about ContextBundle, for any pull requests,    *)
(* settings and sources.                                                   *)
(***************************************************************************)
EXTENDS ChunkedReview, ContextBundle, FindingChecksProofs

-----------------------------------------------------------------------------
(* The inductive invariant *)

InLoop == {"plan", "loop", "model", "save"}
Drafted == {"editor", "deliver", "posted"}

\* f is right about its file at the head commit and about the lines of the diff that the
\* configuration c does not ignore.
Reviewed(c) == RightSideLines(Picked(Diff, {i \in DOMAIN Diff : Diff[i].path \notin c.ignored}))
Sound(f, c) == DropReason(f, [p \in {f.path} |-> Lines[p]], Reviewed(c)) = "valid"
SoundFindings(fs, c) == Findings(fs) /\ \A f \in Range(fs) : Sound(f, c)

\* What the state of a chunk holds.
IsEntry(e, c) ==
  /\ DOMAIN e = {"status", "findings"}
  /\ e.status \in {"pending", "running", "done", "failed"}
  /\ SoundFindings(e.findings, c)
  /\ e.findings # <<>> => e.status = "done"

JobInv == cfg \in Configs /\ files \subseteq DiffFiles /\ plan = PlanChunks(files, cfg)

ShapeInv ==
  /\ pc \in InLoop \union Drafted \union {"synthesis", "challenger", "tie_break", "combine"}
  /\ stopped \in {"none", "latency", "prompt_budget"}
  /\ at \in 1 .. Len(Chunks) + 1 /\ covered \subseteq DOMAIN Chunks
  /\ pc \in {"model", "save"} => at \in DOMAIN Chunks
  /\ fetched \subseteq DOMAIN Lines
  /\ DOMAIN stored = {} \/ DOMAIN stored = DOMAIN Chunks
  /\ DOMAIN state = IF pc = "plan" THEN {} ELSE DOMAIN Chunks
  /\ \A c \in DOMAIN stored : IsEntry(stored[c], cfg)
  /\ \A c \in DOMAIN state : IsEntry(state[c], cfg)
  /\ Findings(synthesis) /\ Findings(challenger) /\ Findings(edited)
  /\ SoundFindings(found, cfg) /\ SoundFindings(draft, cfg)
  /\ pc = "plan" => at = 1 /\ found = <<>>

\* What the model runs led to.
Open(p) == IF p \in {"model", "save"} THEN 1 ELSE 0
WorkInv ==
  /\ analyses \in Nat /\ failures \in Nat /\ interrupts \in Nat /\ forgotten \in Nat
  /\ analyses <= Cardinality(Done(stored)) + failures + interrupts + Open(pc) + forgotten
  /\ pc \notin {"plan", "save"} => Done(state) = Done(stored)
  /\ pc = "save" => Done(state) = Done(stored) \union {at} /\ at \notin Done(stored)
  /\ pc = "model" => state[at].status = "running"

\* What the loop has passed was covered or failed, what it covered is done, and it ends after
\* the last chunk or says why.
ExplainInv ==
  /\ pc # "plan" =>
       \A c \in DOMAIN Chunks : c < at /\ c \notin covered => state[c].status = "failed"
  /\ pc # "plan" => \A c \in covered : IsDone(c) /\ (c < at \/ (pc = "save" /\ c = at))
  /\ pc = "plan" => covered = {}
  /\ pc = "save" => at \in covered
  /\ pc \notin InLoop => at = Len(Chunks) + 1 \/ stopped # "none"

\* An attempt that covers no chunk finds nothing, and keeps its notes.
NotesInv ==
  /\ pc \in InLoop => synthesis = <<>> /\ draft = <<>> /\ notes = <<>>
  /\ pc = "plan" => stopped = "none"
  /\ covered = {} => found = <<>> /\ synthesis = <<>> /\ pc \notin {"challenger", "tie_break", "editor"}
  /\ covered = {} /\ pc \in Drafted => notes = Notes

\* Where the findings of the chunks are by now.
SurviveInv ==
  /\ pc \in Drafted => \A f \in Range(found) : \E g \in Range(draft) : NearKey(g) = NearKey(f)
  /\ pc = "posted" /\ Len(final) < cfg.cap =>
       \A f \in Range(edited) : f.path \in fetched /\ Sound(f, cfg) /\ Wanted(f, cfg) => f \in Range(final)

IInv == JobInv /\ ShapeInv /\ WorkInv /\ ExplainInv /\ NotesInv /\ SurviveInv

-----------------------------------------------------------------------------
(* The planner *)

\* The numbers of a finite set in their order: each has one place.
LEMMA NthOf ==
  ASSUME NEW S \in SUBSET Int, IsFiniteSet(S)
  PROVE  /\ Cardinality(S) \in Nat
         /\ \A k \in 1 .. Cardinality(S) : Nth(S, k) \in S
         /\ \A j, k \in 1 .. Cardinality(S) : Nth(S, j) = Nth(S, k) => j = k
         /\ \A x \in S : \E k \in 1 .. Cardinality(S) : Nth(S, k) = x
<1> DEFINE n == Cardinality(S)
           Upto(x) == {y \in S : y <= x}
           p == [x \in S |-> Cardinality(Upto(x))]
<1>1. n \in Nat
  BY FS_CardinalityType
<1>2. ASSUME NEW x \in S
      PROVE  x \in Upto(x) /\ IsFiniteSet(Upto(x)) /\ Cardinality(Upto(x)) \in 1 .. n
  <2>1. Upto(x) \subseteq S /\ x \in Upto(x)
    OBVIOUS
  <2>2. IsFiniteSet(Upto(x)) /\ Cardinality(Upto(x)) \in Nat /\ Cardinality(Upto(x)) <= n
    <3> HIDE DEF Upto
    <3> QED
      BY <2>1, FS_Subset, FS_CardinalityType
  <2>3. Cardinality(Upto(x)) # 0
    <3> HIDE DEF Upto
    <3> QED
      BY <2>1, <2>2, FS_EmptySet
  <2> HIDE DEF Upto
  <2> QED
    BY <1>1, <2>1, <2>2, <2>3
<1>3. ASSUME NEW x \in S, NEW y \in S, x < y PROVE Cardinality(Upto(x)) # Cardinality(Upto(y))
  <2>1. Upto(x) \subseteq Upto(y) /\ y \in Upto(y) /\ y \notin Upto(x)
    <3>1. y \in Upto(y) /\ y \notin Upto(x)
      BY <1>3
    <3>2. \A z \in S : z <= x => z <= y
      BY <1>3
    <3> QED
      BY <3>1, <3>2
  <2>2. IsFiniteSet(Upto(y))
    BY <1>2
  <2> HIDE DEF Upto
  <2> QED
    BY <2>1, <2>2, FS_Subset
<1>4. \A x, y \in S : Cardinality(Upto(x)) = Cardinality(Upto(y)) => x = y
  <2> SUFFICES ASSUME NEW x \in S, NEW y \in S, Cardinality(Upto(x)) = Cardinality(Upto(y))
               PROVE  x = y
    OBVIOUS
  <2>1. ~(x < y) /\ ~(y < x)
    BY <1>3
  <2> QED
    BY <2>1
<1>5. \A k \in 1 .. n : \E x \in S : Cardinality(Upto(x)) = k
  <2>1. p \in [S -> 1 .. n]
    BY <1>2
  <2>2. \A x, y \in S : p[x] = p[y] => x = y
    BY <1>4
  <2>3. \A k \in 1 .. n : \E x \in S : p[x] = k
    <3> HIDE DEF p
    <3> QED
      BY <2>1, <2>2, Onto
  <2> QED
    BY <2>3
<1>6. \A k \in 1 .. n : Nth(S, k) \in S /\ Cardinality(Upto(Nth(S, k))) = k
  BY <1>5 DEF Nth
<1>7. \A x \in S : Nth(S, Cardinality(Upto(x))) = x
  <2> SUFFICES ASSUME NEW x \in S PROVE Nth(S, Cardinality(Upto(x))) = x
    OBVIOUS
  <2>1. /\ Nth(S, Cardinality(Upto(x))) \in S
        /\ Cardinality(Upto(Nth(S, Cardinality(Upto(x))))) = Cardinality(Upto(x))
    BY <1>2, <1>6
  <2> QED
    BY <1>4, <2>1
<1> HIDE DEF Upto
<1> QED
  BY <1>1, <1>2, <1>6, <1>7

\* The image of a finite set.
LEMMA ImageIsFinite ==
  ASSUME NEW fs, IsFiniteSet(fs), NEW g, DOMAIN g = fs
  PROVE  IsFiniteSet({g[f] : f \in fs})
<1> DEFINE T == {g[f] : f \in fs}
           h == [f \in fs |-> g[f]]
<1>1. h \in Surjection(fs, T)
  BY DEF Surjection
<1> HIDE DEF h, T
<1> QED
  BY <1>1, FS_Surjection DEF T

\* The files in the order of their paths.
LEMMA InPathOrderKeeps ==
  ASSUME NEW fs \in SUBSET DiffFiles
  PROVE  IsList(InPathOrder(fs)) /\ Range(InPathOrder(fs)) = fs
<1> DEFINE ranks == {f.rank : f \in fs}
           n == Cardinality(ranks)
           at_(k) == CHOOSE f \in fs : f.rank = Nth(ranks, k)
           s == [k \in 1 .. n |-> at_(k)]
<1>1. IsFiniteSet(ranks) /\ ranks \in SUBSET Int
  <2> DEFINE g == [f \in fs |-> f.rank]
  <2>1. IsFiniteSet(fs) /\ \A f \in fs : f.rank \in Int
    BY FilesAssumption, FS_Subset
  <2>2. IsFiniteSet({g[f] : f \in fs})
    <3>1. DOMAIN g = fs
      OBVIOUS
    <3> HIDE DEF g
    <3> QED
      BY <2>1, <3>1, ImageIsFinite
  <2>3. {g[f] : f \in fs} = ranks
    OBVIOUS
  <2> QED
    BY <2>1, <2>2, <2>3
<1>2. InPathOrder(fs) = s
  BY DEF InPathOrder
<1>3. /\ n \in Nat
      /\ \A k \in 1 .. n : Nth(ranks, k) \in ranks
      /\ \A x \in ranks : \E k \in 1 .. n : Nth(ranks, k) = x
  <2> HIDE DEF ranks
  <2> QED
    BY <1>1, NthOf
<1>4. \A k \in 1 .. n : at_(k) \in fs
  BY <1>3
<1>5. ASSUME NEW f \in fs PROVE \E k \in 1 .. n : at_(k) = f
  <2>1. PICK k \in 1 .. n : Nth(ranks, k) = f.rank
    BY <1>3
  <2>2. at_(k) \in fs /\ at_(k).rank = f.rank
    BY <2>1
  <2>3. at_(k) = f
    BY <2>2, FilesAssumption
  <2> QED
    BY <2>3
<1> HIDE DEF n, at_
<1>6. IsList(s)
  BY <1>3, FunctionList
<1>7. Range(s) = fs
  BY <1>4, <1>5 DEF Range
<1> HIDE DEF s
<1> QED
  BY <1>2, <1>6, <1>7

\* The groups: one list for each number of a group, which holds all files of that number.
LEMMA GroupedKeeps ==
  ASSUME NEW surface \in SUBSET DiffFiles
  PROVE  /\ IsList(Grouped(surface))
         /\ \A k \in 1 .. Len(Grouped(surface)) :
              /\ IsList(Grouped(surface)[k])
              /\ Range(Grouped(surface)[k]) =
                   {f \in surface : f.grank = Nth({g.grank : g \in surface}, k)}
         /\ \A j, k \in 1 .. Len(Grouped(surface)) :
              Nth({g.grank : g \in surface}, j) = Nth({g.grank : g \in surface}, k) => j = k
         /\ \A f \in surface : \E k \in 1 .. Len(Grouped(surface)) :
              f.grank = Nth({g.grank : g \in surface}, k)
<1> DEFINE ranks == {f.grank : f \in surface}
           n == Cardinality(ranks)
           group(k) == {f \in surface : f.grank = Nth(ranks, k)}
           s == [k \in 1 .. n |-> InPathOrder(group(k))]
<1>1. IsFiniteSet(ranks) /\ ranks \in SUBSET Int
  <2> DEFINE g == [f \in surface |-> f.grank]
  <2>1. IsFiniteSet(surface) /\ \A f \in surface : f.grank \in Int
    BY FilesAssumption, FS_Subset
  <2>2. IsFiniteSet({g[f] : f \in surface})
    <3>1. DOMAIN g = surface
      OBVIOUS
    <3> HIDE DEF g
    <3> QED
      BY <2>1, <3>1, ImageIsFinite
  <2>3. {g[f] : f \in surface} = ranks
    OBVIOUS
  <2> QED
    BY <2>1, <2>2, <2>3
<1>2. Grouped(surface) = s
  BY DEF Grouped
<1>3. /\ n \in Nat
      /\ \A j, k \in 1 .. n : Nth(ranks, j) = Nth(ranks, k) => j = k
      /\ \A x \in ranks : \E k \in 1 .. n : Nth(ranks, k) = x
  <2> HIDE DEF ranks
  <2> QED
    BY <1>1, NthOf
<1>4. \A k \in 1 .. n : s[k] = InPathOrder(group(k))
  OBVIOUS
<1>5. IsList(s) /\ Len(s) = n
  <2> HIDE DEF n, group
  <2> QED
    BY <1>3, FunctionList
<1>6. ASSUME NEW k \in 1 .. n PROVE IsList(s[k]) /\ Range(s[k]) = group(k)
  <2>1. group(k) \in SUBSET DiffFiles
    OBVIOUS
  <2> HIDE DEF group, s
  <2> QED
    BY <1>4, <2>1, InPathOrderKeeps
<1>7. \A f \in surface : \E k \in 1 .. n : f.grank = Nth(ranks, k)
  BY <1>3
<1> HIDE DEF s, n, group
<1>8. /\ IsList(s) /\ Len(s) = n
      /\ \A k \in 1 .. n : IsList(s[k]) /\ Range(s[k]) = {f \in surface : f.grank = Nth(ranks, k)}
  BY <1>5, <1>6 DEF group
<1> HIDE DEF ranks
<1> QED
  BY <1>2, <1>3, <1>7, <1>8, Zenon DEF ranks

\* The tokens of a list, file by file.
LEMMA TokensUnfold ==
  ASSUME NEW fs, IsList(fs)
  PROVE  \E g : /\ g[0] = 0 /\ Tokens(fs) = g[Len(fs)]
               /\ \A n \in 0 .. (Len(fs) - 1) : g[n + 1] = g[n] + fs[n + 1].tokens
<1> DEFINE N == Len(fs)
           Loop(g, m) == g = [n \in 0 .. m |-> IF n = 0 THEN 0 ELSE g[n - 1] + fs[n].tokens]
           S == {m \in 0 .. N : \E g : Loop(g, m)}
           all == CHOOSE g : Loop(g, N)
<1>0. N \in Nat
  BY ListFacts
<1>1. 0 \in S
  <2> DEFINE g == [n \in 0 .. 0 |-> 0]
  <2>1. \E f : Loop(f, 0)
    <3>1. Loop(g, 0)
      OBVIOUS
    <3> HIDE DEF Loop, g
    <3> QED
      BY <3>1
  <2>2. 0 \in 0 .. N
    BY <1>0
  <2> HIDE DEF Loop, g
  <2> QED
    BY <2>1, <2>2
<1>2. ASSUME NEW m \in 0 .. (N - 1), m \in S PROVE m + 1 \in S
  <2>1. PICK g : Loop(g, m)
    BY <1>2
  <2> DEFINE h == [n \in 0 .. (m + 1) |-> IF n = 0 THEN 0 ELSE g[n - 1] + fs[n].tokens]
  <2>2. \A n \in 0 .. m : h[n] = g[n]
    BY <2>1
  <2>3. \A n \in 0 .. (m + 1) : n # 0 => h[n - 1] = g[n - 1]
    <3>1. \A n \in 0 .. (m + 1) : n # 0 => n - 1 \in 0 .. m
      BY <1>0, <1>2
    <3> HIDE DEF h
    <3> QED
      BY <2>2, <3>1
  <2>4. h = [n \in 0 .. (m + 1) |-> IF n = 0 THEN 0 ELSE h[n - 1] + fs[n].tokens]
    BY <2>3
  <2>5. m + 1 \in 0 .. N
    BY <1>0, <1>2
  <2> QED
    BY <2>4, <2>5
<1>3. \E g : Loop(g, N)
  <2>1. \A n \in 0 .. N : n \in S
    <3> HIDE DEF S, N
    <3> QED
      BY <1>0, <1>1, <1>2, UpTo
  <2>2. N \in 0 .. N
    BY <1>0
  <2>3. N \in S
    <3> HIDE DEF S, N
    <3> QED
      BY <2>1, <2>2
  <2> HIDE DEF Loop, N
  <2> QED
    BY <2>3
<1>4. Loop(all, N)
  BY <1>3
<1>5. Tokens(fs) = all[N]
  BY DEF Tokens
<1> HIDE DEF N, all
<1>6. \A n \in 0 .. N : all[n] = IF n = 0 THEN 0 ELSE all[n - 1] + fs[n].tokens
  BY <1>4
<1>7. all[0] = 0
  <2>1. 0 \in 0 .. N
    BY <1>0
  <2> QED
    BY <2>1, <1>6, Zenon
<1>8. ASSUME NEW n \in 0 .. (N - 1) PROVE all[n + 1] = all[n] + fs[n + 1].tokens
  <2>1. n + 1 \in 0 .. N /\ n + 1 # 0 /\ (n + 1) - 1 = n
    BY <1>0
  <2> QED
    BY <2>1, <1>6
<1> QED
  BY <1>5, <1>7, <1>8 DEF N

LEMMA TokensOfConcat ==
  ASSUME NEW s, IsList(s), NEW u, IsList(u), \A f \in Range(s) \union Range(u) : f.tokens \in Nat
  PROVE  Tokens(s) \in Nat /\ Tokens(u) \in Nat /\ Tokens(s \o u) = Tokens(s) + Tokens(u)
<1> DEFINE t == s \o u
           Valued(fs, g) == /\ g[0] = 0 /\ Tokens(fs) = g[Len(fs)]
                            /\ \A n \in 0 .. (Len(fs) - 1) : g[n + 1] = g[n] + fs[n + 1].tokens
<1>1. /\ Len(s) \in Nat /\ Len(u) \in Nat
      /\ \A i \in 1 .. Len(s) : s[i].tokens \in Nat
      /\ \A i \in 1 .. Len(u) : u[i].tokens \in Nat
  BY ListFacts
<1>2. IsList(t) /\ Len(t) = Len(s) + Len(u)
      /\ \A i \in 1 .. (Len(s) + Len(u)) : t[i] = IF i <= Len(s) THEN s[i] ELSE u[i - Len(s)]
  <2>1. IsList(t)
    BY ConcatList
  <2>2. ASSUME NEW A, NEW B, A \subseteq B, NEW a \in Seq(A) PROVE a \in Seq(B)
    BY <2>2
  <2>3. s \in Seq(Range(s) \union Range(u)) /\ u \in Seq(Range(s) \union Range(u))
    BY <2>2 DEF IsList
  <2> QED
    BY <2>1, <2>3
<1> HIDE DEF t
<1>3. PICK gs : Valued(s, gs)
  BY TokensUnfold
<1>4. PICK gu : Valued(u, gu)
  BY TokensUnfold
<1>5. PICK gt : Valued(t, gt)
  BY <1>2, TokensUnfold
<1> DEFINE S == {n \in 0 .. Len(s) : gs[n] \in Nat /\ gt[n] = gs[n]}
           U == {n \in 0 .. Len(u) : gu[n] \in Nat /\ gt[Len(s) + n] = gs[Len(s)] + gu[n]}
<1>6. \A n \in 0 .. Len(s) : n \in S
  <2>1. 0 \in S
    BY <1>1, <1>3, <1>5
  <2>2. ASSUME NEW n \in 0 .. (Len(s) - 1), n \in S PROVE n + 1 \in S
    <3>1. /\ n + 1 \in 0 .. Len(s) /\ n + 1 \in 1 .. Len(s) /\ n \in 0 .. (Len(t) - 1)
          /\ n + 1 \in 1 .. (Len(s) + Len(u)) /\ n + 1 <= Len(s)
      BY <1>1, <1>2
    <3>2. gs[n + 1] = gs[n] + s[n + 1].tokens /\ gt[n + 1] = gt[n] + t[n + 1].tokens
      BY <1>3, <1>5, <3>1
    <3>3. t[n + 1] = s[n + 1] /\ s[n + 1].tokens \in Nat /\ gs[n] \in Nat /\ gt[n] = gs[n]
      BY <1>1, <1>2, <2>2, <3>1
    <3>4. gs[n + 1] \in Nat /\ gt[n + 1] = gs[n + 1]
      BY <3>2, <3>3
    <3> QED
      BY <3>1, <3>4
  <2> HIDE DEF S
  <2> QED
    BY <1>1, <2>1, <2>2, UpTo
<1>7. gs[Len(s)] \in Nat /\ gt[Len(s)] = gs[Len(s)]
  <2>1. Len(s) \in 0 .. Len(s)
    BY <1>1
  <2> QED
    BY <1>6, <2>1
<1>8. \A n \in 0 .. Len(u) : n \in U
  <2>1. 0 \in U
    BY <1>1, <1>4, <1>7
  <2>2. ASSUME NEW n \in 0 .. (Len(u) - 1), n \in U PROVE n + 1 \in U
    <3>1. /\ n + 1 \in 0 .. Len(u) /\ n + 1 \in 1 .. Len(u)
          /\ Len(s) + n \in 0 .. (Len(t) - 1) /\ (Len(s) + n) + 1 = Len(s) + (n + 1)
          /\ Len(s) + (n + 1) \in 1 .. (Len(s) + Len(u)) /\ ~(Len(s) + (n + 1) <= Len(s))
          /\ (Len(s) + (n + 1)) - Len(s) = n + 1
      BY <1>1, <1>2
    <3>2. gu[n + 1] = gu[n] + u[n + 1].tokens
      BY <1>4
    <3>3. gt[Len(s) + (n + 1)] = gt[Len(s) + n] + t[Len(s) + (n + 1)].tokens
      BY <1>5, <3>1
    <3>4. t[Len(s) + (n + 1)] = u[n + 1]
      BY <1>2, <3>1
    <3>5. u[n + 1].tokens \in Nat /\ gu[n] \in Nat /\ gt[Len(s) + n] = gs[Len(s)] + gu[n]
      BY <1>1, <2>2, <3>1
    <3>6. gu[n + 1] \in Nat /\ gt[Len(s) + (n + 1)] = gs[Len(s)] + gu[n + 1]
      BY <1>7, <3>2, <3>3, <3>4, <3>5
    <3> QED
      BY <3>1, <3>6
  <2> HIDE DEF U
  <2> QED
    BY <1>1, <2>1, <2>2, UpTo
<1>9. gu[Len(u)] \in Nat /\ gt[Len(s) + Len(u)] = gs[Len(s)] + gu[Len(u)]
  <2>1. Len(u) \in 0 .. Len(u)
    BY <1>1
  <2> QED
    BY <1>8, <2>1
<1> QED
  BY <1>2, <1>3, <1>4, <1>5, <1>7, <1>9 DEF t

\* Chunks of files of F: lists that share no group, each within the target or too small to end.
Fits(chunk, c) ==
  \/ Tokens(chunk) <= c.target
  \/ \A i \in DOMAIN chunk : chunk[i].grank = Last(chunk).grank \/ i < c.minFiles
IsSplit(cs, F, c) ==
  /\ IsList(cs)
  /\ \A k \in DOMAIN cs : IsList(cs[k]) /\ Range(cs[k]) \subseteq F /\ Fits(cs[k], c)
  /\ \A j, k \in DOMAIN cs : \A f \in Range(cs[j]), g \in Range(cs[k]) :
       f.grank = g.grank => j = k
Whole(cs, F) == \A f \in F : \E k \in DOMAIN cs : f \in Range(cs[k])

LEMMA AppendAt ==
  ASSUME NEW s, IsList(s), NEW x
  PROVE  /\ Len(s) \in Nat /\ DOMAIN s = 1 .. Len(s)
         /\ DOMAIN Append(s, x) = 1 .. (Len(s) + 1)
         /\ \A i \in DOMAIN s : Append(s, x)[i] = s[i]
         /\ Append(s, x)[Len(s) + 1] = x
<1>1. s \in Seq(Range(s) \union {x}) /\ Len(s) \in Nat /\ DOMAIN s = 1 .. Len(s)
  <2>1. ASSUME NEW A, NEW B, A \subseteq B, NEW a \in Seq(A) PROVE a \in Seq(B)
    BY <2>1
  <2> QED
    BY <2>1, ListFacts DEF IsList
<1> QED
  BY <1>1

\* A group fits by itself.
LEMMA GroupFits ==
  ASSUME NEW G, IsList(G), NEW r, \A f \in Range(G) : f.grank = r, NEW c
  PROVE  Fits(G, c)
<1>1. Len(G) \in Nat /\ DOMAIN G = 1 .. Len(G) /\ \A i \in 1 .. Len(G) : G[i].grank = r
  BY ListFacts
<1>2. \A i \in DOMAIN G : G[i].grank = Last(G).grank
  <2>1. \A i \in 1 .. Len(G) : Len(G) \in 1 .. Len(G)
    BY <1>1
  <2> QED
    BY <1>1, <2>1 DEF Last
<1> QED
  BY <1>2 DEF Fits

\* So does a group that joins a chunk unless the chunk holds enough files and the two are
\* over the target.
LEMMA JoinFits ==
  ASSUME NEW a, IsList(a), NEW G, IsList(G), NEW r, \A f \in Range(G) : f.grank = r, NEW c,
         c.target \in Nat, c.minFiles \in Nat, \A f \in Range(a) \union Range(G) : f.tokens \in Nat,
         ~(a # <<>> /\ Tokens(a) + Tokens(G) > c.target /\ Len(a) >= c.minFiles)
  PROVE  Fits(a \o G, c)
<1>1. Tokens(a) \in Nat /\ Tokens(G) \in Nat /\ Tokens(a \o G) = Tokens(a) + Tokens(G)
  BY TokensOfConcat
<1>2. CASE Tokens(a) + Tokens(G) <= c.target
  BY <1>1, <1>2 DEF Fits
<1>3. CASE a = <<>>
  <2>1. a \o G = G
    BY <1>3, ListFacts DEF IsList
  <2> QED
    BY <2>1, GroupFits
<1>4. CASE Len(a) < c.minFiles
  <2>1. /\ Len(a) \in Nat /\ Len(G) \in Nat /\ \A i \in 1 .. Len(G) : G[i].grank = r
    BY ListFacts
  <2>2. /\ Len(a \o G) = Len(a) + Len(G) /\ DOMAIN (a \o G) = 1 .. (Len(a) + Len(G))
        /\ \A i \in 1 .. (Len(a) + Len(G)) : (a \o G)[i] = IF i <= Len(a) THEN a[i] ELSE G[i - Len(a)]
    <3>1. ASSUME NEW A, NEW B, A \subseteq B, NEW x \in Seq(A) PROVE x \in Seq(B)
      BY <3>1
    <3>2. a \in Seq(Range(a) \union Range(G)) /\ G \in Seq(Range(a) \union Range(G))
      BY <3>1 DEF IsList
    <3> QED
      BY <2>1, <3>2
  <2> DEFINE t == a \o G
  <2> HIDE DEF t
  <2>3. ASSUME NEW i \in 1 .. (Len(a) + Len(G)), ~(i < c.minFiles)
        PROVE  t[i].grank = r /\ t[Len(a) + Len(G)].grank = r
    <3>1. ~(i <= Len(a)) /\ i - Len(a) \in 1 .. Len(G)
      BY <1>4, <2>1, <2>3
    <3>2. /\ Len(a) + Len(G) \in 1 .. (Len(a) + Len(G)) /\ ~(Len(a) + Len(G) <= Len(a))
          /\ (Len(a) + Len(G)) - Len(a) \in 1 .. Len(G)
      BY <2>1, <3>1
    <3>3. t[i] = G[i - Len(a)] /\ t[Len(a) + Len(G)] = G[(Len(a) + Len(G)) - Len(a)]
      BY <2>2, <3>1, <3>2 DEF t
    <3> QED
      BY <2>1, <3>1, <3>2, <3>3
  <2>4. Last(t) = t[Len(a) + Len(G)] /\ DOMAIN t = 1 .. (Len(a) + Len(G))
    BY <2>2 DEF Last, t
  <2>5. \A i \in DOMAIN t : t[i].grank = Last(t).grank \/ i < c.minFiles
    BY <2>3, <2>4
  <2> QED
    BY <2>5 DEF Fits, t
<1>5. Tokens(a) + Tokens(G) <= c.target \/ a = <<>> \/ Len(a) < c.minFiles
  BY <1>1, ListFacts
<1> QED
  BY <1>2, <1>3, <1>4, <1>5

\* A new chunk of one group.
LEMMA SplitAppend ==
  ASSUME NEW cs, NEW F, NEW c, IsSplit(cs, F, c), Whole(cs, F), NEW G, IsList(G), NEW r,
         \A f \in Range(G) : f.grank = r, \A f \in F : f.grank # r
  PROVE  IsSplit(Append(cs, G), F \union Range(G), c) /\ Whole(Append(cs, G), F \union Range(G))
<1> DEFINE t == Append(cs, G)
           n == Len(cs)
<1>1. IsList(cs) /\ IsList(t)
  BY AppendList DEF IsSplit
<1>2. /\ n \in Nat /\ DOMAIN cs = 1 .. n /\ DOMAIN t = 1 .. (n + 1)
      /\ \A i \in 1 .. n : t[i] = cs[i]
      /\ t[n + 1] = G
  BY <1>1, AppendAt
<1>3. Fits(G, c)
  BY GroupFits
<1> HIDE DEF t, n
<1>4. (\A i \in 1 .. (n + 1) : i \in 1 .. n \/ i = n + 1) /\ n + 1 \in 1 .. (n + 1)
      /\ \A i \in 1 .. n : i \in 1 .. (n + 1)
  BY <1>2
<1>5. \A k \in DOMAIN t : IsList(t[k]) /\ Range(t[k]) \subseteq F \union Range(G) /\ Fits(t[k], c)
  BY <1>2, <1>3, <1>4 DEF IsSplit
<1>6. ASSUME NEW j \in DOMAIN t, NEW k \in DOMAIN t, NEW f \in Range(t[j]), NEW g \in Range(t[k]),
             f.grank = g.grank
      PROVE  j = k
  <2>1. CASE j \in 1 .. n /\ k \in 1 .. n
    BY <1>2, <1>6, <2>1 DEF IsSplit
  <2>2. CASE j \in 1 .. n /\ k = n + 1
    BY <1>2, <1>6, <2>2 DEF IsSplit
  <2>3. CASE j = n + 1 /\ k \in 1 .. n
    BY <1>2, <1>6, <2>3 DEF IsSplit
  <2> QED
    BY <1>2, <1>4, <2>1, <2>2, <2>3
<1>7. Whole(t, F \union Range(G))
  BY <1>2, <1>4 DEF Whole
<1>8. IsSplit(t, F \union Range(G), c)
  BY <1>1, <1>5, <1>6 DEF IsSplit
<1> QED
  BY <1>7, <1>8 DEF t

\* A group joins the last chunk.
LEMMA SplitJoin ==
  ASSUME NEW cs, IsList(cs), NEW a, NEW F, NEW c, IsSplit(Append(cs, a), F, c),
         Whole(Append(cs, a), F), NEW G, IsList(G), NEW r,
         \A f \in Range(G) : f.grank = r, \A f \in F : f.grank # r, Fits(a \o G, c)
  PROVE  /\ IsSplit(Append(cs, a \o G), F \union Range(G), c)
         /\ Whole(Append(cs, a \o G), F \union Range(G))
<1> DEFINE s == Append(cs, a)
           b == a \o G
           t == Append(cs, b)
           n == Len(cs)
<1>1. IsList(t)
  BY AppendList
<1>2. /\ n \in Nat /\ DOMAIN cs = 1 .. n /\ DOMAIN t = 1 .. (n + 1) /\ DOMAIN s = 1 .. (n + 1)
      /\ \A i \in 1 .. n : t[i] = cs[i] /\ s[i] = cs[i]
      /\ t[n + 1] = b /\ s[n + 1] = a
  BY AppendAt
<1> HIDE DEF t, s, n
<1>3. (\A i \in 1 .. (n + 1) : i \in 1 .. n \/ i = n + 1) /\ n + 1 \in 1 .. (n + 1)
      /\ (\A i \in 1 .. n : i \in 1 .. (n + 1)) /\ n + 1 \notin 1 .. n
  BY <1>2
<1>4. IsSplit(s, F, c) /\ Whole(s, F)
  BY DEF s
<1>5. IsList(a) /\ Range(a) \subseteq F
  BY <1>2, <1>3, <1>4 DEF IsSplit
<1>6. IsList(b) /\ Range(b) = Range(a) \union Range(G)
  BY <1>5, ConcatList
<1>7. Fits(b, c)
  OBVIOUS
<1> HIDE DEF b
<1>8. \A k \in DOMAIN t : IsList(t[k]) /\ Range(t[k]) \subseteq F \union Range(G) /\ Fits(t[k], c)
  BY <1>2, <1>3, <1>4, <1>5, <1>6, <1>7 DEF IsSplit
<1>9. ASSUME NEW j \in DOMAIN t, NEW k \in DOMAIN t, NEW f \in Range(t[j]), NEW g \in Range(t[k]),
             f.grank = g.grank
      PROVE  j = k
  <2>1. CASE j \in 1 .. n /\ k \in 1 .. n
    BY <1>2, <1>3, <1>4, <1>9, <2>1 DEF IsSplit
  <2>2. CASE j \in 1 .. n /\ k = n + 1
    <3>1. f \in Range(s[j]) /\ f \in F
      BY <1>2, <1>3, <1>4, <1>9, <2>2 DEF IsSplit
    <3>2. g \in Range(a)
      BY <1>2, <1>6, <1>9, <2>2, <3>1
    <3> QED
      BY <1>2, <1>3, <1>4, <1>9, <2>2, <3>1, <3>2 DEF IsSplit
  <2>3. CASE j = n + 1 /\ k \in 1 .. n
    <3>1. g \in Range(s[k]) /\ g \in F
      BY <1>2, <1>3, <1>4, <1>9, <2>3 DEF IsSplit
    <3>2. f \in Range(a)
      BY <1>2, <1>6, <1>9, <2>3, <3>1
    <3> QED
      BY <1>2, <1>3, <1>4, <1>9, <2>3, <3>1, <3>2 DEF IsSplit
  <2> QED
    BY <1>2, <1>3, <2>1, <2>2, <2>3
<1>10. Whole(t, F \union Range(G))
  <2>1. ASSUME NEW f \in F PROVE \E k \in DOMAIN t : f \in Range(t[k])
    <3>1. PICK k \in DOMAIN s : f \in Range(s[k])
      BY <1>4 DEF Whole
    <3>2. CASE k = n + 1
      BY <1>2, <1>3, <1>6, <3>1, <3>2
    <3>3. CASE k \in 1 .. n
      BY <1>2, <1>3, <3>1, <3>3
    <3> QED
      BY <1>2, <1>3, <3>2, <3>3
  <2>2. ASSUME NEW f \in Range(G) PROVE \E k \in DOMAIN t : f \in Range(t[k])
    BY <1>2, <1>3, <1>6
  <2> QED
    BY <2>1, <2>2 DEF Whole
<1>11. IsSplit(t, F \union Range(G), c)
  BY <1>1, <1>8, <1>9 DEF IsSplit
<1> QED
  BY <1>10, <1>11 DEF t, b

\* AllChunks packs the groups one after the other.
LEMMA PackedUnfolds ==
  ASSUME NEW surface \in SUBSET DiffFiles, NEW c
  PROVE  \E g : /\ g[0] = [done |-> <<>>, active |-> <<>>]
                /\ \A n \in 0 .. (Len(Grouped(surface)) - 1) :
                     g[n + 1] = Pack(g[n], Grouped(surface)[n + 1], c)
                /\ AllChunks(surface, c) =
                     IF g[Len(Grouped(surface))].active = <<>> THEN g[Len(Grouped(surface))].done
                     ELSE Append(g[Len(Grouped(surface))].done, g[Len(Grouped(surface))].active)
<1> DEFINE fs == Grouped(surface)
           N == Len(fs)
           zero == [done |-> <<>>, active |-> <<>>]
           Loop(g, m) == g = [n \in 0 .. m |-> IF n = 0 THEN zero ELSE Pack(g[n - 1], fs[n], c)]
           S == {m \in 0 .. N : \E g : Loop(g, m)}
           all == CHOOSE g : Loop(g, N)
<1>0. N \in Nat
  BY GroupedKeeps, ListFacts
<1>a. AllChunks(surface, c) =
        IF all[N].active = <<>> THEN all[N].done ELSE Append(all[N].done, all[N].active)
  BY DEF AllChunks
<1> HIDE DEF fs, zero
<1>1. 0 \in S
  <2> DEFINE g == [n \in 0 .. 0 |-> zero]
  <2>1. \E f : Loop(f, 0)
    <3>1. Loop(g, 0)
      OBVIOUS
    <3> HIDE DEF Loop, g
    <3> QED
      BY <3>1
  <2>2. 0 \in 0 .. N
    BY <1>0
  <2> HIDE DEF Loop, g
  <2> QED
    BY <2>1, <2>2
<1>2. ASSUME NEW m \in 0 .. (N - 1), m \in S PROVE m + 1 \in S
  <2>1. PICK g : Loop(g, m)
    BY <1>2
  <2> DEFINE h == [n \in 0 .. (m + 1) |-> IF n = 0 THEN zero ELSE Pack(g[n - 1], fs[n], c)]
  <2>2. \A n \in 0 .. m : h[n] = g[n]
    BY <2>1
  <2>3. \A n \in 0 .. (m + 1) : n # 0 => h[n - 1] = g[n - 1]
    <3>1. \A n \in 0 .. (m + 1) : n # 0 => n - 1 \in 0 .. m
      BY <1>0, <1>2
    <3> HIDE DEF h
    <3> QED
      BY <2>2, <3>1
  <2>4. h = [n \in 0 .. (m + 1) |-> IF n = 0 THEN zero ELSE Pack(h[n - 1], fs[n], c)]
    BY <2>3
  <2>5. m + 1 \in 0 .. N
    BY <1>0, <1>2
  <2> QED
    BY <2>4, <2>5
<1>3. \E g : Loop(g, N)
  <2>1. \A n \in 0 .. N : n \in S
    <3> HIDE DEF S, N
    <3> QED
      BY <1>0, <1>1, <1>2, UpTo
  <2>2. N \in 0 .. N
    BY <1>0
  <2>3. N \in S
    <3> HIDE DEF S, N
    <3> QED
      BY <2>1, <2>2
  <2> HIDE DEF Loop, N
  <2> QED
    BY <2>3
<1>4. Loop(all, N)
  BY <1>3
<1> HIDE DEF N, all
<1>5. \A n \in 0 .. N : all[n] = IF n = 0 THEN zero ELSE Pack(all[n - 1], fs[n], c)
  BY <1>4
<1>6. all[0] = zero
  <2>1. 0 \in 0 .. N
    BY <1>0
  <2> QED
    BY <2>1, <1>5, Zenon
<1>7. ASSUME NEW n \in 0 .. (N - 1) PROVE all[n + 1] = Pack(all[n], fs[n + 1], c)
  <2>1. n + 1 \in 0 .. N /\ n + 1 # 0 /\ (n + 1) - 1 = n
    BY <1>0
  <2> QED
    BY <2>1, <1>5
<1> QED
  BY <1>a, <1>6, <1>7 DEF N, fs, zero

\* The chunks before the cut split the whole surface.
LEMMA AllChunksSplit ==
  ASSUME NEW surface \in SUBSET DiffFiles, NEW c, c.target \in Nat, c.minFiles \in Nat
  PROVE  IsSplit(AllChunks(surface, c), surface, c) /\ Whole(AllChunks(surface, c), surface)
<1> DEFINE fs == Grouped(surface)
           N == Len(fs)
           rank(k) == Nth({g.grank : g \in surface}, k)
<1>1. PICK g : /\ g[0] = [done |-> <<>>, active |-> <<>>]
               /\ \A n \in 0 .. (N - 1) : g[n + 1] = Pack(g[n], fs[n + 1], c)
               /\ AllChunks(surface, c) = IF g[N].active = <<>> THEN g[N].done
                                          ELSE Append(g[N].done, g[N].active)
  BY PackedUnfolds
<1>2. /\ IsList(fs)
      /\ \A k \in 1 .. N : IsList(fs[k]) /\ Range(fs[k]) = {f \in surface : f.grank = rank(k)}
      /\ \A j, k \in 1 .. N : rank(j) = rank(k) => j = k
      /\ \A f \in surface : \E k \in 1 .. N : f.grank = rank(k)
  BY GroupedKeeps
<1>3. N \in Nat
  BY <1>2, ListFacts
<1> HIDE DEF fs, N, rank
<1> DEFINE Of(n) == {f \in surface : \E k \in 1 .. n : f.grank = rank(k)}
           Fine(acc, F) == /\ IsList(acc.done) /\ IsList(acc.active)
                           /\ acc = [done |-> acc.done, active |-> acc.active]
                           /\ IsSplit(Append(acc.done, acc.active), F, c)
                           /\ Whole(Append(acc.done, acc.active), F)
           S == {n \in 0 .. N : Fine(g[n], Of(n))}
<1>4. 0 \in S
  <2> DEFINE one == Append(<<>>, <<>>)
  <2>1. /\ IsList(one) /\ DOMAIN one = 1 .. 1 /\ one[1] = <<>>
    <3>1. ASSUME NEW s, s = <<>>
          PROVE  IsList(Append(s, s)) /\ DOMAIN Append(s, s) = 1 .. 1 /\ Append(s, s)[1] = s
      <4>1. IsList(s) /\ Len(s) = 0
        BY <3>1, EmptyList
      <4>2. IsList(Append(s, s))
        BY <4>1, AppendList, Zenon
      <4>3. DOMAIN Append(s, s) = 1 .. (Len(s) + 1) /\ Append(s, s)[Len(s) + 1] = s
        BY <4>1, AppendAt, Zenon
      <4> QED
        BY <4>1, <4>2, <4>3
    <3> QED
      BY <3>1, Zenon
  <2>2. IsList(<<>>) /\ Range(<<>>) = {} /\ Fits(<<>>, c)
    BY EmptyList, GroupFits
  <2> HIDE DEF one
  <2>3. IsSplit(one, Of(0), c) /\ Whole(one, Of(0))
    BY <2>1, <2>2 DEF IsSplit, Whole
  <2>4. g[0].done = <<>> /\ g[0].active = <<>> /\ g[0] = [done |-> g[0].done, active |-> g[0].active]
    BY <1>1
  <2>5. Fine(g[0], Of(0))
    BY <2>2, <2>3, <2>4, Zenon DEF one
  <2>6. 0 \in 0 .. N
    BY <1>3
  <2> HIDE DEF Fine, Of
  <2> QED
    BY <2>5, <2>6
<1>5. ASSUME NEW n \in 0 .. (N - 1), n \in S PROVE n + 1 \in S
  <2> DEFINE G == fs[n + 1]
             r == rank(n + 1)
             F == Of(n)
             a == g[n].active
             d == g[n].done
  <2>1. n + 1 \in 1 .. N /\ n + 1 \in 0 .. N /\ n \in Nat
    BY <1>3
  <2>2. IsList(G) /\ Range(G) = {f \in surface : f.grank = r}
    BY <1>2, <2>1
  <2>3. \A f \in F : f.grank # r
    <3>1. \A k \in 1 .. n : k \in 1 .. N /\ k # n + 1
      BY <1>3, <2>1
    <3> QED
      BY <1>2, <2>1, <3>1
  <2>4. F \union Range(G) = Of(n + 1)
    <3>1. \A k : k \in 1 .. (n + 1) <=> k \in 1 .. n \/ k = n + 1
      BY <2>1
    <3> QED
      BY <2>2, <3>1
  <2>5. Fine(g[n], F) /\ g[n + 1] = Pack(g[n], G, c)
    BY <1>1, <1>5
  <2>6. \A f \in Range(a) \union Range(G) : f.tokens \in Nat
    <3>1. Len(d) + 1 \in DOMAIN Append(d, a) /\ Append(d, a)[Len(d) + 1] = a
      BY <2>5, AppendAt
    <3>2. Range(a) \subseteq F
      BY <2>5, <3>1 DEF IsSplit
    <3> QED
      BY <2>2, <3>2, FilesAssumption
  <2> HIDE DEF F, G, r, Of
  <2>7. CASE a # <<>> /\ Tokens(a) + Tokens(G) > c.target /\ Len(a) >= c.minFiles
    <3>1. g[n + 1] = [done |-> Append(d, a), active |-> G]
      BY <2>5, <2>7 DEF Pack
    <3>2. /\ IsSplit(Append(Append(d, a), G), F \union Range(G), c)
          /\ Whole(Append(Append(d, a), G), F \union Range(G))
      BY <2>2, <2>3, <2>5, SplitAppend
    <3>3. IsList(Append(d, a))
      BY <2>5, AppendList
    <3>4. Fine(g[n + 1], Of(n + 1))
      <4>1. /\ g[n + 1].done = Append(d, a) /\ g[n + 1].active = G
            /\ g[n + 1] = [done |-> g[n + 1].done, active |-> g[n + 1].active]
        BY <3>1
      <4> QED
        BY <2>2, <2>4, <3>2, <3>3, <4>1, Zenon
    <3> QED
      BY <2>1, <3>4
  <2>8. CASE ~(a # <<>> /\ Tokens(a) + Tokens(G) > c.target /\ Len(a) >= c.minFiles)
    <3>1. g[n + 1] = [done |-> d, active |-> a \o G]
      BY <2>5, <2>8 DEF Pack
    <3>2. Fits(a \o G, c)
      BY <2>2, <2>5, <2>6, <2>8, JoinFits
    <3>3. IsSplit(Append(d, a), F, c) /\ Whole(Append(d, a), F) /\ IsList(d) /\ IsList(a)
      BY <2>5
    <3>4. \A f \in Range(G) : f.grank = r
      BY <2>2
    <3>5. /\ IsSplit(Append(d, a \o G), F \union Range(G), c)
          /\ Whole(Append(d, a \o G), F \union Range(G))
      BY <2>2, <2>3, <3>2, <3>3, <3>4, SplitJoin
    <3>6. IsList(a \o G)
      BY <2>2, <3>3, ConcatList
    <3>7. Fine(g[n + 1], Of(n + 1))
      <4>1. /\ g[n + 1].done = d /\ g[n + 1].active = a \o G
            /\ g[n + 1] = [done |-> g[n + 1].done, active |-> g[n + 1].active]
        BY <3>1
      <4> QED
        BY <2>4, <3>3, <3>5, <3>6, <4>1, Zenon
    <3> QED
      BY <2>1, <3>7
  <2> QED
    BY <2>7, <2>8
<1>6. Fine(g[N], Of(N))
  <2>1. \A n \in 0 .. N : n \in S
    <3> HIDE DEF S
    <3> QED
      BY <1>3, <1>4, <1>5, UpTo
  <2>2. N \in 0 .. N
    BY <1>3
  <2> QED
    BY <2>1, <2>2
<1>7. Of(N) = surface
  BY <1>2
<1> DEFINE d == g[N].done
           a == g[N].active
<1> HIDE DEF Of
<1>8. IsSplit(Append(d, a), surface, c) /\ Whole(Append(d, a), surface) /\ IsList(d)
  BY <1>6, <1>7
<1>9. AllChunks(surface, c) = IF a = <<>> THEN d ELSE Append(d, a)
  BY <1>1
<1> HIDE DEF d, a
<1>10. CASE a = <<>>
  <2>1. /\ Len(d) \in Nat /\ DOMAIN d = 1 .. Len(d) /\ DOMAIN Append(d, a) = 1 .. (Len(d) + 1)
        /\ \A i \in DOMAIN d : Append(d, a)[i] = d[i]
        /\ Append(d, a)[Len(d) + 1] = a
    BY <1>8, AppendAt
  <2>2. \A i \in DOMAIN Append(d, a) : i \in DOMAIN d \/ i = Len(d) + 1
    BY <2>1
  <2>3. DOMAIN d \subseteq DOMAIN Append(d, a)
    BY <2>1
  <2>4. Range(a) = {}
    BY <1>10, EmptyList
  <2>5. IsSplit(d, surface, c)
    BY <1>8, <2>1, <2>3 DEF IsSplit
  <2>6. Whole(d, surface)
    BY <1>8, <2>1, <2>2, <2>4 DEF Whole
  <2> QED
    BY <1>9, <1>10, <2>5, <2>6
<1> QED
  BY <1>8, <1>9, <1>10

\* The plan: a split of the surface, whole unless it was cut.
LEMMA PlanSplits ==
  ASSUME NEW fs \in SUBSET DiffFiles, NEW c \in Configs
  PROVE  /\ IsSplit(PlanChunks(fs, c).chunks, ReviewSurface(fs, c), c)
         /\ IF PlanChunks(fs, c).partial THEN Len(PlanChunks(fs, c).chunks) = c.maxChunks
            ELSE Whole(PlanChunks(fs, c).chunks, ReviewSurface(fs, c))
<1> DEFINE surface == ReviewSurface(fs, c)
           all == AllChunks(surface, c)
           cut == SubSeq(all, 1, c.maxChunks)
<1>1. c.maxChunks \in Nat \ {0} /\ c.minFiles \in Nat /\ c.target \in Nat
  BY PlanAssumption
<1>2. IsSplit(all, surface, c) /\ Whole(all, surface)
  <2>1. surface \in SUBSET DiffFiles
    BY DEF ReviewSurface
  <2> HIDE DEF surface
  <2> QED
    BY <1>1, <2>1, AllChunksSplit
<1>3. /\ PlanChunks(fs, c).chunks = IF Len(all) > c.maxChunks THEN cut ELSE all
      /\ PlanChunks(fs, c).partial <=> Len(all) > c.maxChunks
  <2> DEFINE over == Len(all) > c.maxChunks
             first == IF Len(all) > c.maxChunks THEN cut ELSE all
  <2>1. PlanChunks(fs, c) = [chunks |-> first, partial |-> over]
    BY DEF PlanChunks
  <2>2. over \in BOOLEAN
    OBVIOUS
  <2> HIDE DEF over, first
  <2>3. PlanChunks(fs, c).chunks = first /\ PlanChunks(fs, c).partial = over
    BY <2>1
  <2> QED
    BY <2>3, Zenon DEF over, first
<1> HIDE DEF surface, all
<1>4. CASE Len(all) > c.maxChunks
  <2>1. IsList(all) /\ Len(all) \in Nat /\ DOMAIN all = 1 .. Len(all)
    BY <1>2, ListFacts DEF IsSplit
  <2>2. /\ Len(cut) = c.maxChunks /\ DOMAIN cut = 1 .. c.maxChunks
        /\ cut = [i \in 1 .. c.maxChunks |-> cut[i]]
        /\ \A i \in 1 .. c.maxChunks : cut[i] = all[i] /\ i \in DOMAIN all
    BY <1>1, <1>4, <2>1 DEF IsList
  <2> HIDE DEF cut
  <2>3. IsList(cut)
    BY <1>1, <2>2, FunctionList
  <2>4. \A i \in DOMAIN cut : cut[i] = all[i] /\ i \in DOMAIN all
    BY <2>2
  <2>5. IsSplit(cut, surface, c)
    BY <1>2, <2>3, <2>4, Zenon DEF IsSplit
  <2>6. PlanChunks(fs, c).chunks = cut /\ PlanChunks(fs, c).partial
    BY <1>3, <1>4
  <2> QED
    BY <2>2, <2>5, <2>6, Zenon DEF surface
<1>5. CASE ~(Len(all) > c.maxChunks)
  <2>1. PlanChunks(fs, c).chunks = all /\ ~PlanChunks(fs, c).partial
    BY <1>3, <1>5
  <2> QED
    BY <1>2, <2>1, Zenon DEF surface
<1> QED
  BY <1>4, <1>5

-----------------------------------------------------------------------------
(* What the checks let through *)

\* The plan of the job: its chunks hold files of the surface only.
LEMMA JobFacts ==
  ASSUME JobInv
  PROVE  /\ cfg.cap \in Nat
         /\ Len(Chunks) \in Nat /\ DOMAIN Chunks = 1 .. Len(Chunks)
         /\ \A c \in DOMAIN Chunks :
              PathsOf(Chunks[c]) \subseteq DOMAIN Lines /\ PathsOf(Chunks[c]) \intersect cfg.ignored = {}
<1>1. IsSplit(Chunks, ReviewSurface(files, cfg), cfg)
  BY PlanSplits DEF JobInv, Chunks
<1>2. Len(Chunks) \in Nat /\ DOMAIN Chunks = 1 .. Len(Chunks)
  BY <1>1, ListFacts DEF IsSplit
<1>3. \A f \in ReviewSurface(files, cfg) : f.path \in DOMAIN Lines /\ f.path \notin cfg.ignored
  BY FilesAssumption DEF JobInv, ReviewSurface
<1>4. ASSUME NEW c \in DOMAIN Chunks, NEW p \in PathsOf(Chunks[c])
      PROVE  p \in DOMAIN Lines /\ p \notin cfg.ignored
  <2>1. PICK i \in DOMAIN Chunks[c] : p = Chunks[c][i].path
    BY <1>4 DEF PathsOf
  <2>2. Chunks[c][i] \in ReviewSurface(files, cfg)
    BY <1>1, <2>1 DEF IsSplit, Range
  <2> QED
    BY <1>3, <2>1, <2>2
<1>5. cfg.cap \in Nat
  BY PlanAssumption DEF JobInv
<1> QED
  BY <1>2, <1>4, <1>5

\* A check against the sources S says of a finding in one of them what Sound says.
LEMMA Revalidated ==
  ASSUME NEW f, NEW S, NEW lines
  PROVE  DropReason(f, [p \in S |-> Lines[p]], lines) = "valid" <=>
           f.path \in S /\ DropReason(f, [p \in {f.path} |-> Lines[p]], lines) = "valid"
<1>1. CASE f.path \notin S
  BY <1>1 DEF DropReason
<1>2. CASE f.path \in S
  <2>1. [p \in S |-> Lines[p]][f.path] = [p \in {f.path} |-> Lines[p]][f.path]
    BY <1>2
  <2> QED
    BY <1>2, <2>1 DEF DropReason
<1> QED
  BY <1>1, <1>2

\* A check against fewer lines is no weaker.
LEMMA MoreLines ==
  ASSUME NEW f, NEW texts, NEW some, NEW more, some \subseteq more,
         DropReason(f, texts, some) = "valid"
  PROVE  DropReason(f, texts, more) = "valid"
BY DEF DropReason

\* The diff of a chunk is part of the reviewed diff.
LEMMA ChunkDiffIsReviewed ==
  ASSUME NEW paths, NEW c, paths \intersect c.ignored = {}
  PROVE  RightSideLines(DiffOf(paths)) \subseteq Reviewed(c)
<1> DEFINE mine == {i \in DOMAIN Diff : Diff[i].path \in paths}
           all == {i \in DOMAIN Diff : Diff[i].path \notin c.ignored}
<1>1. IsList(Diff)
  BY FilesAssumption DEF IsList
<1>2. mine \in SUBSET (DOMAIN Diff) /\ all \in SUBSET (DOMAIN Diff) /\ mine \subseteq all
  OBVIOUS
<1>3. DiffOf(paths) = Picked(Diff, mine) /\ Reviewed(c) = RightSideLines(Picked(Diff, all))
  BY DEF DiffOf, Reviewed
<1> HIDE DEF mine, all
<1>4. Range(Picked(Diff, mine)) = {Diff[i] : i \in mine} /\ Range(Picked(Diff, all)) = {Diff[i] : i \in all}
  BY <1>1, <1>2, PickedKeeps
<1>5. Range(Picked(Diff, mine)) \subseteq Range(Picked(Diff, all))
  BY <1>2, <1>4
<1> QED
  BY <1>3, <1>5 DEF RightSideLines

LEMMA AnchoredKeeps ==
  ASSUME NEW fs, Findings(fs), NEW diff
  PROVE  Findings(WithValidAnchor(fs, diff))
<1> DEFINE idx == {i \in DOMAIN fs : AnchorOf(diff, fs[i].path, fs[i].end) # {}}
<1>1. WithValidAnchor(fs, diff) = Picked(fs, idx) /\ idx \in SUBSET (DOMAIN fs)
  BY DEF WithValidAnchor
<1> HIDE DEF idx
<1>2. IsList(Picked(fs, idx)) /\ Range(Picked(fs, idx)) = {fs[i] : i \in idx}
  BY <1>1, PickedKeeps DEF Findings
<1> QED
  BY <1>1, <1>2 DEF Findings, Range

\* What is validated against sources of the head and lines of the reviewed diff, and passes the
\* policy, is sound.
LEMMA CheckedAreSound ==
  ASSUME NEW fs, Findings(fs), NEW S, NEW c, NEW lines, lines \subseteq Reviewed(c),
         NEW th, NEW ts
  PROVE  /\ SoundFindings(ApplyPolicy(Validated(fs, [p \in S |-> Lines[p]], lines), th, ts, Facts,
                                      VendorMessages), c)
<1> DEFINE texts == [p \in S |-> Lines[p]]
           valid == Validated(fs, texts, lines)
           kept == ApplyPolicy(valid, th, ts, Facts, VendorMessages)
<1>1. IsList(valid) /\ Range(valid) = {f \in Range(fs) : DropReason(f, texts, lines) = "valid"}
  <2> HIDE DEF texts
  <2> QED
    BY ValidatedKeeps DEF Findings
<1>2. \A f \in Range(valid) : f \in Range(fs) /\ DropReason(f, texts, lines) = "valid"
  BY <1>1
<1>3. ASSUME NEW f, DropReason(f, texts, lines) = "valid" PROVE Sound(f, c)
  <2>1. DropReason(f, [p \in {f.path} |-> Lines[p]], lines) = "valid"
    BY <1>3, Revalidated
  <2> QED
    BY <2>1, MoreLines DEF Sound
<1> HIDE DEF valid, texts
<1>4. IsList(kept) /\ Range(kept) \subseteq Range(valid)
  BY <1>1, PolicyKeeps
<1> HIDE DEF kept
<1>5. SoundFindings(kept, c)
  BY <1>2, <1>3, <1>4 DEF SoundFindings, Findings
<1> QED
  BY <1>5 DEF kept, valid, texts

\* What a chunk's checks keep is sound.
LEMMA ChunkFindingsAreSound ==
  ASSUME JobInv, NEW k \in DOMAIN Chunks, NEW answer, Findings(answer), NEW S, NEW tools
  PROVE  SoundFindings(ChunkFindings(answer, PathsOf(Chunks[k]), [p \in S |-> Lines[p]], tools), cfg)
<1> DEFINE paths == PathsOf(Chunks[k])
           texts == [p \in S |-> Lines[p]]
           mine == DiffOf(paths)
           commentable == RightSideLines(mine)
           own == [p \in paths \intersect DOMAIN texts |-> texts[p]]
           repaired == AttachAnchors(RepairAll(answer, own, commentable, Window), mine)
           anchored == WithValidAnchor(repaired, mine)
<1>1. ChunkFindings(answer, paths, texts, tools) =
        ApplyPolicy(Validated(anchored, texts, commentable), Threshold, tools, Facts, VendorMessages)
  BY DEF ChunkFindings
<1>2. commentable \subseteq Reviewed(cfg)
  <2>1. paths \intersect cfg.ignored = {}
    BY JobFacts
  <2> HIDE DEF paths
  <2> QED
    BY <2>1, ChunkDiffIsReviewed
<1> HIDE DEF own, commentable, mine
<1>3. Findings(anchored)
  <2>1. Findings(RepairAll(answer, own, commentable, Window))
    BY RepairKeeps
  <2>2. Findings(repaired)
    BY <2>1, AnchorKeeps
  <2> HIDE DEF repaired
  <2> QED
    BY <2>2, AnchoredKeeps
<1> HIDE DEF anchored
<1>4. SoundFindings(ApplyPolicy(Validated(anchored, texts, commentable), Threshold, tools, Facts,
                                VendorMessages), cfg)
  BY <1>2, <1>3, CheckedAreSound
<1> QED
  BY <1>1, <1>4

\* A model answers with nothing or one finding of the pool.
LEMMA AnswersAreFindings ==
  /\ \A fs \in {<<>>} \union {<<f>> : f \in Pool} : Findings(fs)
  /\ \A f \in EditorPool : Good(f)
<1>1. \A f \in Pool \union EditorPool : Good(f)
  BY PoolsAssumption DEF WellFormed, Good
<1>2. Findings(<<>>)
  BY EmptyList DEF Findings
<1>3. ASSUME NEW f \in Pool PROVE Findings(<<f>>)
  <2>1. IsList(<<f>>) /\ Range(<<f>>) = {f}
    BY DEF IsList, Range
  <2> QED
    BY <1>1, <2>1 DEF Findings
<1> QED
  BY <1>1, <1>2, <1>3

LEMMA NothingIsSound == \A c : SoundFindings(<<>>, c) /\ Findings(<<>>)
BY EmptyList DEF SoundFindings, Findings

\* A list without elements.
LEMMA NoneIsEmpty == ASSUME NEW fs, IsList(fs), Range(fs) = {} PROVE fs = <<>>
<1>1. fs \in Seq(Range(fs))
  BY DEF IsList
<1>2. fs \in Seq({})
  BY <1>1
<1> QED
  BY <1>2

LEMMA ConcatIsSound ==
  ASSUME NEW c, NEW fs, SoundFindings(fs, c), NEW gs, SoundFindings(gs, c)
  PROVE  SoundFindings(fs \o gs, c) /\ Range(fs \o gs) = Range(fs) \union Range(gs)
<1>1. IsList(fs \o gs) /\ Range(fs \o gs) = Range(fs) \union Range(gs)
  BY ConcatList DEF SoundFindings, Findings
<1> QED
  BY <1>1 DEF SoundFindings, Findings

-----------------------------------------------------------------------------
(* The steps *)

LEMMA JobStays ==
  ASSUME JobInv, UNCHANGED job
  PROVE  JobInv' /\ Chunks' = Chunks
BY DEF JobInv, job, Chunks

LEMMA InitEstablishes == Init => IInv
<1> SUFFICES ASSUME Init PROVE IInv
  OBVIOUS
<1>1. JobInv
  BY DEF Init, JobInv
<1>2. Len(Chunks) \in Nat /\ DOMAIN Chunks = 1 .. Len(Chunks)
  BY <1>1, JobFacts
<1>3. DOMAIN stored = {} /\ DOMAIN state = {}
  BY DEF Init
<1>4. ShapeInv
  BY <1>2, <1>3, NothingIsSound DEF Init, ShapeInv, InLoop, Drafted
<1>5. WorkInv
  <2>1. Done(stored) = {} /\ Done(state) = {}
    BY <1>3 DEF Done
  <2> QED
    BY <2>1, FS_EmptySet DEF Init, WorkInv, Open
<1>6. ExplainInv /\ SurviveInv
  BY DEF Init, ExplainInv, SurviveInv, InLoop, Drafted
<1>20. NotesInv
  BY DEF Init, NotesInv, InLoop, Drafted
<1> QED
  BY <1>1, <1>4, <1>5, <1>6, <1>20 DEF IInv

LEMMA LoadStateStep == IInv /\ LoadState => IInv'
<1> SUFFICES ASSUME IInv, LoadState PROVE IInv'
  OBVIOUS
<1>1. JobInv' /\ Chunks' = Chunks
  BY JobStays DEF IInv, LoadState
<1>2. Len(Chunks) \in Nat /\ DOMAIN Chunks = 1 .. Len(Chunks)
  BY JobFacts DEF IInv
<1>3. /\ DOMAIN state' = DOMAIN Chunks
      /\ \A c \in DOMAIN Chunks : state'[c] = IF c \in DOMAIN stored THEN stored[c] ELSE Pending
  BY DEF LoadState, MergedWithPlan
<1>4. IsEntry(Pending, cfg) /\ Pending.status = "pending"
  BY NothingIsSound DEF Pending, IsEntry
<1>5. /\ DOMAIN stored \subseteq DOMAIN Chunks
      /\ UNCHANGED <<cfg, stored, at, found, covered, fetched, stopped>>
      /\ UNCHANGED <<synthesis, challenger, draft, edited, final, notes, analyses, failures, interrupts, forgotten>>
      /\ pc = "plan" /\ pc' \in {"deliver", "loop"}
  BY DEF IInv, ShapeInv, LoadState, job, loop, results, counts
<1>6. ShapeInv'
  <2>1. \A c \in DOMAIN state' : IsEntry(state'[c], cfg')
    BY <1>3, <1>4, <1>5 DEF IInv, ShapeInv
  <2> QED
    BY <1>1, <1>2, <1>3, <1>5, <2>1 DEF IInv, ShapeInv, InLoop, Drafted
<1>7. WorkInv'
  <2>1. Done(state') = Done(stored)
    BY <1>3, <1>4, <1>5 DEF Done
  <2> QED
    BY <1>5, <2>1 DEF IInv, WorkInv, Open
<1>8. ExplainInv'
  <2>1. at = 1 /\ (pc' \notin InLoop => Len(Chunks) = 0)
    BY DEF IInv, ShapeInv, LoadState, InLoop
  <2>2. pc' # "save"
    BY DEF LoadState
  <2>3. covered' = {} /\ pc' # "plan"
    BY <1>5 DEF IInv, ExplainInv
  <2> QED
    BY <1>1, <1>2, <1>5, <2>1, <2>2, <2>3 DEF ExplainInv
<1>9. SurviveInv'
  <2>1. found' = <<>> /\ pc' # "posted"
    BY <1>5 DEF IInv, ShapeInv, LoadState
  <2> QED
    BY <2>1, EmptyList DEF SurviveInv
<1>20. NotesInv'
  <2>1. pc' = "deliver" => Notes = <<>>
    <3>1. Chunks = <<>> => ~plan.partial
      <4>1. plan.partial => Len(Chunks) = cfg.maxChunks
        BY PlanSplits DEF IInv, JobInv, Chunks
      <4>2. cfg.maxChunks \in Nat \ {0}
        BY PlanAssumption DEF IInv, JobInv
      <4> QED
        BY <4>1, <4>2
    <3>2. stopped = "none"
      BY <1>5 DEF IInv, NotesInv
    <3>3. pc' = "deliver" => Chunks = <<>>
      BY DEF LoadState
    <3> QED
      BY <3>1, <3>2, <3>3 DEF Notes
  <2>2. Notes' = Notes
    BY <1>1, <1>5 DEF Notes, LoadState, job
  <2>3. notes' = <<>> /\ synthesis' = <<>> /\ draft' = <<>> /\ found' = <<>>
    BY <1>5 DEF IInv, NotesInv, ShapeInv, InLoop
  <2> QED
    BY <1>5, <2>1, <2>2, <2>3 DEF NotesInv, InLoop, Drafted
<1> QED
  BY <1>1, <1>6, <1>7, <1>8, <1>9, <1>20 DEF IInv

LEMMA LatencyPassesStep == IInv /\ LatencyPasses => IInv'
<1> SUFFICES ASSUME IInv, LatencyPasses PROVE IInv'
  OBVIOUS
<1>1. /\ UNCHANGED <<cfg, files, plan, pc, stored, state, at, found, covered, fetched, stopped>>
      /\ UNCHANGED <<synthesis, challenger, draft, edited, final, notes, analyses, failures, interrupts, forgotten>>
  BY DEF LatencyPasses, job, chunks, loop, results, counts
<1> QED
  BY <1>1 DEF IInv, JobInv, ShapeInv, WorkInv, ExplainInv, NotesInv, Notes, IsDone,
              SurviveInv, Chunks

LEMMA LoopEndsStep == IInv /\ LoopEnds => IInv'
<1> SUFFICES ASSUME IInv, LoopEnds PROVE IInv'
  OBVIOUS
<1>1. JobInv' /\ Chunks' = Chunks
  BY JobStays DEF IInv, LoopEnds
<1>2. Len(Chunks) \in Nat /\ DOMAIN Chunks = 1 .. Len(Chunks)
  BY JobFacts DEF IInv
<1>3. /\ UNCHANGED <<cfg, stored, state, at, found, covered, fetched>>
      /\ UNCHANGED <<synthesis, challenger, draft, edited, final, notes, analyses, failures, interrupts, forgotten>>
      /\ pc = "loop" /\ pc' = "synthesis"
  BY DEF LoopEnds, job, chunks, results, counts
<1>4. stopped' \in {"none", "latency", "prompt_budget"}
      /\ (at = Len(Chunks) + 1 \/ stopped' # "none")
  BY <1>2, <1>3 DEF IInv, ShapeInv, LoopEnds
<1>5. ShapeInv'
  BY <1>1, <1>3, <1>4 DEF IInv, ShapeInv, InLoop, Drafted
<1>6. WorkInv'
  BY <1>3 DEF IInv, WorkInv, Open
<1>7. ExplainInv'
  BY <1>1, <1>3, <1>4 DEF IInv, ExplainInv, InLoop, IsDone
<1>8. SurviveInv'
  BY <1>3 DEF SurviveInv, Drafted
<1>20. NotesInv'
  BY <1>3 DEF IInv, NotesInv, InLoop, Drafted
<1> QED
  BY <1>1, <1>5, <1>6, <1>7, <1>8, <1>20 DEF IInv

LEMMA ReuseChunkStep == IInv /\ ReuseChunk => IInv'
<1> SUFFICES ASSUME IInv, ReuseChunk PROVE IInv'
  OBVIOUS
<1>1. JobInv' /\ Chunks' = Chunks
  BY JobStays DEF IInv, ReuseChunk
<1>2. Len(Chunks) \in Nat /\ DOMAIN Chunks = 1 .. Len(Chunks)
  BY JobFacts DEF IInv
<1>3. /\ UNCHANGED <<cfg, stored, state, fetched, stopped>>
      /\ UNCHANGED <<synthesis, challenger, draft, edited, final, notes, analyses, failures, interrupts, forgotten>>
      /\ pc = "loop" /\ pc' = "loop" /\ at' = at + 1 /\ covered' = covered \union {at}
      /\ found' = found \o FindingsOf(at)
  BY DEF ReuseChunk, job, chunks, results, counts
<1>4. at \in 1 .. Len(Chunks) /\ DOMAIN state = DOMAIN Chunks
  BY <1>2, <1>3 DEF IInv, ShapeInv, ReuseChunk
<1>5. SoundFindings(found', cfg)
  <2>1. SoundFindings(FindingsOf(at), cfg)
    BY <1>2, <1>4 DEF IInv, ShapeInv, IsEntry, FindingsOf
  <2>2. SoundFindings(found, cfg)
    BY DEF IInv, ShapeInv
  <2> QED
    BY <1>3, <2>1, <2>2, ConcatIsSound
<1>6. ShapeInv'
  <2>1. at' \in 1 .. (Len(Chunks) + 1) /\ covered' \subseteq DOMAIN Chunks
    BY <1>2, <1>3, <1>4 DEF IInv, ShapeInv
  <2> QED
    BY <1>1, <1>3, <1>5, <2>1 DEF IInv, ShapeInv, InLoop, Drafted
<1>7. WorkInv'
  BY <1>3 DEF IInv, WorkInv, Open
<1>8. ExplainInv'
  <2>1. \A c \in DOMAIN Chunks : c < at' => c < at \/ c = at
    BY <1>2, <1>3, <1>4
  <2>9. \A c \in covered' : c < at'
    <3>1. \A c \in covered : c \in 1 .. Len(Chunks) /\ (c < at \/ c = at)
      BY <1>2 DEF IInv, ShapeInv, ExplainInv
    <3> QED
      BY <1>2, <1>3, <1>4, <3>1
  <2>10. IsDone(at)
    BY DEF ReuseChunk
  <2> QED
    BY <2>9, <2>10, <1>1, <1>3, <2>1 DEF IInv, ExplainInv, InLoop, IsDone
<1>9. SurviveInv'
  BY <1>3 DEF SurviveInv, Drafted
<1>20. NotesInv'
  BY <1>3 DEF IInv, NotesInv, InLoop, Drafted
<1> QED
  BY <1>1, <1>6, <1>7, <1>8, <1>9, <1>20 DEF IInv

LEMMA StopAtBudgetStep == IInv /\ StopAtBudget => IInv'
<1> SUFFICES ASSUME IInv, StopAtBudget PROVE IInv'
  OBVIOUS
<1>1. JobInv' /\ Chunks' = Chunks
  BY JobStays DEF IInv, StopAtBudget
<1>2. /\ UNCHANGED <<cfg, stored, state, at, found, covered, fetched>>
      /\ UNCHANGED <<synthesis, challenger, draft, edited, final, notes, analyses, failures, interrupts, forgotten>>
      /\ pc = "loop" /\ pc' = "synthesis" /\ stopped' = "prompt_budget"
  BY DEF StopAtBudget, job, chunks, results, counts
<1>3. ShapeInv'
  BY <1>1, <1>2 DEF IInv, ShapeInv, InLoop, Drafted
<1>4. WorkInv'
  BY <1>2 DEF IInv, WorkInv, Open
<1>5. ExplainInv'
  BY <1>1, <1>2 DEF IInv, ExplainInv, InLoop, IsDone
<1>6. SurviveInv'
  BY <1>2 DEF SurviveInv, Drafted
<1>20. NotesInv'
  BY <1>2 DEF IInv, NotesInv, InLoop, Drafted
<1> QED
  BY <1>1, <1>3, <1>4, <1>5, <1>6, <1>20 DEF IInv

\* A status set anew: the other chunks keep theirs, and the findings stay.
LEMMA SetStatusKeeps ==
  ASSUME IInv, at \in DOMAIN state, NEW s, s \in {"running", "failed"}, ~IsDone(at) \/ pc = "model"
  PROVE  /\ DOMAIN SetStatus(at, s) = DOMAIN state
         /\ \A c \in DOMAIN state : c # at => SetStatus(at, s)[c] = state[c]
         /\ SetStatus(at, s)[at].status = s /\ IsEntry(SetStatus(at, s)[at], cfg)
         /\ state[at].status # "done"
<1>1. IsEntry(state[at], cfg) /\ state[at].status # "done"
  BY DEF IInv, ShapeInv, WorkInv, IsDone
<1>2. state[at].findings = <<>>
  BY <1>1 DEF IsEntry
<1>3. /\ DOMAIN SetStatus(at, s) = DOMAIN state
      /\ \A c \in DOMAIN state : c # at => SetStatus(at, s)[c] = state[c]
      /\ SetStatus(at, s)[at] = [state[at] EXCEPT !.status = s]
  BY DEF SetStatus
<1>4. IsEntry([state[at] EXCEPT !.status = s], cfg)
  BY <1>1, <1>2 DEF IsEntry
<1> QED
  BY <1>1, <1>3, <1>4 DEF IsEntry

LEMMA StartChunkStep == IInv /\ StartChunk => IInv'
<1> SUFFICES ASSUME IInv, StartChunk PROVE IInv'
  OBVIOUS
<1>1. JobInv' /\ Chunks' = Chunks
  BY JobStays DEF IInv, StartChunk
<1>2. Len(Chunks) \in Nat /\ DOMAIN Chunks = 1 .. Len(Chunks)
  BY JobFacts DEF IInv
<1>3. /\ UNCHANGED <<cfg, at, found, covered, fetched, stopped>>
      /\ UNCHANGED <<synthesis, challenger, draft, edited, final, notes, failures, interrupts, forgotten>>
      /\ pc = "loop" /\ pc' = "model" /\ analyses' = analyses + 1
      /\ state' = SetStatus(at, "running") /\ stored' = state'
  BY DEF StartChunk, job, results, Persist
<1>4. at \in DOMAIN Chunks /\ DOMAIN state = DOMAIN Chunks /\ ~IsDone(at)
  BY <1>2, <1>3 DEF IInv, ShapeInv, StartChunk
<1>5. /\ DOMAIN state' = DOMAIN Chunks
      /\ \A c \in DOMAIN Chunks : c # at => state'[c] = state[c]
      /\ state'[at].status = "running" /\ IsEntry(state'[at], cfg)
      /\ state[at].status # "done"
  BY <1>3, <1>4, SetStatusKeeps
<1>6. ShapeInv'
  <2>1. \A c \in DOMAIN Chunks : IsEntry(state'[c], cfg)
    BY <1>4, <1>5 DEF IInv, ShapeInv
  <2> QED
    BY <1>1, <1>3, <1>4, <1>5, <2>1 DEF IInv, ShapeInv, InLoop, Drafted
<1>7. WorkInv'
  <2>1. Done(state') = Done(state) /\ Done(stored) = Done(state)
    BY <1>3, <1>4, <1>5 DEF IInv, WorkInv, Done
  <2>2. Done(stored') = Done(stored) /\ Done(state') = Done(stored')
    BY <1>3, <2>1
  <2>3. analyses + 1 <= Cardinality(Done(stored)) + failures + interrupts + 1 + forgotten
    <3>1. Cardinality(Done(stored)) \in Nat
      <4>1. IsFiniteSet(DOMAIN Chunks)
        BY <1>2, FS_Interval
      <4>2. Done(stored) \subseteq DOMAIN Chunks
        BY <2>1, <1>4 DEF Done
      <4> QED
        BY <4>1, <4>2, FS_Subset, FS_CardinalityType
    <3> QED
      BY <1>3, <3>1 DEF IInv, WorkInv, Open
  <2> QED
    BY <1>3, <1>5, <2>2, <2>3 DEF IInv, WorkInv, Open
<1>8. ExplainInv'
  <2>1. \A c \in DOMAIN Chunks : c < at => c # at
    BY <1>2, <1>4
  <2>7. \A c \in covered : c \in DOMAIN Chunks /\ c < at /\ IsDone(c)
    BY <1>3 DEF IInv, ShapeInv, ExplainInv
  <2>8. \A c \in covered : c # at /\ state'[c].status = "done"
    <3>1. \A c \in covered : c # at
      BY <1>2, <1>4, <2>7
    <3> QED
      BY <1>5, <2>7, <3>1 DEF IsDone
  <2> QED
    BY <2>7, <2>8, <1>1, <1>3, <1>5, <2>1 DEF IInv, ExplainInv, InLoop, IsDone
<1>9. SurviveInv'
  BY <1>3 DEF SurviveInv, Drafted
<1>20. NotesInv'
  BY <1>3 DEF IInv, NotesInv, InLoop, Drafted
<1> QED
  BY <1>1, <1>6, <1>7, <1>8, <1>9, <1>20 DEF IInv

LEMMA ChunkAnswersStep == IInv /\ ChunkAnswers => IInv'
<1> SUFFICES ASSUME IInv, ChunkAnswers PROVE IInv'
  OBVIOUS
<1>1. JobInv' /\ Chunks' = Chunks
  BY JobStays DEF IInv, ChunkAnswers
<1>2. Len(Chunks) \in Nat /\ DOMAIN Chunks = 1 .. Len(Chunks)
  BY JobFacts DEF IInv
<1>3. /\ UNCHANGED <<cfg, stored, at, stopped>>
      /\ UNCHANGED <<synthesis, challenger, draft, edited, final, notes, analyses, failures, interrupts, forgotten>>
      /\ pc = "model" /\ pc' = "save" /\ covered' = covered \union {at}
  BY DEF ChunkAnswers, job, results, counts
<1>4. at \in DOMAIN Chunks /\ DOMAIN state = DOMAIN Chunks /\ DOMAIN stored \subseteq DOMAIN Chunks
  BY <1>3 DEF IInv, ShapeInv
<1>5. PICK bundle \in SUBSET PathsOf(Chunks[at]), tools \in SUBSET {"tool"},
           answer \in {<<>>} \union {<<f>> : f \in Pool} :
        LET texts == [p \in fetched \union bundle |-> Lines[p]]
            kept == ChunkFindings(answer, PathsOf(Chunks[at]), texts, tools)
        IN /\ fetched' = fetched \union bundle
           /\ found' = found \o kept
           /\ state' = [state EXCEPT ![at] = [status |-> "done", findings |-> kept]]
  BY DEF ChunkAnswers
<1> DEFINE kept == ChunkFindings(answer, PathsOf(Chunks[at]), [p \in fetched \union bundle |-> Lines[p]],
                                 tools)
<1>6. SoundFindings(kept, cfg)
  <2>1. Findings(answer)
    BY AnswersAreFindings
  <2> QED
    BY <1>4, <2>1, ChunkFindingsAreSound DEF IInv
<1>7. /\ fetched' = fetched \union bundle /\ found' = found \o kept
      /\ state' = [state EXCEPT ![at] = [status |-> "done", findings |-> kept]]
  BY <1>5, Zenon
<1> HIDE DEF kept
<1>8. /\ DOMAIN state' = DOMAIN Chunks
      /\ \A c \in DOMAIN Chunks : c # at => state'[c] = state[c]
      /\ state'[at] = [status |-> "done", findings |-> kept]
  BY <1>4, <1>7
<1>9. ShapeInv'
  <2>1. IsEntry(state'[at], cfg)
    BY <1>6, <1>8 DEF IsEntry
  <2>2. \A c \in DOMAIN Chunks : IsEntry(state'[c], cfg)
    BY <1>4, <1>8, <2>1 DEF IInv, ShapeInv
  <2>3. fetched' \subseteq DOMAIN Lines
    <3>1. PathsOf(Chunks[at]) \subseteq DOMAIN Lines
      BY <1>4, JobFacts DEF IInv
    <3> QED
      BY <1>7, <3>1 DEF IInv, ShapeInv
  <2>4. SoundFindings(found', cfg)
    BY <1>6, <1>7, ConcatIsSound DEF IInv, ShapeInv
  <2>5. covered' \subseteq DOMAIN Chunks
    BY <1>3, <1>4 DEF IInv, ShapeInv
  <2> QED
    BY <1>1, <1>3, <1>4, <1>8, <2>2, <2>3, <2>4, <2>5 DEF IInv, ShapeInv, InLoop, Drafted
<1>10. WorkInv'
  <2>1. Done(state) = Done(stored) /\ state[at].status # "done"
    BY <1>3 DEF IInv, WorkInv
  <2>2. Done(state') = Done(stored) \union {at} /\ at \notin Done(stored)
    BY <1>4, <1>8, <2>1 DEF Done
  <2> QED
    BY <1>3, <2>2 DEF IInv, WorkInv, Open
<1>11. ExplainInv'
  <2>1. \A c \in DOMAIN Chunks : c < at => c # at
    BY <1>2, <1>4
  <2>7. \A c \in covered : c \in DOMAIN Chunks /\ c < at /\ IsDone(c)
    BY <1>3 DEF IInv, ShapeInv, ExplainInv
  <2>8. \A c \in covered : c # at /\ state'[c].status = "done"
    <3>1. \A c \in covered : c # at
      BY <1>2, <1>4, <2>7
    <3> QED
      BY <1>8, <2>7, <3>1 DEF IsDone
  <2> QED
    BY <2>7, <2>8, <1>1, <1>3, <1>8, <2>1 DEF IInv, ExplainInv, InLoop, IsDone
<1>12. SurviveInv'
  BY <1>3 DEF SurviveInv, Drafted
<1>20. NotesInv'
  BY <1>3 DEF IInv, NotesInv, InLoop, Drafted
<1> QED
  BY <1>1, <1>9, <1>10, <1>11, <1>12, <1>20 DEF IInv

LEMMA ChunkFailsStep == IInv /\ ChunkFails => IInv'
<1> SUFFICES ASSUME IInv, ChunkFails PROVE IInv'
  OBVIOUS
<1>1. JobInv' /\ Chunks' = Chunks
  BY JobStays DEF IInv, ChunkFails
<1>2. Len(Chunks) \in Nat /\ DOMAIN Chunks = 1 .. Len(Chunks)
  BY JobFacts DEF IInv
<1>3. /\ UNCHANGED <<cfg, found, covered, fetched, stopped>>
      /\ UNCHANGED <<synthesis, challenger, draft, edited, final, notes, analyses, interrupts, forgotten>>
      /\ pc = "model" /\ pc' = "loop" /\ failures' = failures + 1 /\ at' = at + 1
      /\ state' = SetStatus(at, "failed") /\ stored' = state'
  BY DEF ChunkFails, job, results, Persist
<1>4. at \in DOMAIN Chunks /\ DOMAIN state = DOMAIN Chunks
  BY <1>3 DEF IInv, ShapeInv
<1>5. /\ DOMAIN state' = DOMAIN Chunks
      /\ \A c \in DOMAIN Chunks : c # at => state'[c] = state[c]
      /\ state'[at].status = "failed" /\ IsEntry(state'[at], cfg)
      /\ state[at].status # "done"
  BY <1>3, <1>4, SetStatusKeeps
<1>6. ShapeInv'
  <2>1. \A c \in DOMAIN Chunks : IsEntry(state'[c], cfg)
    BY <1>4, <1>5 DEF IInv, ShapeInv
  <2>2. at' \in 1 .. (Len(Chunks) + 1)
    BY <1>2, <1>3, <1>4
  <2> QED
    BY <1>1, <1>3, <1>4, <1>5, <2>1, <2>2 DEF IInv, ShapeInv, InLoop, Drafted
<1>7. WorkInv'
  <2>1. Done(state') = Done(state) /\ Done(stored) = Done(state)
    BY <1>3, <1>4, <1>5 DEF IInv, WorkInv, Done
  <2>2. Done(stored') = Done(stored) /\ Done(state') = Done(stored')
    BY <1>3, <2>1
  <2>3. analyses <= Cardinality(Done(stored)) + (failures + 1) + interrupts + 0 + forgotten
    <3>1. Cardinality(Done(stored)) \in Nat
      <4>1. IsFiniteSet(DOMAIN Chunks)
        BY <1>2, FS_Interval
      <4>2. Done(stored) \subseteq DOMAIN Chunks
        BY <2>1, <1>4 DEF Done
      <4> QED
        BY <4>1, <4>2, FS_Subset, FS_CardinalityType
    <3> QED
      BY <1>3, <3>1 DEF IInv, WorkInv, Open
  <2> QED
    BY <1>3, <1>5, <2>2, <2>3 DEF IInv, WorkInv, Open
<1>8. ExplainInv'
  <2>1. \A c \in DOMAIN Chunks : c < at' => c < at \/ c = at
    BY <1>2, <1>3, <1>4
  <2>2. \A c \in DOMAIN Chunks : c < at => c # at
    BY <1>2, <1>4
  <2>9. \A c \in covered' : c < at'
    <3>1. \A c \in covered : c \in 1 .. Len(Chunks) /\ (c < at \/ c = at)
      BY <1>2 DEF IInv, ShapeInv, ExplainInv
    <3> QED
      BY <1>2, <1>3, <1>4, <3>1
  <2>7. \A c \in covered : c \in DOMAIN Chunks /\ c < at /\ IsDone(c)
    BY <1>3 DEF IInv, ShapeInv, ExplainInv
  <2>8. \A c \in covered : c # at /\ state'[c].status = "done"
    <3>1. \A c \in covered : c # at
      BY <1>2, <1>4, <2>7
    <3> QED
      BY <1>5, <2>7, <3>1 DEF IsDone
  <2> QED
    BY <2>7, <2>8, <2>9, <1>1, <1>3, <1>5, <2>1, <2>2 DEF IInv, ExplainInv, InLoop, IsDone
<1>9. SurviveInv'
  BY <1>3 DEF SurviveInv, Drafted
<1>20. NotesInv'
  BY <1>3 DEF IInv, NotesInv, InLoop, Drafted
<1> QED
  BY <1>1, <1>6, <1>7, <1>8, <1>9, <1>20 DEF IInv

LEMMA SaveChunkStep == IInv /\ SaveChunk => IInv'
<1> SUFFICES ASSUME IInv, SaveChunk PROVE IInv'
  OBVIOUS
<1>1. JobInv' /\ Chunks' = Chunks
  BY JobStays DEF IInv, SaveChunk
<1>2. Len(Chunks) \in Nat /\ DOMAIN Chunks = 1 .. Len(Chunks)
  BY JobFacts DEF IInv
<1>3. /\ UNCHANGED <<cfg, state, found, covered, fetched, stopped>>
      /\ UNCHANGED <<synthesis, challenger, draft, edited, final, notes, analyses, failures, interrupts, forgotten>>
      /\ pc = "save" /\ pc' = "loop" /\ at' = at + 1 /\ stored' = state
  BY DEF SaveChunk, job, results, counts, Persist
<1>4. at \in DOMAIN Chunks /\ DOMAIN state = DOMAIN Chunks
  BY <1>3 DEF IInv, ShapeInv
<1>5. ShapeInv'
  <2>1. at' \in 1 .. (Len(Chunks) + 1)
    BY <1>2, <1>3, <1>4
  <2> QED
    BY <1>1, <1>3, <1>4, <2>1 DEF IInv, ShapeInv, InLoop, Drafted
<1>6. WorkInv'
  <2>1. Done(state) = Done(stored) \union {at} /\ at \notin Done(stored)
    BY <1>3 DEF IInv, WorkInv
  <2>2. IsFiniteSet(Done(stored))
    <3>1. IsFiniteSet(DOMAIN Chunks)
      BY <1>2, FS_Interval
    <3>2. Done(stored) \subseteq DOMAIN Chunks
      BY <2>1, <1>4 DEF Done
    <3> QED
      BY <3>1, <3>2, FS_Subset
  <2>3. Cardinality(Done(stored)) \in Nat /\ Cardinality(Done(state)) = Cardinality(Done(stored)) + 1
    BY <2>1, <2>2, FS_CardinalityType, FS_AddElement
  <2>4. analyses <= Cardinality(Done(state)) + failures + interrupts + 0 + forgotten
    BY <1>3, <2>3 DEF IInv, WorkInv, Open
  <2>5. Done(stored') = Done(state) /\ Done(state') = Done(state)
    BY <1>3
  <2> QED
    BY <1>3, <2>4, <2>5 DEF IInv, WorkInv, Open
<1>7. ExplainInv'
  <2>1. \A c \in DOMAIN Chunks : c < at' => c < at \/ c = at
    BY <1>2, <1>3, <1>4
  <2>9. \A c \in covered' : c < at'
    <3>1. \A c \in covered : c \in 1 .. Len(Chunks) /\ (c < at \/ c = at)
      BY <1>2 DEF IInv, ShapeInv, ExplainInv
    <3> QED
      BY <1>2, <1>3, <1>4, <3>1
  <2> QED
    BY <2>9, <1>1, <1>3, <2>1 DEF IInv, ExplainInv, InLoop, IsDone
<1>8. SurviveInv'
  BY <1>3 DEF SurviveInv, Drafted
<1>20. NotesInv'
  BY <1>3 DEF IInv, NotesInv, InLoop, Drafted
<1> QED
  BY <1>1, <1>5, <1>6, <1>7, <1>8, <1>20 DEF IInv

\* After the loop, only the findings on their way to the pull request change.
LEMMA LaterStays ==
  ASSUME IInv, UNCHANGED <<job, chunks, loop, counts>>, pc \notin InLoop, pc' \notin InLoop,
         pc' \in Drafted \union {"synthesis", "challenger", "tie_break", "combine"},
         Findings(synthesis'), Findings(challenger'), Findings(edited'), SoundFindings(draft', cfg)
  PROVE  JobInv' /\ ShapeInv' /\ WorkInv' /\ ExplainInv' /\ found' = found /\ cfg' = cfg
<1>1. JobInv' /\ Chunks' = Chunks
  BY JobStays DEF IInv
<1>2. UNCHANGED <<cfg, stored, state, at, found, covered, fetched, stopped, analyses, failures, interrupts, forgotten>>
  BY DEF job, chunks, loop, counts
<1>3. pc \notin {"plan", "loop", "model", "save"} /\ pc' \notin {"plan", "loop", "model", "save"}
  BY DEF InLoop
<1>4. ShapeInv'
  BY <1>1, <1>2, <1>3 DEF IInv, ShapeInv, Drafted, InLoop
<1>5. WorkInv'
  BY <1>2, <1>3 DEF IInv, WorkInv, Open
<1>6. ExplainInv'
  BY <1>1, <1>2, <1>3 DEF IInv, ExplainInv, IsDone
<1> QED
  BY <1>1, <1>2, <1>4, <1>5, <1>6

LEMMA SynthesiseStep == IInv /\ Synthesise => IInv'
<1> SUFFICES ASSUME IInv, Synthesise PROVE IInv'
  OBVIOUS
<1>1. /\ pc = "synthesis" /\ pc' \in {"challenger", "combine"}
      /\ UNCHANGED <<job, chunks, loop, counts, challenger, draft, edited>>
  BY DEF Synthesise
<1>2. Findings(synthesis')
  BY AnswersAreFindings DEF Synthesise
<1>3. JobInv' /\ ShapeInv' /\ WorkInv' /\ ExplainInv'
  <2>1. Findings(challenger') /\ Findings(edited') /\ SoundFindings(draft', cfg)
    BY <1>1 DEF IInv, ShapeInv
  <2>2. /\ pc \notin InLoop /\ pc' \notin InLoop
        /\ pc' \in Drafted \union {"synthesis", "challenger", "tie_break", "combine"}
    BY <1>1 DEF InLoop
  <2>3. UNCHANGED <<job, chunks, loop, counts>>
    BY <1>1
  <2> QED
    BY <1>2, <2>1, <2>2, <2>3, LaterStays
<1>4. SurviveInv'
  BY <1>1 DEF SurviveInv, Drafted
<1>20. NotesInv'
  <2>1. covered = {} => synthesis' = <<>> /\ pc' = "combine"
    BY DEF Synthesise
  <2>2. UNCHANGED <<found, covered, draft>>
    BY <1>1 DEF loop
  <2> QED
    BY <1>1, <2>1, <2>2 DEF IInv, NotesInv, InLoop, Drafted
<1> QED
  BY <1>3, <1>4, <1>20 DEF IInv

LEMMA ChallengeStep == IInv /\ Challenge => IInv'
<1> SUFFICES ASSUME IInv, Challenge PROVE IInv'
  OBVIOUS
<1>1. /\ pc = "challenger" /\ pc' \in {"tie_break", "combine"}
      /\ UNCHANGED <<job, chunks, loop, counts, draft, edited>>
      /\ \E fs \in {<<>>} \union {<<f>> : f \in Pool} :
           challenger' = fs /\ synthesis' \in {synthesis, MergeDebate(synthesis, fs, <<>>, FALSE)}
  BY DEF Challenge
<1>2. PICK fs \in {<<>>} \union {<<f>> : f \in Pool} :
        challenger' = fs /\ synthesis' \in {synthesis, MergeDebate(synthesis, fs, <<>>, FALSE)}
  BY <1>1
<1>3. Findings(challenger') /\ Findings(synthesis')
  <2>1. Findings(fs) /\ Findings(synthesis)
    BY AnswersAreFindings DEF IInv, ShapeInv
  <2>2. Findings(MergeDebate(synthesis, fs, <<>>, FALSE))
    BY <2>1, MergeKeeps
  <2> QED
    BY <1>2, <2>1, <2>2
<1>4. JobInv' /\ ShapeInv' /\ WorkInv' /\ ExplainInv'
  <2>1. Findings(edited') /\ SoundFindings(draft', cfg)
    BY <1>1 DEF IInv, ShapeInv
  <2>2. /\ pc \notin InLoop /\ pc' \notin InLoop
        /\ pc' \in Drafted \union {"synthesis", "challenger", "tie_break", "combine"}
    BY <1>1 DEF InLoop
  <2>3. UNCHANGED <<job, chunks, loop, counts>>
    BY <1>1
  <2> QED
    BY <1>3, <2>1, <2>2, <2>3, LaterStays
<1>5. SurviveInv'
  BY <1>1 DEF SurviveInv, Drafted
<1>20. NotesInv'
  <2>1. covered # {} /\ covered' = covered
    BY <1>1 DEF IInv, NotesInv, loop
  <2> QED
    BY <1>1, <2>1 DEF NotesInv, InLoop
<1> QED
  BY <1>4, <1>5, <1>20 DEF IInv

LEMMA BreakTieStep == IInv /\ BreakTie => IInv'
<1> SUFFICES ASSUME IInv, BreakTie PROVE IInv'
  OBVIOUS
<1>1. /\ pc = "tie_break" /\ pc' = "combine"
      /\ UNCHANGED <<job, chunks, loop, counts, challenger, draft, edited>>
  BY DEF BreakTie
<1>2. PICK fs \in {<<>>} \union {<<f>> : f \in Pool} :
        synthesis' = MergeDebate(synthesis, challenger, <<fs>>, FALSE)
  BY DEF BreakTie
<1>3. Findings(synthesis')
  <2>1. Findings(fs) /\ Findings(synthesis) /\ Findings(challenger)
    BY AnswersAreFindings DEF IInv, ShapeInv
  <2> DEFINE t == <<fs>>
  <2>2. t[1] = fs
    OBVIOUS
  <2> HIDE DEF t
  <2>3. Findings(MergeDebate(synthesis, challenger, t, FALSE))
    BY <2>1, <2>2, MergeKeeps
  <2> QED
    BY <1>2, <2>3 DEF t
<1>4. JobInv' /\ ShapeInv' /\ WorkInv' /\ ExplainInv'
  <2>1. Findings(challenger') /\ Findings(edited') /\ SoundFindings(draft', cfg)
    BY <1>1 DEF IInv, ShapeInv
  <2>2. /\ pc \notin InLoop /\ pc' \notin InLoop
        /\ pc' \in Drafted \union {"synthesis", "challenger", "tie_break", "combine"}
    BY <1>1 DEF InLoop
  <2>3. UNCHANGED <<job, chunks, loop, counts>>
    BY <1>1
  <2> QED
    BY <1>3, <2>1, <2>2, <2>3, LaterStays
<1>5. SurviveInv'
  BY <1>1 DEF SurviveInv, Drafted
<1>20. NotesInv'
  <2>1. covered # {} /\ covered' = covered
    BY <1>1 DEF IInv, NotesInv, loop
  <2> QED
    BY <1>1, <2>1 DEF NotesInv, InLoop
<1> QED
  BY <1>4, <1>5, <1>20 DEF IInv

\* Nothing comes out of the checks when nothing goes in.
LEMMA NothingToCheck ==
  ASSUME NEW diff, NEW texts, NEW lines, NEW th, NEW ts
  PROVE  ApplyPolicy(Validated(WithValidAnchor(AttachAnchors(<<>>, diff), diff), texts, lines), th, ts,
                     Facts, VendorMessages) = <<>>
<1> DEFINE attached == AttachAnchors(<<>>, diff)
           anchored == WithValidAnchor(attached, diff)
           valid == Validated(anchored, texts, lines)
           kept == ApplyPolicy(valid, th, ts, Facts, VendorMessages)
<1>1. Findings(attached) /\ Range(attached) = {}
  <2>1. DOMAIN attached = {}
    BY DEF AttachAnchors
  <2>2. Findings(attached)
    BY NothingIsSound, AnchorKeeps
  <2> QED
    BY <2>1, <2>2 DEF Range
<1> HIDE DEF attached
<1>2. IsList(anchored) /\ Range(anchored) = {}
  <2> DEFINE idx == {i \in DOMAIN attached : AnchorOf(diff, attached[i].path, attached[i].end) # {}}
  <2>1. anchored = Picked(attached, idx) /\ idx \in SUBSET (DOMAIN attached)
    BY DEF WithValidAnchor
  <2> HIDE DEF idx, anchored
  <2>2. IsList(Picked(attached, idx)) /\ Range(Picked(attached, idx)) = {attached[i] : i \in idx}
    BY <1>1, <2>1, PickedKeeps DEF Findings
  <2> QED
    BY <1>1, <2>1, <2>2 DEF Range
<1> HIDE DEF anchored
<1>3. IsList(valid) /\ Range(valid) = {}
  BY <1>2, ValidatedKeeps
<1> HIDE DEF valid
<1>4. IsList(kept) /\ Range(kept) = {}
  BY <1>3, PolicyKeeps
<1> HIDE DEF kept
<1>5. kept = <<>>
  BY <1>4, NoneIsEmpty
<1> QED
  BY <1>5 DEF kept, valid, anchored, attached

LEMMA NothingToDedupe == Dedupe(<<>>) = <<>>
<1>1. Findings(Dedupe(<<>>)) /\ Range(Dedupe(<<>>)) \subseteq Range(<<>>)
  BY NothingIsSound, DedupeKeeps
<1> QED
  BY <1>1, NoneIsEmpty, EmptyList DEF Findings

\* The draft holds sound findings only, and for each of a chunk it or a near duplicate.
LEMMA CombineStep == IInv /\ Combine => IInv'
<1> SUFFICES ASSUME IInv, Combine PROVE IInv'
  OBVIOUS
<1> DEFINE lines == RightSideLines(ReviewedDiff)
           anchored == WithValidAnchor(AttachAnchors(synthesis, ReviewedDiff), ReviewedDiff)
           more == ApplyPolicy(Validated(anchored, [p \in fetched |-> Lines[p]], lines), Threshold, {},
                               Facts, VendorMessages)
           both == found \o more
<1>1. /\ pc = "combine" /\ pc' \in {"deliver", "editor"}
      /\ UNCHANGED <<job, chunks, loop, counts, synthesis, challenger, edited>>
      /\ draft' = Dedupe(both)
  BY DEF Combine, FetchedLines
<1>2. SoundFindings(more, cfg)
  <2>1. lines = Reviewed(cfg)
    BY DEF ReviewedDiff, Reviewed
  <2>2. Findings(anchored)
    <3>1. Findings(AttachAnchors(synthesis, ReviewedDiff))
      BY AnchorKeeps DEF IInv, ShapeInv
    <3> QED
      BY <3>1, AnchoredKeeps
  <2> HIDE DEF lines, anchored
  <2>3. lines \subseteq Reviewed(cfg)
    BY <2>1
  <2> QED
    BY <2>2, <2>3, CheckedAreSound
<1> HIDE DEF more
<1>3. SoundFindings(both, cfg) /\ Range(both) = Range(found) \union Range(more)
  BY <1>2, ConcatIsSound DEF IInv, ShapeInv
<1> HIDE DEF both
<1>4. SoundFindings(draft', cfg) /\ Covers(draft', both)
  <2>1. Findings(Dedupe(both)) /\ Range(Dedupe(both)) \subseteq Range(both) /\ Covers(Dedupe(both), both)
    BY <1>3, DedupeKeeps, DedupeCovers DEF SoundFindings
  <2> QED
    BY <1>1, <1>3, <2>1 DEF SoundFindings
<1>5. JobInv' /\ ShapeInv' /\ WorkInv' /\ ExplainInv' /\ found' = found
  <2>1. Findings(synthesis') /\ Findings(challenger') /\ Findings(edited')
    BY <1>1 DEF IInv, ShapeInv
  <2>2. /\ pc \notin InLoop /\ pc' \notin InLoop
        /\ pc' \in Drafted \union {"synthesis", "challenger", "tie_break", "combine"}
    BY <1>1 DEF InLoop, Drafted
  <2>3. UNCHANGED <<job, chunks, loop, counts>>
    BY <1>1
  <2> QED
    BY <1>4, <2>1, <2>2, <2>3, LaterStays
<1>6. SurviveInv'
  <2>1. \A f \in Range(found') : \E g \in Range(draft') : NearKey(g) = NearKey(f)
    BY <1>3, <1>4, <1>5 DEF Covers
  <2> QED
    BY <1>1, <2>1 DEF SurviveInv
<1>20. NotesInv'
  <2>1. UNCHANGED <<covered, found, stopped, plan, synthesis>> /\ Notes' = Notes
    BY <1>1 DEF loop, job, Notes
  <2>2. ASSUME covered = {} PROVE notes' = Notes /\ pc' = "deliver"
    <3>1. found = <<>> /\ synthesis = <<>>
      BY <2>2 DEF IInv, NotesInv
    <3>2. more = <<>>
      BY <3>1, NothingToCheck DEF more
    <3>3. both = <<>>
      BY <3>1, <3>2 DEF both
    <3>4. draft' = <<>>
      BY <1>1, <3>3, NothingToDedupe
    <3> QED
      BY <2>2, <3>4 DEF Combine, NotesKept
  <2> QED
    BY <1>1, <2>1, <2>2 DEF IInv, NotesInv, InLoop, Drafted
<1> QED
  BY <1>5, <1>6, <1>20 DEF IInv

LEMMA EditStep == IInv /\ Edit => IInv'
<1> SUFFICES ASSUME IInv, Edit PROVE IInv'
  OBVIOUS
<1>1. /\ pc = "editor" /\ pc' = "deliver"
      /\ UNCHANGED <<job, chunks, loop, counts, synthesis, challenger, draft>>
      /\ edited' \in {Picked(draft, keep) : keep \in SUBSET (DOMAIN draft)}
                       \union {[draft EXCEPT ![1] = f] : f \in EditorPool}
  BY DEF Edit
<1>2. Findings(edited')
  <2>1. IsList(draft) /\ \A f \in Range(draft) : Good(f)
    BY DEF IInv, ShapeInv, SoundFindings, Findings
  <2>2. ASSUME NEW keep \in SUBSET (DOMAIN draft) PROVE Findings(Picked(draft, keep))
    <3>1. IsList(Picked(draft, keep)) /\ Range(Picked(draft, keep)) = {draft[i] : i \in keep}
      BY <2>1, PickedKeeps
    <3> QED
      BY <2>1, <3>1 DEF Findings, Range
  <2>3. ASSUME NEW f \in EditorPool PROVE Findings([draft EXCEPT ![1] = f])
    <3> DEFINE t == [draft EXCEPT ![1] = f]
    <3>1. IsList(t) /\ Range(t) \subseteq Range(draft) \union {f}
      BY <2>1, ReplaceList
    <3> HIDE DEF t
    <3>2. Findings(t)
      BY <2>1, <3>1, AnswersAreFindings DEF Findings
    <3> QED
      BY <3>2 DEF t
  <2> QED
    BY <1>1, <2>2, <2>3
<1>3. JobInv' /\ ShapeInv' /\ WorkInv' /\ ExplainInv' /\ found' = found
  <2>1. Findings(synthesis') /\ Findings(challenger') /\ SoundFindings(draft', cfg)
    BY <1>1 DEF IInv, ShapeInv
  <2>2. /\ pc \notin InLoop /\ pc' \notin InLoop
        /\ pc' \in Drafted \union {"synthesis", "challenger", "tie_break", "combine"}
    BY <1>1 DEF InLoop, Drafted
  <2>3. UNCHANGED <<job, chunks, loop, counts>>
    BY <1>1
  <2> QED
    BY <1>2, <2>1, <2>2, <2>3, LaterStays
<1>4. SurviveInv'
  BY <1>1, <1>3 DEF IInv, SurviveInv, Drafted
<1>20. NotesInv'
  <2>1. covered # {} /\ covered' = covered
    BY <1>1 DEF IInv, NotesInv, loop
  <2> QED
    BY <1>1, <2>1 DEF NotesInv, InLoop
<1> QED
  BY <1>3, <1>4, <1>20 DEF IInv

LEMMA DeliverStep == IInv /\ Deliver => IInv'
<1> SUFFICES ASSUME IInv, Deliver PROVE IInv'
  OBVIOUS
<1> DEFINE lines == RightSideLines(ReviewedDiff)
           texts == [p \in fetched |-> Lines[p]]
           valid == Validated(edited, texts, lines)
<1>1. /\ pc = "deliver" /\ pc' = "posted"
      /\ UNCHANGED <<job, chunks, loop, counts, synthesis, challenger, draft, edited>>
      /\ final' = ConfigFilters(valid, cfg)
  BY DEF Deliver, FetchedLines
<1>2. /\ Findings(valid)
      /\ \A f \in Range(edited) : f.path \in fetched /\ Sound(f, cfg) => f \in Range(valid)
  <2>1. lines = Reviewed(cfg)
    BY DEF ReviewedDiff, Reviewed
  <2>2. \A f : DropReason(f, texts, lines) = "valid" <=> f.path \in fetched /\ Sound(f, cfg)
    BY <2>1, Revalidated DEF Sound
  <2>3. IsList(valid) /\ Range(valid) = {f \in Range(edited) : DropReason(f, texts, lines) = "valid"}
    <3> HIDE DEF texts, lines
    <3> QED
      BY ValidatedKeeps DEF IInv, ShapeInv, Findings
  <2> HIDE DEF valid, texts, lines
  <2> QED
    BY <2>2, <2>3 DEF IInv, ShapeInv, Findings
<1> HIDE DEF valid
<1>3. Len(final') < cfg.cap => \A f \in Range(valid) : Wanted(f, cfg) => f \in Range(final')
  <2>1. cfg.cap \in Nat
    BY JobFacts DEF IInv
  <2> QED
    BY <1>1, <1>2, <2>1, ConfigFiltersKeep
<1>4. JobInv' /\ ShapeInv' /\ WorkInv' /\ ExplainInv' /\ found' = found /\ cfg' = cfg
  <2>1. /\ Findings(synthesis') /\ Findings(challenger') /\ SoundFindings(draft', cfg)
        /\ Findings(edited')
    BY <1>1 DEF IInv, ShapeInv
  <2>2. /\ pc \notin InLoop /\ pc' \notin InLoop
        /\ pc' \in Drafted \union {"synthesis", "challenger", "tie_break", "combine"}
    BY <1>1 DEF InLoop, Drafted
  <2>3. UNCHANGED <<job, chunks, loop, counts>>
    BY <1>1
  <2> QED
    BY <2>1, <2>2, <2>3, LaterStays
<1>5. SurviveInv'
  <2>1. fetched' = fetched /\ edited' = edited /\ draft' = draft
    BY <1>1 DEF loop
  <2>2. \A f \in Range(found') : \E g \in Range(draft') : NearKey(g) = NearKey(f)
    BY <1>1, <1>4, <2>1 DEF IInv, SurviveInv, Drafted
  <2>3. \A f : Sound(f, cfg)' = Sound(f, cfg) /\ Wanted(f, cfg)' = Wanted(f, cfg)
    BY <1>4
  <2> QED
    BY <1>2, <1>3, <1>4, <2>1, <2>2, <2>3 DEF SurviveInv
<1>20. NotesInv'
  <2>1. UNCHANGED <<covered, found, stopped, plan, synthesis, notes>> /\ Notes' = Notes
    BY <1>1 DEF loop, job, Notes, Deliver
  <2> QED
    BY <1>1, <2>1 DEF IInv, NotesInv, InLoop, Drafted
<1> QED
  BY <1>4, <1>5, <1>20 DEF IInv

\* An interruption loses the attempt and pays for the chunk it cut off.  What is stored is kept,
\* or counted as forgotten.
LEMMA RestartStep ==
  ASSUME IInv, Restart,
         \/ UNCHANGED <<stored, forgotten>>
         \/ stored' = <<>> /\ forgotten' = forgotten + Cardinality(Done(stored))
  PROVE  IInv'
<1>1. JobInv' /\ Chunks' = Chunks
  BY JobStays DEF IInv, Restart
<1>2. Len(Chunks) \in Nat /\ DOMAIN Chunks = 1 .. Len(Chunks)
  BY JobFacts DEF IInv
<1>3. /\ UNCHANGED <<cfg, analyses, failures>>
      /\ pc' = "plan" /\ at' = 1 /\ found' = <<>> /\ covered' = {} /\ fetched' = {}
      /\ stopped' = "none" /\ synthesis' = <<>> /\ challenger' = <<>> /\ draft' = <<>>
      /\ edited' = <<>> /\ state' = <<>> /\ notes' = <<>> /\ interrupts' = interrupts + 1
  BY DEF Restart, job
<1>4. ShapeInv'
  <2>1. DOMAIN state' = {}
    BY <1>3
  <2>2. 1 \in 1 .. (Len(Chunks) + 1)
    BY <1>2
  <2>3. /\ DOMAIN stored' = {} \/ DOMAIN stored' = DOMAIN Chunks
        /\ \A c \in DOMAIN stored' : IsEntry(stored'[c], cfg)
    <3>1. CASE UNCHANGED <<stored, forgotten>>
      BY <3>1 DEF IInv, ShapeInv
    <3>2. CASE stored' = <<>>
      BY <3>2
    <3> QED
      BY <3>1, <3>2
  <2> QED
    BY <1>1, <1>3, <2>1, <2>2, <2>3, NothingIsSound DEF IInv, ShapeInv, InLoop, Drafted
<1>5. WorkInv'
  <2>2. Open(pc) \in {0, 1} /\ Open(pc') = 0
    BY <1>3 DEF Open
  <2>3. Cardinality(Done(stored)) \in Nat
    <3>1. IsFiniteSet(DOMAIN Chunks) /\ IsFiniteSet({})
      BY <1>2, FS_Interval, FS_EmptySet
    <3>2. Done(stored) \subseteq DOMAIN Chunks \/ Done(stored) \subseteq {}
      BY DEF IInv, ShapeInv, Done
    <3> QED
      BY <3>1, <3>2, FS_Subset, FS_CardinalityType
  <2>4. /\ forgotten' \in Nat
        /\ Cardinality(Done(stored')) + forgotten' = Cardinality(Done(stored)) + forgotten
        /\ Cardinality(Done(stored')) \in Nat
    <3>1. CASE UNCHANGED <<stored, forgotten>>
      BY <2>3, <3>1 DEF IInv, WorkInv, Done
    <3>2. CASE stored' = <<>> /\ forgotten' = forgotten + Cardinality(Done(stored))
      <4>1. Done(stored') = {}
        BY <3>2 DEF Done
      <4>2. Cardinality(Done(stored')) = 0
        BY <4>1, FS_EmptySet
      <4> QED
        BY <2>3, <3>2, <4>2 DEF IInv, WorkInv
    <3> QED
      BY <3>1, <3>2
  <2>5. analyses <= Cardinality(Done(stored')) + failures + (interrupts + 1) + 0 + forgotten'
    BY <2>2, <2>3, <2>4 DEF IInv, WorkInv
  <2> QED
    BY <1>3, <2>2, <2>4, <2>5 DEF IInv, WorkInv
<1>6. ExplainInv' /\ NotesInv' /\ SurviveInv'
  BY <1>3 DEF ExplainInv, NotesInv, SurviveInv, InLoop, Drafted
<1> QED
  BY <1>1, <1>4, <1>5, <1>6 DEF IInv

LEMMA StutterStep == IInv /\ UNCHANGED vars => IInv'
<1> SUFFICES ASSUME IInv, UNCHANGED vars PROVE IInv'
  OBVIOUS
<1>1. /\ UNCHANGED <<cfg, files, plan, pc, stored, state, at, found, covered, fetched, stopped>>
      /\ UNCHANGED <<synthesis, challenger, draft, edited, final, notes, analyses, failures, interrupts, forgotten>>
  BY DEF vars, job, chunks, loop, results, counts
<1> QED
  BY <1>1 DEF IInv, JobInv, ShapeInv, WorkInv, ExplainInv, NotesInv, Notes, IsDone,
              SurviveInv, Chunks

LEMMA NextPreserves == IInv /\ [Next]_vars => IInv'
BY LoadStateStep, LatencyPassesStep, LoopEndsStep, ReuseChunkStep, StopAtBudgetStep, StartChunkStep,
   ChunkAnswersStep, ChunkFailsStep, SaveChunkStep, SynthesiseStep, ChallengeStep, BreakTieStep,
   CombineStep, EditStep, DeliverStep, RestartStep, StutterStep, Zenon
   DEF Next, Interrupt, LateFailure, Persist

-----------------------------------------------------------------------------
(* Results *)

LEMMA Invariance == Spec => []IInv
<1>1. Init => IInv
  BY InitEstablishes
<1>2. IInv /\ [Next]_vars => IInv'
  BY NextPreserves
<1> QED
  BY <1>1, <1>2, PTL DEF Spec

\* The state keeps its types: a stored chunk has findings only once it is done
\* (chunked_runtime.py, runner.py:2364-2504).
THEOREM TypeCorrect == Spec => []TypeOK
<1>1. IInv => TypeOK
  <2> SUFFICES ASSUME IInv PROVE TypeOK
    OBVIOUS
  <2>1. /\ \A c \in DOMAIN stored : IsEntry(stored[c], cfg)
        /\ \A c \in DOMAIN state : IsEntry(state[c], cfg)
    BY DEF IInv, ShapeInv
  <2>2. \A s \in {stored, state} : \A c \in DOMAIN s :
          /\ s[c].status \in {"pending", "running", "done", "failed"}
          /\ s[c].findings # <<>> => s[c].status = "done"
    BY <2>1 DEF IsEntry
  <2> QED
    BY <2>2 DEF IInv, ShapeInv, TypeOK, InLoop, Drafted
<1> QED
  BY <1>1, Invariance, PTL

\* The plan of any set of changed files covers the review surface: no file is in two chunks, a
\* group stays in one chunk, a chunk exceeds the target only where it is one group or what
\* precedes its last group are too few files, and a file is left out only of a plan cut at its maximum (chunking.py:132-166).
THEOREM PlansCoverTheSurface == Spec => []PlanCoversSurface
<1>1. IInv => PlanCoversSurface
  <2> SUFFICES ASSUME IInv PROVE PlanCoversSurface
    OBVIOUS
  <2> DEFINE surface == ReviewSurface(files, cfg)
  <2>1. /\ IsSplit(Chunks, surface, cfg)
        /\ IF plan.partial THEN Len(Chunks) = cfg.maxChunks ELSE Whole(Chunks, surface)
    BY PlanSplits DEF IInv, JobInv, Chunks
  <2>2. surface \subseteq DiffFiles
    BY DEF IInv, JobInv, ReviewSurface
  <2> HIDE DEF surface
  <2>3. \A c \in DOMAIN Chunks : Range(Chunks[c]) \subseteq DiffFiles
    BY <2>1, <2>2 DEF IsSplit
  <2>4. \A c, d \in DOMAIN Chunks : \A f \in Range(Chunks[c]), g \in Range(Chunks[d]) :
          f.grank = g.grank => c = d
    BY <2>1 DEF IsSplit
  <2>5. \A c \in DOMAIN Chunks : PathsOf(Chunks[c]) = {f.path : f \in Range(Chunks[c])}
    BY DEF PathsOf, Range
  <2>6. \A c, d \in DOMAIN Chunks : c # d => PathsOf(Chunks[c]) \intersect PathsOf(Chunks[d]) = {}
    <3> SUFFICES ASSUME NEW c \in DOMAIN Chunks, NEW d \in DOMAIN Chunks,
                        NEW f \in Range(Chunks[c]), NEW g \in Range(Chunks[d]), f.path = g.path
                 PROVE  c = d
      BY <2>5
    <3>1. f = g
      BY <2>3, FilesAssumption
    <3> QED
      BY <2>4, <3>1
  <2>7. \A c \in DOMAIN Chunks : Fits(Chunks[c], cfg)
    BY <2>1 DEF IsSplit
  <2>8. Whole(Chunks, surface) =>
          UNION {PathsOf(Chunks[c]) : c \in DOMAIN Chunks} = {f.path : f \in surface}
    <3>1. Whole(Chunks, surface) =>
            \A f : f \in surface <=> \E c \in DOMAIN Chunks : f \in Range(Chunks[c])
      BY <2>1 DEF Whole, IsSplit
    <3> QED
      BY <2>5, <3>1
  <2> QED
    BY <2>1, <2>4, <2>6, <2>7, <2>8 DEF PlanCoversSurface, Fits, surface
<1> QED
  BY <1>1, Invariance, PTL

\* However often the job is interrupted, every other run of a model on a chunk completed that
\* chunk for good or failed it, or was forgotten by a failure after the chunks
\* (runner.py:2369-2372, 2632, 2077-2080, chunked_runtime.py:53-77).
THEOREM FinishedWorkIsKept == Spec => []ChunkWorkIsKept
<1>1. IInv => ChunkWorkIsKept
  BY DEF IInv, WorkInv, Open, ChunkWorkIsKept
<1> QED
  BY <1>1, Invariance, PTL

\* A posted review accounts for every planned chunk: the synthesis saw those that are done, the
\* others failed or lie where the loop stopped, and a review that covers none says why
\* (runner.py:2364-2504, 2625-2656).
THEOREM MissingChunksAreExplained == Spec => []MissingChunksExplained
<1>1. IInv => MissingChunksExplained
  <2> SUFFICES ASSUME IInv, pc = "posted" PROVE MissingChunksExplained
    BY DEF MissingChunksExplained
  <2>1. Len(Chunks) \in Nat /\ DOMAIN Chunks = 1 .. Len(Chunks)
    BY JobFacts DEF IInv
  <2>2. at \in 1 .. (Len(Chunks) + 1) /\ covered \subseteq DOMAIN Chunks
    BY DEF IInv, ShapeInv
  <2>3. \A c \in DOMAIN Chunks : c < at /\ c \notin covered => state[c].status = "failed"
    BY DEF IInv, ExplainInv
  <2>4. at = Len(Chunks) + 1 \/ stopped # "none"
    BY DEF IInv, ExplainInv, InLoop, IsDone
  <2>5. \A c \in covered : IsDone(c) /\ c < at
    BY DEF IInv, ExplainInv
  <2>6. covered = {c \in 1 .. at - 1 : IsDone(c)}
    <3>1. \A c \in 1 .. at - 1 : c \in DOMAIN Chunks /\ c < at
      BY <2>1, <2>2
    <3>2. \A c \in covered : c \in 1 .. at - 1
      BY <2>1, <2>2, <2>5
    <3>3. \A c \in 1 .. at - 1 : IsDone(c) => c \in covered
      BY <2>3, <3>1 DEF IsDone
    <3> QED
      BY <2>5, <3>2, <3>3
  <2>7. ASSUME NEW c \in DOMAIN Chunks \ covered
        PROVE  state[c].status = "failed" \/ (stopped # "none" /\ c >= at)
    <3>1. c < at \/ (stopped # "none" /\ c >= at)
      BY <2>1, <2>2, <2>4
    <3> QED
      BY <2>3, <3>1
  <2>8. covered = {} => notes = Notes
    BY DEF IInv, NotesInv, Drafted
  <2> QED
    BY <2>6, <2>7, <2>8 DEF MissingChunksExplained
<1> QED
  BY <1>1, Invariance, PTL

\* What the checks of a chunk kept is posted, itself or a near duplicate, if its file was read in
\* this attempt and neither the editor nor the filters took it out (runner.py:2788-2793).
THEOREM FindingsOfChunksSurvive == Spec => []ChunkFindingsSurvive
<1>1. IInv => ChunkFindingsSurvive
  <2> SUFFICES ASSUME IInv, pc = "posted", NEW f \in Range(found), f.path \in fetched,
                      Range(draft) \subseteq Range(edited), Len(final) < cfg.cap, Wanted(f, cfg)
               PROVE  \E g \in Range(draft) :
                        NearKey(g) = NearKey(f) /\ (g \in Range(final) \/ ~Wanted(g, cfg))
    BY DEF ChunkFindingsSurvive
  <2>1. PICK g \in Range(draft) : NearKey(g) = NearKey(f)
    BY DEF IInv, SurviveInv, Drafted
  <2>2. g.path = f.path
    BY <2>1 DEF NearKey
  <2>3. Sound(g, cfg) /\ g \in Range(edited)
    BY DEF IInv, ShapeInv, SoundFindings
  <2>4. Wanted(g, cfg) => g \in Range(final)
    BY <2>2, <2>3 DEF IInv, SurviveInv
  <2> QED
    BY <2>1, <2>4
<1> QED
  BY <1>1, Invariance, PTL

-----------------------------------------------------------------------------
(* The inductive invariant of the bundle *)

Before == {"pick", "fetch"}

\* The hunks that are ranked: those of the files that were fetched.
Ready == HunksIn(pr, {i \in Range(included) : source[i] # Missing})

FetchInv ==
  /\ pr \in PullRequests /\ settings \in Settings
  /\ stage \in {"pick", "fetch", "pack", "note", "done"}
  /\ IsList(included) /\ Range(included) \subseteq DOMAIN pr
  /\ asked \subseteq Range(included) /\ DOMAIN source \subseteq asked
  /\ IsFiniteSet(asked) /\ Cardinality(asked \ DOMAIN source) <= Concurrency
  /\ \A i \in DOMAIN source : source[i] \in Nat \union {Missing}
  /\ stage = "pick" => asked = {}
  /\ stage \notin Before => DOMAIN source = Range(included)
  /\ note \in BOOLEAN /\ calls \in 0 .. settings.maxSummaries

\* The files left out for their size are the reason for a note.
ScopeInv ==
  stage # "pick" /\ Range(RankedFiles(pr)) # Range(included) =>
    settings.partial /\ ChangedIn(pr, DOMAIN pr) > settings.threshold

\* The queue holds the ready hunks not yet packed, the riskiest first.
QueueInv ==
  /\ IsList(queue)
  /\ stage # "pack" => queue = <<>>
  /\ \A c \in Range(queue) : c \in Ready /\ ~Has(shown, c, {"hunk", "context", "summary"})
  /\ \A m, n \in DOMAIN queue :
       m < n => queue[m] # queue[n] /\ Score(pr, queue[m]) >= Score(pr, queue[n])

\* What became of a hunk that was packed.
Packed(c) ==
  \/ Has(dropped, c, {"hunk"})
  \/ /\ Has(shown, c, {"hunk"})
     /\ \/ Has(shown, c, {"context", "summary"})
        \/ Has(dropped, c, {"context", "summary", "summary_cap"})
        \/ ContextCost(c) = 0 \/ IsGenerated(pr[c[1]]) \/ Is(pr[c[1]], "lockfile")

PackInv ==
  /\ stage \in Before => shown = {}
  /\ stage \notin Before =>
       /\ shown \subseteq Ready \X {"hunk", "context", "summary"}
       /\ \A c \in Ready \ Range(queue) : Packed(c)
       /\ \A i \in Range(included) : source[i] = Missing => Has(dropped, <<i, 0>>, {"fetch_failed"})
  /\ \A c \in AllHunks : Has(shown, c, {"hunk"}) \/ Has(dropped, c, {"hunk"}) =>
       /\ stage \notin Before
       /\ \A d \in Range(queue) : Score(pr, c) >= Score(pr, d)
  /\ IsFiniteSet(shown)

BudgetInv ==
  /\ DOMAIN used = {"repo", "hunks", "surroundings", "anchors"}
  /\ used.hunks = CostOf(ShownHunks) /\ used.hunks <= settings.hunks
  /\ used.surroundings = TextCost /\ used.surroundings <= settings.surroundings
  /\ Cardinality({p \in shown : p[2] = "summary"}) <= calls

RepoInv ==
  /\ stage = "pick" => repo = {}
  /\ stage # "pick" => \A n \in DOMAIN settings.repoTexts :
                         n \in repo \/ Has(dropped, <<n, 0>>, {"repo"})
  /\ stage # "done" => ~note
  /\ RepoTokens(settings, repo) <= settings.repo
  /\ used.repo = RepoTokens(settings, repo) + (IF note THEN NoteCost ELSE 0)
  /\ used.anchors = Cardinality(anchors)

DoneInv ==
  stage = "done" =>
    /\ (settings.partial /\ ChangedIn(pr, DOMAIN pr) > settings.threshold) => note
    /\ pressure = PressureState(used.repo + used.hunks + used.surroundings + used.anchors)

BundleInv ==
  /\ FetchInv /\ ScopeInv /\ QueueInv /\ PackInv /\ BudgetInv /\ RiskiestHunksFirst /\ RepoInv
  /\ DoneInv

-----------------------------------------------------------------------------
(* Sums *)

Numbers(s) == s \in Seq(Nat)

LEMMA NumbersFacts ==
  ASSUME NEW s, Numbers(s)
  PROVE  Len(s) \in Nat /\ DOMAIN s = 1 .. Len(s) /\ \A n \in 1 .. Len(s) : s[n] \in Nat
BY DEF Numbers

\* A sum is taken number by number.
LEMMA SumUnfolds ==
  ASSUME NEW s, Numbers(s)
  PROVE  \E g : /\ g[0] = 0 /\ SumOf(s) = g[Len(s)]
               /\ \A n \in 0 .. (Len(s) - 1) : g[n + 1] = g[n] + s[n + 1]
<1> DEFINE N == Len(s)
           IsSum(g, m) == g = [n \in 0 .. m |-> IF n = 0 THEN 0 ELSE g[n - 1] + s[n]]
           S == {m \in 0 .. N : \E g : IsSum(g, m)}
           all == CHOOSE g : IsSum(g, N)
<1>0. N \in Nat
  BY NumbersFacts
<1>1. 0 \in S
  <2> DEFINE g == [n \in 0 .. 0 |-> 0]
  <2>1. \E f : IsSum(f, 0)
    <3>1. IsSum(g, 0)
      OBVIOUS
    <3> HIDE DEF IsSum, g
    <3> QED
      BY <3>1
  <2>2. 0 \in 0 .. N
    BY <1>0
  <2> HIDE DEF IsSum, g
  <2> QED
    BY <2>1, <2>2
<1>2. ASSUME NEW m \in 0 .. (N - 1), m \in S PROVE m + 1 \in S
  <2>1. PICK g : IsSum(g, m)
    BY <1>2
  <2> DEFINE h == [n \in 0 .. (m + 1) |-> IF n = 0 THEN 0 ELSE g[n - 1] + s[n]]
  <2>2. \A n \in 0 .. m : h[n] = g[n]
    BY <2>1
  <2>3. \A n \in 0 .. (m + 1) : n # 0 => h[n - 1] = g[n - 1]
    <3>1. \A n \in 0 .. (m + 1) : n # 0 => n - 1 \in 0 .. m
      BY <1>0, <1>2
    <3> HIDE DEF h
    <3> QED
      BY <2>2, <3>1
  <2>4. h = [n \in 0 .. (m + 1) |-> IF n = 0 THEN 0 ELSE h[n - 1] + s[n]]
    BY <2>3
  <2>5. m + 1 \in 0 .. N
    BY <1>0, <1>2
  <2> QED
    BY <2>4, <2>5
<1>3. \E g : IsSum(g, N)
  <2>1. \A n \in 0 .. N : n \in S
    <3> HIDE DEF S, N
    <3> QED
      BY <1>0, <1>1, <1>2, UpTo
  <2>2. N \in 0 .. N
    BY <1>0
  <2>3. N \in S
    <3> HIDE DEF S, N
    <3> QED
      BY <2>1, <2>2
  <2> HIDE DEF IsSum, N
  <2> QED
    BY <2>3
<1>4. IsSum(all, N)
  BY <1>3
<1>5. SumOf(s) = all[N]
  BY DEF SumOf
<1> HIDE DEF N, all
<1>6. \A n \in 0 .. N : all[n] = IF n = 0 THEN 0 ELSE all[n - 1] + s[n]
  BY <1>4
<1>7. all[0] = 0
  <2>1. 0 \in 0 .. N
    BY <1>0
  <2> QED
    BY <2>1, <1>6, Zenon
<1>8. ASSUME NEW n \in 0 .. (N - 1) PROVE all[n + 1] = all[n] + s[n + 1]
  <2>1. n + 1 \in 0 .. N /\ n + 1 # 0 /\ (n + 1) - 1 = n
    BY <1>0
  <2> QED
    BY <2>1, <1>6
<1> QED
  BY <1>5, <1>7, <1>8 DEF N

\* Two sums of as many numbers, compared prefix by prefix: the second exceeds the first by d
\* where the numbers at k do, and is at least as large where every number is.
LEMMA SumsCompared ==
  ASSUME NEW s, Numbers(s), NEW t, Numbers(t), Len(s) = Len(t)
  PROVE  /\ SumOf(s) \in Nat
         /\ (\A n \in 1 .. Len(s) : s[n] <= t[n]) => SumOf(s) <= SumOf(t)
         /\ \A k \in 1 .. Len(s), d \in Nat :
              (\A n \in 1 .. Len(s) : t[n] = s[n] + (IF n = k THEN d ELSE 0)) =>
                SumOf(t) = SumOf(s) + d
<1> DEFINE N == Len(s)
<1>1. PICK g : /\ g[0] = 0 /\ SumOf(s) = g[Len(s)]
              /\ \A n \in 0 .. (Len(s) - 1) : g[n + 1] = g[n] + s[n + 1]
  BY SumUnfolds, Zenon
<1>2. PICK h : /\ h[0] = 0 /\ SumOf(t) = h[Len(t)]
              /\ \A n \in 0 .. (Len(t) - 1) : h[n + 1] = h[n] + t[n + 1]
  BY SumUnfolds, Zenon
<1>3. N \in Nat /\ \A n \in 0 .. (N - 1) : /\ n \in Nat /\ n + 1 \in 1 .. N
                                           /\ s[n + 1] \in Nat /\ t[n + 1] \in Nat
                                           /\ g[n + 1] = g[n] + s[n + 1]
                                           /\ h[n + 1] = h[n] + t[n + 1]
  <2>1. /\ N \in Nat /\ \A n \in 1 .. N : s[n] \in Nat /\ t[n] \in Nat
    BY NumbersFacts
  <2>2. \A n \in 0 .. (N - 1) : n \in Nat /\ n + 1 \in 1 .. N
    BY <2>1
  <2>3. \A n \in 0 .. (N - 1) : s[n + 1] \in Nat /\ t[n + 1] \in Nat
    BY <2>1, <2>2, Zenon
  <2>4. \A n \in 0 .. (N - 1) : g[n + 1] = g[n] + s[n + 1] /\ h[n + 1] = h[n] + t[n + 1]
    BY <1>1, <1>2, Zenon
  <2> HIDE DEF N
  <2> QED
    BY <2>1, <2>2, <2>3, <2>4
<1>4. \A n \in 0 .. N : n \in {m \in 0 .. N : g[m] \in Nat /\ h[m] \in Nat}
  <2> DEFINE S == {m \in 0 .. N : g[m] \in Nat /\ h[m] \in Nat}
  <2>1. 0 \in S
    BY <1>1, <1>2, <1>3
  <2>2. \A n \in 0 .. (N - 1) : n \in S => n + 1 \in S
    <3> SUFFICES ASSUME NEW n \in 0 .. (N - 1), g[n] \in Nat, h[n] \in Nat PROVE n + 1 \in S
      OBVIOUS
    <3>1. g[n + 1] \in Nat /\ h[n + 1] \in Nat
      <4>1. /\ s[n + 1] \in Nat /\ t[n + 1] \in Nat
            /\ g[n + 1] = g[n] + s[n + 1] /\ h[n + 1] = h[n] + t[n + 1]
        BY <1>3, Zenon
      <4> QED
        BY <4>1
    <3>2. n + 1 \in 0 .. N
      BY <1>3
    <3> QED
      BY <3>1, <3>2
  <2> HIDE DEF S, N
  <2>3. \A n \in 0 .. N : n \in S
    BY <1>3, <2>1, <2>2, UpTo
  <2> QED
    BY <2>3 DEF S
<1>5. N \in 0 .. N /\ SumOf(s) = g[N] /\ SumOf(t) = h[N]
  BY <1>1, <1>2, <1>3
<1>6. SumOf(s) \in Nat
  BY <1>4, <1>5
<1>7. ASSUME \A n \in 1 .. N : s[n] <= t[n] PROVE SumOf(s) <= SumOf(t)
  <2> DEFINE S == {m \in 0 .. N : g[m] <= h[m]}
  <2>1. 0 \in S
    BY <1>1, <1>2, <1>3
  <2>2. \A n \in 0 .. (N - 1) : n \in S => n + 1 \in S
    <3> SUFFICES ASSUME NEW n \in 0 .. (N - 1), g[n] <= h[n] PROVE n + 1 \in S
      OBVIOUS
    <3>1. g[n] \in Nat /\ h[n] \in Nat
      BY <1>3, <1>4
    <3>2. s[n + 1] <= t[n + 1] /\ s[n + 1] \in Nat /\ t[n + 1] \in Nat
      BY <1>3, <1>7
    <3>3. g[n] + s[n + 1] <= h[n] + t[n + 1]
      BY <3>1, <3>2
    <3>4. n + 1 \in 0 .. N
      BY <1>3
    <3> QED
      BY <1>3, <3>3, <3>4
  <2> HIDE DEF S, N
  <2>3. N \in S
    BY <1>3, <1>5, <2>1, <2>2, UpTo
  <2> QED
    BY <1>5, <2>3 DEF S
<1>8. ASSUME NEW k \in 1 .. N, NEW d \in Nat,
             \A n \in 1 .. N : t[n] = s[n] + (IF n = k THEN d ELSE 0)
      PROVE  SumOf(t) = SumOf(s) + d
  <2> DEFINE S == {m \in 0 .. N : h[m] = g[m] + (IF m >= k THEN d ELSE 0)}
  <2>1. 0 \in S
    BY <1>1, <1>2, <1>3
  <2>2. \A n \in 0 .. (N - 1) : n \in S => n + 1 \in S
    <3> SUFFICES ASSUME NEW n \in 0 .. (N - 1), h[n] = g[n] + (IF n >= k THEN d ELSE 0)
                 PROVE  n + 1 \in S
      OBVIOUS
    <3>1. g[n] \in Nat /\ h[n] \in Nat
      BY <1>3, <1>4
    <3>2. /\ t[n + 1] = s[n + 1] + (IF n + 1 = k THEN d ELSE 0)
          /\ s[n + 1] \in Nat /\ t[n + 1] \in Nat
      BY <1>3, <1>8
    <3>3. h[n] + t[n + 1] = g[n] + s[n + 1] + (IF n + 1 >= k THEN d ELSE 0)
      BY <1>3, <3>1, <3>2
    <3>4. n + 1 \in 0 .. N
      BY <1>3
    <3> QED
      BY <1>3, <3>3, <3>4
  <2> HIDE DEF S, N
  <2>3. N \in S
    BY <1>3, <1>5, <2>1, <2>2, UpTo
  <2>4. h[N] = g[N] + (IF N >= k THEN d ELSE 0) /\ N >= k
    BY <1>3, <1>8, <2>3 DEF S
  <2> QED
    BY <1>5, <2>4
<1> HIDE DEF N
<1>9. \A k \in 1 .. N, d \in Nat :
        (\A n \in 1 .. N : t[n] = s[n] + (IF n = k THEN d ELSE 0)) => SumOf(t) = SumOf(s) + d
  BY <1>8
<1> QED
  BY <1>6, <1>7, <1>9 DEF N

LEMMA OneNumberMore ==
  ASSUME NEW s, Numbers(s), NEW t, Numbers(t), Len(s) = Len(t),
         NEW k \in 1 .. Len(s), NEW d \in Nat,
         \A n \in 1 .. Len(s) : t[n] = s[n] + (IF n = k THEN d ELSE 0)
  PROVE  SumOf(t) = SumOf(s) + d
<1>1. \A i \in 1 .. Len(s), e \in Nat :
        (\A n \in 1 .. Len(s) : t[n] = s[n] + (IF n = i THEN e ELSE 0)) => SumOf(t) = SumOf(s) + e
  BY SumsCompared, Zenon
<1> QED
  BY <1>1, Zenon

\* Nothing adds up to nothing.
LEMMA SumOfZeros ==
  ASSUME NEW s, Numbers(s), \A n \in 1 .. Len(s) : s[n] = 0
  PROVE  SumOf(s) = 0
<1>1. PICK g : /\ g[0] = 0 /\ SumOf(s) = g[Len(s)]
              /\ \A n \in 0 .. (Len(s) - 1) : g[n + 1] = g[n] + s[n + 1]
  BY SumUnfolds, Zenon
<1> DEFINE N == Len(s)
           S == {m \in 0 .. N : g[m] = 0}
<1>2. N \in Nat
  BY NumbersFacts
<1>3. 0 \in S
  BY <1>1, <1>2
<1>4. \A n \in 0 .. (N - 1) : n \in S => n + 1 \in S
  BY <1>1, <1>2
<1>5. N \in 0 .. N /\ SumOf(s) = g[N]
  BY <1>1, <1>2
<1> HIDE DEF S, N
<1>6. N \in S
  BY <1>2, <1>3, <1>4, <1>5, UpTo
<1> QED
  BY <1>5, <1>6 DEF S

-----------------------------------------------------------------------------
(* The hunks of a file *)

DiffLines == [kind : Kinds, new : Nat, old : Nat]

\* The diff's own hunks, line by line.
LEMMA NumberHunkKeeps ==
  ASSUME NEW h \in [new : Nat, old : Nat, kinds : Seq(DiffKinds)]
  PROVE  NumberHunk(h) \in Seq(DiffLines)
<1> DEFINE n == Len(h.kinds)
           before(i, absent) == {j \in 1 .. i - 1 : h.kinds[j] \notin absent}
           number(i, start, absent) ==
             IF h.kinds[i] \in absent THEN 0 ELSE start + Cardinality(before(i, absent))
           line(i) == [kind |-> IF h.kinds[i] = "marker" THEN "ctx" ELSE h.kinds[i],
                       new |-> number(i, h.new, {"del", "marker"}),
                       old |-> number(i, h.old, {"add", "marker"})]
<1>1. n \in Nat /\ DOMAIN h.kinds = 1 .. n /\ \A i \in 1 .. n : h.kinds[i] \in DiffKinds
  OBVIOUS
<1>2. ASSUME NEW i \in 1 .. n, NEW start \in Nat, NEW absent
      PROVE  number(i, start, absent) \in Nat
  <2>1. IsFiniteSet(1 .. i - 1)
    BY <1>1, FS_Interval
  <2>2. before(i, absent) \subseteq 1 .. i - 1
    OBVIOUS
  <2>3. Cardinality(before(i, absent)) \in Nat
    BY <2>1, <2>2, FS_Subset, FS_CardinalityType
  <2> HIDE DEF before
  <2> QED
    BY <2>3
<1>3. h.new \in Nat /\ h.old \in Nat
  OBVIOUS
<1>4. \A i \in 1 .. n : (IF h.kinds[i] = "marker" THEN "ctx" ELSE h.kinds[i]) \in Kinds
  BY <1>1 DEF DiffKinds, Kinds
<1> HIDE DEF number, n
<1>5. \A i \in 1 .. n : line(i) \in DiffLines
  BY <1>2, <1>3, <1>4 DEF DiffLines
<1>6. NumberHunk(h) = [i \in 1 .. n |-> line(i)]
  BY <1>1, Zenon DEF NumberHunk, number, before
<1> HIDE DEF line
<1> QED
  BY <1>1, <1>5, <1>6

\* The lines of a file are those of its hunks, one after the other.
LEMMA NumberedKeeps ==
  ASSUME NEW f, IsChangedFile(f)
  PROVE  Numbered(f) \in Seq(DiffLines)
<1> DEFINE N == Len(f.hunks)
           Joined(g, n) == g \o NumberHunk(f.hunks[n])
           IsJoin(g, m) == g = [n \in 0 .. m |-> IF n = 0 THEN <<>> ELSE Joined(g[n - 1], n)]
           S == {m \in 0 .. N : \E g : IsJoin(g, m)}
           all == CHOOSE g : IsJoin(g, N)
<1>0. N \in Nat /\ \A n \in 1 .. N : NumberHunk(f.hunks[n]) \in Seq(DiffLines)
  <2>1. f.hunks \in Seq([new : Nat, old : Nat, kinds : Seq(DiffKinds)])
    BY DEF IsChangedFile
  <2>2. N \in Nat /\ \A n \in 1 .. N : f.hunks[n] \in [new : Nat, old : Nat, kinds : Seq(DiffKinds)]
    <3> DEFINE R == [new : Nat, old : Nat, kinds : Seq(DiffKinds)]
    <3> HIDE DEF R
    <3>1. f.hunks \in Seq(R)
      BY <2>1 DEF R
    <3>2. N \in Nat /\ \A n \in 1 .. N : f.hunks[n] \in R
      BY <3>1
    <3> QED
      BY <3>2 DEF R
  <2> QED
    BY <2>2, NumberHunkKeeps
<1> HIDE DEF Joined
<1>1. 0 \in S
  <2> DEFINE g == [n \in 0 .. 0 |-> <<>>]
  <2>1. \E k : IsJoin(k, 0)
    <3>1. IsJoin(g, 0)
      OBVIOUS
    <3> HIDE DEF IsJoin, g
    <3> QED
      BY <3>1
  <2>2. 0 \in 0 .. N
    BY <1>0
  <2> HIDE DEF IsJoin, g
  <2> QED
    BY <2>1, <2>2
<1>2. ASSUME NEW m \in 0 .. (N - 1), m \in S PROVE m + 1 \in S
  <2>1. PICK g : IsJoin(g, m)
    BY <1>2
  <2> DEFINE h == [n \in 0 .. (m + 1) |-> IF n = 0 THEN <<>> ELSE Joined(g[n - 1], n)]
  <2>2. \A n \in 0 .. m : h[n] = g[n]
    BY <2>1
  <2>3. \A n \in 0 .. (m + 1) : n # 0 => h[n - 1] = g[n - 1]
    <3>1. \A n \in 0 .. (m + 1) : n # 0 => n - 1 \in 0 .. m
      BY <1>0, <1>2
    <3> HIDE DEF h
    <3> QED
      BY <2>2, <3>1
  <2>4. h = [n \in 0 .. (m + 1) |-> IF n = 0 THEN <<>> ELSE Joined(h[n - 1], n)]
    BY <2>3
  <2>5. m + 1 \in 0 .. N
    BY <1>0, <1>2
  <2> QED
    BY <2>4, <2>5
<1>3. \E g : IsJoin(g, N)
  <2>1. \A n \in 0 .. N : n \in S
    <3> HIDE DEF S, N
    <3> QED
      BY <1>0, <1>1, <1>2, UpTo
  <2>2. N \in 0 .. N
    BY <1>0
  <2>3. N \in S
    <3> HIDE DEF S, N
    <3> QED
      BY <2>1, <2>2
  <2> HIDE DEF IsJoin, N
  <2> QED
    BY <2>3
<1>4. IsJoin(all, N)
  BY <1>3
<1>5. Numbered(f) = all[N]
  BY DEF Numbered, Joined
<1> HIDE DEF all
<1>6. \A n \in 0 .. N : all[n] = IF n = 0 THEN <<>> ELSE Joined(all[n - 1], n)
  BY <1>4
<1> DEFINE T == {n \in 0 .. N : all[n] \in Seq(DiffLines)}
<1>7. 0 \in T
  <2>1. 0 \in 0 .. N
    BY <1>0
  <2>2. all[0] = <<>>
    BY <2>1, <1>6, Zenon
  <2>3. <<>> \in Seq(DiffLines)
    OBVIOUS
  <2> QED
    BY <2>1, <2>2, <2>3
<1>8. ASSUME NEW n \in 0 .. (N - 1), n \in T PROVE n + 1 \in T
  <2>1. n + 1 \in 0 .. N /\ n + 1 \in 1 .. N /\ n + 1 # 0 /\ (n + 1) - 1 = n
    BY <1>0
  <2> DEFINE s == NumberHunk(f.hunks[n + 1])
  <2>2. all[n + 1] = all[n] \o s
    BY <2>1, <1>6 DEF Joined
  <2>3. s \in Seq(DiffLines) /\ all[n] \in Seq(DiffLines)
    BY <1>0, <1>8, <2>1
  <2> HIDE DEF s
  <2>4. all[n] \o s \in Seq(DiffLines)
    BY <2>3
  <2> QED
    BY <2>1, <2>2, <2>4
<1> HIDE DEF N, T
<1>9. \A n \in 0 .. N : n \in T
  BY <1>0, <1>7, <1>8, UpTo
<1>10. N \in T
  BY <1>0, <1>9
<1> QED
  BY <1>5, <1>10 DEF T

LEMMA ListOver ==
  ASSUME NEW s, NEW S
  PROVE  s \in Seq(S) <=> IsList(s) /\ Range(s) \subseteq S
<1>1. ASSUME s \in Seq(S) PROVE IsList(s) /\ Range(s) \subseteq S
  <2>1. Len(s) \in Nat /\ DOMAIN s = 1 .. Len(s) /\ \A i \in 1 .. Len(s) : s[i] \in S
    BY <1>1
  <2>2. s = [i \in 1 .. Len(s) |-> s[i]]
    BY <1>1
  <2> QED
    BY <2>1, <2>2, FunctionList DEF Range
<1>2. ASSUME IsList(s), Range(s) \subseteq S PROVE s \in Seq(S)
  BY <1>2 DEF IsList
<1> QED
  BY <1>1, <1>2

\* The packer's hunks are lists of lines, none of them empty.
LEMMA HunksKeep ==
  ASSUME NEW lines \in Seq(DiffLines)
  PROVE  /\ Len(BuildHunks(lines)) \in Nat
         /\ DOMAIN BuildHunks(lines) = 1 .. Len(BuildHunks(lines))
         /\ \A k \in DOMAIN BuildHunks(lines) :
              BuildHunks(lines)[k] \in Seq(DiffLines) /\ Len(BuildHunks(lines)[k]) \in Nat \ {0}
<1> DEFINE D == DOMAIN lines
           jumps == {i \in D : i = 1 \/ LineNo(lines[i]) > PreviousNo(lines, i) + 1}
           n == Cardinality(jumps)
           hunkOf(i) == Cardinality({j \in jumps : j <= i})
           part(k) == {i \in D : hunkOf(i) = k}
           hunks == [k \in 1 .. n |-> Picked(lines, part(k))]
<1>1. BuildHunks(lines) = hunks
  BY DEF BuildHunks
<1>2. IsList(lines) /\ Range(lines) \subseteq DiffLines
  BY ListOver
<1>3. IsFiniteSet(D) /\ D \subseteq Nat
  <2>1. Len(lines) \in Nat /\ D = 1 .. Len(lines)
    BY <1>2, ListFacts
  <2> QED
    BY <2>1, FS_Interval
<1>4. jumps \subseteq D /\ jumps \in SUBSET Nat
  BY <1>3
<1> HIDE DEF jumps
<1>5. IsFiniteSet(jumps)
  BY <1>3, <1>4, FS_Subset
<1>6. n \in Nat /\ \A k \in 1 .. n : \E i \in jumps : hunkOf(i) = k
  BY <1>4, <1>5, CountedPlaces
<1> HIDE DEF hunkOf
<1>7. ASSUME NEW k \in 1 .. n
      PROVE  Picked(lines, part(k)) \in Seq(DiffLines) /\ Len(Picked(lines, part(k))) \in Nat \ {0}
  <2>1. part(k) \in SUBSET D /\ part(k) # {}
    BY <1>4, <1>6
  <2> HIDE DEF part
  <2>2. IsFiniteSet(part(k)) /\ Cardinality(part(k)) \in Nat /\ Cardinality(part(k)) # 0
    BY <1>3, <2>1, FS_Subset, FS_CardinalityType, FS_EmptySet
  <2>3. /\ IsList(Picked(lines, part(k))) /\ Range(Picked(lines, part(k))) = {lines[i] : i \in part(k)}
        /\ Len(Picked(lines, part(k))) = Cardinality(part(k))
    BY <1>2, <2>1, PickedKeeps
  <2>4. Range(Picked(lines, part(k))) \subseteq DiffLines
    BY <1>2, <2>1, <2>3 DEF Range
  <2> QED
    BY <2>2, <2>3, <2>4, ListOver
<1> HIDE DEF part, n
<1>8. Len(hunks) = n
  BY <1>6, FunctionList
<1>9. DOMAIN hunks = 1 .. n /\ \A k \in 1 .. n : hunks[k] = Picked(lines, part(k))
  OBVIOUS
<1> HIDE DEF hunks
<1> QED
  BY <1>1, <1>6, <1>7, <1>8, <1>9

LEMMA HunksOfFile ==
  ASSUME NEW f, IsChangedFile(f)
  PROVE  /\ Numbered(f) \in Seq(DiffLines)
         /\ Len(HunksOf(f)) \in Nat /\ DOMAIN HunksOf(f) = 1 .. Len(HunksOf(f))
         /\ \A k \in DOMAIN HunksOf(f) :
              HunksOf(f)[k] \in Seq(DiffLines) /\ Len(HunksOf(f)[k]) \in Nat \ {0}
<1>1. Numbered(f) \in Seq(DiffLines)
  BY NumberedKeeps
<1> QED
  BY <1>1, HunksKeep, Zenon DEF HunksOf

\* Among finitely many numbers there is a largest.
LEMMA Largest ==
  ASSUME NEW n \in Nat, NEW v \in [0 .. n -> Int]
  PROVE  Max({v[i] : i \in 0 .. n}) \in Int
<1> DEFINE S == {m \in 0 .. n : \E i \in 0 .. m : \A j \in 0 .. m : v[j] <= v[i]}
<1>1. 0 \in S
  OBVIOUS
<1>2. ASSUME NEW m \in 0 .. (n - 1), m \in S PROVE m + 1 \in S
  <2>1. PICK i \in 0 .. m : \A j \in 0 .. m : v[j] <= v[i]
    BY <1>2
  <2>2. m + 1 \in 0 .. n /\ m \in Nat /\ i \in 0 .. (m + 1) /\ m + 1 \in 0 .. (m + 1)
    OBVIOUS
  <2>3. \A j \in 0 .. (m + 1) : j \in 0 .. m \/ j = m + 1
    OBVIOUS
  <2>4. \A j \in 0 .. (m + 1) : v[j] \in Int
    OBVIOUS
  <2>5. CASE v[m + 1] <= v[i]
    <3>1. \A j \in 0 .. (m + 1) : v[j] <= v[i]
      BY <2>1, <2>3, <2>5
    <3> QED
      BY <2>2, <3>1
  <2>6. CASE ~(v[m + 1] <= v[i])
    <3>1. \A j \in 0 .. (m + 1) : v[j] <= v[m + 1]
      BY <2>1, <2>2, <2>3, <2>4, <2>6
    <3> QED
      BY <2>2, <3>1
  <2> QED
    BY <2>5, <2>6
<1>3. n \in 0 .. n
  OBVIOUS
<1> HIDE DEF S
<1>4. n \in S
  BY <1>1, <1>2, <1>3, UpTo
<1>5. PICK i \in 0 .. n : \A j \in 0 .. n : v[j] <= v[i]
  BY <1>4 DEF S
<1> DEFINE V == {v[k] : k \in 0 .. n}
<1>6. v[i] \in V /\ \A y \in V : v[i] >= y
  BY <1>5
<1>7. V \subseteq Int
  OBVIOUS
<1> HIDE DEF V
<1>8. Max(V) \in V
  BY <1>6, Zenon DEF Max
<1> QED
  BY <1>7, <1>8 DEF V

LEMMA OfTwo ==
  ASSUME NEW a \in Int, NEW b \in Int
  PROVE  Max({a, b}) \in Int /\ Min({a, b}) \in Int
<1>1. CASE a <= b
  <2>1. \E x \in {a, b} : \A y \in {a, b} : x >= y
    BY <1>1
  <2>2. \E x \in {a, b} : \A y \in {a, b} : x <= y
    BY <1>1
  <2>3. Max({a, b}) \in {a, b} /\ Min({a, b}) \in {a, b}
    BY <2>1, <2>2, Zenon DEF Max, Min
  <2> QED
    BY <2>3
<1>2. CASE ~(a <= b)
  <2>1. \E x \in {a, b} : \A y \in {a, b} : x >= y
    BY <1>2
  <2>2. \E x \in {a, b} : \A y \in {a, b} : x <= y
    BY <1>2
  <2>3. Max({a, b}) \in {a, b} /\ Min({a, b}) \in {a, b}
    BY <2>1, <2>2, Zenon DEF Max, Min
  <2> QED
    BY <2>3
<1> QED
  BY <1>1, <1>2

LEMMA AddedIsNumber ==
  ASSUME NEW lines \in Seq(DiffLines)
  PROVE  Added(lines) \in Nat
<1>1. Len(lines) \in Nat /\ DOMAIN lines = 1 .. Len(lines)
  BY ListOver, ListFacts
<1>2. IsFiniteSet(1 .. Len(lines))
  BY <1>1, FS_Interval
<1>3. {i \in DOMAIN lines : lines[i].kind = "add"} \subseteq 1 .. Len(lines)
  BY <1>1
<1> QED
  BY <1>2, <1>3, FS_Subset, FS_CardinalityType DEF Added

\* Where a hunk begins and ends.
LEMMA HunkLines ==
  ASSUME NEW hunk \in Seq(DiffLines), Len(hunk) \in Nat \ {0}
  PROVE  FirstLine(hunk) \in Int /\ LastLine(hunk) \in Int
<1> DEFINE n == Len(hunk)
           new == {i \in DOMAIN hunk : hunk[i].new # 0}
           v == [i \in 0 .. n |-> IF i = 0 \/ hunk[i].new = 0 THEN FirstLine(hunk) ELSE hunk[i].new]
<1>1. /\ n \in Nat /\ n # 0 /\ DOMAIN hunk = 1 .. n
      /\ \A i \in 1 .. n : hunk[i].new \in Nat /\ hunk[i].old \in Nat
  <2>1. \A i \in 1 .. n : hunk[i] \in DiffLines
    OBVIOUS
  <2> QED
    BY <2>1 DEF DiffLines
<1>2. FirstLine(hunk) \in Int
  <2>1. CASE RightLines(hunk) = {}
    BY <1>1, <2>1 DEF FirstLine
  <2>2. CASE RightLines(hunk) # {}
    <3>1. new \in SUBSET Nat /\ new # {}
      BY <1>1, <2>2 DEF RightLines
    <3>2. Min(new) \in new
      BY <3>1, Least
    <3>3. hunk[Min(new)].new \in Nat
      BY <1>1, <3>2
    <3>4. FirstLine(hunk) = hunk[Min(new)].new
      BY <2>2 DEF FirstLine
    <3> QED
      BY <3>3, <3>4
  <2> QED
    BY <2>1, <2>2
<1>3. {v[i] : i \in 0 .. n} = {FirstLine(hunk)} \union RightLines(hunk)
  <2>1. \A i \in 0 .. n : i = 0 \/ i \in 1 .. n
    BY <1>1
  <2>2. ASSUME NEW i \in 0 .. n PROVE v[i] \in {FirstLine(hunk)} \union RightLines(hunk)
    BY <1>1, <2>1 DEF RightLines
  <2>3. FirstLine(hunk) \in {v[i] : i \in 0 .. n}
    <3>1. 0 \in 0 .. n /\ v[0] = FirstLine(hunk)
      BY <1>1
    <3> QED
      BY <3>1
  <2>4. ASSUME NEW x \in RightLines(hunk) PROVE x \in {v[i] : i \in 0 .. n}
    <3>1. PICK i \in 1 .. n : x = hunk[i].new /\ x # 0
      BY <1>1 DEF RightLines
    <3>2. i \in 0 .. n /\ i # 0
      BY <1>1
    <3>3. v[i] = x
      BY <3>1, <3>2
    <3> QED
      BY <3>2, <3>3
  <2> HIDE DEF v
  <2> QED
    BY <2>2, <2>3, <2>4
<1>4. v \in [0 .. n -> Int]
  <2>1. \A i \in 0 .. n : i = 0 \/ i \in 1 .. n
    BY <1>1
  <2> QED
    BY <1>1, <1>2, <2>1
<1> HIDE DEF v
<1>5. Max({v[i] : i \in 0 .. n}) \in Int
  BY <1>1, <1>4, Largest
<1>6. LastLine(hunk) \in Int
  BY <1>3, <1>5 DEF LastLine
<1> QED
  BY <1>2, <1>6

-----------------------------------------------------------------------------
(* Choosing files and ranking hunks *)

Files(fs) == IsList(fs) /\ \A f \in Range(fs) : IsChangedFile(f)

LEMMA FilesFacts ==
  ASSUME NEW fs, Files(fs)
  PROVE  /\ Len(fs) \in Nat /\ DOMAIN fs = 1 .. Len(fs) /\ IsFiniteSet(DOMAIN fs)
         /\ \A i \in DOMAIN fs : IsChangedFile(fs[i]) /\ Changed(fs[i]) \in Nat
<1>1. Len(fs) \in Nat /\ DOMAIN fs = 1 .. Len(fs)
  BY ListFacts DEF Files
<1>2. ASSUME NEW i \in DOMAIN fs PROVE IsChangedFile(fs[i]) /\ Changed(fs[i]) \in Nat
  <2>1. IsChangedFile(fs[i])
    BY DEF Files, Range
  <2> QED
    BY <2>1, NumberedKeeps, AddedIsNumber DEF Changed
<1>3. IsFiniteSet(DOMAIN fs)
  BY <1>1, FS_Interval
<1> QED
  BY <1>1, <1>2, <1>3

\* The hunks of some files, each with its score.
LEMMA HunksInFacts ==
  ASSUME NEW fs, Files(fs), NEW idx \in SUBSET (DOMAIN fs)
  PROVE  /\ IsFiniteSet(HunksIn(fs, idx))
         /\ \A c \in HunksIn(fs, idx) :
              /\ c = <<c[1], c[2]>> /\ c[1] \in idx /\ c[2] \in DOMAIN HunksOf(fs[c[1]])
              /\ c[2] \in Nat \ {0} /\ Score(fs, c) \in Int
         /\ \A i \in idx : \A k \in DOMAIN HunksOf(fs[i]) : <<i, k>> \in HunksIn(fs, idx)
<1> DEFINE of(i) == {i} \X DOMAIN HunksOf(fs[i])
           T == {of(i) : i \in idx}
           g == [i \in idx |-> of(i)]
<1>1. HunksIn(fs, idx) = UNION T
  BY DEF HunksIn
<1>2. IsFiniteSet(idx)
  BY FilesFacts, FS_Subset
<1>3. ASSUME NEW i \in idx
      PROVE  /\ Len(HunksOf(fs[i])) \in Nat
             /\ DOMAIN HunksOf(fs[i]) = 1 .. Len(HunksOf(fs[i]))
             /\ \A k \in DOMAIN HunksOf(fs[i]) : HunksOf(fs[i])[k] \in Seq(DiffLines)
             /\ fs[i].weight \in Int
  BY FilesFacts, HunksOfFile DEF IsChangedFile
<1>4. ASSUME NEW i \in idx PROVE IsFiniteSet(of(i))
  <2>1. IsFiniteSet({i})
    BY FS_Singleton
  <2>2. IsFiniteSet(DOMAIN HunksOf(fs[i]))
    <3>1. IsFiniteSet(1 .. Len(HunksOf(fs[i])))
      BY <1>3, FS_Interval
    <3> QED
      BY <1>3, <3>1
  <2> QED
    BY <2>1, <2>2, FS_Product
<1>5. IsFiniteSet(T)
  <2>1. g \in Surjection(idx, T)
    <3>1. g \in [idx -> T] /\ \A t \in T : \E i \in idx : g[i] = t
      OBVIOUS
    <3> HIDE DEF g, T
    <3> QED
      BY <3>1 DEF Surjection
  <2> HIDE DEF g, T
  <2> QED
    BY <1>2, <2>1, FS_Surjection
<1>6. IsFiniteSet(UNION T)
  <2>1. \A t \in T : IsFiniteSet(t)
    BY <1>4
  <2> HIDE DEF T
  <2> QED
    BY <1>5, <2>1, FS_UNION
<1>7. ASSUME NEW c \in HunksIn(fs, idx)
      PROVE  /\ c = <<c[1], c[2]>> /\ c[1] \in idx /\ c[2] \in DOMAIN HunksOf(fs[c[1]])
             /\ c[2] \in Nat \ {0} /\ Score(fs, c) \in Int
  <2>1. PICK i \in idx : c \in of(i)
    BY <1>1
  <2>2. c = <<c[1], c[2]>> /\ c[1] = i /\ c[2] \in DOMAIN HunksOf(fs[i])
    BY <2>1
  <2>3. c[2] \in Nat \ {0}
    BY <1>3, <2>2
  <2> DEFINE h == HunksOf(fs[i])[c[2]]
             f == fs[i]
  <2>4. Added(h) \in Nat /\ Len(h) \in Nat /\ f.weight \in Int
    <3>1. h \in Seq(DiffLines) /\ f.weight \in Int
      BY <1>3, <2>2
    <3>2. Len(h) \in Nat
      BY <3>1, ListOver, ListFacts
    <3> HIDE DEF h
    <3> QED
      BY <3>1, <3>2, AddedIsNumber
  <2>5. Score(fs, c) = RiskScore(f, h)
    BY <2>2 DEF Score
  <2> HIDE DEF h, f
  <2>6. RiskScore(f, h) \in Int
    <3> DEFINE g1 == IF IsGenerated(f) THEN 300 ELSE 0
               g2 == IF Is(f, "lockfile") THEN 200 ELSE 0
               g3 == NonNegative(Len(h) - 40)
    <3>1. g1 \in Int /\ g2 \in Int /\ g3 \in Int
      BY <2>4 DEF NonNegative
    <3>2. RiskScore(f, h) = 200 * Added(h) + f.weight - g1 - g2 - 3 * g3
      BY DEF RiskScore
    <3> HIDE DEF g1, g2, g3
    <3> QED
      BY <2>4, <3>1, <3>2
  <2> QED
    BY <2>2, <2>3, <2>5, <2>6
<1>8. ASSUME NEW i \in idx, NEW k \in DOMAIN HunksOf(fs[i]) PROVE <<i, k>> \in HunksIn(fs, idx)
  BY <1>1
<1> QED
  BY <1>1, <1>6, <1>7, <1>8

\* The ranking holds each hunk of a fetched file once, the riskiest first.
LEMMA RankedHunksKeep ==
  ASSUME NEW fs, Files(fs), NEW idx, IsList(idx), Range(idx) \subseteq DOMAIN fs,
         NEW sources
  PROVE  LET ready == HunksIn(fs, {i \in Range(idx) : sources[i] # Missing})
             ranked == RankedHunks(fs, idx, sources)
         IN  /\ IsList(ranked) /\ Range(ranked) = ready
             /\ \A m, n \in DOMAIN ranked :
                  m < n => /\ ranked[m] # ranked[n]
                           /\ Score(fs, ranked[m]) >= Score(fs, ranked[n])
<1> DEFINE C == HunksIn(fs, {i \in Range(idx) : sources[i] # Missing})
           place(c) == CHOOSE n \in DOMAIN idx : idx[n] = c[1]
           s(c) == Score(fs, c)
           Precedes(c, d) == \/ s(c) > s(d)
                          \/ /\ s(c) = s(d)
                             /\ place(c) < place(d) \/ (place(c) = place(d) /\ c[2] < d[2])
           R == {p \in C \X C : Precedes(p[1], p[2])}
           ranked == RankedHunks(fs, idx, sources)
<1>1. ranked = Sorted(C, R)
  BY Zenon DEF RankedHunks
<1>2. /\ IsFiniteSet(C)
      /\ \A c \in C : /\ c = <<c[1], c[2]>> /\ c[1] \in Range(idx) /\ c[2] \in Nat \ {0}
                      /\ s(c) \in Int
  <2> DEFINE I == {i \in Range(idx) : sources[i] # Missing}
  <2>1. I \in SUBSET (DOMAIN fs) /\ I \subseteq Range(idx)
    OBVIOUS
  <2> HIDE DEF I
  <2>2. /\ IsFiniteSet(HunksIn(fs, I))
        /\ \A c \in HunksIn(fs, I) : /\ c = <<c[1], c[2]>> /\ c[1] \in I
                                     /\ c[2] \in Nat \ {0} /\ Score(fs, c) \in Int
    BY <2>1, HunksInFacts
  <2> QED
    BY <2>1, <2>2 DEF I
<1>3. \A c \in C : place(c) \in Int /\ idx[place(c)] = c[1]
  <2> SUFFICES ASSUME NEW c \in C PROVE place(c) \in Int /\ idx[place(c)] = c[1]
    OBVIOUS
  <2>1. DOMAIN idx \subseteq Int /\ \E n \in DOMAIN idx : idx[n] = c[1]
    BY <1>2, ListFacts
  <2> HIDE DEF C
  <2> QED
    BY <2>1
<1> HIDE DEF C, place, s
<1>4. Orders(R, C)
  <2>1. \A c, d \in C : <<c, d>> \in R <=> Precedes(c, d)
    OBVIOUS
  <2>2. \A c \in C : ~Precedes(c, c)
    BY <1>2, <1>3
  <2>3. ASSUME NEW c \in C, NEW d \in C, c # d PROVE Precedes(c, d) \/ Precedes(d, c)
    <3>1. /\ s(c) \in Int /\ s(d) \in Int /\ place(c) \in Int /\ place(d) \in Int
          /\ c[2] \in Int /\ d[2] \in Int
      BY <1>2, <1>3
    <3>2. place(c) # place(d) \/ c[2] # d[2]
      BY <1>2, <1>3, <2>3
    <3> QED
      BY <3>1, <3>2
  <2>4. ASSUME NEW c \in C, NEW d \in C, NEW e \in C, Precedes(c, d), Precedes(d, e) PROVE Precedes(c, e)
    <3>1. /\ s(c) \in Int /\ s(d) \in Int /\ place(c) \in Int /\ place(d) \in Int
          /\ s(e) \in Int /\ place(e) \in Int /\ c[2] \in Int /\ d[2] \in Int /\ e[2] \in Int
      BY <1>2, <1>3
    <3> QED
      BY <2>4, <3>1
  <2> HIDE DEF R, Precedes
  <2> QED
    BY <2>1, <2>2, <2>3, <2>4 DEF Orders
<1>5. ASSUME NEW c \in C, NEW d \in C, <<c, d>> \in R PROVE c # d /\ s(c) >= s(d)
  <2>1. Precedes(c, d) /\ s(c) \in Int /\ s(d) \in Int
    BY <1>2, <1>5
  <2>2. s(c) >= s(d)
    BY <2>1
  <2>3. c # d
    BY <1>4, <1>5 DEF Orders
  <2> QED
    BY <2>2, <2>3
<1> HIDE DEF R, ranked
<1>6. /\ IsList(ranked) /\ Range(ranked) = C
      /\ \A m, n \in DOMAIN ranked : m < n => <<ranked[m], ranked[n]>> \in R
  BY <1>1, <1>2, <1>4, SortedKeeps
<1>7. \A m \in DOMAIN ranked : ranked[m] \in C
  BY <1>6 DEF Range
<1>8. \A m, n \in DOMAIN ranked : m < n => ranked[m] # ranked[n] /\ s(ranked[m]) >= s(ranked[n])
  BY <1>5, <1>6, <1>7
<1> QED
  BY <1>6, <1>8 DEF C, s, ranked

\* The lines that some of the files add are at most those that all of them add.
LEMMA ChangedInFacts ==
  ASSUME NEW fs, Files(fs), NEW idx
  PROVE  /\ ChangedIn(fs, idx) \in Nat /\ ChangedIn(fs, DOMAIN fs) \in Nat
         /\ ChangedIn(fs, idx) <= ChangedIn(fs, DOMAIN fs)
<1> DEFINE D == DOMAIN fs
           some == [i \in D |-> IF i \in idx THEN Changed(fs[i]) ELSE 0]
           every == [i \in D |-> IF i \in D THEN Changed(fs[i]) ELSE 0]
<1>1. Len(fs) \in Nat /\ D = 1 .. Len(fs) /\ \A i \in D : Changed(fs[i]) \in Nat
  BY FilesFacts
<1>2. some \in Seq(Nat) /\ every \in Seq(Nat) /\ Len(some) = Len(fs) /\ Len(every) = Len(fs)
  BY <1>1
<1>3. \A n \in 1 .. Len(fs) : some[n] <= every[n]
  BY <1>1
<1>4. ChangedIn(fs, idx) = SumOf(some) /\ ChangedIn(fs, D) = SumOf(every)
  BY Zenon DEF ChangedIn
<1> HIDE DEF some, every
<1>5. SumOf(some) \in Nat /\ SumOf(every) \in Nat /\ SumOf(some) <= SumOf(every)
  <2>1. SumOf(some) \in Nat /\ SumOf(some) <= SumOf(every)
    BY <1>2, <1>3, SumsCompared DEF Numbers
  <2>2. SumOf(every) \in Nat
    BY <1>2, SumsCompared DEF Numbers
  <2> QED
    BY <2>1, <2>2
<1> QED
  BY <1>4, <1>5

LEMMA RankedFilesKeep ==
  ASSUME NEW fs, Files(fs)
  PROVE  IsList(RankedFiles(fs)) /\ Range(RankedFiles(fs)) \subseteq DOMAIN fs
<1> DEFINE score(i) == 20 * Changed(fs[i]) + (IF Is(fs[i], "test") THEN -3 ELSE 8)
           E == {i \in DOMAIN fs : ~Is(fs[i], "vendored") /\ Changed(fs[i]) > 0}
           Precedes(i, j) == score(i) > score(j) \/ (score(i) = score(j) /\ i < j)
           R == {p \in E \X E : Precedes(p[1], p[2])}
<1>1. RankedFiles(fs) = Sorted(E, R)
  BY DEF RankedFiles
<1>2. IsFiniteSet(E) /\ E \subseteq DOMAIN fs /\ \A i \in E : i \in Int /\ score(i) \in Int
  <2>1. E \subseteq DOMAIN fs /\ IsFiniteSet(E)
    BY FilesFacts, FS_Subset
  <2>2. \A i \in DOMAIN fs : i \in Int /\ Changed(fs[i]) \in Nat
    BY FilesFacts
  <2> QED
    BY <2>1, <2>2
<1> HIDE DEF score, E
<1>3. Orders(R, E)
  <2>1. \A i, j \in E : <<i, j>> \in R <=> Precedes(i, j)
    OBVIOUS
  <2>2. /\ \A i \in E : ~Precedes(i, i)
        /\ \A i, j \in E : i # j => Precedes(i, j) \/ Precedes(j, i)
        /\ \A i, j, k \in E : Precedes(i, j) /\ Precedes(j, k) => Precedes(i, k)
    BY <1>2
  <2> HIDE DEF R, Precedes
  <2> QED
    BY <2>1, <2>2 DEF Orders
<1> HIDE DEF R
<1>4. IsList(Sorted(E, R)) /\ Range(Sorted(E, R)) = E
  BY <1>2, <1>3, SortedKeeps
<1> QED
  BY <1>1, <1>2, <1>4

\* Files are only left out by a partial review, of a pull request over the threshold.
LEMMA PickFilesKeep ==
  ASSUME NEW fs, Files(fs), NEW c, c.threshold \in Nat
  PROVE  /\ IsList(PickFiles(fs, c)) /\ Range(PickFiles(fs, c)) \subseteq DOMAIN fs
         /\ Range(RankedFiles(fs)) # Range(PickFiles(fs, c)) =>
              c.partial /\ ChangedIn(fs, DOMAIN fs) > c.threshold
<1> DEFINE ranked == RankedFiles(fs)
           written == {i \in Range(ranked) : ~Is(fs[i], "generated")}
           taken == {n \in DOMAIN ranked :
                       ChangedIn(fs, {ranked[m] : m \in 1 .. n - 1}) < c.threshold}
<1>1. IsList(ranked) /\ Range(ranked) \subseteq DOMAIN fs
  BY RankedFilesKeep
<1>2. PickFiles(fs, c) = IF ~c.partial \/ ChangedIn(fs, written) <= c.threshold THEN ranked
                         ELSE Picked(ranked, taken)
  BY DEF PickFiles
<1>3. taken \in SUBSET (DOMAIN ranked)
  OBVIOUS
<1> HIDE DEF ranked, written, taken
<1>4. CASE ~c.partial \/ ChangedIn(fs, written) <= c.threshold
  <2>1. PickFiles(fs, c) = ranked
    BY <1>2, <1>4
  <2> QED
    BY <1>1, <2>1 DEF ranked
<1>5. CASE ~(~c.partial \/ ChangedIn(fs, written) <= c.threshold)
  <2>1. PickFiles(fs, c) = Picked(ranked, taken)
    BY <1>2, <1>5
  <2>2. IsList(Picked(ranked, taken)) /\ Range(Picked(ranked, taken)) = {ranked[n] : n \in taken}
    BY <1>1, <1>3, PickedKeeps
  <2>3. Range(Picked(ranked, taken)) \subseteq Range(ranked)
    BY <1>3, <2>2 DEF Range
  <2>4. c.partial /\ ~(ChangedIn(fs, written) <= c.threshold)
    BY <1>5
  <2>5. /\ ChangedIn(fs, written) \in Nat /\ ChangedIn(fs, DOMAIN fs) \in Nat
        /\ ChangedIn(fs, written) <= ChangedIn(fs, DOMAIN fs)
    BY ChangedInFacts
  <2>6. ChangedIn(fs, DOMAIN fs) > c.threshold
    BY <2>4, <2>5
  <2> QED
    BY <1>1, <2>1, <2>2, <2>3, <2>4, <2>6
<1> QED
  BY <1>4, <1>5

-----------------------------------------------------------------------------
(* Budgets *)

\* One more segment adds its tokens.
LEMMA RepoTokensFacts ==
  ASSUME NEW c, c.repoTexts \in Seq(Nat), NEW kept
  PROVE  /\ RepoTokens(c, kept) \in Nat
         /\ (\A n \in DOMAIN c.repoTexts : n \notin kept) => RepoTokens(c, kept) = 0
         /\ \A k \in DOMAIN c.repoTexts \ kept :
              RepoTokens(c, kept \union {k}) = RepoTokens(c, kept) + c.repoTexts[k]
<1> DEFINE texts == c.repoTexts
           D == DOMAIN texts
           of(K) == [n \in D |-> IF n \in K THEN texts[n] ELSE 0]
<1>1. Len(texts) \in Nat /\ D = 1 .. Len(texts) /\ \A n \in D : texts[n] \in Nat
  OBVIOUS
<1>2. \A K : RepoTokens(c, K) = SumOf(of(K))
  BY DEF RepoTokens
<1>3. ASSUME NEW K PROVE Numbers(of(K)) /\ Len(of(K)) = Len(texts)
  BY <1>1 DEF Numbers
<1>4. \A K : \A n \in D : of(K)[n] = IF n \in K THEN texts[n] ELSE 0
  OBVIOUS
<1> HIDE DEF texts, of, D
<1>5. SumOf(of(kept)) \in Nat
  BY <1>3, SumsCompared
<1>6. ASSUME \A n \in D : n \notin kept PROVE SumOf(of(kept)) = 0
  <2>1. \A n \in 1 .. Len(of(kept)) : of(kept)[n] = 0
    BY <1>1, <1>3, <1>4, <1>6
  <2> QED
    BY <1>3, <2>1, SumOfZeros
<1>7. ASSUME NEW k \in D \ kept PROVE SumOf(of(kept \union {k})) = SumOf(of(kept)) + texts[k]
  <2> DEFINE s == of(kept)
             t == of(kept \union {k})
  <2>1. \A n \in D : t[n] = s[n] + (IF n = k THEN texts[k] ELSE 0)
    <3>1. \A n \in D : n # k => t[n] = s[n] /\ s[n] \in Nat
      BY <1>1, <1>4
    <3>2. s[k] = 0 /\ t[k] = texts[k] /\ texts[k] \in Nat
      BY <1>1, <1>4
    <3> HIDE DEF s, t
    <3> QED
      BY <3>1, <3>2
  <2>2. Numbers(s) /\ Numbers(t) /\ Len(s) = Len(t) /\ D = 1 .. Len(s) /\ texts[k] \in Nat
    BY <1>1, <1>3
  <2> HIDE DEF s, t
  <2>3. SumOf(t) = SumOf(s) + texts[k]
    BY <2>1, <2>2, OneNumberMore
  <2> QED
    BY <2>3 DEF s, t
<1> QED
  BY <1>2, <1>5, <1>6, <1>7 DEF texts, D

\* The segments kept fit the budget.
LEMMA RepoKeptFits ==
  ASSUME NEW c, c.repoTexts \in Seq(Nat), c.repo \in Nat
  PROVE  RepoTokens(c, RepoKept(c)) <= c.repo
<1> DEFINE N == Len(c.repoTexts)
           Put(K, n) == IF RepoTokens(c, K) + c.repoTexts[n] > c.repo THEN K ELSE K \union {n}
           IsKept(g, m) == g = [n \in 0 .. m |-> IF n = 0 THEN {} ELSE Put(g[n - 1], n)]
           S == {m \in 0 .. N : \E g : IsKept(g, m)}
           all == CHOOSE g : IsKept(g, N)
<1>0. N \in Nat /\ DOMAIN c.repoTexts = 1 .. N /\ \A n \in 1 .. N : c.repoTexts[n] \in Nat
  OBVIOUS
<1>5. RepoKept(c) = all[N]
  BY DEF RepoKept
<1> HIDE DEF Put
<1>1. 0 \in S
  <2> DEFINE g == [n \in 0 .. 0 |-> {}]
  <2>1. \E k : IsKept(k, 0)
    <3>1. IsKept(g, 0)
      OBVIOUS
    <3> HIDE DEF IsKept, g
    <3> QED
      BY <3>1
  <2>2. 0 \in 0 .. N
    BY <1>0
  <2> HIDE DEF IsKept, g
  <2> QED
    BY <2>1, <2>2
<1>2. ASSUME NEW m \in 0 .. (N - 1), m \in S PROVE m + 1 \in S
  <2>1. PICK g : IsKept(g, m)
    BY <1>2
  <2> DEFINE h == [n \in 0 .. (m + 1) |-> IF n = 0 THEN {} ELSE Put(g[n - 1], n)]
  <2>2. \A n \in 0 .. m : h[n] = g[n]
    <3>1. \A n \in 0 .. m : g[n] = IF n = 0 THEN {} ELSE Put(g[n - 1], n)
      BY <2>1
    <3>2. \A n \in 0 .. m : n \in 0 .. (m + 1)
      BY <1>0, <1>2
    <3>3. \A n \in 0 .. (m + 1) : h[n] = IF n = 0 THEN {} ELSE Put(g[n - 1], n)
      OBVIOUS
    <3> HIDE DEF h
    <3> QED
      BY <3>1, <3>2, <3>3, Zenon
  <2>3. \A n \in 0 .. (m + 1) : n # 0 => h[n - 1] = g[n - 1]
    <3>1. \A n \in 0 .. (m + 1) : n # 0 => n - 1 \in 0 .. m
      BY <1>0, <1>2
    <3> HIDE DEF h
    <3> QED
      BY <2>2, <3>1
  <2>4. h = [n \in 0 .. (m + 1) |-> IF n = 0 THEN {} ELSE Put(h[n - 1], n)]
    BY <2>3
  <2>5. m + 1 \in 0 .. N
    BY <1>0, <1>2
  <2> QED
    BY <2>4, <2>5
<1>3. \E g : IsKept(g, N)
  <2>1. \A n \in 0 .. N : n \in S
    <3> HIDE DEF S, N
    <3> QED
      BY <1>0, <1>1, <1>2, UpTo
  <2>2. N \in 0 .. N
    BY <1>0
  <2>3. N \in S
    <3> HIDE DEF S, N
    <3> QED
      BY <2>1, <2>2
  <2> HIDE DEF IsKept, N
  <2> QED
    BY <2>3
<1>4. IsKept(all, N)
  BY <1>3
<1> HIDE DEF all
<1>6. \A n \in 0 .. N : all[n] = IF n = 0 THEN {} ELSE Put(all[n - 1], n)
  BY <1>4
<1> DEFINE T == {n \in 0 .. N : all[n] \subseteq 1 .. n /\ RepoTokens(c, all[n]) <= c.repo}
<1>7. 0 \in T
  <2>1. 0 \in 0 .. N
    BY <1>0
  <2>2. all[0] = {}
    BY <2>1, <1>6, Zenon
  <2>3. RepoTokens(c, {}) = 0
    BY RepoTokensFacts
  <2>4. RepoTokens(c, all[0]) <= c.repo /\ all[0] \subseteq 1 .. 0
    <3>1. 0 <= c.repo
      OBVIOUS
    <3> QED
      BY <2>2, <2>3, <3>1
  <2> QED
    BY <2>1, <2>4
<1>8. ASSUME NEW n \in 0 .. (N - 1), n \in T PROVE n + 1 \in T
  <2>1. n + 1 \in 0 .. N /\ n + 1 \in 1 .. N /\ n + 1 # 0 /\ (n + 1) - 1 = n
    BY <1>0
  <2>2. all[n + 1] = Put(all[n], n + 1)
    BY <2>1, <1>6
  <2> DEFINE K == all[n]
             k == n + 1
  <2>3. /\ K \subseteq 1 .. n /\ RepoTokens(c, K) <= c.repo
        /\ K \subseteq 1 .. (n + 1) /\ k \in DOMAIN c.repoTexts \ K /\ k \in 1 .. (n + 1)
    <3>1. K \subseteq 1 .. n /\ RepoTokens(c, K) <= c.repo
      BY <1>8
    <3>2. n + 1 \notin 1 .. n /\ 1 .. n \subseteq 1 .. (n + 1) /\ n + 1 \in 1 .. (n + 1)
      BY <1>0
    <3> QED
      BY <1>0, <2>1, <3>1, <3>2
  <2>4. CASE RepoTokens(c, K) + c.repoTexts[k] > c.repo
    <3>1. all[n + 1] = K
      BY <2>2, <2>4 DEF Put
    <3> QED
      BY <2>1, <2>3, <3>1
  <2>5. CASE ~(RepoTokens(c, K) + c.repoTexts[k] > c.repo)
    <3>1. all[n + 1] = K \union {k}
      BY <2>2, <2>5 DEF Put
    <3>2. RepoTokens(c, K \union {k}) = RepoTokens(c, K) + c.repoTexts[k] /\ RepoTokens(c, K) \in Nat
      <4> HIDE DEF K, k
      <4> QED
        BY <2>3, RepoTokensFacts
    <3>3. c.repoTexts[k] \in Nat
      BY <1>0, <2>1
    <3>4. RepoTokens(c, all[n + 1]) <= c.repo
      <4> HIDE DEF K, k
      <4> QED
        BY <2>5, <3>1, <3>2, <3>3
    <3>5. all[n + 1] \subseteq 1 .. (n + 1)
      BY <2>3, <3>1
    <3> QED
      BY <2>1, <3>4, <3>5
  <2> QED
    BY <2>4, <2>5
<1> HIDE DEF N, T
<1>9. \A n \in 0 .. N : n \in T
  BY <1>0, <1>7, <1>8, UpTo
<1>10. N \in T
  BY <1>0, <1>9
<1> QED
  BY <1>5, <1>10 DEF T

\* Costs of the hunks of the pull request, summed file by file.
LEMMA OverHunksFacts ==
  ASSUME Files(pr), NEW cost \in [AllHunks -> Nat], NEW more \in [AllHunks -> Nat]
  PROVE  /\ OverHunks(cost) \in Nat
         /\ (\A c \in AllHunks : cost[c] = 0) => OverHunks(cost) = 0
         /\ (\A c \in AllHunks : cost[c] <= more[c]) => OverHunks(cost) <= OverHunks(more)
         /\ \A h \in AllHunks, d \in Nat :
              (\A c \in AllHunks : more[c] = cost[c] + (IF c = h THEN d ELSE 0)) =>
                OverHunks(more) = OverHunks(cost) + d
<1> DEFINE D == DOMAIN pr
           H(i) == DOMAIN HunksOf(pr[i])
           row(w, i) == [k \in H(i) |-> w[<<i, k>>]]
           sums(w) == [i \in D |-> SumOf(row(w, i))]
<1>1. Len(pr) \in Nat /\ D = 1 .. Len(pr)
  BY FilesFacts
<1>2. ASSUME NEW i \in D
      PROVE  /\ Len(HunksOf(pr[i])) \in Nat /\ H(i) = 1 .. Len(HunksOf(pr[i]))
             /\ \A k \in H(i) : <<i, k>> \in AllHunks
  <2>1. Len(HunksOf(pr[i])) \in Nat /\ H(i) = 1 .. Len(HunksOf(pr[i]))
    BY FilesFacts, HunksOfFile
  <2>2. \A k \in H(i) : <<i, k>> \in AllHunks
    BY HunksInFacts DEF AllHunks
  <2> QED
    BY <2>1, <2>2
<1>3. ASSUME NEW h \in AllHunks PROVE h = <<h[1], h[2]>> /\ h[1] \in D /\ h[2] \in H(h[1])
  BY HunksInFacts DEF AllHunks
<1>4. OverHunks(cost) = SumOf(sums(cost)) /\ OverHunks(more) = SumOf(sums(more))
  BY Zenon DEF OverHunks
<1>5. ASSUME NEW i \in D, NEW w \in [AllHunks -> Nat]
      PROVE  /\ Numbers(row(w, i)) /\ Len(row(w, i)) = Len(HunksOf(pr[i]))
             /\ \A k \in H(i) : row(w, i)[k] = w[<<i, k>>]
  <2> DEFINE n == Len(HunksOf(pr[i]))
             r == row(w, i)
  <2>1. \A k \in H(i) : w[<<i, k>>] \in Nat
    BY <1>2
  <2>2. n \in Nat /\ H(i) = 1 .. n
    BY <1>2
  <2>3. DOMAIN r = H(i) /\ \A k \in H(i) : r[k] = w[<<i, k>>]
    OBVIOUS
  <2>4. r = [k \in 1 .. n |-> r[k]]
    BY <2>2
  <2> HIDE DEF r, n, H
  <2>5. r \in Seq(Nat) /\ Len(r) = n
    <3>1. \A k \in 1 .. n : r[k] \in Nat
      BY <2>1, <2>2, <2>3
    <3>2. DOMAIN r = 1 .. n
      BY <2>2, <2>3
    <3>3. IsList(r) /\ Len(r) = n
      BY <2>2, <2>4, <3>2, FunctionList
    <3>4. Range(r) \subseteq Nat
      BY <3>1, <3>2 DEF Range
    <3> QED
      BY <3>3, <3>4, ListOver
  <2> QED
    BY <2>3, <2>5 DEF Numbers, r, n
<1> HIDE DEF row
<1>6. \A w \in [AllHunks -> Nat], i \in D : SumOf(row(w, i)) \in Nat
  BY <1>5, SumsCompared
<1>7. ASSUME NEW w \in [AllHunks -> Nat]
      PROVE  /\ Numbers(sums(w)) /\ Len(sums(w)) = Len(pr)
             /\ \A i \in 1 .. Len(pr) : sums(w)[i] = SumOf(row(w, i))
  BY <1>1, <1>6 DEF Numbers
<1> HIDE DEF sums, D, H
<1>8. OverHunks(cost) \in Nat
  BY <1>4, <1>7, SumsCompared
<1>9. ASSUME \A c \in AllHunks : cost[c] = 0 PROVE OverHunks(cost) = 0
  <2>1. ASSUME NEW i \in D PROVE SumOf(row(cost, i)) = 0
    <3>0. 1 .. Len(row(cost, i)) = H(i)
      BY <1>2, <1>5
    <3>1. \A k \in 1 .. Len(row(cost, i)) : row(cost, i)[k] = 0
      <4> SUFFICES ASSUME NEW k \in H(i) PROVE row(cost, i)[k] = 0
        BY <3>0
      <4>1. row(cost, i)[k] = cost[<<i, k>>]
        BY <1>5
      <4>2. cost[<<i, k>>] = 0
        BY <1>2, <1>9
      <4> QED
        BY <4>1, <4>2
    <3> QED
      BY <1>5, <3>1, SumOfZeros
  <2>2. \A i \in 1 .. Len(sums(cost)) : sums(cost)[i] = 0
    BY <1>1, <1>7, <2>1
  <2> QED
    BY <1>4, <1>7, <2>2, SumOfZeros
<1>10. ASSUME \A c \in AllHunks : cost[c] <= more[c] PROVE OverHunks(cost) <= OverHunks(more)
  <2>1. ASSUME NEW i \in D PROVE SumOf(row(cost, i)) <= SumOf(row(more, i))
    <3> DEFINE s == row(cost, i)
               t == row(more, i)
    <3>1. Numbers(s) /\ Numbers(t) /\ Len(s) = Len(t)
      BY <1>5
    <3>2. \A k \in 1 .. Len(s) : s[k] <= t[k]
      <4>1. \A k \in H(i) : s[k] = cost[<<i, k>>] /\ t[k] = more[<<i, k>>]
        BY <1>5
      <4>2. \A k \in H(i) : cost[<<i, k>>] <= more[<<i, k>>]
        BY <1>2, <1>10
      <4>3. 1 .. Len(s) = H(i)
        BY <1>2, <1>5
      <4> HIDE DEF s, t
      <4> QED
        BY <4>1, <4>2, <4>3, Zenon
    <3> HIDE DEF s, t
    <3>3. SumOf(s) <= SumOf(t)
      BY <3>1, <3>2, SumsCompared
    <3> QED
      BY <3>3 DEF s, t
  <2> DEFINE s == sums(cost)
             t == sums(more)
  <2>2. Numbers(s) /\ Numbers(t) /\ Len(s) = Len(t) /\ \A i \in 1 .. Len(s) : s[i] <= t[i]
    BY <1>1, <1>7, <2>1
  <2> HIDE DEF s, t
  <2>3. SumOf(s) <= SumOf(t)
    BY <2>2, SumsCompared
  <2> QED
    BY <1>4, <2>3 DEF s, t
<1>11. ASSUME NEW h \in AllHunks, NEW d \in Nat,
              \A c \in AllHunks : more[c] = cost[c] + (IF c = h THEN d ELSE 0)
       PROVE  OverHunks(more) = OverHunks(cost) + d
  <2>1. ASSUME NEW i \in D
        PROVE  SumOf(row(more, i)) = SumOf(row(cost, i)) + (IF i = h[1] THEN d ELSE 0)
    <3> DEFINE s == row(cost, i)
               t == row(more, i)
    <3>1. Numbers(s) /\ Numbers(t) /\ Len(s) = Len(t) /\ 1 .. Len(s) = H(i)
      BY <1>2, <1>5
    <3>2. \A k \in H(i) : t[k] = s[k] + (IF <<i, k>> = h THEN d ELSE 0)
      <4>1. \A k \in H(i) : s[k] = cost[<<i, k>>] /\ t[k] = more[<<i, k>>]
        BY <1>5
      <4>2. \A k \in H(i) : more[<<i, k>>] = cost[<<i, k>>] + (IF <<i, k>> = h THEN d ELSE 0)
        BY <1>2, <1>11, Zenon
      <4> HIDE DEF s, t
      <4> QED
        BY <4>1, <4>2, Zenon
    <3> HIDE DEF s, t
    <3>3. CASE i = h[1]
      <4>1. h[2] \in H(i) /\ h = <<i, h[2]>>
        BY <1>3, <3>3
      <4>2. \A k \in H(i) : <<i, k>> = h <=> k = h[2]
        BY <4>1
      <4>3. \A k \in 1 .. Len(s) : t[k] = s[k] + (IF k = h[2] THEN d ELSE 0)
        <5>1. \A k \in H(i) : (IF <<i, k>> = h THEN d ELSE 0) = (IF k = h[2] THEN d ELSE 0)
          BY <4>2, Zenon
        <5>2. \A k \in H(i) : t[k] = s[k] + (IF k = h[2] THEN d ELSE 0)
          BY <3>2, <5>1, Zenon
        <5> QED
          BY <3>1, <5>2
      <4>4. SumOf(t) = SumOf(s) + d
        <5>1. h[2] \in 1 .. Len(s)
          BY <3>1, <4>1
        <5> QED
          BY <3>1, <4>3, <5>1, OneNumberMore
      <4> QED
        BY <3>3, <4>4 DEF s, t
    <3>4. CASE i # h[1]
      <4>1. \A k \in H(i) : <<i, k>> # h
        BY <3>4
      <4>2. /\ \A k \in 1 .. Len(s) : s[k] \in Nat /\ t[k] \in Nat
            /\ \A k \in 1 .. Len(s) : t[k] = s[k]
        <5>1. \A k \in 1 .. Len(s) : s[k] \in Nat /\ t[k] \in Nat
          <6>1. \A k \in 1 .. Len(s) : s[k] \in Nat
            BY <3>1, NumbersFacts
          <6>2. \A k \in 1 .. Len(t) : t[k] \in Nat
            BY <3>1, NumbersFacts
          <6> QED
            BY <3>1, <6>1, <6>2
        <5>2. ASSUME NEW k \in 1 .. Len(s) PROVE t[k] = s[k]
          <6>1. t[k] = s[k] + (IF <<i, k>> = h THEN d ELSE 0) /\ <<i, k>> # h
            BY <3>1, <3>2, <4>1
          <6>2. t[k] = s[k] + 0
            BY <6>1, Zenon
          <6> QED
            BY <5>1, <6>2
        <5> QED
          BY <5>1, <5>2
      <4>3. SumOf(s) <= SumOf(t) /\ SumOf(t) <= SumOf(s) /\ SumOf(s) \in Nat /\ SumOf(t) \in Nat
        <5>1. \A k \in 1 .. Len(s) : s[k] <= t[k] /\ t[k] <= s[k]
          BY <4>2
        <5>2. SumOf(s) <= SumOf(t) /\ SumOf(s) \in Nat
          BY <3>1, <5>1, SumsCompared
        <5>3. SumOf(t) <= SumOf(s) /\ SumOf(t) \in Nat
          BY <3>1, <5>1, SumsCompared
        <5> QED
          BY <5>2, <5>3
      <4>4. SumOf(t) = SumOf(s) + 0
        BY <4>3
      <4> QED
        BY <3>4, <4>4 DEF s, t
    <3> QED
      BY <3>3, <3>4
  <2> DEFINE s == sums(cost)
             t == sums(more)
  <2>2. /\ Numbers(s) /\ Numbers(t) /\ Len(s) = Len(t) /\ h[1] \in 1 .. Len(s)
        /\ \A i \in 1 .. Len(s) : t[i] = s[i] + (IF i = h[1] THEN d ELSE 0)
    <3>1. /\ Numbers(s) /\ Numbers(t) /\ Len(s) = Len(pr) /\ Len(t) = Len(pr)
          /\ \A i \in 1 .. Len(pr) : s[i] = SumOf(row(cost, i)) /\ t[i] = SumOf(row(more, i))
      BY <1>7
    <3>2. D = 1 .. Len(pr) /\ h[1] \in D
      BY <1>1, <1>3
    <3> HIDE DEF s, t
    <3>3. \A i \in D : t[i] = s[i] + (IF i = h[1] THEN d ELSE 0)
      BY <2>1, <3>1, <3>2, Zenon
    <3>4. 1 .. Len(s) = D /\ Len(s) = Len(t)
      BY <3>1, <3>2
    <3> QED
      BY <3>1, <3>2, <3>3, <3>4, Zenon
  <2> HIDE DEF s, t
  <2>3. SumOf(t) = SumOf(s) + d
    BY <2>2, OneNumberMore
  <2> QED
    BY <1>4, <2>3 DEF s, t
<1> QED
  BY <1>8, <1>9, <1>10, <1>11

-----------------------------------------------------------------------------
(* What the invariant says of the values in a state *)

LEMMA BundleShapes ==
  ASSUME FetchInv
  PROVE  /\ Files(pr) /\ \A i \in DOMAIN pr : pr[i].sizes \subseteq Nat
         /\ settings.hunks \in Nat /\ settings.surroundings \in Nat /\ settings.repo \in Nat
         /\ settings.repoTexts \in Seq(Nat) /\ settings.threshold \in Nat
         /\ settings.maxSummaries \in Nat
         /\ IsFiniteSet(AllHunks) /\ Ready \subseteq AllHunks
<1>1. pr \in Seq(Range(pr)) /\ \A f \in Range(pr) : IsChangedFile(f)
  BY BundleAssumption DEF FetchInv
<1>2. Files(pr)
  BY <1>1 DEF Files, IsList
<1>3. \A i \in DOMAIN pr : pr[i].sizes \subseteq Nat
  BY <1>2, FilesFacts DEF IsChangedFile
<1>4. /\ settings.hunks \in Nat /\ settings.surroundings \in Nat /\ settings.repo \in Nat
      /\ settings.repoTexts \in Seq(Nat) /\ settings.threshold \in Nat
      /\ settings.maxSummaries \in Nat
  BY BundleAssumption DEF FetchInv
<1>5. IsFiniteSet(AllHunks)
  BY <1>2, HunksInFacts DEF AllHunks
<1>6. Ready \subseteq AllHunks
  BY DEF Ready, AllHunks, HunksIn, FetchInv
<1> QED
  BY <1>2, <1>3, <1>4, <1>5, <1>6

LEMMA HunkFacts ==
  ASSUME FetchInv, NEW c \in AllHunks
  PROVE  HunkCost(c) \in Nat /\ Score(pr, c) \in Int /\ c[1] \in DOMAIN pr
<1>1. Files(pr)
  BY BundleShapes
<1>2. c[1] \in DOMAIN pr /\ c[2] \in DOMAIN HunksOf(pr[c[1]]) /\ Score(pr, c) \in Int
  BY <1>1, HunksInFacts DEF AllHunks
<1>3. Len(HunksOf(pr[c[1]])[c[2]]) \in Nat
  BY <1>1, <1>2, FilesFacts, HunksOfFile
<1> QED
  BY <1>2, <1>3 DEF HunkCost

\* The surroundings of a hunk whose file was fetched.
LEMMA ContextIsNumber ==
  ASSUME FetchInv, stage \notin Before, NEW c \in Ready
  PROVE  ContextCost(c) \in Nat
<1>1. Files(pr) /\ c \in AllHunks
  BY BundleShapes
<1>2. c[1] \in DOMAIN pr /\ c[2] \in DOMAIN HunksOf(pr[c[1]])
  BY <1>1, HunksInFacts DEF AllHunks
<1>3. source[c[1]] \in Nat
  <2>1. c[1] \in {i \in Range(included) : source[i] # Missing}
    BY DEF Ready, HunksIn
  <2> QED
    BY <2>1 DEF FetchInv
<1> DEFINE f == pr[c[1]]
           hunk == HunksOf(f)[c[2]]
           window == IF Is(f, "docs") THEN DocsWindow ELSE CodeWindow
           first == Max({1, FirstLine(hunk) - window})
           last == Min({source[c[1]], LastLine(hunk) + window})
<1>4. FirstLine(hunk) \in Int /\ LastLine(hunk) \in Int
  <2>1. hunk \in Seq(DiffLines) /\ Len(hunk) \in Nat \ {0}
    BY <1>1, <1>2, FilesFacts, HunksOfFile
  <2> HIDE DEF hunk
  <2> QED
    BY <2>1, HunkLines
<1>5. window \in Int
  BY BundleAssumption
<1> HIDE DEF hunk, window
<1>6. first \in Int /\ last \in Int
  <2> DEFINE a == FirstLine(hunk) - window
             b == LastLine(hunk) + window
  <2>1. a \in Int /\ b \in Int /\ source[c[1]] \in Int /\ 1 \in Int
    BY <1>3, <1>4, <1>5
  <2> HIDE DEF a, b
  <2>2. Max({1, a}) \in Int
    BY <2>1, OfTwo, Zenon
  <2>3. Min({source[c[1]], b}) \in Int
    BY <2>1, OfTwo, Zenon
  <2> QED
    BY <2>2, <2>3, Zenon DEF a, b
<1>7. ContextCost(c) = IF first > last THEN 0 ELSE 2 + last - first
  BY Zenon DEF ContextCost, hunk, window
<1> HIDE DEF first, last
<1> QED
  BY <1>6, <1>7

\* A set of hunks that grows costs no less, and one more hunk costs what it costs.
LEMMA CostOfFacts ==
  ASSUME FetchInv, NEW cs
  PROVE  /\ CostOf(cs) \in Nat
         /\ (\A c \in AllHunks : c \notin cs) => CostOf(cs) = 0
         /\ \A ds : cs \subseteq ds => CostOf(cs) <= CostOf(ds)
         /\ \A h \in AllHunks \ cs : CostOf(cs \union {h}) = CostOf(cs) + HunkCost(h)
<1> DEFINE of(S) == [c \in AllHunks |-> IF c \in S THEN HunkCost(c) ELSE 0]
<1>1. \A S : CostOf(S) = OverHunks(of(S))
  BY DEF CostOf
<1>2. Files(pr) /\ \A c \in AllHunks : HunkCost(c) \in Nat
  BY BundleShapes, HunkFacts
<1>3. \A S : of(S) \in [AllHunks -> Nat]
  BY <1>2
<1>4. \A S : \A c \in AllHunks : of(S)[c] = IF c \in S THEN HunkCost(c) ELSE 0
  OBVIOUS
<1> HIDE DEF of
<1>5. OverHunks(of(cs)) \in Nat
  BY <1>2, <1>3, OverHunksFacts
<1>6. ASSUME \A c \in AllHunks : c \notin cs PROVE OverHunks(of(cs)) = 0
  <2>1. \A c \in AllHunks : of(cs)[c] = 0
    BY <1>4, <1>6
  <2> QED
    BY <1>2, <1>3, <2>1, OverHunksFacts
<1>7. ASSUME NEW ds, cs \subseteq ds PROVE OverHunks(of(cs)) <= OverHunks(of(ds))
  <2>1. \A c \in AllHunks : of(cs)[c] <= of(ds)[c]
    BY <1>2, <1>4, <1>7
  <2> QED
    BY <1>2, <1>3, <2>1, OverHunksFacts
<1>8. ASSUME NEW h \in AllHunks \ cs
      PROVE  OverHunks(of(cs \union {h})) = OverHunks(of(cs)) + HunkCost(h)
  <2> DEFINE s == of(cs)
             t == of(cs \union {h})
             d == HunkCost(h)
  <2>1. \A c \in AllHunks : t[c] = s[c] + (IF c = h THEN d ELSE 0)
    <3>1. \A c \in AllHunks : c # h => t[c] = s[c] /\ s[c] \in Nat
      BY <1>2, <1>4
    <3>2. s[h] = 0 /\ t[h] = d /\ d \in Nat
      BY <1>2, <1>4
    <3> HIDE DEF s, t, d
    <3> QED
      BY <3>1, <3>2
  <2>2. s \in [AllHunks -> Nat] /\ t \in [AllHunks -> Nat] /\ d \in Nat
    BY <1>2, <1>3
  <2> HIDE DEF s, t, d
  <2>3. OverHunks(t) = OverHunks(s) + d
    <3>1. \A g \in AllHunks, e \in Nat :
            (\A c \in AllHunks : t[c] = s[c] + (IF c = g THEN e ELSE 0)) =>
              OverHunks(t) = OverHunks(s) + e
      BY <1>2, <2>2, OverHunksFacts, Zenon
    <3> QED
      BY <2>1, <2>2, <3>1, Zenon
  <2> QED
    BY <2>3 DEF s, t, d
<1> QED
  BY <1>1, <1>5, <1>6, <1>7, <1>8

\* What goes around a hunk fits, is counted, and what is left out has a name.
LEMMA SurroundFacts ==
  ASSUME FetchInv, stage \notin Before, NEW c \in Ready,
         used.surroundings \in Nat, used.surroundings <= settings.surroundings
  PROVE  /\ Surround(c).part \in {"none", "context", "summary"}
         /\ Surround(c).lost \in {"none", "context", "summary_cap", "summary"}
         /\ Surround(c).calls \in Nat
         /\ Surround(c).calls = calls + 1 \/ (Surround(c).calls = calls /\ Surround(c).part # "summary")
         /\ Surround(c).calls <= settings.maxSummaries
         /\ Surround(c).spent = used.surroundings
              + (IF Surround(c).part = "context" THEN ContextCost(c) ELSE 0)
              + (IF Surround(c).part = "summary" THEN SummaryCost ELSE 0)
         /\ Surround(c).spent <= settings.surroundings
         /\ \/ Surround(c).part # "none" \/ Surround(c).lost # "none"
            \/ ContextCost(c) = 0 \/ IsGenerated(pr[c[1]]) \/ Is(pr[c[1]], "lockfile")
<1> DEFINE cost == ContextCost(c)
           plain == IsGenerated(pr[c[1]]) \/ Is(pr[c[1]], "lockfile")
           fits(n) == used.surroundings + n <= settings.surroundings
           around(part, lost, tokens, n) ==
             [part |-> part, lost |-> lost, spent |-> used.surroundings + tokens, calls |-> calls + n]
           a == Surround(c)
           Claim(r) ==
             /\ r.part \in {"none", "context", "summary"}
             /\ r.lost \in {"none", "context", "summary_cap", "summary"}
             /\ r.calls \in Nat
             /\ r.calls = calls + 1 \/ (r.calls = calls /\ r.part # "summary")
             /\ r.calls <= settings.maxSummaries
             /\ r.spent = used.surroundings + (IF r.part = "context" THEN cost ELSE 0)
                            + (IF r.part = "summary" THEN SummaryCost ELSE 0)
             /\ r.spent <= settings.surroundings
             /\ r.part # "none" \/ r.lost # "none" \/ cost = 0 \/ plain
<1>1. /\ cost \in Nat /\ SummaryCost \in Nat /\ calls \in Nat /\ settings.maxSummaries \in Nat
      /\ calls <= settings.maxSummaries /\ settings.surroundings \in Nat
  BY BundleShapes, ContextIsNumber, BundleAssumption DEF FetchInv
<1>2. a = IF cost = 0 \/ plain THEN around("none", "none", 0, 0)
          ELSE IF fits(cost) THEN around("context", "none", cost, 0)
          ELSE IF ~settings.summaries THEN around("none", "context", 0, 0)
          ELSE IF calls >= settings.maxSummaries THEN around("none", "summary_cap", 0, 0)
          ELSE IF fits(SummaryCost) THEN around("summary", "none", SummaryCost, 1)
          ELSE around("none", "summary", 0, 1)
  BY DEF Surround
<1> HIDE DEF cost, plain, a
<1>3. ASSUME a = around("none", "none", 0, 0) /\ (cost = 0 \/ plain)
      PROVE  Claim(a)
  BY <1>1, <1>3
<1>4. ASSUME a = around("context", "none", cost, 0) /\ fits(cost)
      PROVE  Claim(a)
  BY <1>1, <1>4
<1>5. ASSUME a = around("none", "context", 0, 0)
      PROVE  Claim(a)
  BY <1>1, <1>5
<1>6. ASSUME a = around("none", "summary_cap", 0, 0)
      PROVE  Claim(a)
  BY <1>1, <1>6
<1>7. ASSUME a = around("summary", "none", SummaryCost, 1) /\ fits(SummaryCost)
           /\ ~(calls >= settings.maxSummaries)
      PROVE  Claim(a)
  BY <1>1, <1>7
<1>8. ASSUME a = around("none", "summary", 0, 1) /\ ~(calls >= settings.maxSummaries)
      PROVE  Claim(a)
  BY <1>1, <1>8
<1>9. Claim(a)
  <2> HIDE DEF fits, around, Claim
  <2> QED
    BY <1>2, <1>3, <1>4, <1>5, <1>6, <1>7, <1>8
<1> QED
  BY <1>9 DEF a, cost, plain

\* The tokens of what is around hunks, when these parts are in the prompt.
TextOf(parts) ==
  OverHunks([c \in AllHunks |-> (IF <<c, "context">> \in parts THEN ContextCost(c) ELSE 0)
                                + (IF <<c, "summary">> \in parts THEN SummaryCost ELSE 0)])
HunksOfParts(parts) == {c \in AllHunks : <<c, "hunk">> \in parts}

LEMMA TextOfFacts ==
  ASSUME FetchInv
  PROVE  /\ TextCost = TextOf(shown) /\ ShownHunks = HunksOfParts(shown)
         /\ TextOf({}) = 0
<1>1. TextCost = TextOf(shown)
  BY Zenon DEF TextCost, AroundCost, TextOf
<1>2. ShownHunks = HunksOfParts(shown)
  BY DEF ShownHunks, HunksOfParts
<1>3. TextOf({}) = 0
  <2> DEFINE w == [c \in AllHunks |-> (IF <<c, "context">> \in {} THEN ContextCost(c) ELSE 0)
                                + (IF <<c, "summary">> \in {} THEN SummaryCost ELSE 0)]
  <2>1. w \in [AllHunks -> Nat] /\ \A c \in AllHunks : w[c] = 0
    OBVIOUS
  <2>2. TextOf({}) = OverHunks(w)
    BY Zenon DEF TextOf
  <2> HIDE DEF w
  <2>3. Files(pr)
    BY BundleShapes
  <2> QED
    BY <2>1, <2>2, <2>3, OverHunksFacts
<1> QED
  BY <1>1, <1>2, <1>3

LEMMA TextIsNumber ==
  ASSUME FetchInv, stage \notin Before, NEW parts,
         parts \subseteq Ready \X {"hunk", "context", "summary"}
  PROVE  TextOf(parts) \in Nat
<1> DEFINE around(c) == IF <<c, "context">> \in parts THEN ContextCost(c) ELSE 0
           summary(c) == IF <<c, "summary">> \in parts THEN SummaryCost ELSE 0
           w == [c \in AllHunks |-> around(c) + summary(c)]
<1>1. Files(pr) /\ SummaryCost \in Nat
  BY BundleShapes, BundleAssumption
<1>2. \A c : around(c) \in Nat
  <2>1. \A c, kind : <<c, kind>> \in parts => c \in Ready
    OBVIOUS
  <2> QED
    BY <2>1, ContextIsNumber
<1>3. \A c : summary(c) \in Nat
  BY <1>1
<1>4. TextOf(parts) = OverHunks(w)
  BY Zenon DEF TextOf
<1> HIDE DEF around, summary
<1>5. w \in [AllHunks -> Nat]
  BY <1>2, <1>3
<1> HIDE DEF w
<1> QED
  BY <1>1, <1>4, <1>5, OverHunksFacts

\* A hunk, and what is around it, adds to the text what it costs.
LEMMA TextGrows ==
  ASSUME FetchInv, stage \notin Before, NEW h \in Ready, NEW kind \in {"none", "context", "summary"},
         NEW parts, parts \subseteq Ready \X {"hunk", "context", "summary"},
         ~Has(parts, h, {"hunk", "context", "summary"})
  PROVE  TextOf(parts \union Part(h, "hunk") \union Part(h, kind)) =
           TextOf(parts) + (IF kind = "context" THEN ContextCost(h) ELSE 0)
                         + (IF kind = "summary" THEN SummaryCost ELSE 0)
<1> DEFINE w(P) == [c \in AllHunks |-> (IF <<c, "context">> \in P THEN ContextCost(c) ELSE 0)
                                + (IF <<c, "summary">> \in P THEN SummaryCost ELSE 0)]
           more == parts \union Part(h, "hunk") \union Part(h, kind)
           d == (IF kind = "context" THEN ContextCost(h) ELSE 0)
                  + (IF kind = "summary" THEN SummaryCost ELSE 0)
           s == w(parts)
           t == w(more)
<1>1. Files(pr) /\ Ready \subseteq AllHunks /\ SummaryCost \in Nat
  BY BundleShapes, BundleAssumption
<1>2. \A c \in Ready : ContextCost(c) \in Nat
  BY ContextIsNumber
<1>3. /\ \A k \in {"hunk", "context", "summary"} : <<h, k>> \notin parts
      /\ \A c : \A k : <<c, k>> \in parts => c \in Ready
  BY DEF Has
<1>4. \A c, k : <<c, k>> \in more <=> \/ <<c, k>> \in parts
                                      \/ c = h /\ k = "hunk"
                                      \/ c = h /\ k = kind /\ kind # "none"
  <2>1. \A c, k : <<c, k>> \in Part(h, "hunk") <=> c = h /\ k = "hunk"
    BY DEF Part
  <2>2. \A c, k : <<c, k>> \in Part(h, kind) <=> c = h /\ k = kind /\ kind # "none"
    BY DEF Part
  <2>3. \A x : x \in more <=> x \in parts \/ x \in Part(h, "hunk") \/ x \in Part(h, kind)
    OBVIOUS
  <2> HIDE DEF more
  <2> QED
    BY <2>1, <2>2, <2>3, Zenon
<1>5. \A c \in AllHunks : s[c] = (IF <<c, "context">> \in parts THEN ContextCost(c) ELSE 0)
                                + (IF <<c, "summary">> \in parts THEN SummaryCost ELSE 0)
  OBVIOUS
<1>6. \A c \in AllHunks : t[c] = (IF <<c, "context">> \in more THEN ContextCost(c) ELSE 0)
                                + (IF <<c, "summary">> \in more THEN SummaryCost ELSE 0)
  OBVIOUS
<1>7. s = [c \in AllHunks |-> s[c]] /\ t = [c \in AllHunks |-> t[c]]
  OBVIOUS
<1>8. TextOf(parts) = OverHunks(s) /\ TextOf(more) = OverHunks(t)
  BY Zenon DEF TextOf
<1> HIDE DEF s, t, more
<1>9. d \in Nat
  BY <1>1, <1>2
<1>10. ASSUME NEW c \in AllHunks PROVE s[c] \in Nat
  <2> DEFINE around == IF <<c, "context">> \in parts THEN ContextCost(c) ELSE 0
             summary == IF <<c, "summary">> \in parts THEN SummaryCost ELSE 0
  <2>1. around \in Nat
    BY <1>2, <1>3
  <2>2. summary \in Nat
    BY <1>1
  <2>3. s[c] = around + summary
    BY <1>5, Zenon
  <2> HIDE DEF around, summary
  <2> QED
    BY <2>1, <2>2, <2>3
<1>11. \A c \in AllHunks : c # h => t[c] = s[c]
  <2>1. \A c, k : c # h => (<<c, k>> \in more <=> <<c, k>> \in parts)
    BY <1>4
  <2> QED
    BY <1>5, <1>6, <2>1, Zenon
<1>12. s[h] = 0 /\ t[h] = d
  <2>1. h \in AllHunks /\ <<h, "context">> \notin parts /\ <<h, "summary">> \notin parts
    BY <1>1, <1>3
  <2>2. s[h] = 0
    BY <1>5, <2>1
  <2>3. (<<h, "context">> \in more <=> kind = "context") /\ (<<h, "summary">> \in more <=> kind = "summary")
    BY <1>4, <2>1
  <2>4. t[h] = d
    BY <1>6, <2>1, <2>3
  <2> QED
    BY <2>2, <2>4
<1> HIDE DEF d
<1>13. \A c \in AllHunks : t[c] = s[c] + (IF c = h THEN d ELSE 0)
  BY <1>9, <1>10, <1>11, <1>12
<1>14. s \in [AllHunks -> Nat] /\ t \in [AllHunks -> Nat]
  <2>1. \A c \in AllHunks : t[c] \in Nat
    BY <1>9, <1>10, <1>13
  <2>2. s \in [AllHunks -> Nat]
    BY <1>7, <1>10, Zenon
  <2>3. t \in [AllHunks -> Nat]
    BY <1>7, <2>1, Zenon
  <2> QED
    BY <2>2, <2>3
<1>15. h \in AllHunks
  BY <1>1
<1>16. OverHunks(t) = OverHunks(s) + d
  <2>1. \A g \in AllHunks, e \in Nat :
          (\A c \in AllHunks : t[c] = s[c] + (IF c = g THEN e ELSE 0)) =>
            OverHunks(t) = OverHunks(s) + e
    BY <1>1, <1>14, OverHunksFacts, Zenon
  <2> QED
    BY <1>9, <1>13, <1>15, <2>1, Zenon
<1>17. OverHunks(s) \in Nat
  BY <1>1, <1>14, OverHunksFacts
<1> QED
  <2>1. TextOf(more) = TextOf(parts) + d /\ TextOf(parts) \in Nat
    BY <1>8, <1>16, <1>17
  <2>2. (IF kind = "context" THEN ContextCost(h) ELSE 0) \in Nat
        /\ (IF kind = "summary" THEN SummaryCost ELSE 0) \in Nat
    BY <1>1, <1>2
  <2> QED
    BY <2>1, <2>2 DEF more, d

-----------------------------------------------------------------------------
(* Steps that leave part of the state alone *)

\* A sum over the hunks of these files.
OverFiles(fs, cost) ==
  SumOf([i \in DOMAIN fs |-> SumOf([k \in DOMAIN HunksOf(fs[i]) |-> cost[<<i, k>>]])])

\* The hunks of a pull request and their costs are fixed.
LEMMA PullRequestStands ==
  ASSUME FetchInv, UNCHANGED pr
  PROVE  /\ AllHunks' = AllHunks
         /\ ShownHunks' = HunksOfParts(shown')
         /\ CostOf(ShownHunks)' = CostOf(HunksOfParts(shown'))
         /\ shown' = {} => TextCost' = 0
         /\ UNCHANGED source => TextCost' = TextOf(shown')
<1>1. AllHunks' = AllHunks
  BY Zenon DEF AllHunks
<1>2. ShownHunks' = HunksOfParts(shown')
  BY <1>1, Zenon DEF ShownHunks, HunksOfParts
<1>3. CostOf(ShownHunks)' = CostOf(HunksOfParts(shown'))
  <2> DEFINE w(cs) == [c \in AllHunks |-> IF c \in cs THEN HunkCost(c) ELSE 0]
  <2>1. \A c : HunkCost(c)' = HunkCost(c)
    BY Zenon DEF HunkCost
  <2>2. CostOf(ShownHunks)' = OverFiles(pr', [c \in AllHunks' |-> IF c \in ShownHunks'
                                                               THEN HunkCost(c)' ELSE 0])
    BY Zenon DEF CostOf, OverHunks, OverFiles
  <2>3. [c \in AllHunks' |-> IF c \in ShownHunks' THEN HunkCost(c)' ELSE 0] = w(ShownHunks')
    BY <1>1, <2>1, Zenon
  <2>4. \A cs : CostOf(cs) = OverFiles(pr, w(cs))
    BY Zenon DEF CostOf, OverHunks, OverFiles
  <2> HIDE DEF w
  <2> QED
    BY <1>2, <2>2, <2>3, <2>4, Zenon
<1>4. ASSUME shown' = {} PROVE TextCost' = 0
  <2> DEFINE w == [c \in AllHunks |-> 0]
  <2>1. \A c : AroundCost(c)' = 0
    <3>1. \A c : <<c, "context">> \notin shown' /\ <<c, "summary">> \notin shown'
      BY <1>4
    <3>2. \A c : AroundCost(c)' = 0 + 0
      BY <3>1, Zenon DEF AroundCost
    <3> QED
      BY <3>2
  <2>2. [c \in AllHunks' |-> AroundCost(c)'] = w
    BY <1>1, <2>1, Zenon
  <2>3. TextCost' = OverHunks(w)
    <3>1. TextCost' = OverFiles(pr', [c \in AllHunks' |-> AroundCost(c)'])
      BY Zenon DEF TextCost, OverHunks, OverFiles
    <3>2. OverHunks(w) = OverFiles(pr, w)
      BY Zenon DEF OverHunks, OverFiles
    <3> HIDE DEF w
    <3> QED
      BY <2>2, <3>1, <3>2, Zenon
  <2>4. w \in [AllHunks -> Nat] /\ \A c \in AllHunks : w[c] = 0
    OBVIOUS
  <2>5. Files(pr)
    BY BundleShapes
  <2> HIDE DEF w
  <2> QED
    BY <2>3, <2>4, <2>5, OverHunksFacts
<1>5. ASSUME UNCHANGED source PROVE TextCost' = TextOf(shown')
  <2>1. \A c : ContextCost(c)' = ContextCost(c)
    BY <1>5, Zenon DEF ContextCost
  <2>2. \A c : AroundCost(c)' = (IF <<c, "context">> \in shown' THEN ContextCost(c) ELSE 0)
                                + (IF <<c, "summary">> \in shown' THEN SummaryCost ELSE 0)
    BY <2>1, Zenon DEF AroundCost
  <2> DEFINE w == [c \in AllHunks |->
                    (IF <<c, "context">> \in shown' THEN ContextCost(c) ELSE 0)
                    + (IF <<c, "summary">> \in shown' THEN SummaryCost ELSE 0)]
  <2>3. TextCost' = OverFiles(pr', [c \in AllHunks' |-> AroundCost(c)'])
    BY Zenon DEF TextCost, OverHunks, OverFiles
  <2>4. [c \in AllHunks' |-> AroundCost(c)'] = w
    BY <1>1, <2>2, Zenon
  <2>5. TextOf(shown') = OverFiles(pr, w)
    BY Zenon DEF TextOf, OverHunks, OverFiles
  <2> HIDE DEF w
  <2> QED
    BY <2>3, <2>4, <2>5, Zenon
<1> QED
  BY <1>1, <1>2, <1>3, <1>4, <1>5

\* The order of the hunks, of the next state.
LEMMA PrimedRisks ==
  ASSUME FetchInv, UNCHANGED <<pr, settings>>,
         \A d \in AllHunks : <<d, "hunk">> \in dropped' =>
           CostOf({c \in ShownHunks' : Score(pr, c) >= Score(pr, d)}) + HunkCost(d) > settings.hunks
  PROVE  RiskiestHunksFirst'
<1> DEFINE after(d) == {c \in ShownHunks' : Score(pr, c) >= Score(pr, d)}
           w(cs) == [c \in AllHunks |-> IF c \in cs THEN HunkCost(c) ELSE 0]
<1>1. AllHunks' = AllHunks /\ \A c : HunkCost(c)' = HunkCost(c)
  <2>1. \A c : HunkCost(c)' = HunkCost(c)
    BY Zenon DEF HunkCost
  <2> QED
    BY <2>1, PullRequestStands
<1>2. ASSUME NEW d \in AllHunks, <<d, "hunk">> \in dropped'
      PROVE  CostOf({c \in ShownHunks : Score(pr, c) >= Score(pr, d)})' + HunkCost(d)' > settings'.hunks
  <2> DEFINE r == after(d)
  <2>1. {c \in ShownHunks' : Score(pr', c) >= Score(pr', d)} = r
    BY Zenon
  <2>2. CostOf({c \in ShownHunks : Score(pr, c) >= Score(pr, d)})' =
          OverFiles(pr', [c \in AllHunks' |->
            IF c \in {e \in ShownHunks' : Score(pr', e) >= Score(pr', d)} THEN HunkCost(c)' ELSE 0])
    BY Zenon DEF CostOf, OverHunks, OverFiles
  <2>3. CostOf(r) = OverFiles(pr, w(r))
    BY Zenon DEF CostOf, OverHunks, OverFiles
  <2> HIDE DEF r
  <2>4. [c \in AllHunks' |->
           IF c \in {e \in ShownHunks' : Score(pr', e) >= Score(pr', d)} THEN HunkCost(c)' ELSE 0] = w(r)
    BY <1>1, <2>1, Zenon
  <2>5. CostOf(r) + HunkCost(d) > settings.hunks
    BY <1>2, Zenon DEF r
  <2> HIDE DEF w
  <2> QED
    BY <1>1, <2>2, <2>3, <2>4, <2>5, Zenon
<1> QED
  BY <1>1, <1>2, Zenon DEF RiskiestHunksFirst

\* No hunk was dropped and none was shown: the order of the hunks stands.
LEMMA RisksStand ==
  ASSUME FetchInv, RiskiestHunksFirst, UNCHANGED <<pr, settings, shown>>,
         \A c : <<c, "hunk">> \in dropped' => <<c, "hunk">> \in dropped
  PROVE  RiskiestHunksFirst'
<1>1. ShownHunks' = ShownHunks
  BY PullRequestStands, TextOfFacts
<1>2. \A d \in AllHunks : <<d, "hunk">> \in dropped' =>
        CostOf({c \in ShownHunks : Score(pr, c) >= Score(pr, d)}) + HunkCost(d) > settings.hunks
  BY Zenon DEF RiskiestHunksFirst
<1>3. \A d \in AllHunks : <<d, "hunk">> \in dropped' =>
        CostOf({c \in ShownHunks' : Score(pr, c) >= Score(pr, d)}) + HunkCost(d) > settings.hunks
  BY <1>1, <1>2, Zenon
<1> QED
  BY <1>3, PrimedRisks

\* Nothing is packed while files are fetched.
LEMMA NothingPackedYet ==
  ASSUME FetchInv, PackInv, BudgetInv, UNCHANGED <<pr, settings, shown, calls>>,
         shown = {}, DOMAIN used' = DOMAIN used,
         used'.hunks = used.hunks, used'.surroundings = used.surroundings
  PROVE  BudgetInv'
<1>1. used.hunks = CostOf(ShownHunks) /\ used.surroundings = TextCost
  BY DEF BudgetInv
<1>2. CostOf(ShownHunks)' = CostOf(ShownHunks) /\ TextCost = 0 /\ TextCost' = 0
  BY PullRequestStands, TextOfFacts
<1>3. used'.hunks = CostOf(ShownHunks)' /\ used'.surroundings = TextCost'
  BY <1>1, <1>2
<1> QED
  BY <1>3, Zenon DEF BudgetInv

\* Parts that are there stay there when parts are added.
LEMMA HasFacts ==
  /\ \A parts, c, kind : Has(parts, c, {kind}) <=> <<c, kind>> \in parts
  /\ \A parts, more, c, kinds : Has(parts, c, kinds) => Has(parts \union more, c, kinds)
BY DEF Has

-----------------------------------------------------------------------------
(* The steps before the packing *)

LEMMA StartsRight ==
  ASSUME BundleInit
  PROVE  BundleInv
<1>1. FetchInv
  <2>1. IsList(included) /\ Range(included) = {}
    BY EmptyList DEF BundleInit
  <2>2. /\ stage = "pick" /\ asked = {} /\ DOMAIN source = {} /\ note = FALSE /\ calls = 0
        /\ pr \in PullRequests /\ settings \in Settings
    BY DEF BundleInit
  <2>3. IsFiniteSet(asked) /\ Cardinality(asked \ DOMAIN source) <= Concurrency
    <3>1. asked = {} /\ asked \ DOMAIN source = {}
      BY <2>2
    <3> QED
      BY <3>1, FS_EmptySet, BundleAssumption
  <2>4. calls \in 0 .. settings.maxSummaries
    BY <2>2, BundleAssumption
  <2> QED
    BY <2>1, <2>2, <2>3, <2>4 DEF FetchInv, Before
<1>2. ScopeInv /\ DoneInv
  BY DEF BundleInit, ScopeInv, DoneInv
<1>3. QueueInv
  <2>1. queue = <<>> /\ IsList(queue) /\ Range(queue) = {} /\ DOMAIN queue = {}
    BY EmptyList DEF BundleInit
  <2> QED
    BY <2>1 DEF QueueInv
<1>4. shown = {} /\ dropped = {} /\ stage = "pick"
  BY DEF BundleInit
<1>5. PackInv
  BY <1>4, FS_EmptySet DEF PackInv, Before, Has
<1>6. RiskiestHunksFirst
  BY <1>4 DEF RiskiestHunksFirst
<1>7. BudgetInv
  <2>1. HunksOfParts({}) = {}
    BY DEF HunksOfParts
  <2>2. CostOf({}) = 0
    BY <1>1, CostOfFacts
  <2>3. TextCost = 0 /\ CostOf(ShownHunks) = 0
    <3>1. TextCost = TextOf(shown) /\ ShownHunks = HunksOfParts(shown) /\ TextOf({}) = 0
      BY <1>1, TextOfFacts
    <3> QED
      BY <1>4, <2>1, <2>2, <3>1, Zenon
  <2>4. Cardinality({p \in shown : p[2] = "summary"}) = 0
    <3>1. {p \in shown : p[2] = "summary"} = {}
      BY <1>4
    <3> QED
      BY <3>1, FS_EmptySet
  <2>5. /\ DOMAIN used = {"repo", "hunks", "surroundings", "anchors"}
        /\ used.hunks = 0 /\ used.surroundings = 0 /\ calls = 0
    BY DEF BundleInit
  <2>6. settings.hunks \in Nat /\ settings.surroundings \in Nat
    BY <1>1, BundleShapes
  <2> QED
    BY <2>3, <2>4, <2>5, <2>6 DEF BudgetInv
<1>8. RepoInv
  <2>1. RepoTokens(settings, {}) = 0 /\ settings.repo \in Nat
    <3>1. settings.repoTexts \in Seq(Nat) /\ settings.repo \in Nat
      BY <1>1, BundleShapes
    <3> QED
      BY <3>1, RepoTokensFacts
  <2>2. repo = {} /\ used.repo = 0 /\ used.anchors = 0 /\ anchors = {} /\ note = FALSE
    BY DEF BundleInit
  <2> QED
    BY <1>4, <2>1, <2>2, FS_EmptySet DEF RepoInv
<1> QED
  BY <1>1, <1>2, <1>3, <1>5, <1>6, <1>7, <1>8 DEF BundleInv

LEMMA PickStep ==
  ASSUME BundleInv, Pick
  PROVE  BundleInv'
<1>0. FetchInv /\ QueueInv /\ PackInv /\ BudgetInv /\ RiskiestHunksFirst /\ RepoInv
  BY DEF BundleInv
<1>1. /\ stage = "pick" /\ stage' = "fetch" /\ included' = PickFiles(pr, settings)
      /\ repo' = RepoKept(settings) /\ used' = [used EXCEPT !.repo = RepoTokens(settings, repo')]
      /\ dropped' = {<<<<n, 0>>, "repo">> : n \in DOMAIN settings.repoTexts \ repo'}
      /\ UNCHANGED <<pr, settings, asked, source, queue, shown, calls, anchors, note, pressure>>
  BY DEF Pick, inputs, report
<1>2. /\ Files(pr) /\ settings.threshold \in Nat /\ settings.repoTexts \in Seq(Nat)
      /\ settings.repo \in Nat
  BY <1>0, BundleShapes
<1>3. /\ IsList(included') /\ Range(included') \subseteq DOMAIN pr
      /\ Range(RankedFiles(pr)) # Range(included') =>
           settings.partial /\ ChangedIn(pr, DOMAIN pr) > settings.threshold
  BY <1>1, <1>2, PickFilesKeep
<1>4. /\ asked = {} /\ queue = <<>> /\ shown = {} /\ ~note
  BY <1>0, <1>1 DEF FetchInv, QueueInv, PackInv, RepoInv, Before
<1>5. FetchInv'
  <2>1. asked' = {} /\ DOMAIN source' = DOMAIN source /\ stage' = "fetch" /\ asked' \subseteq Range(included')
    BY <1>1, <1>4
  <2> QED
    BY <1>0, <1>1, <1>3, <2>1 DEF FetchInv, Before
<1>6. ScopeInv' /\ DoneInv'
  BY <1>1, <1>3 DEF ScopeInv, DoneInv
<1>7. QueueInv'
  <2>1. queue' = <<>> /\ IsList(<<>>) /\ Range(<<>>) = {} /\ DOMAIN <<>> = {}
    BY <1>1, <1>4, EmptyList
  <2> QED
    BY <2>1 DEF QueueInv
<1>8. \A c : ~Has(shown', c, {"hunk"}) /\ ~Has(dropped', c, {"hunk"}) /\ <<c, "hunk">> \notin dropped'
  <2>1. \A c : <<c, "hunk">> \notin dropped'
    BY <1>1
  <2> QED
    BY <1>1, <1>4, <2>1 DEF Has
<1>9. PackInv'
  BY <1>0, <1>1, <1>4, <1>8 DEF PackInv, Before
<1>10. RiskiestHunksFirst'
  BY <1>0, <1>1, <1>8, RisksStand
<1>11. DOMAIN used = {"repo", "hunks", "surroundings", "anchors"}
  BY <1>0 DEF BudgetInv
<1>12. BudgetInv'
  <2>1. /\ DOMAIN used' = DOMAIN used
        /\ used'.hunks = used.hunks /\ used'.surroundings = used.surroundings
    BY <1>1, <1>11
  <2> QED
    BY <1>0, <1>1, <1>4, <2>1, NothingPackedYet
<1>13. RepoInv'
  <2>1. RepoTokens(settings, repo') <= settings.repo /\ RepoTokens(settings, repo') \in Nat
    BY <1>1, <1>2, RepoKeptFits, RepoTokensFacts
  <2>2. \A n \in DOMAIN settings.repoTexts : n \in repo' \/ Has(dropped', <<n, 0>>, {"repo"})
    <3>1. \A n \in DOMAIN settings.repoTexts : n \notin repo' => <<<<n, 0>>, "repo">> \in dropped'
      BY <1>1
    <3>2. "repo" \in {"repo"}
      OBVIOUS
    <3> QED
      BY <3>1, <3>2, Zenon DEF Has
  <2>3. used'.repo = RepoTokens(settings, repo') /\ used'.anchors = used.anchors
    BY <1>1, <1>11
  <2>4. used.anchors = Cardinality(anchors) /\ ~note'
    BY <1>0, <1>1, <1>4 DEF RepoInv
  <2>5. used'.anchors = Cardinality(anchors') /\ settings' = settings
    BY <1>1, <2>3, <2>4
  <2>6. used'.repo = RepoTokens(settings', repo') + 0
    BY <2>1, <2>3, <2>5
  <2> QED
    BY <1>1, <2>1, <2>2, <2>4, <2>5, <2>6 DEF RepoInv
<1> QED
  BY <1>5, <1>6, <1>7, <1>9, <1>10, <1>12, <1>13 DEF BundleInv

\* What a fetch leaves alone.
LEMMA FetchesDisturbNothing ==
  ASSUME BundleInv, FetchInv', stage = "fetch",
         UNCHANGED <<pr, settings, stage, included, repo, queue, shown, dropped, used, calls, anchors,
                     note, pressure>>
  PROVE  BundleInv'
<1>0. /\ FetchInv /\ ScopeInv /\ QueueInv /\ PackInv /\ BudgetInv /\ RiskiestHunksFirst /\ RepoInv
      /\ DoneInv
  BY DEF BundleInv
<1>1. ScopeInv'
  BY <1>0, Zenon DEF ScopeInv
<1>2. queue = <<>> /\ shown = {}
  BY <1>0 DEF QueueInv, PackInv, Before
<1>3. QueueInv'
  <2>1. queue' = <<>> /\ IsList(<<>>) /\ Range(<<>>) = {} /\ DOMAIN <<>> = {}
    BY <1>2, EmptyList
  <2> QED
    BY <2>1 DEF QueueInv
<1>4. PackInv'
  <2>1. /\ stage' \in Before /\ shown' = {} /\ IsFiniteSet(shown')
        /\ \A c \in AllHunks : ~Has(shown, c, {"hunk"}) /\ ~Has(dropped, c, {"hunk"})
    BY <1>0, <1>2 DEF PackInv, Before
  <2>2. AllHunks' = AllHunks
    BY <1>0, PullRequestStands
  <2>3. \A c \in AllHunks' : ~Has(shown, c, {"hunk"})' /\ ~Has(dropped, c, {"hunk"})'
    BY <2>1, <2>2, Zenon DEF Has
  <2> QED
    BY <2>1, <2>3, Zenon DEF PackInv
<1>5. BudgetInv'
  BY <1>0, <1>2, NothingPackedYet
<1>6. RiskiestHunksFirst'
  BY <1>0, RisksStand
<1>7. RepoInv'
  BY <1>0, Zenon DEF RepoInv, Has
<1>8. DoneInv'
  BY DEF DoneInv
<1> QED
  BY <1>1, <1>3, <1>4, <1>5, <1>6, <1>7, <1>8 DEF BundleInv

LEMMA BeginFetchStep ==
  ASSUME BundleInv, BeginFetch
  PROVE  BundleInv'
<1>1. FetchInv
  BY DEF BundleInv
<1>2. PICK i \in Range(included) \ asked : asked' = asked \union {i}
  BY DEF BeginFetch
<1>3. /\ stage = "fetch" /\ Cardinality(asked \ DOMAIN source) < Concurrency
      /\ UNCHANGED <<pr, settings, stage, included, source, repo, queue, shown, dropped, used, calls,
                     anchors, note, pressure>>
  BY DEF BeginFetch, inputs, packed, report
<1>4. FetchInv'
  <2>1. /\ IsFiniteSet(asked') /\ Cardinality(asked' \ DOMAIN source') <= Concurrency
    <3> DEFINE open == asked \ DOMAIN source
    <3>1. asked' \ DOMAIN source' = open \union {i} /\ i \notin open
      BY <1>1, <1>2, <1>3 DEF FetchInv
    <3>2. IsFiniteSet(asked) /\ IsFiniteSet(asked')
      BY <1>1, <1>2, FS_AddElement DEF FetchInv
    <3>3. IsFiniteSet(open)
      BY <3>2, FS_Subset
    <3>4. Cardinality(open \union {i}) = Cardinality(open) + 1 /\ Cardinality(open) \in Nat
      BY <3>1, <3>3, FS_AddElement, FS_CardinalityType
    <3> HIDE DEF open
    <3>5. Cardinality(open \union {i}) <= Concurrency
      BY <1>3, <3>4, BundleAssumption DEF open
    <3> QED
      BY <3>1, <3>2, <3>5
  <2>2. asked' \subseteq Range(included') /\ DOMAIN source' \subseteq asked'
    BY <1>1, <1>2, <1>3 DEF FetchInv
  <2> QED
    BY <1>1, <1>3, <2>1, <2>2 DEF FetchInv, Before
<1> QED
  BY <1>3, <1>4, FetchesDisturbNothing

LEMMA EndFetchStep ==
  ASSUME BundleInv, EndFetch
  PROVE  BundleInv'
<1>1. FetchInv
  BY DEF BundleInv
<1>a. PICK i \in asked \ DOMAIN source : \E n \in pr[i].sizes \union {Missing} :
        source' = [j \in DOMAIN source \union {i} |-> IF j = i THEN n ELSE source[j]]
  BY DEF EndFetch
<1>2. PICK n \in pr[i].sizes \union {Missing} :
        source' = [j \in DOMAIN source \union {i} |-> IF j = i THEN n ELSE source[j]]
  BY <1>a
<1>3. /\ stage = "fetch"
      /\ UNCHANGED <<pr, settings, stage, included, asked, repo, queue, shown, dropped, used, calls,
                     anchors, note, pressure>>
  BY DEF EndFetch, inputs, packed, report
<1>4. n \in Nat \union {Missing}
  <2>1. i \in DOMAIN pr
    BY <1>1 DEF FetchInv
  <2> QED
    BY <1>1, <2>1, BundleShapes
<1>5. DOMAIN source' = DOMAIN source \union {i} /\ \A j \in DOMAIN source' : source'[j] \in Nat \union {Missing}
  BY <1>1, <1>2, <1>4 DEF FetchInv
<1>6. FetchInv'
  <2>1. IsFiniteSet(asked') /\ Cardinality(asked' \ DOMAIN source') <= Concurrency
    <3> DEFINE open == asked \ DOMAIN source
               rest == asked' \ DOMAIN source'
    <3>1. IsFiniteSet(asked) /\ asked' = asked /\ rest \subseteq open
      BY <1>1, <1>3, <1>5 DEF FetchInv
    <3>2. IsFiniteSet(open) /\ IsFiniteSet(rest)
      BY <3>1, FS_Subset
    <3> HIDE DEF open, rest
    <3>3. Cardinality(rest) <= Cardinality(open) /\ Cardinality(rest) \in Nat /\ Cardinality(open) \in Nat
      BY <3>1, <3>2, FS_Subset, FS_CardinalityType
    <3>4. Cardinality(open) <= Concurrency
      BY <1>1 DEF FetchInv, open
    <3>5. Cardinality(rest) <= Concurrency
      BY <3>3, <3>4, BundleAssumption
    <3> QED
      BY <3>1, <3>5 DEF rest
  <2>2. asked' \subseteq Range(included') /\ DOMAIN source' \subseteq asked'
    BY <1>1, <1>3, <1>5 DEF FetchInv
  <2> QED
    BY <1>1, <1>3, <1>5, <2>1, <2>2 DEF FetchInv, Before
<1> QED
  BY <1>3, <1>6, FetchesDisturbNothing

LEMMA RankHunksStep ==
  ASSUME BundleInv, RankHunks
  PROVE  BundleInv'
<1>0. /\ FetchInv /\ ScopeInv /\ QueueInv /\ PackInv /\ BudgetInv /\ RiskiestHunksFirst /\ RepoInv
      /\ DoneInv
  BY DEF BundleInv
<1>1. /\ stage = "fetch" /\ stage' = "pack" /\ DOMAIN source = Range(included)
      /\ queue' = RankedHunks(pr, included, source)
      /\ dropped' = dropped \union
           {<<<<i, 0>>, "fetch_failed">> : i \in {j \in DOMAIN source : source[j] = Missing}}
      /\ UNCHANGED <<pr, settings, included, asked, source, repo, shown, used, calls, anchors,
                     note, pressure>>
  BY DEF RankHunks, inputs, fetches, report
<1>2. Files(pr) /\ IsList(included) /\ Range(included) \subseteq DOMAIN pr
  BY <1>0, BundleShapes DEF FetchInv
<1>3. /\ IsList(queue') /\ Range(queue') = Ready
      /\ \A m, n \in DOMAIN queue' :
           m < n => queue'[m] # queue'[n] /\ Score(pr, queue'[m]) >= Score(pr, queue'[n])
  <2>1. LET ready == HunksIn(pr, {i \in Range(included) : source[i] # Missing})
            ranked == RankedHunks(pr, included, source)
        IN  /\ IsList(ranked) /\ Range(ranked) = ready
            /\ \A m, n \in DOMAIN ranked :
                 m < n => /\ ranked[m] # ranked[n]
                          /\ Score(pr, ranked[m]) >= Score(pr, ranked[n])
    BY <1>2, RankedHunksKeep, Zenon
  <2> QED
    BY <1>1, <2>1, Zenon DEF Ready
<1>4. shown = {} /\ Ready' = Ready /\ AllHunks' = AllHunks
  BY <1>0, <1>1, PullRequestStands, Zenon DEF PackInv, Before, Ready
<1>5. \A c : (<<c, "hunk">> \in dropped' => <<c, "hunk">> \in dropped)
  BY <1>1
<1>6. FetchInv'
  BY <1>0, <1>1 DEF FetchInv, Before
<1>7. ScopeInv' /\ DoneInv'
  BY <1>0, <1>1, Zenon DEF ScopeInv, DoneInv
<1>8. QueueInv'
  <2>1. \A c : ~Has(shown', c, {"hunk", "context", "summary"})
    BY <1>1, <1>4 DEF Has
  <2> QED
    BY <1>1, <1>3, <1>4, <2>1 DEF QueueInv
<1>9. PackInv'
  <2>1. \A c \in AllHunks : ~Has(shown', c, {"hunk"}) /\ ~Has(dropped', c, {"hunk"})
    <3>1. \A c \in AllHunks : ~Has(shown, c, {"hunk"}) /\ ~Has(dropped, c, {"hunk"})
      BY <1>0, <1>1 DEF PackInv, Before
    <3> QED
      BY <1>1, <1>5, <3>1, HasFacts, Zenon
  <2>2. \A i \in Range(included) : source[i] = Missing => Has(dropped', <<i, 0>>, {"fetch_failed"})
    <3>1. \A i \in Range(included) : source[i] = Missing => <<<<i, 0>>, "fetch_failed">> \in dropped'
      BY <1>1
    <3>2. "fetch_failed" \in {"fetch_failed"}
      OBVIOUS
    <3> QED
      BY <3>1, <3>2, Zenon DEF Has
  <2>3. Ready' \ Range(queue') = {}
    BY <1>3, <1>4
  <2>4. shown' = {} /\ IsFiniteSet(shown')
    BY <1>1, <1>4, FS_EmptySet
  <2> QED
    BY <1>1, <1>4, <2>1, <2>2, <2>3, <2>4 DEF PackInv
<1>10. BudgetInv' /\ RiskiestHunksFirst'
  BY <1>0, <1>1, <1>4, <1>5, NothingPackedYet, RisksStand
<1>11. RepoInv'
  <2>1. \A n \in DOMAIN settings.repoTexts : n \in repo' \/ Has(dropped', <<n, 0>>, {"repo"})
    <3>1. \A n \in DOMAIN settings.repoTexts : n \in repo \/ Has(dropped, <<n, 0>>, {"repo"})
      <4>1. stage # "pick"
        BY <1>1
      <4> QED
        BY <1>0, <4>1, Zenon DEF RepoInv
    <3> QED
      BY <1>1, <3>1, HasFacts, Zenon
  <2> QED
    BY <1>0, <1>1, <2>1, Zenon DEF RepoInv
<1> QED
  BY <1>6, <1>7, <1>8, <1>9, <1>10, <1>11 DEF BundleInv

-----------------------------------------------------------------------------
(* Packing a hunk *)

LEMMA HeadAndTail ==
  ASSUME NEW q, IsList(q), q # <<>>
  PROVE  /\ Len(q) \in Nat \ {0} /\ DOMAIN q = 1 .. Len(q) /\ Head(q) = q[1]
         /\ IsList(Tail(q)) /\ Len(Tail(q)) = Len(q) - 1 /\ DOMAIN Tail(q) = 1 .. Len(q) - 1
         /\ \A n \in 1 .. Len(q) - 1 : Tail(q)[n] = q[n + 1]
<1>1. Len(q) \in Nat /\ DOMAIN q = 1 .. Len(q) /\ Len(q) # 0
  BY DEF IsList
<1>2. Head(q) = q[1]
  BY DEF IsList
<1>3. /\ Len(Tail(q)) = Len(q) - 1 /\ DOMAIN Tail(q) = 1 .. Len(q) - 1
      /\ \A n \in 1 .. Len(q) - 1 : Tail(q)[n] = q[n + 1]
      /\ Tail(q) \in Seq(Range(q))
  BY <1>1 DEF IsList
<1>5. IsList(Tail(q))
  BY <1>3, ListOver
<1> QED
  BY <1>1, <1>2, <1>3, <1>5

\* The head of the queue is a hunk that is ready, at least as risky as those behind it, and
\* none of them.
LEMMA QueueTurns ==
  ASSUME FetchInv, QueueInv, queue # <<>>
  PROVE  /\ Head(queue) \in Range(queue) /\ Head(queue) \in Ready
         /\ ~Has(shown, Head(queue), {"hunk", "context", "summary"})
         /\ Head(queue) \notin Range(Tail(queue))
         /\ Range(queue) = {Head(queue)} \union Range(Tail(queue))
         /\ IsList(Tail(queue))
         /\ \A d \in Range(Tail(queue)) : Score(pr, Head(queue)) >= Score(pr, d)
         /\ \A m, n \in DOMAIN Tail(queue) :
              m < n => /\ Tail(queue)[m] # Tail(queue)[n]
                       /\ Score(pr, Tail(queue)[m]) >= Score(pr, Tail(queue)[n])
<1> DEFINE q == queue
           t == Tail(queue)
           h == Head(queue)
           N == Len(queue)
           Order(m, n) == q[m] # q[n] /\ Score(pr, q[m]) >= Score(pr, q[n])
<1>1. /\ N \in Nat \ {0} /\ DOMAIN q = 1 .. N /\ h = q[1] /\ IsList(t) /\ DOMAIN t = 1 .. N - 1
      /\ \A n \in 1 .. N - 1 : t[n] = q[n + 1]
  BY HeadAndTail DEF QueueInv
<1>2. \A m, n \in DOMAIN q : m < n => Order(m, n)
  BY DEF QueueInv
<1>3. \A c \in Range(q) : c \in Ready /\ ~Has(shown, c, {"hunk", "context", "summary"})
  BY DEF QueueInv
<1> HIDE DEF q, t, h, N, Order
<1>4. h \in Range(q)
  BY <1>1 DEF Range
<1>5. Range(q) = {h} \union Range(t)
  <2>1. ASSUME NEW n \in 1 .. N PROVE q[n] = h \/ q[n] \in Range(t)
    <3>1. CASE n = 1
      BY <1>1, <3>1
    <3>2. CASE n # 1
      <4>1. n - 1 \in 1 .. N - 1 /\ n - 1 + 1 = n
        BY <1>1, <2>1, <3>2
      <4>2. t[n - 1] = q[n - 1 + 1] /\ n - 1 \in DOMAIN t
        BY <1>1, <4>1
      <4>3. t[n - 1] = q[n]
        BY <4>1, <4>2
      <4> QED
        BY <4>2, <4>3 DEF Range
    <3> QED
      BY <3>1, <3>2
  <2>2. \A n \in 1 .. N - 1 : t[n] \in Range(q)
    <3>1. \A n \in 1 .. N - 1 : n + 1 \in DOMAIN q
      BY <1>1
    <3> QED
      BY <1>1, <3>1 DEF Range
  <2>3. Range(q) \subseteq {h} \union Range(t)
    BY <1>1, <2>1 DEF Range
  <2>4. {h} \union Range(t) \subseteq Range(q)
    BY <1>1, <1>4, <2>2 DEF Range
  <2> QED
    BY <2>3, <2>4
<1>6. \A n \in 1 .. N - 1 : h # t[n] /\ Score(pr, h) >= Score(pr, t[n])
  <2>1. \A n \in 1 .. N - 1 : 1 \in DOMAIN q /\ n + 1 \in DOMAIN q /\ 1 < n + 1
    BY <1>1
  <2>2. \A n \in 1 .. N - 1 : Order(1, n + 1)
    BY <1>2, <2>1
  <2> QED
    BY <1>1, <2>2, Zenon DEF Order
<1>7. h \notin Range(t) /\ \A d \in Range(t) : Score(pr, h) >= Score(pr, d)
  BY <1>1, <1>6 DEF Range
<1>8. \A m, n \in DOMAIN t : m < n => t[m] # t[n] /\ Score(pr, t[m]) >= Score(pr, t[n])
  <2>1. \A m, n \in 1 .. N - 1 : m < n => m + 1 \in DOMAIN q /\ n + 1 \in DOMAIN q /\ m + 1 < n + 1
    BY <1>1
  <2>2. \A m, n \in 1 .. N - 1 : m < n => Order(m + 1, n + 1)
    BY <1>2, <2>1
  <2> QED
    BY <1>1, <2>2, Zenon DEF Order
<1> QED
  BY <1>1, <1>3, <1>4, <1>5, <1>7, <1>8, Zenon DEF q, t, h

\* What a turn of the packing loop keeps, whatever becomes of the hunk.
LEMMA TurnKeeps ==
  ASSUME BundleInv, PackHunk, NEW h, h = Head(queue),
         shown \subseteq shown', dropped \subseteq dropped',
         \A c, kind : c # h /\ <<c, kind>> \in shown' => <<c, kind>> \in shown,
         \A c, kind : c # h /\ <<c, kind>> \in dropped' => <<c, kind>> \in dropped,
         shown' \subseteq Ready \X {"hunk", "context", "summary"}, IsFiniteSet(shown'),
         calls' \in 0 .. settings.maxSummaries,
         used'.repo = used.repo, used'.anchors = used.anchors,
         \/ Has(dropped', h, {"hunk"})
         \/ /\ Has(shown', h, {"hunk"})
            /\ \/ Has(shown', h, {"context", "summary"})
               \/ Has(dropped', h, {"context", "summary", "summary_cap"})
               \/ ContextCost(h) = 0 \/ IsGenerated(pr[h[1]]) \/ Is(pr[h[1]], "lockfile")
  PROVE  FetchInv' /\ ScopeInv' /\ QueueInv' /\ PackInv' /\ RepoInv' /\ DoneInv'
<1>0. FetchInv /\ ScopeInv /\ QueueInv /\ PackInv /\ RepoInv /\ DoneInv
  BY DEF BundleInv
<1>1. /\ stage = "pack" /\ queue # <<>> /\ queue' = Tail(queue)
      /\ UNCHANGED <<pr, settings, stage, included, asked, source, repo, anchors, note, pressure>>
  BY DEF PackHunk, inputs, fetches, report
<1>2. /\ h \in Range(queue) /\ h \in Ready /\ h \notin Range(queue')
      /\ Range(queue) = {h} \union Range(queue') /\ IsList(queue')
      /\ \A d \in Range(queue') : Score(pr, h) >= Score(pr, d)
      /\ \A m, n \in DOMAIN queue' :
           m < n => queue'[m] # queue'[n] /\ Score(pr, queue'[m]) >= Score(pr, queue'[n])
  BY <1>0, <1>1, QueueTurns
<1>3. Ready' = Ready /\ AllHunks' = AllHunks
  BY <1>0, <1>1, PullRequestStands, Zenon DEF Ready
<1>4. stage \notin Before /\ stage # "pick" /\ stage # "done"
  BY <1>1 DEF Before
<1>5. FetchInv'
  BY <1>0, <1>1 DEF FetchInv
<1>6. ScopeInv' /\ DoneInv'
  BY <1>0, <1>1, <1>4, Zenon DEF ScopeInv, DoneInv
<1>7. \A c, kinds : Has(shown, c, kinds) => Has(shown', c, kinds)
  BY Zenon DEF Has
<1>8. \A c, kinds : Has(dropped, c, kinds) => Has(dropped', c, kinds)
  BY Zenon DEF Has
<1>9. \A c, kinds : c # h /\ Has(shown', c, kinds) => Has(shown, c, kinds)
  BY Zenon DEF Has
<1>10. QueueInv'
  <2>1. \A c \in Range(queue') : c \in Ready /\ ~Has(shown', c, {"hunk", "context", "summary"})
    <3>1. \A c \in Range(queue') : c \in Range(queue) /\ c # h
      BY <1>2
    <3>2. \A c \in Range(queue) : c \in Ready /\ ~Has(shown, c, {"hunk", "context", "summary"})
      BY <1>0, Zenon DEF QueueInv
    <3> QED
      BY <1>9, <3>1, <3>2, Zenon
  <2>2. stage' # "pack" => queue' = <<>>
    BY <1>1
  <2>3. \A c \in Range(queue') : c \in Ready' /\ ~Has(shown, c, {"hunk", "context", "summary"})'
    BY <1>3, <2>1, Zenon DEF Has
  <2>4. \A m, n \in DOMAIN queue' :
          m < n => queue'[m] # queue'[n] /\ Score(pr', queue'[m]) >= Score(pr', queue'[n])
    BY <1>1, <1>2, Zenon
  <2> QED
    BY <1>2, <2>2, <2>3, <2>4, Zenon DEF QueueInv
<1>11. PackInv'
  <2>1. \A c \in Ready' \ Range(queue') : Packed(c)'
    <3>1. ASSUME NEW c \in Ready \ Range(queue'), c # h PROVE Packed(c)'
      <4>1. Packed(c)
        BY <1>0, <1>2, <1>4, <3>1 DEF PackInv
      <4>2. ContextCost(c)' = ContextCost(c)
        BY <1>1, Zenon DEF ContextCost
      <4> QED
        BY <1>1, <1>7, <1>8, <4>1, <4>2, Zenon DEF Packed, Has
    <3>2. Packed(h)'
      <4>1. ContextCost(h)' = ContextCost(h)
        BY <1>1, Zenon DEF ContextCost
      <4> QED
        BY <1>1, <4>1, Zenon DEF Packed, Has
    <3> QED
      BY <1>3, <3>1, <3>2, Zenon
  <2>2. \A i \in Range(included) : source[i] = Missing => Has(dropped', <<i, 0>>, {"fetch_failed"})
    BY <1>0, <1>4, <1>8, Zenon DEF PackInv
  <2>3. ASSUME NEW c \in AllHunks, Has(shown', c, {"hunk"}) \/ Has(dropped', c, {"hunk"})
        PROVE  \A d \in Range(queue') : Score(pr, c) >= Score(pr, d)
    <3>1. CASE c = h
      BY <1>2, <3>1
    <3>2. CASE c # h
      <4>1. Has(shown, c, {"hunk"}) \/ Has(dropped, c, {"hunk"})
        BY <2>3, <3>2, Zenon DEF Has
      <4>2. \A d \in Range(queue) : Score(pr, c) >= Score(pr, d)
        BY <1>0, <4>1, Zenon DEF PackInv
      <4> QED
        BY <1>2, <4>2
    <3> QED
      BY <3>1, <3>2
  <2> QED
    BY <1>1, <1>3, <1>4, <2>1, <2>2, <2>3, Zenon DEF PackInv, Has
<1>12. RepoInv'
  <2>1. \A n \in DOMAIN settings.repoTexts : n \in repo \/ Has(dropped', <<n, 0>>, {"repo"})
    BY <1>0, <1>4, <1>8, Zenon DEF RepoInv
  <2> QED
    BY <1>0, <1>1, <1>4, <2>1, Zenon DEF RepoInv, Has
<1> QED
  BY <1>5, <1>6, <1>10, <1>11, <1>12

LEMMA DropStep ==
  ASSUME BundleInv, PackHunk, DropHunk(Head(queue))
  PROVE  BundleInv'
<1>0. FetchInv /\ QueueInv /\ PackInv /\ BudgetInv /\ RiskiestHunksFirst
  BY DEF BundleInv
<1>1. /\ stage = "pack" /\ queue # <<>>
      /\ UNCHANGED <<pr, settings, source>>
  BY DEF PackHunk, inputs, fetches
<1>2. PICK h : h = Head(queue)
  OBVIOUS
<1>3. /\ used.hunks + HunkCost(h) > settings.hunks /\ dropped' = dropped \union Part(h, "hunk")
      /\ UNCHANGED <<shown, used, calls>>
  BY <1>2 DEF DropHunk
<1>4. h \in Range(queue) /\ h \in Ready
  BY <1>0, <1>1, <1>2, QueueTurns
<1>5. \A c, kind : <<c, kind>> \in dropped' <=> <<c, kind>> \in dropped \/ (c = h /\ kind = "hunk")
  BY <1>3 DEF Part
<1>6. FetchInv' /\ ScopeInv' /\ QueueInv' /\ PackInv' /\ RepoInv' /\ DoneInv'
  <2>1. Has(dropped', h, {"hunk"})
    BY <1>5, HasFacts
  <2>2. /\ shown \subseteq shown' /\ dropped \subseteq dropped'
        /\ \A c, kind : c # h /\ <<c, kind>> \in shown' => <<c, kind>> \in shown
        /\ \A c, kind : c # h /\ <<c, kind>> \in dropped' => <<c, kind>> \in dropped
    BY <1>3, <1>5
  <2>3. shown' \subseteq Ready \X {"hunk", "context", "summary"} /\ IsFiniteSet(shown')
    BY <1>0, <1>1, <1>3 DEF PackInv, Before
  <2>4. calls' \in 0 .. settings.maxSummaries
    BY <1>0, <1>3 DEF FetchInv
  <2> QED
    BY <1>2, <1>3, <2>1, <2>2, <2>3, <2>4, TurnKeeps
<1>7. BudgetInv'
  <2>1. CostOf(ShownHunks)' = CostOf(ShownHunks) /\ TextCost' = TextCost
    BY <1>0, <1>1, <1>3, PullRequestStands, TextOfFacts
  <2> QED
    BY <1>0, <1>1, <1>3, <2>1, Zenon DEF BudgetInv
<1>8. RiskiestHunksFirst'
  <2> DEFINE rivals(d) == {c \in ShownHunks : Score(pr, c) >= Score(pr, d)}
  <2>1. AllHunks' = AllHunks /\ ShownHunks' = ShownHunks
    BY <1>0, <1>1, <1>3, PullRequestStands, TextOfFacts
  <2>2. ASSUME NEW d \in AllHunks, <<d, "hunk">> \in dropped'
        PROVE  CostOf(rivals(d)) + HunkCost(d) > settings.hunks
    <3>1. CASE <<d, "hunk">> \in dropped
      BY <1>0, <3>1, Zenon DEF RiskiestHunksFirst
    <3>2. CASE d = h
      <4>1. \A c \in ShownHunks : Score(pr, c) >= Score(pr, h)
        BY <1>0, <1>4, HasFacts DEF PackInv, ShownHunks
      <4>2. rivals(d) = ShownHunks
        BY <3>2, <4>1
      <4>3. used.hunks = CostOf(ShownHunks)
        BY <1>0 DEF BudgetInv
      <4> HIDE DEF rivals
      <4> QED
        BY <1>3, <3>2, <4>2, <4>3
    <3> QED
      BY <1>5, <2>2, <3>1, <3>2
  <2> QED
    BY <1>0, <1>1, <1>3, <2>1, <2>2, PrimedRisks
<1> QED
  BY <1>6, <1>7, <1>8 DEF BundleInv

\* One part more of a kind.
LEMMA SummariesCounted ==
  ASSUME NEW parts, IsFiniteSet(parts), NEW h, NEW kind \in {"none", "context", "summary"},
         NEW n \in Nat, Cardinality({p \in parts : p[2] = "summary"}) <= n
  PROVE  LET more == parts \union Part(h, "hunk") \union Part(h, kind)
         IN /\ IsFiniteSet(more)
            /\ Cardinality({p \in more : p[2] = "summary"}) <= IF kind = "summary" THEN n + 1 ELSE n
<1> DEFINE more == parts \union Part(h, "hunk") \union Part(h, kind)
           S == {p \in parts : p[2] = "summary"}
           T == {p \in more : p[2] = "summary"}
<1>1. Part(h, "hunk") = {<<h, "hunk">>} /\ Part(h, kind) \in {{}, {<<h, kind>>}}
  BY DEF Part
<1>2. IsFiniteSet(more)
  <2>1. IsFiniteSet(Part(h, "hunk")) /\ IsFiniteSet(Part(h, kind))
    <3>1. \A x : IsFiniteSet({x}) /\ IsFiniteSet({})
      BY FS_Singleton, FS_EmptySet
    <3>2. Part(h, kind) = {} \/ Part(h, kind) = {<<h, kind>>}
      BY <1>1
    <3> QED
      BY <1>1, <3>1, <3>2, Zenon
  <2> QED
    BY <2>1, FS_Union
<1>3. IsFiniteSet(S) /\ IsFiniteSet(T)
  <2>1. S \subseteq parts /\ T \subseteq more
    OBVIOUS
  <2> HIDE DEF S, T, more
  <2> QED
    BY <1>2, <2>1, FS_Subset
<1>4. T \subseteq S \union {<<h, "summary">>}
  BY <1>1
<1>5. kind # "summary" => T \subseteq S
  BY <1>1
<1>6. Cardinality(S) \in Nat /\ Cardinality(T) \in Nat /\ Cardinality(S) <= n
  BY <1>3, FS_CardinalityType
<1> HIDE DEF S, T
<1>7. CASE kind = "summary"
  <2> DEFINE U == S \union {<<h, "summary">>}
  <2>1. IsFiniteSet(U) /\ Cardinality(U) <= Cardinality(S) + 1 /\ Cardinality(U) \in Nat
    <3> DEFINE x == <<h, "summary">>
    <3> HIDE DEF x
    <3>1. /\ IsFiniteSet(S \union {x})
          /\ Cardinality(S \union {x}) = IF x \in S THEN Cardinality(S) ELSE Cardinality(S) + 1
      BY <1>3, FS_AddElement
    <3>2. Cardinality(S \union {x}) <= Cardinality(S) + 1 /\ Cardinality(S \union {x}) \in Nat
      BY <1>6, <3>1
    <3> QED
      BY <3>1, <3>2, Zenon DEF x
  <2>2. T \subseteq U
    BY <1>4
  <2> HIDE DEF U
  <2>3. Cardinality(T) <= Cardinality(U)
    BY <2>1, <2>2, FS_Subset
  <2>4. Cardinality(T) <= n + 1
    BY <1>6, <2>1, <2>3
  <2> QED
    BY <1>2, <1>7, <2>4 DEF T
<1>8. CASE kind # "summary"
  <2>1. Cardinality(T) <= Cardinality(S)
    BY <1>3, <1>5, <1>8, FS_Subset
  <2>2. Cardinality(T) <= n
    BY <1>6, <2>1
  <2> QED
    BY <1>2, <1>8, <2>2 DEF T
<1> QED
  BY <1>7, <1>8

LEMMA ShowStep ==
  ASSUME BundleInv, PackHunk, ShowHunk(Head(queue))
  PROVE  BundleInv'
<1>0. FetchInv /\ QueueInv /\ PackInv /\ BudgetInv /\ RiskiestHunksFirst
  BY DEF BundleInv
<1>1. /\ stage = "pack" /\ queue # <<>> /\ stage \notin Before
      /\ UNCHANGED <<pr, settings, source>>
  BY DEF PackHunk, inputs, fetches, Before
<1>2. PICK h : h = Head(queue)
  OBVIOUS
<1>3. PICK a : a = Surround(h)
  OBVIOUS
<1>4. /\ used.hunks + HunkCost(h) <= settings.hunks
      /\ shown' = shown \union Part(h, "hunk") \union Part(h, a.part)
      /\ dropped' = dropped \union Part(h, a.lost)
      /\ used' = [used EXCEPT !.hunks = @ + HunkCost(h), !.surroundings = a.spent]
      /\ calls' = a.calls
  BY <1>2, <1>3 DEF ShowHunk
<1>5. h \in Ready /\ h \in AllHunks /\ ~Has(shown, h, {"hunk", "context", "summary"})
  BY <1>0, <1>1, <1>2, QueueTurns, BundleShapes
<1>6. /\ DOMAIN used = {"repo", "hunks", "surroundings", "anchors"}
      /\ used.hunks = CostOf(ShownHunks) /\ used.surroundings = TextCost
      /\ used.surroundings <= settings.surroundings
  BY <1>0 DEF BudgetInv
<1>7. /\ shown \subseteq Ready \X {"hunk", "context", "summary"} /\ IsFiniteSet(shown)
  BY <1>0, <1>1 DEF PackInv
<1>8. /\ TextCost = TextOf(shown) /\ ShownHunks = HunksOfParts(shown)
      /\ CostOf(ShownHunks) \in Nat /\ HunkCost(h) \in Nat
  BY <1>0, <1>5, TextOfFacts, CostOfFacts, HunkFacts
<1>9. used.surroundings \in Nat
  <2>1. TextOf(shown) \in Nat
    BY <1>0, <1>1, <1>7, TextIsNumber
  <2> QED
    BY <1>6, <1>8, <2>1
<1>10. /\ a.part \in {"none", "context", "summary"}
       /\ a.lost \in {"none", "context", "summary_cap", "summary"}
       /\ a.calls \in Nat /\ a.calls <= settings.maxSummaries
       /\ a.calls = calls + 1 \/ (a.calls = calls /\ a.part # "summary")
       /\ a.spent = used.surroundings + (IF a.part = "context" THEN ContextCost(h) ELSE 0)
                      + (IF a.part = "summary" THEN SummaryCost ELSE 0)
       /\ a.spent <= settings.surroundings
       /\ \/ a.part # "none" \/ a.lost # "none"
          \/ ContextCost(h) = 0 \/ IsGenerated(pr[h[1]]) \/ Is(pr[h[1]], "lockfile")
  BY <1>0, <1>1, <1>3, <1>5, <1>6, <1>9, SurroundFacts, Zenon
<1>11. \A c, kind : <<c, kind>> \in shown' <=> \/ <<c, kind>> \in shown
                                               \/ c = h /\ kind = "hunk"
                                               \/ c = h /\ kind = a.part /\ kind # "none"
  <2>1. \A x : x \in shown' <=> x \in shown \/ x \in Part(h, "hunk") \/ x \in Part(h, a.part)
    BY <1>4
  <2>2. \A c, kind : <<c, kind>> \in Part(h, "hunk") <=> c = h /\ kind = "hunk"
    BY DEF Part
  <2>3. \A c, kind : <<c, kind>> \in Part(h, a.part) <=> c = h /\ kind = a.part /\ kind # "none"
    BY DEF Part
  <2> QED
    BY <2>1, <2>2, <2>3, Zenon
<1>12. \A c, kind : <<c, kind>> \in dropped' <=> \/ <<c, kind>> \in dropped
                                                 \/ c = h /\ kind = a.lost /\ kind # "none"
  <2>1. \A x : x \in dropped' <=> x \in dropped \/ x \in Part(h, a.lost)
    BY <1>4
  <2>2. \A c, kind : <<c, kind>> \in Part(h, a.lost) <=> c = h /\ kind = a.lost /\ kind # "none"
    BY DEF Part
  <2> QED
    BY <2>1, <2>2, Zenon
<1>13. used'.hunks = used.hunks + HunkCost(h) /\ used'.surroundings = a.spent
       /\ used'.repo = used.repo /\ used'.anchors = used.anchors /\ DOMAIN used' = DOMAIN used
  BY <1>4, <1>6
<1>14. IsFiniteSet(shown') /\ Cardinality({p \in shown' : p[2] = "summary"}) <= calls'
  <2> DEFINE part == a.part
  <2>1. calls \in Nat /\ Cardinality({p \in shown : p[2] = "summary"}) <= calls
    BY <1>0, BundleShapes DEF FetchInv, BudgetInv
  <2>2. part \in {"none", "context", "summary"} /\ shown' = shown \union Part(h, "hunk") \union Part(h, part)
    BY <1>4, <1>10
  <2> HIDE DEF part
  <2>3. /\ IsFiniteSet(shown')
        /\ Cardinality({p \in shown' : p[2] = "summary"}) <= IF part = "summary" THEN calls + 1 ELSE calls
    BY <1>7, <2>1, <2>2, SummariesCounted
  <2>4. Cardinality({p \in shown' : p[2] = "summary"}) \in Nat
    BY <2>3, FS_Subset, FS_CardinalityType
  <2>5. (IF part = "summary" THEN calls + 1 ELSE calls) <= calls'
    BY <1>4, <1>10, <2>1 DEF part
  <2> DEFINE k == Cardinality({p \in shown' : p[2] = "summary"})
             b == IF part = "summary" THEN calls + 1 ELSE calls
  <2>6. k \in Nat /\ b \in Nat /\ calls' \in Nat /\ k <= b /\ b <= calls'
    BY <1>4, <1>10, <2>1, <2>3, <2>4, <2>5
  <2> HIDE DEF k, b
  <2>7. k <= calls'
    BY <2>6
  <2> QED
    BY <2>3, <2>7 DEF k
<1>15. shown' \subseteq Ready \X {"hunk", "context", "summary"}
  <2>1. Part(h, "hunk") \subseteq Ready \X {"hunk", "context", "summary"}
    BY <1>5 DEF Part
  <2>2. Part(h, a.part) \subseteq Ready \X {"hunk", "context", "summary"}
    BY <1>5, <1>10 DEF Part
  <2> QED
    BY <1>4, <1>7, <2>1, <2>2
<1>16. FetchInv' /\ ScopeInv' /\ QueueInv' /\ PackInv' /\ RepoInv' /\ DoneInv'
  <2>1. /\ shown \subseteq shown' /\ dropped \subseteq dropped'
        /\ \A c, kind : c # h /\ <<c, kind>> \in shown' => <<c, kind>> \in shown
        /\ \A c, kind : c # h /\ <<c, kind>> \in dropped' => <<c, kind>> \in dropped
    BY <1>4, <1>11, <1>12
  <2>2. calls' \in 0 .. settings.maxSummaries
    BY <1>0, <1>4, <1>10, BundleShapes
  <2>3. Has(shown', h, {"hunk"})
    BY <1>11, HasFacts
  <2>4. a.part # "none" => Has(shown', h, {"context", "summary"})
    <3>1. a.part # "none" => <<h, a.part>> \in shown' /\ a.part \in {"context", "summary"}
      BY <1>10, <1>11
    <3> QED
      BY <3>1, Zenon DEF Has
  <2>5. a.lost # "none" => Has(dropped', h, {"context", "summary", "summary_cap"})
    <3>1. a.lost # "none" => <<h, a.lost>> \in dropped' /\ a.lost \in {"context", "summary", "summary_cap"}
      BY <1>10, <1>12
    <3> QED
      BY <3>1, Zenon DEF Has
  <2>6. \/ Has(dropped', h, {"hunk"})
        \/ /\ Has(shown', h, {"hunk"})
           /\ \/ Has(shown', h, {"context", "summary"})
              \/ Has(dropped', h, {"context", "summary", "summary_cap"})
              \/ ContextCost(h) = 0 \/ IsGenerated(pr[h[1]]) \/ Is(pr[h[1]], "lockfile")
    BY <1>10, <2>3, <2>4, <2>5, Zenon
  <2> QED
    BY <1>2, <1>13, <1>14, <1>15, <2>1, <2>2, <2>6, TurnKeeps
<1>17. HunksOfParts(shown') = ShownHunks \union {h} /\ h \notin ShownHunks
  <2>1. <<h, "hunk">> \notin shown
    BY <1>5 DEF Has
  <2>2. \A c \in AllHunks : <<c, "hunk">> \in shown' <=> <<c, "hunk">> \in shown \/ c = h
    BY <1>10, <1>11
  <2> QED
    BY <1>5, <2>1, <2>2 DEF HunksOfParts, ShownHunks
<1>18. BudgetInv'
  <2>1. CostOf(ShownHunks)' = used'.hunks
    <3>1. CostOf(ShownHunks)' = CostOf(ShownHunks \union {h})
      BY <1>0, <1>1, <1>17, PullRequestStands, Zenon
    <3>2. CostOf(ShownHunks \union {h}) = CostOf(ShownHunks) + HunkCost(h)
      BY <1>0, <1>5, <1>17, CostOfFacts
    <3> QED
      BY <1>6, <1>13, <3>1, <3>2
  <2>2. TextCost' = used'.surroundings
    <3> DEFINE part == a.part
    <3>1. TextCost' = TextOf(shown')
      BY <1>0, <1>1, PullRequestStands
    <3>2. part \in {"none", "context", "summary"} /\ shown' = shown \union Part(h, "hunk") \union Part(h, part)
      BY <1>4, <1>10
    <3>3. TextOf(shown \union Part(h, "hunk") \union Part(h, part)) =
            TextOf(shown) + (IF part = "context" THEN ContextCost(h) ELSE 0)
                          + (IF part = "summary" THEN SummaryCost ELSE 0)
      <4> HIDE DEF part
      <4> QED
        BY <1>0, <1>1, <1>5, <1>7, <3>2, TextGrows
    <3>4. TextOf(shown') = a.spent
      BY <1>6, <1>8, <1>10, <3>2, <3>3, Zenon
    <3> QED
      BY <1>13, <3>1, <3>4
  <2>3. used'.hunks <= settings'.hunks /\ used'.surroundings <= settings'.surroundings
    BY <1>1, <1>4, <1>10, <1>13
  <2> QED
    BY <1>6, <1>13, <1>14, <2>1, <2>2, <2>3, Zenon DEF BudgetInv
<1>19. RiskiestHunksFirst'
  <2> DEFINE rivals(cs, d) == {c \in cs : Score(pr, c) >= Score(pr, d)}
  <2>1. ShownHunks' = ShownHunks \union {h}
    BY <1>0, <1>1, <1>17, PullRequestStands
  <2>2. ASSUME NEW d \in AllHunks, <<d, "hunk">> \in dropped'
        PROVE  CostOf(rivals(ShownHunks', d)) + HunkCost(d) > settings.hunks
    <3>1. <<d, "hunk">> \in dropped
      BY <1>10, <1>12, <2>2
    <3>2. CostOf(rivals(ShownHunks, d)) + HunkCost(d) > settings.hunks
      BY <1>0, <3>1, Zenon DEF RiskiestHunksFirst
    <3>3. rivals(ShownHunks, d) \subseteq rivals(ShownHunks', d)
      BY <2>1
    <3> DEFINE r == rivals(ShownHunks, d)
               s == rivals(ShownHunks', d)
    <3>4. r \subseteq s /\ CostOf(r) + HunkCost(d) > settings.hunks
      BY <3>2, <3>3
    <3> HIDE DEF r, s
    <3>5. CostOf(r) <= CostOf(s) /\ CostOf(r) \in Nat /\ CostOf(s) \in Nat
      BY <1>0, <3>4, CostOfFacts
    <3>6. HunkCost(d) \in Nat /\ settings.hunks \in Nat
      BY <1>0, HunkFacts, BundleShapes
    <3>7. CostOf(s) + HunkCost(d) > settings.hunks
      BY <3>4, <3>5, <3>6
    <3> QED
      BY <3>7, Zenon DEF s
  <2> QED
    BY <1>0, <1>1, <2>2, PrimedRisks
<1> QED
  BY <1>16, <1>18, <1>19 DEF BundleInv

-----------------------------------------------------------------------------
(* The steps after the packing *)

\* What was packed stands.
LEMMA PackedStands ==
  ASSUME BundleInv,
         UNCHANGED <<pr, settings, included, asked, source, queue, shown, dropped, calls>>,
         DOMAIN used' = DOMAIN used, used'.hunks = used.hunks,
         used'.surroundings = used.surroundings,
         \/ stage' = stage
         \/ stage \notin Before /\ stage' \in {"note", "done"} /\ queue = <<>>
  PROVE  ScopeInv' /\ QueueInv' /\ PackInv' /\ BudgetInv' /\ RiskiestHunksFirst'
<1>0. FetchInv /\ ScopeInv /\ QueueInv /\ PackInv /\ BudgetInv /\ RiskiestHunksFirst
  BY DEF BundleInv
<1>1. /\ stage' \in Before <=> stage \in Before
      /\ stage' # "pick" => stage # "pick"
      /\ stage' # "pack" => stage # "pack" \/ queue = <<>>
  BY DEF Before
<1>2. Ready' = Ready /\ AllHunks' = AllHunks
  BY <1>0, PullRequestStands, Zenon DEF Ready
<1>3. ScopeInv'
  BY <1>0, <1>1, Zenon DEF ScopeInv
<1>4. QueueInv'
  <2>1. stage' # "pack" => queue' = <<>>
    BY <1>0, <1>1, Zenon DEF QueueInv
  <2>2. \A c \in Range(queue') : c \in Ready' /\ ~Has(shown, c, {"hunk", "context", "summary"})'
    BY <1>0, <1>2, Zenon DEF QueueInv, Has
  <2>3. /\ IsList(queue')
        /\ \A m, n \in DOMAIN queue' :
             m < n => queue'[m] # queue'[n] /\ Score(pr', queue'[m]) >= Score(pr', queue'[n])
    BY <1>0, Zenon DEF QueueInv
  <2> QED
    BY <2>1, <2>2, <2>3, Zenon DEF QueueInv
<1>5. PackInv'
  <2>1. ASSUME NEW c PROVE Packed(c)' <=> Packed(c)
    <3>1. ContextCost(c)' = ContextCost(c)
      BY Zenon DEF ContextCost
    <3> QED
      BY <3>1, Zenon DEF Packed, Has
  <2> QED
    BY <1>0, <1>1, <1>2, <2>1, Zenon DEF PackInv, Has
<1>6. BudgetInv'
  <2>1. CostOf(ShownHunks)' = CostOf(ShownHunks) /\ TextCost' = TextCost
    BY <1>0, PullRequestStands, TextOfFacts
  <2> QED
    BY <1>0, <2>1, Zenon DEF BudgetInv
<1>7. RiskiestHunksFirst'
  BY <1>0, RisksStand
<1> QED
  BY <1>3, <1>4, <1>5, <1>6, <1>7

LEMMA ListAnchorsStep ==
  ASSUME BundleInv, ListAnchors
  PROVE  BundleInv'
<1>0. FetchInv /\ PackInv /\ BudgetInv /\ RepoInv
  BY DEF BundleInv
<1>1. /\ stage = "pack" /\ queue = <<>>
      /\ anchors' = {a \in Required(pr, included) : AnchorText(a[1], a[2])}
      /\ used' = [used EXCEPT !.anchors = Cardinality(anchors')]
      /\ stage' = IF anchors' = Required(pr, included) THEN "note" ELSE "raised"
      /\ UNCHANGED <<pr, settings, included, asked, source, repo, queue, shown, dropped, calls,
                     note, pressure>>
  BY DEF ListAnchors, inputs, fetches, report
<1>2. stage' = "note"
  <2>1. ASSUME NEW a \in Required(pr, included) PROVE AnchorText(a[1], a[2])
    <3>1. PICK i \in Range(included) : a \in {i} \X RightLines(Numbered(pr[i]))
      BY DEF Required
    <3>2. a[1] = i /\ a[2] \in RightLines(Numbered(pr[i]))
      BY <3>1
    <3>3. a[2] \in RightLines(Numbered(pr[a[1]]))
      BY <3>2, Zenon
    <3> QED
      BY <3>3, Zenon DEF AnchorText
  <2>2. anchors' = Required(pr, included)
    <3> HIDE DEF Required
    <3> QED
      BY <1>1, <2>1
  <2> QED
    BY <1>1, <2>2
<1>3. DOMAIN used = {"repo", "hunks", "surroundings", "anchors"}
  BY <1>0 DEF BudgetInv
<1>4. /\ DOMAIN used' = DOMAIN used /\ used'.hunks = used.hunks
      /\ used'.surroundings = used.surroundings /\ used'.repo = used.repo
      /\ used'.anchors = Cardinality(anchors')
  <2> DEFINE n == Cardinality(anchors')
  <2>1. used' = [used EXCEPT !.anchors = n]
    BY <1>1
  <2> HIDE DEF n
  <2>2. /\ DOMAIN used' = DOMAIN used /\ used'.hunks = used.hunks
        /\ used'.surroundings = used.surroundings /\ used'.repo = used.repo /\ used'.anchors = n
    BY <1>3, <2>1
  <2> QED
    BY <2>2 DEF n
<1>5. FetchInv' /\ DoneInv'
  BY <1>0, <1>1, <1>2 DEF FetchInv, DoneInv, Before
<1>6. ScopeInv' /\ QueueInv' /\ PackInv' /\ BudgetInv' /\ RiskiestHunksFirst'
  BY <1>1, <1>2, <1>4, PackedStands DEF Before
<1>7. RepoInv'
  <2>1. stage # "pick" /\ stage' # "pick" /\ stage # "done"
    BY <1>1, <1>2
  <2> QED
    BY <1>0, <1>1, <1>4, <2>1, Zenon DEF RepoInv, Has
<1> QED
  BY <1>5, <1>6, <1>7 DEF BundleInv

LEMMA AddNoteStep ==
  ASSUME BundleInv, AddNote
  PROVE  BundleInv'
<1>0. FetchInv /\ QueueInv /\ BudgetInv /\ RepoInv
  BY DEF BundleInv
<1>1. /\ stage = "note" /\ stage' = "done"
      /\ note' = (settings.partial /\ ChangedIn(pr, DOMAIN pr) > settings.threshold)
      /\ used' = [used EXCEPT !.repo = @ + (IF note' THEN NoteCost ELSE 0)]
      /\ pressure' = PressureState(Counted(used'))
      /\ UNCHANGED <<pr, settings, included, asked, source, repo, queue, shown, dropped, calls, anchors>>
  BY DEF AddNote, inputs, fetches
<1>2. DOMAIN used = {"repo", "hunks", "surroundings", "anchors"}
  BY <1>0 DEF BudgetInv
<1>3. /\ DOMAIN used' = DOMAIN used /\ used'.hunks = used.hunks
      /\ used'.surroundings = used.surroundings /\ used'.anchors = used.anchors
      /\ used'.repo = used.repo + (IF note' THEN NoteCost ELSE 0)
  <2> DEFINE n == IF note' THEN NoteCost ELSE 0
  <2>1. used' = [used EXCEPT !.repo = @ + n]
    BY <1>1
  <2> HIDE DEF n
  <2>2. /\ DOMAIN used' = DOMAIN used /\ used'.hunks = used.hunks
        /\ used'.surroundings = used.surroundings /\ used'.anchors = used.anchors
        /\ used'.repo = used.repo + n
    BY <1>2, <2>1
  <2> QED
    BY <2>2 DEF n
<1>4. note' \in BOOLEAN
  BY <1>1
<1>5. FetchInv'
  BY <1>0, <1>1, <1>4 DEF FetchInv, Before
<1>6. ScopeInv' /\ QueueInv' /\ PackInv' /\ BudgetInv' /\ RiskiestHunksFirst'
  <2>1. queue = <<>> /\ stage \notin Before /\ stage' \in {"note", "done"}
    BY <1>0, <1>1 DEF QueueInv, Before
  <2> QED
    BY <1>1, <1>3, <2>1, PackedStands
<1>7. RepoInv'
  <2>1. ~note /\ used.repo = RepoTokens(settings, repo) + (IF note THEN NoteCost ELSE 0)
    BY <1>0, <1>1 DEF RepoInv
  <2>2. RepoTokens(settings, repo) \in Nat
    <3>1. settings.repoTexts \in Seq(Nat)
      BY <1>0, BundleShapes
    <3> QED
      BY <3>1, RepoTokensFacts
  <2>3. used.repo = RepoTokens(settings, repo)
    BY <2>1, <2>2
  <2>4. used'.repo = RepoTokens(settings, repo) + (IF note' THEN NoteCost ELSE 0)
    BY <1>3, <2>3, Zenon
  <2>5. stage # "pick" /\ stage' # "pick" /\ stage' = "done"
    BY <1>1
  <2> QED
    BY <1>0, <1>1, <1>3, <2>4, <2>5, Zenon DEF RepoInv, Has
<1>8. DoneInv'
  <2>1. settings.partial /\ ChangedIn(pr, DOMAIN pr) > settings.threshold => note'
    <3> DEFINE large == ChangedIn(pr, DOMAIN pr) > settings.threshold
    <3>1. note' = (settings.partial /\ large)
      BY <1>1
    <3> HIDE DEF large
    <3>2. settings.partial /\ large => note'
      BY <3>1
    <3> QED
      BY <3>2 DEF large
  <2>2. pressure' = PressureState(used'.repo + used'.hunks + used'.surroundings + used'.anchors)
    BY <1>1, Zenon DEF Counted
  <2>3. pr' = pr /\ settings' = settings
    BY <1>1
  <2>4. (settings.partial /\ ChangedIn(pr, DOMAIN pr) > settings.threshold => note)'
    BY <2>1, <2>3, Zenon
  <2>5. (pressure = PressureState(used.repo + used.hunks + used.surroundings + used.anchors))'
    <3>1. settings' = settings
      BY <2>3
    <3> QED
      BY <2>2, <3>1, Zenon DEF PressureState
  <2> QED
    BY <2>4, <2>5, Zenon DEF DoneInv
<1> QED
  BY <1>5, <1>6, <1>7, <1>8 DEF BundleInv

-----------------------------------------------------------------------------
(* What the bundle promises *)

\* PressureState with the cap as a parameter.
PressureOf(tokens, cap) ==
  CASE 100 * tokens >= 95 * cap -> "red"
    [] 100 * tokens >= 80 * cap /\ 100 * tokens < 95 * cap -> "orange"
    [] 100 * tokens >= 60 * cap /\ 100 * tokens < 80 * cap -> "yellow"
    [] OTHER -> "green"

LEMMA BundleKeeps == BundleSpec => []BundleInv
<1>1. BundleInit => BundleInv
  BY StartsRight
<1>2. BundleInv /\ [BundleNext]_bundleVars => BundleInv'
  <2> SUFFICES ASSUME BundleInv, [BundleNext]_bundleVars
               PROVE  BundleInv'
    OBVIOUS
  <2>1. CASE Pick
    BY <2>1, PickStep
  <2>2. CASE BeginFetch
    BY <2>2, BeginFetchStep
  <2>3. CASE EndFetch
    BY <2>3, EndFetchStep
  <2>4. CASE RankHunks
    BY <2>4, RankHunksStep
  <2>5. CASE PackHunk
    <3>1. DropHunk(Head(queue)) \/ ShowHunk(Head(queue))
      BY <2>5 DEF PackHunk
    <3> QED
      BY <2>5, <3>1, DropStep, ShowStep
  <2>6. CASE ListAnchors
    BY <2>6, ListAnchorsStep
  <2>7. CASE AddNote
    BY <2>7, AddNoteStep
  <2>8. CASE UNCHANGED bundleVars
    <3>1. UNCHANGED <<pr, settings, stage, included, asked, source, repo, queue, shown, dropped, used,
                      calls, anchors, note, pressure>>
      BY <2>8 DEF bundleVars, inputs, fetches, packed, report
    <3>2. ScopeInv' /\ QueueInv' /\ PackInv' /\ BudgetInv' /\ RiskiestHunksFirst'
      BY <3>1, PackedStands
    <3>3. FetchInv'
      BY <3>1 DEF BundleInv, FetchInv
    <3>4. RepoInv'
      BY <3>1, Zenon DEF BundleInv, RepoInv, Has
    <3>5. DoneInv'
      <4> DEFINE total == used.repo + used.hunks + used.surroundings + used.anchors
      <4>1. PressureState(total)' = PressureState(total)
        <5>1. PressureState(total)' = PressureOf(total', settings'.cap)
          BY Zenon DEF PressureState, PressureOf
        <5>2. PressureState(total) = PressureOf(total, settings.cap)
          BY Zenon DEF PressureState, PressureOf
        <5>3. total' = total
          BY <3>1, Zenon
        <5> HIDE DEF total
        <5> QED
          BY <3>1, <5>1, <5>2, <5>3, Zenon
      <4>2. DoneInv
        BY DEF BundleInv
      <4> QED
        BY <3>1, <4>1, <4>2, Zenon DEF DoneInv
    <3> QED
      BY <3>2, <3>3, <3>4, <3>5 DEF BundleInv
  <2> QED
    BY <2>1, <2>2, <2>3, <2>4, <2>5, <2>6, <2>7, <2>8 DEF BundleNext
<1> QED
  BY <1>1, <1>2, PTL DEF BundleSpec

\* Type correctness; and the assertion on the anchor map never raises
\* (context_builder.py:306), whatever the sources were when they were fetched.
THEOREM BundleTypesCorrect == BundleSpec => []BundleTypeOK
<1>1. BundleInv => BundleTypeOK
  <2> SUFFICES ASSUME FetchInv PROVE BundleTypeOK
    BY DEF BundleInv
  <2> QED
    BY Zenon DEF FetchInv, BundleTypeOK
<1> QED
  BY <1>1, BundleKeeps, PTL

\* Nothing of a pull request is left out of the prompt without a trace: not a file, a hunk,
\* what surrounds it, or a segment about the repository (context_builder.py:140-279).
THEOREM LeftOutIsSaid == BundleSpec => []NothingLeftOutUnsaid
<1>1. ASSUME BundleInv, stage = "done" PROVE NothingLeftOutUnsaid
  <2>0. FetchInv /\ ScopeInv /\ QueueInv /\ PackInv /\ RepoInv /\ DoneInv
    BY <1>1 DEF BundleInv
  <2>1. stage \notin Before /\ stage # "pick" /\ stage # "pack"
    BY <1>1 DEF Before
  <2>2. (Range(RankedFiles(pr)) # Range(included)) => note
    BY <1>1, <2>0, <2>1, Zenon DEF ScopeInv, DoneInv
  <2>3. \A n \in DOMAIN settings.repoTexts : n \in repo \/ Has(dropped, <<n, 0>>, {"repo"})
    BY <2>0, <2>1, Zenon DEF RepoInv
  <2>4. ASSUME NEW i \in Range(included), source[i] = Missing
        PROVE  Has(dropped, <<i, 0>>, {"fetch_failed"})
    BY <2>0, <2>1, <2>4, Zenon DEF PackInv
  <2>5. ASSUME NEW i \in Range(included), source[i] # Missing, NEW k \in DOMAIN HunksOf(pr[i])
        PROVE  LET c == <<i, k>>
               IN \/ Has(dropped, c, {"hunk"})
                  \/ /\ Has(shown, c, {"hunk"})
                     /\ \/ Has(shown, c, {"context", "summary"})
                        \/ Has(dropped, c, {"context", "summary", "summary_cap"})
                        \/ ContextCost(c) = 0 \/ IsGenerated(pr[i]) \/ Is(pr[i], "lockfile")
    <3>1. PICK c : c = <<i, k>>
      OBVIOUS
    <3>2. c \in Ready /\ c[1] = i
      <4> DEFINE idx == {j \in Range(included) : source[j] # Missing}
      <4>1. Files(pr) /\ idx \in SUBSET (DOMAIN pr) /\ i \in idx
        BY <2>0, <2>5, BundleShapes DEF FetchInv
      <4>2. Ready = HunksIn(pr, idx)
        BY DEF Ready
      <4> HIDE DEF idx
      <4>3. <<i, k>> \in HunksIn(pr, idx)
        BY <4>1, HunksInFacts
      <4> QED
        BY <3>1, <4>2, <4>3
    <3>3. Range(queue) = {}
      <4>1. queue = <<>>
        BY <2>0, <2>1, Zenon DEF QueueInv
      <4> QED
        BY <4>1, EmptyList
    <3>4. Packed(c)
      <4>1. c \in Ready \ Range(queue)
        BY <3>2, <3>3
      <4> QED
        BY <2>0, <2>1, <4>1, Zenon DEF PackInv
    <3> QED
      BY <3>1, <3>2, <3>4, Zenon DEF Packed
  <2> QED
    BY <2>2, <2>3, <2>4, <2>5, Zenon DEF NothingLeftOutUnsaid
<1>2. BundleInv => NothingLeftOutUnsaid
  BY <1>1 DEF NothingLeftOutUnsaid
<1> QED
  BY <1>2, BundleKeeps, PTL

\* A hunk was dropped only when it did not fit beside the hunks shown that are at least as
\* risky, whatever order the files and their sources came in (context_builder.py:194).
THEOREM RiskiestAreFirst == BundleSpec => []RiskiestHunksFirst
<1>1. BundleInv => RiskiestHunksFirst
  BY DEF BundleInv
<1> QED
  BY <1>1, BundleKeeps, PTL

\* What is rendered keeps within the budgets, and the telemetry counts what is rendered:
\* of the hunks, of what surrounds each, of the repository and of the anchors
\* (context_builder.py:153-158, 214-279).
THEOREM PromptsFit == BundleSpec => []PromptWithinBudgets
<1>1. ASSUME BundleInv PROVE PromptWithinBudgets
  <2>1. BudgetInv /\ RepoInv /\ DoneInv
    BY <1>1 DEF BundleInv
  <2>2. stage = "done" =>
          pressure = PressureState(used.repo + CostOf(ShownHunks) + TextCost + Cardinality(anchors))
    BY <2>1, Zenon DEF BudgetInv, RepoInv, DoneInv
  <2> QED
    BY <2>1, <2>2, Zenon DEF PromptWithinBudgets, BudgetInv, RepoInv
<1> QED
  BY <1>1, BundleKeeps, PTL
=============================================================================
