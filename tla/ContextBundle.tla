---- MODULE ContextBundle ----
(***************************************************************************)
(* agent/context_builder.py: what of a pull request goes into the prompt.  *)
(* The changed files are chosen, their sources fetched concurrently, their *)
(* hunks ranked by risk and packed under two budgets, every line a comment *)
(* may anchor to is listed, and a note says when the scope was limited.    *)
(*                                                                         *)
(* A changed file is a record                                              *)
(*   [path, traits, weight, hunks, sizes]                                  *)
(* traits are what the name tests and the file's first lines say of it;    *)
(* weight is the share of its risk score that its language and path fix,   *)
(* in hundredths; a hunk is [new, old, kinds], the numbers it starts at    *)
(* and the kinds of its lines; sizes are the numbers of lines its source   *)
(* may have when it is fetched: fewer than the diff says when the branch   *)
(* moved.  A line of text costs one token.                                 *)
(***************************************************************************)
EXTENDS Lists, Functions, FiniteSetsExt

CONSTANTS
  PullRequests,  \* sequences of changed files, in the order of the diff
  Settings,      \* records of budgets and of ContextPackagingConfig
  Missing,       \* the source of a file that could not be fetched
  CodeWindow, DocsWindow, \* CONTEXT_WINDOW_LINES, DOC_CONTEXT_WINDOW_LINES
  SummaryCost, NoteCost,  \* tokens of a structured summary, of the note
  Concurrency    \* FILE_FETCH_CONCURRENCY

\* A diff has lines of these kinds and the marker "No newline at end of file".
Kinds == {"add", "del", "ctx"}
DiffKinds == Kinds \union {"marker"}
IsChangedFile(f) ==
  /\ f.hunks \in Seq([new : Nat, old : Nat, kinds : Seq(DiffKinds)])
  /\ f.weight \in Int /\ f.sizes \subseteq Nat

ASSUME BundleAssumption ==
  /\ Concurrency \in Nat \ {0} /\ CodeWindow \in Nat /\ DocsWindow \in Nat
  /\ SummaryCost \in Nat /\ NoteCost \in Nat /\ Missing \notin Nat
  /\ \A files \in PullRequests :
       files \in Seq(Range(files)) /\ \A f \in Range(files) : IsChangedFile(f)
  /\ \A s \in Settings :
       /\ s.hunks \in Nat /\ s.surroundings \in Nat /\ s.repo \in Nat
       /\ s.repoTexts \in Seq(Nat) /\ s.cap \in Nat \ {0}
       /\ s.threshold \in Nat /\ s.maxSummaries \in Nat

VARIABLES
  pr, settings,   \* the changed files and the settings
  stage,
  included,  \* indices of the files chosen for review, in their order
  asked,     \* files whose fetch has begun
  source,    \* file -> number of its lines, once it was fetched or failed
  repo,      \* numbers of the repository segments kept
  queue,     \* ranked hunks not yet packed
  shown,     \* parts in the prompt: <<<<file, hunk>>, "hunk" | "context" | "summary">>
  dropped,   \* dropped_segments
  used,      \* token_usage
  calls,     \* summary_calls
  anchors,   \* lines listed in the anchor map: <<file, line>>
  note,      \* the note on limited scope was added
  pressure   \* how full the prompt is, as the telemetry reports it

inputs == <<pr, settings>>
fetches == <<included, asked, source>>
packed == <<queue, shown, dropped, used, calls>>
report == <<note, pressure>>
bundleVars == <<inputs, stage, fetches, repo, packed, anchors, report>>

-----------------------------------------------------------------------------
(* The diff *)

\* parse_diff: the lines of a hunk with their numbers on both sides, 0 for none.  The
\* marker is a context line without a number.
NumberHunk(h) ==
  LET number(i, start, absent) ==
        IF h.kinds[i] \in absent THEN 0
        ELSE start + Cardinality({j \in 1 .. i - 1 : h.kinds[j] \notin absent})
  IN [i \in DOMAIN h.kinds |->
        [kind |-> IF h.kinds[i] = "marker" THEN "ctx" ELSE h.kinds[i],
         new |-> number(i, h.new, {"del", "marker"}),
         old |-> number(i, h.old, {"add", "marker"})]]
Numbered(f) ==
  LET lines[n \in 0 .. Len(f.hunks)] ==
        IF n = 0 THEN <<>> ELSE lines[n - 1] \o NumberHunk(f.hunks[n])
  IN lines[Len(f.hunks)]

RightLines(lines) == {lines[i].new : i \in DOMAIN lines} \ {0}
LineNo(line) == IF line.new # 0 THEN line.new ELSE line.old
Added(lines) == Cardinality({i \in DOMAIN lines : lines[i].kind = "add"})

\* _build_hunks: the packer cuts the lines of a file anew, where their numbers jump.  A
\* deleted line counts with its old number, the marker not at all.
PreviousNo(lines, i) == LineNo(lines[Max({j \in 1 .. i - 1 : LineNo(lines[j]) # 0})])
BuildHunks(lines) ==
  LET jumps == {i \in DOMAIN lines : i = 1 \/ LineNo(lines[i]) > PreviousNo(lines, i) + 1}
      hunkOf(i) == Cardinality({j \in jumps : j <= i})
  IN [k \in 1 .. Cardinality(jumps) |-> Picked(lines, {i \in DOMAIN lines : hunkOf(i) = k})]
HunksOf(f) == BuildHunks(Numbered(f))

FirstLine(hunk) ==
  IF RightLines(hunk) = {} THEN hunk[1].old
  ELSE hunk[Min({i \in DOMAIN hunk : hunk[i].new # 0})].new
LastLine(hunk) == Max({FirstLine(hunk)} \union RightLines(hunk))

-----------------------------------------------------------------------------
(* Choosing files and ranking hunks *)

Is(f, trait) == trait \in f.traits
Changed(f) == Added(Numbered(f))

\* Files by the lines they add, tests a little later, ties in the order of the diff.
\* Vendored files and files that add nothing are not reviewed.
RankedFiles(files) ==
  LET score(i) == 20 * Changed(files[i]) + (IF Is(files[i], "test") THEN -3 ELSE 8)
      eligible == {i \in DOMAIN files : ~Is(files[i], "vendored") /\ Changed(files[i]) > 0}
  IN Sorted(eligible, {p \in eligible \X eligible :
       score(p[1]) > score(p[2]) \/ (score(p[1]) = score(p[2]) /\ p[1] < p[2])})

\* The lines that the files at the indices idx add.
ChangedIn(files, idx) ==
  SumOf([i \in DOMAIN files |-> IF i \in idx THEN Changed(files[i]) ELSE 0])

\* _pick_files_for_review: over the threshold of hand-written lines, files are taken until
\* the threshold is reached.
PickFiles(files, c) ==
  LET ranked == RankedFiles(files)
      written == {i \in Range(ranked) : ~Is(files[i], "generated")}
      before(n) == {ranked[m] : m \in 1 .. n - 1}
  IN IF ~c.partial \/ ChangedIn(files, written) <= c.threshold THEN ranked
     ELSE Picked(ranked, {n \in DOMAIN ranked : ChangedIn(files, before(n)) < c.threshold})

IsGenerated(f) == Is(f, "generated") \/ Is(f, "marked")
NonNegative(n) == IF n < 0 THEN 0 ELSE n

\* _score_hunk, in hundredths.
RiskScore(f, hunk) ==
  200 * Added(hunk) + f.weight
  - (IF IsGenerated(f) THEN 300 ELSE 0) - (IF Is(f, "lockfile") THEN 200 ELSE 0)
  - 3 * NonNegative(Len(hunk) - 40)

HunksIn(files, idx) == UNION {{i} \X DOMAIN HunksOf(files[i]) : i \in idx}
Score(files, c) == RiskScore(files[c[1]], HunksOf(files[c[1]])[c[2]])

\* Mutant: the least risky hunk comes first.
RankedHunksAscending(files, idx, sources) ==
  LET candidates == HunksIn(files, {i \in Range(idx) : sources[i] # Missing})
      place(c) == CHOOSE n \in DOMAIN idx : idx[n] = c[1]
  IN Sorted(candidates, {p \in candidates \X candidates :
       \/ Score(files, p[1]) < Score(files, p[2])
       \/ /\ Score(files, p[1]) = Score(files, p[2])
          /\ \/ place(p[1]) < place(p[2])
             \/ place(p[1]) = place(p[2]) /\ p[1][2] < p[2][2]})

\* rank_hunk_candidates, of the files that were fetched.
RankedHunks(files, idx, sources) ==
  LET candidates == HunksIn(files, {i \in Range(idx) : sources[i] # Missing})
      place(c) == CHOOSE n \in DOMAIN idx : idx[n] = c[1]
  IN Sorted(candidates, {p \in candidates \X candidates :
       \/ Score(files, p[1]) > Score(files, p[2])
       \/ /\ Score(files, p[1]) = Score(files, p[2])
          /\ \/ place(p[1]) < place(p[2])
             \/ place(p[1]) = place(p[2]) /\ p[1][2] < p[2][2]})

HunkCost(c) == 1 + Len(HunksOf(pr[c[1]])[c[2]])

\* _render_surrounding_context: nothing when the source ends before the hunk.
ContextCost(c) ==
  LET f == pr[c[1]]
      hunk == HunksOf(f)[c[2]]
      window == IF Is(f, "docs") THEN DocsWindow ELSE CodeWindow
      first == Max({1, FirstLine(hunk) - window})
      last == Min({source[c[1]], LastLine(hunk) + window})
  IN IF first > last THEN 0 ELSE 2 + last - first

-----------------------------------------------------------------------------
BundleInit ==
  /\ pr \in PullRequests
  /\ settings \in Settings
  /\ stage = "pick"
  /\ included = <<>> /\ asked = {} /\ source = <<>>
  /\ repo = {} /\ queue = <<>> /\ shown = {} /\ dropped = {}
  /\ used = [repo |-> 0, hunks |-> 0, surroundings |-> 0, anchors |-> 0]
  /\ calls = 0 /\ anchors = {} /\ note = FALSE /\ pressure = "green"

\* The repository segments kept, one after the other as long as they fit.
RepoTokens(c, kept) ==
  SumOf([n \in DOMAIN c.repoTexts |-> IF n \in kept THEN c.repoTexts[n] ELSE 0])
RepoKept(c) ==
  LET kept[n \in 0 .. Len(c.repoTexts)] ==
        IF n = 0 THEN {}
        ELSE IF RepoTokens(c, kept[n - 1]) + c.repoTexts[n] > c.repo THEN kept[n - 1]
        ELSE kept[n - 1] \union {n}
  IN kept[Len(c.repoTexts)]

\* The files, and the repository segments that fit.
Pick ==
  /\ stage = "pick"
  /\ included' = PickFiles(pr, settings)
  /\ repo' = RepoKept(settings)
  /\ dropped' = {<<<<n, 0>>, "repo">> : n \in DOMAIN settings.repoTexts \ repo'}
  /\ used' = [used EXCEPT !.repo = RepoTokens(settings, repo')]
  /\ stage' = "fetch"
  /\ UNCHANGED <<inputs, asked, source, queue, shown, calls, anchors, report>>

\* fetch_sources_concurrently: a semaphore bounds the fetches under way.
BeginFetch ==
  /\ stage = "fetch"
  /\ Cardinality(asked \ DOMAIN source) < Concurrency
  /\ \E i \in Range(included) \ asked : asked' = asked \union {i}
  /\ UNCHANGED <<inputs, stage, included, source, repo, packed, anchors, report>>

\* safe_fetch_file answers None for every error.
EndFetch ==
  /\ stage = "fetch"
  /\ \E i \in asked \ DOMAIN source :
       \E n \in pr[i].sizes \union {Missing} :
         source' = [j \in DOMAIN source \union {i} |-> IF j = i THEN n ELSE source[j]]
  /\ UNCHANGED <<inputs, stage, included, asked, repo, packed, anchors, report>>

\* gather hands the sources over in the order of the files.
RankHunks ==
  /\ stage = "fetch" /\ DOMAIN source = Range(included)
  /\ queue' = RankedHunks(pr, included, source)
  /\ dropped' = dropped \union
       {<<<<i, 0>>, "fetch_failed">> : i \in {j \in DOMAIN source : source[j] = Missing}}
  /\ stage' = "pack"
  /\ UNCHANGED <<inputs, fetches, repo, shown, used, calls, anchors, report>>

\* Mutant: a summary over the budget is forgotten.
SurroundForgetful(c) ==
  LET cost == ContextCost(c)
      fits(n) == used.surroundings + n <= settings.surroundings
      around(part, lost, tokens, n) ==
        [part |-> part, lost |-> lost, spent |-> used.surroundings + tokens, calls |-> calls + n]
  IN IF cost > 0 /\ ~IsGenerated(pr[c[1]]) /\ ~Is(pr[c[1]], "lockfile") /\ fits(cost)
     THEN around("context", "none", cost, 0)
     ELSE around("none", "none", 0, 0)

\* What goes around a hunk: its context, else a summary while the cap allows one, and the
\* name of what was left out.
Surround(c) ==
  LET cost == ContextCost(c)
      fits(n) == used.surroundings + n <= settings.surroundings
      around(part, lost, tokens, n) ==
        [part |-> part, lost |-> lost, spent |-> used.surroundings + tokens, calls |-> calls + n]
  IN IF cost = 0 \/ IsGenerated(pr[c[1]]) \/ Is(pr[c[1]], "lockfile")
     THEN around("none", "none", 0, 0)
     ELSE IF fits(cost) THEN around("context", "none", cost, 0)
     ELSE IF ~settings.summaries THEN around("none", "context", 0, 0)
     ELSE IF calls >= settings.maxSummaries THEN around("none", "summary_cap", 0, 0)
     ELSE IF fits(SummaryCost) THEN around("summary", "none", SummaryCost, 1)
     ELSE around("none", "summary", 0, 1)

Part(c, kind) == IF kind = "none" THEN {} ELSE {<<c, kind>>}

DropHunk(c) ==
  /\ used.hunks + HunkCost(c) > settings.hunks
  /\ dropped' = dropped \union Part(c, "hunk")
  /\ UNCHANGED <<shown, used, calls>>

\* Mutant: the summaries are not counted.
ShowHunkUncounted(c) ==
  /\ used.hunks + HunkCost(c) <= settings.hunks
  /\ LET around == Surround(c)
     IN /\ shown' = shown \union Part(c, "hunk") \union Part(c, around.part)
        /\ dropped' = dropped \union Part(c, around.lost)
        /\ used' = [used EXCEPT !.hunks = @ + HunkCost(c),
                                !.surroundings = IF around.part = "summary" THEN @
                                                 ELSE around.spent]
        /\ calls' = around.calls

\* A hunk within the budget is shown, with its surroundings.
ShowHunk(c) ==
  /\ used.hunks + HunkCost(c) <= settings.hunks
  /\ LET around == Surround(c)
     IN /\ shown' = shown \union Part(c, "hunk") \union Part(c, around.part)
        /\ dropped' = dropped \union Part(c, around.lost)
        /\ used' = [used EXCEPT !.hunks = @ + HunkCost(c), !.surroundings = around.spent]
        /\ calls' = around.calls

\* One turn of the packing loop.
PackHunk ==
  /\ stage = "pack" /\ queue # <<>>
  /\ DropHunk(Head(queue)) \/ ShowHunk(Head(queue))
  /\ queue' = Tail(queue)
  /\ UNCHANGED <<inputs, stage, fetches, repo, anchors, report>>

Required(files, idx) == UNION {{i} \X RightLines(Numbered(files[i])) : i \in Range(idx)}

\* _line_content_for_anchor: the text of the line in the file, or else in the diff.
AnchorText(i, line) ==
  \/ source[i] # Missing /\ line <= source[i]
  \/ line \in RightLines(Numbered(pr[i]))

\* The anchor map, and the invariant the code raises on.
ListAnchors ==
  /\ stage = "pack" /\ queue = <<>>
  /\ anchors' = {a \in Required(pr, included) : AnchorText(a[1], a[2])}
  /\ used' = [used EXCEPT !.anchors = Cardinality(anchors')]
  /\ stage' = IF anchors' = Required(pr, included) THEN "note" ELSE "raised"
  /\ UNCHANGED <<inputs, fetches, repo, queue, shown, dropped, calls, report>>

\* _pressure_state of the tokens counted against the cap.
PressureState(tokens) ==
  CASE 100 * tokens >= 95 * settings.cap -> "red"
    [] 100 * tokens >= 80 * settings.cap /\ 100 * tokens < 95 * settings.cap -> "orange"
    [] 100 * tokens >= 60 * settings.cap /\ 100 * tokens < 80 * settings.cap -> "yellow"
    [] OTHER -> "green"
Counted(u) == u.repo + u.hunks + u.surroundings + u.anchors

\* _partial_review_note counts all changed files, and its tokens outside the budget.
AddNote ==
  /\ stage = "note"
  /\ note' = (settings.partial /\ ChangedIn(pr, DOMAIN pr) > settings.threshold)
  /\ used' = [used EXCEPT !.repo = @ + (IF note' THEN NoteCost ELSE 0)]
  /\ pressure' = PressureState(Counted(used'))
  /\ stage' = "done"
  /\ UNCHANGED <<inputs, fetches, repo, queue, shown, dropped, calls, anchors>>

BundleNext == Pick \/ BeginFetch \/ EndFetch \/ RankHunks \/ PackHunk \/ ListAnchors \/ AddNote

BundleSpec == BundleInit /\ [][BundleNext]_bundleVars

-----------------------------------------------------------------------------
(* Properties *)

\* The shape of the state; no more fetches are under way than the semaphore allows, and
\* the anchor coverage the code raises on is never below one (context_builder.py:306).
BundleTypeOK ==
  /\ stage \in {"pick", "fetch", "pack", "note", "done"}
  /\ DOMAIN source \subseteq asked /\ asked \subseteq Range(included)
  /\ Cardinality(asked \ DOMAIN source) <= Concurrency
  /\ calls \in 0 .. settings.maxSummaries
  /\ note \in BOOLEAN

\* One of these parts of the hunk c is among parts.
Has(parts, c, kinds) == \E kind \in kinds : <<c, kind>> \in parts

\* Nothing of the pull request disappears without a trace: a file that is left out for its
\* size puts the note into the prompt; of a file that is in, either the fetch failed and
\* is recorded, or each hunk is in the prompt or recorded as dropped, and so are the
\* surroundings of each hunk shown, of hand-written files; and each segment about the
\* repository is in or recorded (context_builder.py:140-279).
NothingLeftOutUnsaid ==
  stage = "done" =>
    /\ (Range(RankedFiles(pr)) # Range(included)) => note
    /\ \A i \in Range(included) :
         \/ source[i] = Missing /\ Has(dropped, <<i, 0>>, {"fetch_failed"})
         \/ \A k \in DOMAIN HunksOf(pr[i]) :
              LET c == <<i, k>>
              IN \/ Has(dropped, c, {"hunk"})
                 \/ /\ Has(shown, c, {"hunk"})
                    /\ \/ Has(shown, c, {"context", "summary"})
                       \/ Has(dropped, c, {"context", "summary", "summary_cap"})
                       \/ ContextCost(c) = 0 \/ IsGenerated(pr[i]) \/ Is(pr[i], "lockfile")
    /\ \A n \in DOMAIN settings.repoTexts : n \in repo \/ Has(dropped, <<n, 0>>, {"repo"})

\* The sum of a cost over the hunks of the pull request.
AllHunks == HunksIn(pr, DOMAIN pr)
OverHunks(cost) ==
  SumOf([i \in DOMAIN pr |-> SumOf([k \in DOMAIN HunksOf(pr[i]) |-> cost[<<i, k>>]])])

ShownHunks == {c \in AllHunks : <<c, "hunk">> \in shown}
CostOf(cs) == OverHunks([c \in AllHunks |-> IF c \in cs THEN HunkCost(c) ELSE 0])

\* The budget goes to the riskiest hunks: one that was dropped did not fit beside the
\* hunks shown that are at least as risky, whatever order files and fetches came in
\* (context_builder.py:194).
RiskiestHunksFirst ==
  \A d \in AllHunks :
    <<d, "hunk">> \in dropped =>
      LET rivals == {c \in ShownHunks : Score(pr, c) >= Score(pr, d)}
      IN CostOf(rivals) + HunkCost(d) > settings.hunks

\* The tokens of what is around the hunks shown.
AroundCost(c) ==
  (IF <<c, "context">> \in shown THEN ContextCost(c) ELSE 0)
  + (IF <<c, "summary">> \in shown THEN SummaryCost ELSE 0)
TextCost == OverHunks([c \in AllHunks |-> AroundCost(c)])

\* What is rendered keeps within the budgets, the note apart, and the telemetry counts
\* what is rendered: hunks, context or summary of each, repository segments, anchors.
PromptWithinBudgets ==
  LET repoText == RepoTokens(settings, repo) + (IF note THEN NoteCost ELSE 0)
  IN /\ CostOf(ShownHunks) = used.hunks /\ used.hunks <= settings.hunks
     /\ TextCost = used.surroundings /\ used.surroundings <= settings.surroundings
     /\ RepoTokens(settings, repo) <= settings.repo /\ repoText = used.repo
     /\ Cardinality({p \in shown : p[2] = "summary"}) <= calls
     /\ used.anchors = Cardinality(anchors)
     /\ stage = "done" =>
          pressure = PressureState(repoText + CostOf(ShownHunks) + TextCost + Cardinality(anchors))
====
