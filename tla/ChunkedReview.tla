---- MODULE ChunkedReview ----
(***************************************************************************)
(* The chunked review of agent/runner.py: the diff is planned into chunks, *)
(* each chunk is reviewed by a model of its own and its result persisted,  *)
(* so that a job that is interrupted resumes where it stopped; a synthesis *)
(* pass and an editor follow.  The planner is ChunkPlan, the checks of the *)
(* findings FindingChecks.  A job is interrupted by a crash of its worker, *)
(* an exception or a cancellation, and runs again (ReviewLifecycle).       *)
(***************************************************************************)
EXTENDS ChunkPlan, FindingChecks

CONSTANTS
  DiffFiles,      \* the changed files the diff may be made of
  Lines,          \* path -> its lines at the head commit, none if it is deleted
  Diff,           \* the lines of the diff
  Facts,          \* ids of verified_facts.yaml
  VendorMessages,
  Window,         \* REPAIR_SEARCH_WINDOW
  Pool,           \* findings the models may return
  EditorPool,     \* findings the editor may write instead
  PromptCosts,    \* tokens one chunk prompt may take, output headroom included
  Configs,        \* configurations checked
  MaxInterrupts   \* bound on crashes and failures of the job

ASSUME FilesAssumption ==
  /\ IsFiniteSet(DiffFiles)
  /\ \A f \in DiffFiles :
       f.rank \in Int /\ f.grank \in Int /\ f.tokens \in Nat /\ f.path \in DOMAIN Lines
  /\ \A f, g \in DiffFiles : f.path = g.path \/ f.rank = g.rank => f = g
  /\ Diff \in Seq(Range(Diff))

ASSUME PlanAssumption ==
  /\ \A c \in Configs : /\ c.maxChunks \in Nat \ {0} /\ c.minFiles \in Nat
                       /\ c.target \in Nat /\ c.cap \in Nat
  /\ PromptCosts \subseteq Nat
  /\ MaxInterrupts \in Nat

ASSUME PoolsAssumption == \A f \in Pool \cup EditorPool : WellFormed(f)

VARIABLES
  cfg, files, plan, \* the configuration, the changed files and the plan of the job's head commit
  pc,          \* the step about to run
  stored,      \* chunking_state in the review's debug_artifacts
  state,       \* the chunk state the worker holds
  at,          \* index of the chunk the loop is at
  found,       \* structured_findings: findings of the chunks so far
  covered,     \* chunks whose summary the synthesis will see
  fetched,     \* paths whose text the context holds
  late,        \* max_latency_seconds have passed since the job started
  tokensUsed,
  stopped,     \* what ended the loop early: "none", "latency", "prompt_budget"
  synthesis, challenger, draft, edited, final,
  notes,       \* the notes on partial coverage that the summary still holds
  analyses, failures, interrupts, \* history: model runs on chunks, failed ones, interruptions
  forgotten    \* history: results of chunks that the failure handler overwrote

loop == <<at, found, covered, fetched, tokensUsed, stopped>>
chunks == <<stored, state>>
results == <<synthesis, challenger, draft, edited, final, notes>>
counts == <<analyses, failures, interrupts, forgotten>>
job == <<cfg, files, plan>>
vars == <<job, pc, chunks, loop, late, results, counts>>

Pending == [status |-> "pending", findings |-> <<>>]
Chunks == plan.chunks
FetchedLines == [p \in fetched |-> Lines[p]]
Threshold == IF cfg.threshold = 0 THEN 85 ELSE cfg.threshold

\* chunked_runtime.py: the stored state of a chunk, its status and result.
MergedWithPlan == [c \in DOMAIN Chunks |-> IF c \in DOMAIN stored THEN stored[c] ELSE Pending]
IsDone(c) == state[c].status = "done"
Done(s) == {c \in DOMAIN s : s[c].status = "done"}
FindingsOf(c) == state[c].findings
SetStatus(c, status) == [state EXCEPT ![c].status = status]
Persist(s) == stored' = s

DiffOf(paths) == Picked(Diff, {i \in DOMAIN Diff : Diff[i].path \in paths})
ReviewedDiff == Picked(Diff, {i \in DOMAIN Diff : Diff[i].path \notin cfg.ignored})

Init ==
  /\ cfg \in Configs
  /\ files \in SUBSET DiffFiles
  /\ plan = PlanChunks(files, cfg)
  /\ pc = "plan"
  /\ stored = <<>> /\ state = <<>>
  /\ at = 1 /\ found = <<>> /\ covered = {} /\ fetched = {}
  /\ tokensUsed = 0 /\ stopped = "none" /\ late = FALSE
  /\ synthesis = <<>> /\ challenger = <<>> /\ draft = <<>> /\ edited = <<>> /\ final = <<>>
  /\ notes = <<>>
  /\ analyses = 0 /\ failures = 0 /\ interrupts = 0 /\ forgotten = 0

\* Mutant: what was stored is not merged into the new run.
LoadStateAfresh ==
  /\ pc = "plan"
  /\ state' = [c \in DOMAIN Chunks |-> Pending]
  /\ pc' = IF Chunks = <<>> THEN "deliver" ELSE "loop"
  /\ UNCHANGED <<job, stored, loop, late, results, counts>>

\* load_chunk_state and merge_chunk_state_with_plan; a plan without chunks posts no findings.
LoadState ==
  /\ pc = "plan"
  /\ state' = MergedWithPlan
  /\ pc' = IF Chunks = <<>> THEN "deliver" ELSE "loop"
  /\ UNCHANGED <<job, stored, loop, late, results, counts>>

LatencyPasses ==
  /\ pc \in {"loop", "model", "save"} /\ ~late
  /\ late' = TRUE
  /\ UNCHANGED <<job, pc, chunks, loop, results, counts>>

\* The loop ends after the last chunk, or at the first one that is late.
LoopEnds ==
  /\ pc = "loop" /\ (at > Len(Chunks) \/ late)
  /\ stopped' = IF at > Len(Chunks) THEN stopped ELSE "latency"
  /\ pc' = "synthesis"
  /\ UNCHANGED <<job, chunks, at, found, covered, fetched, tokensUsed, late, results, counts>>

\* A chunk an earlier attempt completed is taken from its stored result.  Its files are
\* not read again.
ReuseChunk ==
  /\ pc = "loop" /\ at <= Len(Chunks) /\ ~late
  /\ IsDone(at)
  /\ found' = found \o FindingsOf(at)
  /\ covered' = covered \union {at}
  /\ at' = at + 1
  /\ UNCHANGED <<job, pc, chunks, fetched, tokensUsed, stopped, late, results, counts>>

\* Mutant: a chunk over the budget is passed over without a note.
StopAtBudgetSilently ==
  /\ pc = "loop" /\ at <= Len(Chunks) /\ ~late
  /\ ~IsDone(at)
  /\ \E cost \in PromptCosts : tokensUsed + cost > cfg.maxTotal
  /\ at' = at + 1
  /\ UNCHANGED <<job, pc, chunks, found, covered, fetched, tokensUsed, stopped, late, results,
                 counts>>

StopAtBudget ==
  /\ pc = "loop" /\ at <= Len(Chunks) /\ ~late
  /\ ~IsDone(at)
  /\ \E cost \in PromptCosts : tokensUsed + cost > cfg.maxTotal
  /\ stopped' = "prompt_budget"
  /\ pc' = "synthesis"
  /\ UNCHANGED <<job, chunks, at, found, covered, fetched, tokensUsed, late, results, counts>>

\* The chunk is marked running and persisted, and its model is called.
StartChunk ==
  /\ pc = "loop" /\ at <= Len(Chunks) /\ ~late
  /\ ~IsDone(at)
  /\ \E cost \in PromptCosts :
       /\ tokensUsed + cost <= cfg.maxTotal
       /\ tokensUsed' = tokensUsed + cost
  /\ state' = SetStatus(at, "running")
  /\ Persist(state')
  /\ analyses' = analyses + 1
  /\ pc' = "model"
  /\ UNCHANGED <<job, at, found, covered, fetched, stopped, late, results, failures, interrupts,
                 forgotten>>

\* What survives of a chunk's answer: repair, anchors, validation against everything
\* fetched so far, policy.
ChunkFindings(answer, paths, texts, tools) ==
  LET mine == DiffOf(paths)
      commentable == RightSideLines(mine)
      own == [p \in paths \intersect DOMAIN texts |-> texts[p]]
      repaired == AttachAnchors(RepairAll(answer, own, commentable, Window), mine)
  IN ApplyPolicy(Validated(WithValidAnchor(repaired, mine), texts, commentable),
                 Threshold, tools, Facts, VendorMessages)

ChunkAnswers ==
  /\ pc = "model"
  /\ \E bundle \in SUBSET PathsOf(Chunks[at]), tools \in SUBSET {"tool"},
        answer \in {<<>>} \union {<<f>> : f \in Pool} :
       LET texts == [p \in fetched \union bundle |-> Lines[p]]
           kept == ChunkFindings(answer, PathsOf(Chunks[at]), texts, tools)
       IN /\ fetched' = fetched \union bundle
          /\ found' = found \o kept
          /\ state' = [state EXCEPT ![at] = [status |-> "done", findings |-> kept]]
  /\ covered' = covered \union {at}
  /\ pc' = "save"
  /\ UNCHANGED <<job, stored, at, tokensUsed, stopped, late, results, counts>>

\* Any exception of the chunk's model call: the chunk is failed, persisted and skipped.
ChunkFails ==
  /\ pc = "model"
  /\ state' = SetStatus(at, "failed")
  /\ Persist(state')
  /\ at' = at + 1
  /\ failures' = failures + 1
  /\ pc' = "loop"
  /\ UNCHANGED <<job, found, covered, fetched, tokensUsed, stopped, late, results, analyses,
                 interrupts, forgotten>>

SaveChunk ==
  /\ pc = "save"
  /\ Persist(state)
  /\ at' = at + 1
  /\ pc' = "loop"
  /\ UNCHANGED <<job, state, found, covered, fetched, tokensUsed, stopped, late, results, counts>>

\* _run_cross_chunk_synthesis: nothing to synthesise when no chunk was covered.
Synthesise ==
  /\ pc = "synthesis"
  /\ synthesis' \in IF covered = {} THEN {<<>>} ELSE {<<>>} \union {<<f>> : f \in Pool}
  /\ pc' = IF cfg.maxMode /\ synthesis' # <<>> THEN "challenger" ELSE "combine"
  /\ UNCHANGED <<job, chunks, loop, late, challenger, draft, edited, final, notes, counts>>

Challenge ==
  /\ pc = "challenger"
  /\ \E fs \in {<<>>} \union {<<f>> : f \in Pool} :
       /\ challenger' = fs
       /\ IF ConflictScore(synthesis, fs) >= cfg.conflict \/ HasHighRisk(synthesis, cfg.highRisk)
          THEN pc' = "tie_break" /\ UNCHANGED synthesis
          ELSE pc' = "combine" /\ synthesis' = MergeDebate(synthesis, fs, <<>>, FALSE)
  /\ UNCHANGED <<job, chunks, loop, late, draft, edited, final, notes, counts>>

BreakTie ==
  /\ pc = "tie_break"
  /\ \E fs \in {<<>>} \union {<<f>> : f \in Pool} :
       synthesis' = MergeDebate(synthesis, challenger, <<fs>>, FALSE)
  /\ pc' = "combine"
  /\ UNCHANGED <<job, chunks, loop, late, challenger, draft, edited, final, notes, counts>>

\* final_summary_parts after the coverage note and the synthesis summary.
Notes == (IF plan.partial THEN <<"max_chunks">> ELSE <<>>)
           \o (IF stopped = "none" THEN <<>> ELSE <<stopped>>)
\* The summary ends at 780 characters: what comes after a long synthesis summary is cut.
\* Without chunk summaries there is no such summary.
NotesKept == IF covered = {} THEN {Notes} ELSE {SubSeq(Notes, 1, n) : n \in 0 .. Len(Notes)}

\* Mutant: the synthesis findings replace the chunks'.
CombineReplaces ==
  /\ pc = "combine"
  /\ LET anchored == WithValidAnchor(AttachAnchors(synthesis, ReviewedDiff), ReviewedDiff)
         valid == Validated(anchored, FetchedLines, RightSideLines(ReviewedDiff))
     IN draft' = Dedupe(ApplyPolicy(valid, Threshold, {}, Facts, VendorMessages))
  /\ notes' \in NotesKept
  /\ pc' = IF draft' = <<>> THEN "deliver" ELSE "editor"
  /\ UNCHANGED <<job, chunks, loop, late, synthesis, challenger, edited, final, counts>>

\* The synthesis findings pass the same checks, with no tool history, and join the chunks'.
Combine ==
  /\ pc = "combine"
  /\ LET anchored == WithValidAnchor(AttachAnchors(synthesis, ReviewedDiff), ReviewedDiff)
         valid == Validated(anchored, FetchedLines, RightSideLines(ReviewedDiff))
     IN draft' = Dedupe(found \o ApplyPolicy(valid, Threshold, {}, Facts, VendorMessages))
  /\ notes' \in NotesKept
  /\ pc' = IF draft' = <<>> THEN "deliver" ELSE "editor"
  /\ UNCHANGED <<job, chunks, loop, late, synthesis, challenger, edited, final, counts>>

\* The editor drops findings, or rewrites the draft's first one.  It writes the summary anew.
Edit ==
  /\ pc = "editor"
  /\ notes' \in {notes, <<>>}
  /\ edited' \in {Picked(draft, keep) : keep \in SUBSET (DOMAIN draft)}
                   \union {[draft EXCEPT ![1] = f] : f \in EditorPool}
  /\ pc' = "deliver"
  /\ UNCHANGED <<job, chunks, loop, late, synthesis, challenger, draft, final, counts>>

\* Validate against the files of the context once more, filter, post.
Deliver ==
  /\ pc = "deliver"
  /\ final' = ConfigFilters(Validated(edited, FetchedLines, RightSideLines(ReviewedDiff)), cfg)
  /\ pc' = "posted"
  /\ UNCHANGED <<job, chunks, loop, late, synthesis, challenger, draft, edited, notes, counts>>

\* The job runs again from the start.
Restart ==
  /\ interrupts < MaxInterrupts
  /\ interrupts' = interrupts + 1
  /\ pc' = "plan"
  /\ at' = 1 /\ found' = <<>> /\ covered' = {} /\ fetched' = {}
  /\ tokensUsed' = 0 /\ stopped' = "none" /\ late' = FALSE
  /\ synthesis' = <<>> /\ challenger' = <<>> /\ draft' = <<>> /\ edited' = <<>> /\ final' = <<>>
  /\ notes' = <<>>
  /\ state' = <<>>
  /\ UNCHANGED <<job, analyses, failures>>

\* The worker dies, or the review fails or is cancelled before _run_chunked_review returned.
Interrupt ==
  /\ pc # "posted"
  /\ Restart
  /\ UNCHANGED <<stored, forgotten>>

\* The review fails or is cancelled later: the failure handler writes the debug artifacts
\* of the run, whose chunking_state has no key of a plan, over those that load_chunk_state
\* reads.
LateFailure ==
  /\ pc \in {"editor", "deliver"}
  /\ Restart
  /\ Persist(<<>>)
  /\ forgotten' = forgotten + Cardinality(Done(stored))

Next ==
  \/ LoadState \/ LatencyPasses \/ LoopEnds \/ ReuseChunk \/ StopAtBudget \/ StartChunk
  \/ ChunkAnswers \/ ChunkFails \/ SaveChunk
  \/ Synthesise \/ Challenge \/ BreakTie \/ Combine \/ Edit \/ Deliver
  \/ Interrupt \/ LateFailure

Spec == Init /\ [][Next]_vars

-----------------------------------------------------------------------------
\* The shape of the state: a stored chunk has findings only once it is done.
TypeOK ==
  /\ pc \in {"plan", "loop", "model", "save", "synthesis", "challenger", "tie_break", "combine",
             "editor", "deliver", "posted"}
  /\ stopped \in {"none", "latency", "prompt_budget"}
  /\ at \in 1 .. Len(Chunks) + 1 /\ covered \subseteq DOMAIN Chunks
  /\ fetched \subseteq DOMAIN Lines
  /\ \A s \in {stored, state} : \A c \in DOMAIN s :
       /\ s[c].status \in {"pending", "running", "done", "failed"}
       /\ s[c].findings # <<>> => s[c].status = "done"

\* The planner loses nothing: unless the plan is truncated, every file of the review
\* surface is in exactly one chunk, files of one integration group stay together, and a
\* chunk exceeds the target only when it is one group or what precedes its last group are too
\* few files to stand alone (chunking.py:132-166).
PlanCoversSurface ==
  /\ \A c, d \in DOMAIN Chunks : c # d => PathsOf(Chunks[c]) \intersect PathsOf(Chunks[d]) = {}
  /\ \A c, d \in DOMAIN Chunks : \A f \in Range(Chunks[c]), g \in Range(Chunks[d]) :
       f.grank = g.grank => c = d
  /\ \A c \in DOMAIN Chunks :
       \/ Tokens(Chunks[c]) <= cfg.target
       \/ \A i \in DOMAIN Chunks[c] :
            Chunks[c][i].grank = Last(Chunks[c]).grank \/ i < cfg.minFiles
  /\ IF plan.partial THEN Len(Chunks) = cfg.maxChunks
     ELSE UNION {PathsOf(Chunks[c]) : c \in DOMAIN Chunks}
            = {f.path : f \in ReviewSurface(files, cfg)}

\* Interruptions cost at most the chunk in progress, unless they come after the chunks: every
\* other run of a model on a chunk either completed the chunk, once, or failed it, or its
\* result was there until the review failed in the editor or in delivery.  A chunk that is
\* stored as done is not reviewed again (runner.py:2369-2372, 2632, 2077-2080,
\* chunked_runtime.py:53-77).
ChunkWorkIsKept ==
  LET open == IF pc \in {"model", "save"} THEN 1 ELSE 0
  IN analyses <= Cardinality(Done(stored)) + failures + interrupts + open + forgotten

\* A review that is posted accounts for every planned chunk.  The synthesis was given the
\* summaries of exactly the chunks the loop passed that are done; any other chunk failed, or
\* lies where the loop stopped; and a review that covers no chunk says what stopped it, so
\* that it does not read like a clean one.  With a covered chunk the notes may be cut, or
\* lost to the editor (runner.py:2364-2504, 2509, 2625-2656).
MissingChunksExplained ==
  pc = "posted" =>
    /\ covered = {c \in 1 .. at - 1 : IsDone(c)}
    /\ \A c \in DOMAIN Chunks \ covered :
         state[c].status = "failed" \/ (stopped # "none" /\ c >= at)
    /\ covered = {} => notes = Notes

\* What a chunk's checks kept is posted, if this attempt read its file: as it is, or by a
\* near duplicate, unless the editor or the repository's filters took it out.  Findings of
\* a chunk an earlier attempt completed have no such promise: their files are not in the
\* context of this one (runner.py:2369-2372, 2788-2793).
ChunkFindingsSurvive ==
  pc = "posted" =>
    \A f \in Range(found) :
      f.path \in fetched /\ Range(draft) \subseteq Range(edited) /\ Len(final) < cfg.cap
        /\ Wanted(f, cfg) =>
        \E g \in Range(draft) :
          NearKey(g) = NearKey(f) /\ (g \in Range(final) \/ ~Wanted(g, cfg))
====
