---- MODULE ReviewAnalysis ----
(***************************************************************************)
(* How one review job turns model answers into the findings it posts, for  *)
(* both engines of the repository: the runner (agent/runner.py, run_review *)
(* after the context is assembled) and the pipeline (agent/pipeline).      *)
(*                                                                         *)
(* The model is an arbitrary choice over the findings of a pool, so a step *)
(* is a call to the model together with every check the code makes of its  *)
(* answer before the next call.  The checks are FindingChecks.             *)
(***************************************************************************)
EXTENDS FindingChecks

CONSTANTS
  Files,          \* path -> its lines at the head commit, of the files in context
  Diff,           \* the lines of the pull request's diff
  Tools, Facts,   \* tools the agent may call; ids of verified_facts.yaml
  VendorMessages, \* messages vendor_detect.py matches
  Window,         \* REPAIR_SEARCH_WINDOW
  PrimaryPool, RetryPool, DebatePool, EditorPool, \* findings each stage's model may return
  MaxAnswer,      \* bound: findings in one answer of the primary, the debate and the editor
  Configs         \* the configurations checked

ASSUME ConfigsAssumption ==
  /\ \A c \in Configs : c.engine \in {"runner", "pipeline"} /\ c.threshold \in 0 .. 100 /\ c.cap \in Nat
  /\ MaxAnswer \in Nat

ASSUME PoolsAssumption ==
  \A f \in UNION {PrimaryPool, RetryPool, DebatePool, EditorPool} : WellFormed(f)

VARIABLES
  cfg,        \* the effective configuration of the job
  pc,         \* the stage about to run
  context,    \* the paths whose text the review holds
  tools,      \* the tools the agent called
  result,     \* validated findings so far
  mismatches, \* findings dropped because their quoted line is not there
  sound,      \* history: what validated before a retry (nothing after a regeneration)
  draft,      \* findings that passed policy (and debate)
  checked,    \* history: the draft before the debate
  challenger, tieBreak,
  edited,     \* the editor's findings
  final,      \* what is posted
  degraded    \* the pipeline recorded an error

job == <<cfg, context, tools>>
found == <<result, mismatches, sound>>
debate == <<draft, checked, challenger, tieBreak>>
out == <<edited, final, degraded>>
vars == <<job, pc, found, debate, out>>

Fetched == [p \in context |-> Files[p]]
Commentable == RightSideLines(Diff)
Answers(pool, n) == UNION {[1 .. k -> pool] : k \in 0 .. n}
IsValid(f) == DropReason(f, Fetched, Commentable) = "valid"

\* The runner reads a threshold of 0 as "not set"; the pipeline takes it as it is.
Threshold == IF cfg.engine = "runner" /\ cfg.threshold = 0 THEN 85 ELSE cfg.threshold
PassesPolicy(f) == MeetsPolicy(f, Threshold, tools, Facts, VendorMessages)

Init ==
  /\ cfg \in Configs
  /\ pc = "context"
  /\ context = {}
  /\ tools = {}
  /\ result = <<>> /\ mismatches = <<>> /\ sound = {} /\ draft = <<>> /\ checked = <<>>
  /\ challenger = <<>> /\ tieBreak = <<>> /\ edited = <<>> /\ final = <<>>
  /\ degraded = FALSE

\* _assemble_context: the bundle holds the text of some of the changed files, by its
\* budgets and by what GitHub returned.
AssembleContext ==
  /\ cfg.engine = "runner" /\ pc = "context"
  /\ context' \in SUBSET DOMAIN Files
  /\ pc' = "primary"
  /\ UNCHANGED <<cfg, tools, found, debate, out>>

\* Which retry a batch of answers earns: at least 20% of them dropped; a focused repair
\* when a quoted line was missing, a regeneration when at least half were dropped.
AfterValidation(generated, dropped) ==
  IF generated = 0 \/ 5 * Len(dropped) < generated THEN "policy"
  ELSE IF \E f \in Range(dropped) : DropReason(f, Fetched, Commentable) = "target_line_mismatch"
       THEN "repair_retry"
  ELSE IF 2 * Len(dropped) >= generated THEN "regenerate"
  ELSE "policy"

\* The agent loop and finalize_review of the first provider that answers, then
\* repair_and_anchor and _validate_result.
PrimaryAnswers ==
  /\ cfg.engine = "runner" /\ pc = "primary"
  /\ \E fs \in Answers(PrimaryPool, MaxAnswer), called \in SUBSET Tools :
       LET anchored == AttachAnchors(RepairAll(fs, Fetched, Commentable, Window), Diff)
           dropped == Rejected(anchored, Fetched, Commentable)
       IN /\ tools' = called
          /\ result' = Validated(anchored, Fetched, Commentable)
          /\ sound' = Range(result')
          /\ mismatches' = SelectSeq(dropped, LAMBDA f :
                             DropReason(f, Fetched, Commentable) = "target_line_mismatch")
          /\ pc' = AfterValidation(Len(fs), dropped)
  /\ UNCHANGED <<cfg, context, debate, out>>

\* Every provider failed, or a retry hit a rate limit: the job fails.
StageFails ==
  /\ cfg.engine = "runner" /\ pc \in {"primary", "repair_retry", "regenerate"}
  /\ pc' = "failed"
  /\ UNCHANGED <<job, found, debate, out>>

\* Mutant: the repaired findings replace the answer.
RepairRetryReplaces ==
  /\ pc = "repair_retry"
  /\ \E fs \in Answers(RetryPool, 1) :
       result' = Validated(RepairAll(fs, Fetched, Commentable, Window), Fetched, Commentable)
  /\ pc' = "policy"
  /\ UNCHANGED <<job, mismatches, sound, debate, out>>

\* The focused repair pass: its valid findings are added when it recovers at least half
\* of the mismatches.  Repaired findings get no diff anchor.
RepairRetry ==
  /\ pc = "repair_retry"
  /\ \E fs \in Answers(RetryPool, 1) :
       LET valid == Validated(RepairAll(fs, Fetched, Commentable, Window), Fetched, Commentable)
       IN result' = IF 2 * Len(valid) >= Len(mismatches) THEN result \o valid ELSE result
  /\ pc' = "policy"
  /\ UNCHANGED <<job, mismatches, sound, debate, out>>

\* The full regeneration replaces the answer.
RegenerateRetry ==
  /\ pc = "regenerate"
  /\ \E fs \in Answers(RetryPool, 1) :
       result' = Validated(RepairAll(fs, Fetched, Commentable, Window), Fetched, Commentable)
  /\ sound' = {}
  /\ pc' = "policy"
  /\ UNCHANGED <<job, mismatches, debate, out>>

\* Confidence, vendor and evidence filters over everything validated so far, then the
\* choice of the next stage.
PolicyFilters ==
  /\ pc = "policy"
  /\ LET passed == ApplyPolicy(result, Threshold, tools, Facts, VendorMessages)
     IN /\ draft' = passed
        /\ checked' = passed
        /\ pc' = IF passed = <<>> THEN "deliver"
                 ELSE IF cfg.maxMode /\ cfg.decision # "light_review" THEN "challenger"
                 ELSE "editor"
  /\ UNCHANGED <<job, found, challenger, tieBreak, out>>

\* The challenger answers, or is degraded to the draft itself.
Challenge ==
  /\ pc = "challenger"
  /\ \E fs \in Answers(DebatePool, MaxAnswer) \union {draft} :
       /\ challenger' = fs
       /\ pc' = IF ConflictScore(draft, fs) >= cfg.conflict \/ HasHighRisk(draft, cfg.highRisk)
                THEN "tie_break" ELSE "merge"
  /\ UNCHANGED <<job, found, draft, checked, tieBreak, out>>

\* The tie-break answers, or its failure leaves the two-way merge.
BreakTie ==
  /\ pc = "tie_break"
  /\ tieBreak' \in {<<fs>> : fs \in Answers(DebatePool, 1)} \union {<<>>}
  /\ pc' = "merge"
  /\ UNCHANGED <<job, found, draft, checked, challenger, out>>

Merge ==
  /\ pc = "merge"
  /\ draft' = MergeDebate(draft, challenger, tieBreak, TRUE)
  /\ pc' = IF draft' = <<>> THEN "deliver" ELSE "editor"
  /\ UNCHANGED <<job, found, checked, challenger, tieBreak, out>>

\* What an editor may return for a draft: it keeps, drops and rewrites, and nothing ties
\* its findings to the draft's; when the editor failed, the draft goes on as it is.
EditsOf(fs) == Answers(Range(fs) \union EditorPool, Len(fs)) \union {fs}

Edit ==
  /\ cfg.engine = "runner" /\ pc = "editor"
  /\ edited' \in EditsOf(draft)
  /\ pc' = "deliver"
  /\ UNCHANGED <<job, found, debate, final, degraded>>

\* Mutant: what the editor returned is posted without the second validation.
DeliverUnchecked ==
  /\ cfg.engine = "runner" /\ pc = "deliver"
  /\ final' = ConfigFilters(edited, cfg)
  /\ pc' = "posted"
  /\ UNCHANGED <<job, found, debate, edited, degraded>>

\* Validate once more, apply the repository's filters, post.
Deliver ==
  /\ cfg.engine = "runner" /\ pc = "deliver"
  /\ final' = ConfigFilters(Validated(edited, Fetched, Commentable), cfg)
  /\ pc' = "posted"
  /\ UNCHANGED <<job, found, debate, edited, degraded>>

\* The pipeline's ingestion: a malformed diff leaves nothing reviewable and is an error,
\* a failed bundle leaves the files the pull request context came with.
PipelineIngests ==
  /\ cfg.engine = "pipeline" /\ pc = "context"
  /\ \/ context' \in SUBSET DOMAIN Files /\ UNCHANGED degraded
     \/ context' = {} /\ degraded' = TRUE
  /\ pc' = "primary"
  /\ UNCHANGED <<cfg, tools, found, debate, edited, final>>

\* review_pipeline's primary stage and its validation stage: repair, anchors, validation,
\* policy, dedupe, configuration filters.
PipelineAnswers ==
  /\ cfg.engine = "pipeline" /\ pc = "primary"
  /\ \E fs \in Answers(PrimaryPool, MaxAnswer), called \in SUBSET Tools :
       LET anchored == AttachAnchors(RepairAll(fs, Fetched, Commentable, Window), Diff)
           valid == Validated(anchored, Fetched, Commentable)
           passed == ApplyPolicy(valid, Threshold, called, Facts, VendorMessages)
       IN /\ tools' = called
          /\ result' = valid
          /\ draft' = ConfigFilters(Dedupe(passed), cfg)
          /\ pc' = IF draft' = <<>> THEN "deliver" ELSE "editor"
  /\ checked' = draft'
  /\ UNCHANGED <<cfg, context, mismatches, sound, challenger, tieBreak, out>>

\* Every provider failed, or the validation stage raised: all findings are withheld and
\* the job goes on degraded.
PipelineDegrades ==
  /\ cfg.engine = "pipeline" /\ pc = "primary"
  /\ degraded' = TRUE
  /\ pc' = "deliver"
  /\ UNCHANGED <<job, found, debate, edited, final>>

\* The pipeline's editor sees no prior review; its failure keeps the draft.
PipelineEdits ==
  /\ cfg.engine = "pipeline" /\ pc = "editor"
  /\ edited' \in EditsOf(draft)
  /\ pc' = "deliver"
  /\ UNCHANGED <<job, found, debate, final, degraded>>

\* The pipeline posts what the editor returned; a delivery that raised or timed out is an
\* error of the run.
PipelineDelivers ==
  /\ cfg.engine = "pipeline" /\ pc = "deliver"
  /\ final' = edited
  /\ degraded' \in {degraded, TRUE}
  /\ pc' = "posted"
  /\ UNCHANGED <<job, found, debate, edited>>

Next ==
  \/ AssembleContext \/ PrimaryAnswers \/ StageFails \/ RepairRetry \/ RegenerateRetry
  \/ PolicyFilters
  \/ Challenge \/ BreakTie \/ Merge \/ Edit \/ Deliver
  \/ PipelineIngests \/ PipelineAnswers \/ PipelineDegrades \/ PipelineEdits \/ PipelineDelivers

Spec == Init /\ [][Next]_vars

-----------------------------------------------------------------------------
\* The stages and the shape of what they hand on.
TypeOK ==
  /\ cfg \in Configs
  /\ context \subseteq DOMAIN Files
  /\ pc \in {"context", "primary", "repair_retry", "regenerate", "policy", "challenger",
             "tie_break", "merge", "editor", "deliver", "posted", "failed"}
  /\ tools \subseteq Tools
  /\ \A fs \in {result, draft, checked, challenger, edited, final} :
       \A i \in DOMAIN fs : fs[i].path \in STRING /\ fs[i].conf \in 0 .. 100
  /\ Len(tieBreak) <= 1
  /\ degraded \in BOOLEAN

\* Whatever the debate and the editor did after validation, every finding the runner posts
\* is on lines of the diff of a file in context and quotes a line of its range, and there
\* are at most cap of them (runner.py:1771-1777).  Lines are those of the head; which side
\* of the diff the comment names is not checked, neither here nor in the code
\* (anchors.py:26-28, delivery/comments.py:44-49).  The pipeline does not validate again,
\* so there this holds of the findings its editor left alone (review_pipeline.py:541).
PostedFindingsAnchor ==
  pc = "posted" =>
    /\ \A i \in DOMAIN final :
         IsValid(final[i]) \/ (cfg.engine = "pipeline" /\ final[i] \notin Range(draft))
    /\ cfg.engine = "runner" => Len(final) <= cfg.cap

\* Every posted finding has passed somebody's judgement.  Either it is a finding of the
\* draft that meets the confidence threshold and cites evidence that exists, retries
\* included; or two stages of the debate raised its issue in that file and category, so a
\* challenger or a tie-break alone puts nothing into the review; or the editor rewrote it
\* (runner.py:1510-1518, 3154-3160).
PostedFindingsWereJudged ==
  pc = "posted" =>
    \A f \in Range(final) :
      LET Backs(fs) == \E g \in Range(fs) : g.path = f.path /\ g.cat = f.cat
          backers == {s \in {"primary", "challenger", "tie_break"} :
                        CASE s = "primary" -> Backs(checked)
                          [] s = "challenger" -> Backs(challenger)
                          [] OTHER -> tieBreak # <<>> /\ Backs(tieBreak[1])}
      IN \/ f \in Range(checked) /\ PassesPolicy(f)
         \/ Cardinality(backers) >= 2
         \/ f \notin Range(draft)

\* A finding of the first answer that is valid, passes policy and is wanted is posted,
\* unless a stage that may drop it did: a regeneration, the debate, the editor or the cap.
\* In particular the focused repair of other findings never costs it.
NothingLostOnTheWay ==
  pc = "posted" /\ cfg.engine = "runner" /\ (~cfg.maxMode \/ cfg.decision = "light_review")
    /\ Range(draft) \subseteq Range(edited) /\ Len(final) < cfg.cap =>
    \A f \in sound : PassesPolicy(f) /\ Wanted(f, cfg) => f \in Range(final)
====
