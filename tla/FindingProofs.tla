---------------------------- MODULE FindingProofs ----------------------------
(***************************************************************************)
(* Proofs about the way of a finding from a model's answer to its comment  *)
(* thread.  ReviewAnalysis, for any files, diff, configurations and pools  *)
(* of findings, and any number of findings in an answer: what the checks   *)
(* keep of a list of findings is proved in FindingChecksProofs.            *)
(* ReviewDelivery, for any reviews, findings, batch size, faults and       *)
(* reruns: its inductive invariant follows every finding of a review from  *)
(* the listing to its thread: posted, or still to be posted in a batch or  *)
(* alone, or its review is no longer on the way to "done".                 *)
(***************************************************************************)
EXTENDS ReviewAnalysis, ReviewDelivery, FindingChecksProofs

-----------------------------------------------------------------------------
(* The inductive invariant *)

Before == {"context", "primary"}
Runner == {"repair_retry", "regenerate", "policy", "challenger", "tie_break", "merge", "failed"}
Debated == {"challenger", "tie_break", "merge"}

ShapeInv ==
  /\ cfg \in Configs /\ context \subseteq DOMAIN Files /\ tools \subseteq Tools
  /\ pc \in Before \union Runner \union {"editor", "deliver", "posted"}
  /\ pc \in Runner => cfg.engine = "runner"
  /\ Findings(result) /\ Findings(draft) /\ Findings(checked) /\ Findings(challenger)
  /\ Findings(edited) /\ Findings(final)
  /\ tieBreak # <<>> => tieBreak = <<tieBreak[1]>> /\ Findings(tieBreak[1])
  /\ degraded \in BOOLEAN
  /\ pc \in Before \union {"repair_retry", "regenerate", "policy"} => draft = <<>> /\ checked = <<>>
  /\ pc \in Before => sound = {}

\* Somebody judged every finding of the draft.
Judged(f) ==
  \/ f \in Range(checked) /\ PassesPolicy(f)
  \/ Cardinality(Backers(checked, challenger, tieBreak, f)) >= 2
JudgedInv ==
  /\ \A f \in Range(checked) : PassesPolicy(f)
  /\ pc \in Debated => draft = checked
  /\ \A f \in Range(draft) : Judged(f)

\* What the last validation let through.
AnchorInv ==
  /\ cfg.engine = "pipeline" => \A f \in Range(draft) : IsValid(f)
  /\ pc = "posted" /\ cfg.engine = "pipeline" => final = edited
  /\ pc = "posted" /\ cfg.engine = "runner" =>
       /\ \A f \in Range(final) : IsValid(f)
       /\ Len(final) <= cfg.cap

\* Where a finding that validated before a retry is by now.
SoundInv ==
  /\ \A f \in sound : IsValid(f)
  /\ pc \in {"repair_retry", "policy"} => sound \subseteq Range(result)
  /\ pc \in Debated \union {"editor", "deliver", "posted"} /\ cfg.engine = "runner" =>
       \A f \in sound : PassesPolicy(f) => f \in Range(checked)
  /\ ~cfg.maxMode \/ cfg.decision = "light_review" => pc \notin Debated /\ draft = checked
  /\ pc = "posted" /\ cfg.engine = "runner" /\ Len(final) < cfg.cap =>
       \A f \in Range(edited) : IsValid(f) /\ Wanted(f, cfg) => f \in Range(final)

IInv == ShapeInv /\ JudgedInv /\ AnchorInv /\ SoundInv

-----------------------------------------------------------------------------
(* The stages *)

LEMMA PoolsAreGood ==
  \A f \in PrimaryPool \union RetryPool \union DebatePool \union EditorPool : Good(f)
BY PoolsAssumption DEF WellFormed, Good

LEMMA AnswersAreFindings ==
  ASSUME NEW pool, \A f \in pool : Good(f), NEW n \in Nat, NEW fs \in Answers(pool, n)
  PROVE  Findings(fs)
<1>1. PICK k \in 0 .. n : fs \in [1 .. k -> pool]
  BY DEF Answers
<1>2. IsList(fs)
  BY <1>1, FunctionList
<1>3. \A f \in Range(fs) : f \in pool
  BY <1>1 DEF Range
<1> QED
  BY <1>2, <1>3 DEF Findings

LEMMA EditsAreFindings ==
  ASSUME NEW fs, Findings(fs), NEW e \in EditsOf(fs)
  PROVE  Findings(e)
<1>1. CASE e = fs
  BY <1>1
<1>2. CASE e \in Answers(Range(fs) \union EditorPool, Len(fs))
  <2>1. \A f \in Range(fs) \union EditorPool : Good(f)
    BY PoolsAreGood DEF Findings
  <2>2. Len(fs) \in Nat
    BY ListFacts DEF Findings
  <2> QED
    BY <1>2, <2>1, <2>2, AnswersAreFindings
<1> QED
  BY <1>1, <1>2 DEF EditsOf

\* What a validation hands on is valid.
LEMMA ValidatedAreValid ==
  ASSUME NEW fs, Findings(fs)
  PROVE  /\ Findings(Validated(fs, Fetched, Commentable))
         /\ Range(Validated(fs, Fetched, Commentable)) = {f \in Range(fs) : IsValid(f)}
<1>1. /\ IsList(Validated(fs, Fetched, Commentable))
      /\ Range(Validated(fs, Fetched, Commentable)) =
           {f \in Range(fs) : DropReason(f, Fetched, Commentable) = "valid"}
  BY ValidatedKeeps DEF Findings
<1> QED
  BY <1>1 DEF Findings, IsValid

\* Nothing judges differently while the job's context, tools and configuration stay.
LEMMA SameJudgement ==
  ASSUME UNCHANGED job
  PROVE  \A f : (IsValid(f)' <=> IsValid(f)) /\ (PassesPolicy(f)' <=> PassesPolicy(f))
BY DEF job, IsValid, Fetched, PassesPolicy, Threshold

LEMMA NothingToSend == Findings(<<>>) /\ Range(<<>>) = {}
BY EmptyList DEF Findings

\* A draft that is what passed the policy has been judged.
LEMMA PassedIsJudged ==
  ASSUME draft = checked, \A f \in Range(checked) : PassesPolicy(f)
  PROVE  \A f \in Range(draft) : Judged(f)
BY DEF Judged

LEMMA InitEstablishes == Init => IInv
<1> SUFFICES ASSUME Init PROVE IInv
  OBVIOUS
<1>1. ShapeInv
  BY NothingToSend DEF Init, ShapeInv, Before, Runner
<1>2. JudgedInv
  BY NothingToSend DEF Init, JudgedInv, Debated
<1>3. AnchorInv
  BY NothingToSend DEF Init, AnchorInv
<1>4. SoundInv
  BY DEF Init, SoundInv, Debated
<1> QED
  BY <1>1, <1>2, <1>3, <1>4 DEF IInv

LEMMA AssembleContextStep == IInv /\ AssembleContext => IInv'
<1> SUFFICES ASSUME IInv, AssembleContext PROVE IInv'
  OBVIOUS
<1>0. /\ cfg.engine = "runner" /\ pc = "context" /\ pc' = "primary" /\ context' \subseteq DOMAIN Files
      /\ cfg' = cfg /\ tools' = tools /\ UNCHANGED <<result, mismatches, sound>>
      /\ UNCHANGED <<draft, checked, challenger, tieBreak, edited, final, degraded>>
  BY DEF AssembleContext, found, debate, out
<1>1. draft = <<>> /\ checked = <<>> /\ sound = {} /\ Range(<<>>) = {}
  BY <1>0, NothingToSend DEF IInv, ShapeInv, Before
<1>2. ShapeInv'
  BY <1>0 DEF IInv, ShapeInv, Before, Runner
<1>3. JudgedInv'
  BY <1>0, <1>1 DEF JudgedInv, Debated
<1>4. AnchorInv'
  BY <1>0, <1>1 DEF AnchorInv
<1>5. SoundInv'
  BY <1>0, <1>1 DEF SoundInv, Debated
<1> QED
  BY <1>2, <1>3, <1>4, <1>5 DEF IInv

LEMMA PrimaryAnswersStep == IInv /\ PrimaryAnswers => IInv'
<1> SUFFICES ASSUME IInv, PrimaryAnswers PROVE IInv'
  OBVIOUS
<1>0. PICK fs \in Answers(PrimaryPool, MaxAnswer), called \in SUBSET Tools :
        /\ cfg.engine = "runner" /\ pc = "primary" /\ tools' = called
        /\ result' = Validated(AttachAnchors(RepairAll(fs, Fetched, Commentable, Window), Diff),
                               Fetched, Commentable)
        /\ sound' = Range(result')
        /\ pc' = AfterValidation(Len(fs), Rejected(AttachAnchors(
                   RepairAll(fs, Fetched, Commentable, Window), Diff), Fetched, Commentable))
        /\ UNCHANGED <<cfg, context, draft, checked, challenger, tieBreak, edited, final, degraded>>
  BY Zenon DEF PrimaryAnswers, debate, out
<1>1. pc' \in {"policy", "repair_retry", "regenerate"}
  BY <1>0 DEF AfterValidation
<1>2. Findings(result') /\ \A f \in Range(result') : IsValid(f)
  <2>1. Findings(fs)
    BY <1>0, PoolsAreGood, ConfigsAssumption, AnswersAreFindings
  <2>2. Findings(AttachAnchors(RepairAll(fs, Fetched, Commentable, Window), Diff))
    BY <2>1, RepairKeeps, AnchorKeeps
  <2> QED
    BY <1>0, <2>2, ValidatedAreValid
<1>3. \A f : IsValid(f)' <=> IsValid(f)
  BY <1>0 DEF IsValid, Fetched
<1>4. draft = <<>> /\ checked = <<>> /\ Range(<<>>) = {}
  BY <1>0, NothingToSend DEF IInv, ShapeInv, Before
<1>5. tools' \subseteq Tools /\ pc' \notin Before \union Debated
  BY <1>0, <1>1 DEF Before, Debated
<1>6. ShapeInv'
  BY <1>0, <1>1, <1>2, <1>4, <1>5 DEF IInv, ShapeInv, Runner
<1>7. JudgedInv'
  BY <1>0, <1>1, <1>4 DEF JudgedInv, Debated
<1>8. AnchorInv'
  BY <1>0, <1>1, <1>4 DEF AnchorInv
<1>9. SoundInv'
  <2>1. \A f \in sound' : IsValid(f)'
    BY <1>0, <1>2, <1>3
  <2> QED
    BY <1>0, <1>1, <1>4, <2>1 DEF SoundInv, Debated
<1> QED
  BY <1>6, <1>7, <1>8, <1>9 DEF IInv

LEMMA StageFailsStep == IInv /\ StageFails => IInv'
<1> SUFFICES ASSUME IInv, StageFails PROVE IInv'
  OBVIOUS
<1>0. /\ cfg.engine = "runner" /\ pc \in {"primary", "repair_retry", "regenerate"} /\ pc' = "failed"
      /\ UNCHANGED <<job, found, debate, out>>
  BY DEF StageFails
<1>1. UNCHANGED <<cfg, context, tools, result, sound, draft, checked, challenger, tieBreak, edited,
                  final, degraded>>
  BY <1>0 DEF job, found, debate, out
<1>2. \A f : (IsValid(f)' <=> IsValid(f)) /\ (PassesPolicy(f)' <=> PassesPolicy(f))
  BY <1>0, SameJudgement
<1>3. draft = <<>> /\ checked = <<>> /\ Range(<<>>) = {}
  BY <1>0, NothingToSend DEF IInv, ShapeInv, Before
<1>4. ShapeInv'
  BY <1>0, <1>1 DEF IInv, ShapeInv, Before, Runner
<1>5. JudgedInv'
  BY <1>0, <1>1, <1>3 DEF JudgedInv, Debated
<1>6. AnchorInv'
  BY <1>0, <1>1, <1>3 DEF AnchorInv
<1>7. SoundInv'
  BY <1>0, <1>1, <1>2, <1>3 DEF IInv, SoundInv, Debated
<1> QED
  BY <1>4, <1>5, <1>6, <1>7 DEF IInv

LEMMA RepairRetryStep == IInv /\ RepairRetry => IInv'
<1> SUFFICES ASSUME IInv, RepairRetry PROVE IInv'
  OBVIOUS
<1> DEFINE valid(fs) == Validated(RepairAll(fs, Fetched, Commentable, Window), Fetched, Commentable)
<1>0. PICK fs \in Answers(RetryPool, 1) :
        /\ pc = "repair_retry" /\ pc' = "policy"
        /\ result' = IF 2 * Len(valid(fs)) >= Len(mismatches) THEN result \o valid(fs) ELSE result
        /\ UNCHANGED <<job, sound, debate, out>>
  BY Zenon DEF RepairRetry
<1>1. UNCHANGED <<cfg, context, tools, sound, draft, checked, challenger, tieBreak, edited, final, degraded>>
  BY <1>0 DEF job, debate, out
<1>2. Findings(result') /\ Range(result) \subseteq Range(result')
  <2>1. Findings(fs)
    BY PoolsAreGood, AnswersAreFindings
  <2>2. Findings(valid(fs))
    BY <2>1, RepairKeeps, ValidatedAreValid
  <2>3. Findings(result)
    BY DEF IInv, ShapeInv
  <2>4. IsList(result \o valid(fs)) /\ Range(result \o valid(fs)) = Range(result) \union Range(valid(fs))
    <3> HIDE DEF valid
    <3> QED
      BY <2>2, <2>3, ConcatList DEF Findings
  <2>5. result' = result \o valid(fs) \/ result' = result
    BY <1>0
  <2> HIDE DEF valid
  <2> QED
    BY <2>2, <2>3, <2>4, <2>5 DEF Findings
<1>3. \A f : (IsValid(f)' <=> IsValid(f)) /\ (PassesPolicy(f)' <=> PassesPolicy(f))
  BY <1>0, SameJudgement
<1>4. draft = <<>> /\ checked = <<>> /\ Range(<<>>) = {}
  BY <1>0, NothingToSend DEF IInv, ShapeInv
<1>5. ShapeInv'
  BY <1>0, <1>1, <1>2 DEF IInv, ShapeInv, Before, Runner
<1>6. JudgedInv'
  BY <1>0, <1>1, <1>4 DEF JudgedInv, Debated
<1>7. AnchorInv'
  BY <1>0, <1>1, <1>4 DEF AnchorInv
<1>8. SoundInv'
  BY <1>0, <1>1, <1>2, <1>3, <1>4 DEF IInv, SoundInv, Debated
<1> QED
  BY <1>5, <1>6, <1>7, <1>8 DEF IInv

LEMMA RegenerateRetryStep == IInv /\ RegenerateRetry => IInv'
<1> SUFFICES ASSUME IInv, RegenerateRetry PROVE IInv'
  OBVIOUS
<1>0. PICK fs \in Answers(RetryPool, 1) :
        /\ pc = "regenerate" /\ pc' = "policy" /\ sound' = {}
        /\ result' = Validated(RepairAll(fs, Fetched, Commentable, Window), Fetched, Commentable)
        /\ UNCHANGED <<job, debate, out>>
  BY Zenon DEF RegenerateRetry
<1>1. UNCHANGED <<cfg, context, tools, draft, checked, challenger, tieBreak, edited, final, degraded>>
  BY <1>0 DEF job, debate, out
<1>2. Findings(result')
  <2>1. Findings(fs)
    BY PoolsAreGood, AnswersAreFindings
  <2> QED
    BY <1>0, <2>1, RepairKeeps, ValidatedAreValid
<1>3. draft = <<>> /\ checked = <<>> /\ Range(<<>>) = {}
  BY <1>0, NothingToSend DEF IInv, ShapeInv
<1>4. ShapeInv'
  BY <1>0, <1>1, <1>2 DEF IInv, ShapeInv, Before, Runner
<1>5. JudgedInv'
  BY <1>0, <1>1, <1>3 DEF JudgedInv, Debated
<1>6. AnchorInv'
  BY <1>0, <1>1, <1>3 DEF AnchorInv
<1>7. SoundInv'
  BY <1>0, <1>1, <1>3 DEF SoundInv, Debated
<1> QED
  BY <1>4, <1>5, <1>6, <1>7 DEF IInv

LEMMA PolicyFiltersStep == IInv /\ PolicyFilters => IInv'
<1> SUFFICES ASSUME IInv, PolicyFilters PROVE IInv'
  OBVIOUS
<1>0. /\ pc = "policy" /\ draft' = ApplyPolicy(result, Threshold, tools, Facts, VendorMessages)
      /\ checked' = draft'
      /\ pc' = IF draft' = <<>> THEN "deliver"
               ELSE IF cfg.maxMode /\ cfg.decision # "light_review" THEN "challenger" ELSE "editor"
      /\ UNCHANGED <<job, found, challenger, tieBreak, out>>
  BY DEF PolicyFilters
<1>1. UNCHANGED <<cfg, context, tools, result, sound, challenger, tieBreak, edited, final, degraded>>
  BY <1>0 DEF job, found, out
<1>2. /\ IsList(draft') /\ Range(draft') = {f \in Range(result) : PassesPolicy(f)}
  <2>1. IsList(result)
    BY DEF IInv, ShapeInv, Findings
  <2>2. /\ IsList(ApplyPolicy(result, Threshold, tools, Facts, VendorMessages))
        /\ Range(ApplyPolicy(result, Threshold, tools, Facts, VendorMessages)) =
             {f \in Range(result) : MeetsPolicy(f, Threshold, tools, Facts, VendorMessages)}
    BY <2>1, PolicyKeeps
  <2> QED
    BY <1>0, <2>2 DEF PassesPolicy
<1>3. \A f : (IsValid(f)' <=> IsValid(f)) /\ (PassesPolicy(f)' <=> PassesPolicy(f))
  BY <1>0, SameJudgement
<1>4. Findings(draft') /\ Findings(checked')
  BY <1>0, <1>2 DEF IInv, ShapeInv, Findings
<1>5. cfg.engine = "runner" /\ pc' \in {"deliver", "challenger", "editor"}
  BY <1>0 DEF IInv, ShapeInv, Runner
<1>6. ShapeInv'
  BY <1>0, <1>1, <1>4, <1>5 DEF IInv, ShapeInv, Before, Runner
<1>7. JudgedInv'
  <2>1. \A f \in Range(checked') : PassesPolicy(f)'
    BY <1>0, <1>2, <1>3
  <2> QED
    BY <1>0, <2>1 DEF JudgedInv, Judged
<1>8. AnchorInv'
  BY <1>0, <1>1, <1>5, ConfigsAssumption DEF IInv, ShapeInv, AnchorInv
<1>9. SoundInv'
  <2>1. \A f \in sound' : IsValid(f)'
    BY <1>1, <1>3 DEF IInv, SoundInv
  <2>2. \A f \in sound' : PassesPolicy(f)' => f \in Range(checked')
    BY <1>0, <1>1, <1>2, <1>3 DEF IInv, SoundInv
  <2> QED
    BY <1>0, <1>1, <1>5, <2>1, <2>2 DEF SoundInv, Debated
<1> QED
  BY <1>6, <1>7, <1>8, <1>9 DEF IInv

LEMMA ChallengeStep == IInv /\ Challenge => IInv'
<1> SUFFICES ASSUME IInv, Challenge PROVE IInv'
  OBVIOUS
<1>0. PICK fs \in Answers(DebatePool, MaxAnswer) \union {draft} :
        /\ pc = "challenger" /\ challenger' = fs /\ pc' \in {"tie_break", "merge"}
        /\ UNCHANGED <<job, found, draft, checked, tieBreak, out>>
  BY DEF Challenge
<1>1. UNCHANGED <<cfg, context, tools, result, sound, draft, checked, tieBreak, edited, final, degraded>>
  BY <1>0 DEF job, found, out
<1>2. \A f : (IsValid(f)' <=> IsValid(f)) /\ (PassesPolicy(f)' <=> PassesPolicy(f))
  BY <1>0, SameJudgement
<1>3. Findings(challenger')
  BY <1>0, PoolsAreGood, ConfigsAssumption, AnswersAreFindings DEF IInv, ShapeInv
<1>4. ShapeInv'
  BY <1>0, <1>1, <1>3 DEF IInv, ShapeInv, Before, Runner
<1>5. JudgedInv'
  BY <1>0, <1>1, <1>2 DEF IInv, JudgedInv, Judged, Debated
<1>6. AnchorInv'
  BY <1>0, <1>1, <1>2 DEF IInv, AnchorInv
<1>7. SoundInv'
  BY <1>0, <1>1, <1>2 DEF IInv, SoundInv, Debated
<1> QED
  BY <1>4, <1>5, <1>6, <1>7 DEF IInv

LEMMA BreakTieStep == IInv /\ BreakTie => IInv'
<1> SUFFICES ASSUME IInv, BreakTie PROVE IInv'
  OBVIOUS
<1>0. /\ pc = "tie_break" /\ tieBreak' \in {<<fs>> : fs \in Answers(DebatePool, 1)} \union {<<>>}
      /\ pc' = "merge"
      /\ UNCHANGED <<job, found, draft, checked, challenger, out>>
  BY DEF BreakTie
<1>1. UNCHANGED <<cfg, context, tools, result, sound, draft, checked, challenger, edited, final, degraded>>
  BY <1>0 DEF job, found, out
<1>2. \A f : (IsValid(f)' <=> IsValid(f)) /\ (PassesPolicy(f)' <=> PassesPolicy(f))
  BY <1>0, SameJudgement
<1>3. tieBreak' # <<>> => tieBreak' = <<tieBreak'[1]>> /\ Findings(tieBreak'[1])
  <2>1. \A fs \in Answers(DebatePool, 1) : Findings(fs)
    BY PoolsAreGood, AnswersAreFindings
  <2> QED
    BY <1>0, <2>1
<1>4. ShapeInv'
  BY <1>0, <1>1, <1>3 DEF IInv, ShapeInv, Before, Runner
<1>5. JudgedInv'
  BY <1>0, <1>1, <1>2 DEF IInv, JudgedInv, Judged, Debated
<1>6. AnchorInv'
  BY <1>0, <1>1, <1>2 DEF IInv, AnchorInv
<1>7. SoundInv'
  BY <1>0, <1>1, <1>2 DEF IInv, SoundInv, Debated
<1> QED
  BY <1>4, <1>5, <1>6, <1>7 DEF IInv

LEMMA MergeStep == IInv /\ Merge => IInv'
<1> SUFFICES ASSUME IInv, Merge PROVE IInv'
  OBVIOUS
<1>0. /\ pc = "merge" /\ draft' = MergeDebate(draft, challenger, tieBreak, TRUE)
      /\ pc' \in {"deliver", "editor"}
      /\ UNCHANGED <<job, found, checked, challenger, tieBreak, out>>
  BY DEF Merge
<1>1. UNCHANGED <<cfg, context, tools, result, sound, checked, challenger, tieBreak, edited, final, degraded>>
  BY <1>0 DEF job, found, out
<1>2. \A f : (IsValid(f)' <=> IsValid(f)) /\ (PassesPolicy(f)' <=> PassesPolicy(f))
  BY <1>0, SameJudgement
<1>3. draft = checked /\ \A f \in Range(checked) : PassesPolicy(f)
  BY <1>0 DEF IInv, JudgedInv, Debated
<1>4. Findings(draft') /\ \A f \in Range(draft') : Kept(checked, challenger, tieBreak, f)
  BY <1>0, <1>3, MergeKeeps DEF IInv, ShapeInv
<1>5. cfg.engine = "runner" /\ ~(~cfg.maxMode \/ cfg.decision = "light_review")
  BY <1>0 DEF IInv, ShapeInv, SoundInv, Runner, Debated
<1>6. ShapeInv'
  BY <1>0, <1>1, <1>4, <1>5 DEF IInv, ShapeInv, Before, Runner
<1>7. JudgedInv'
  <2>1. \A f \in Range(checked') : PassesPolicy(f)'
    BY <1>1, <1>2, <1>3
  <2>2. \A f \in Range(draft') : Judged(f)'
    <3> SUFFICES ASSUME NEW f \in Range(draft') PROVE Judged(f)'
      OBVIOUS
    <3>1. f \in Range(checked) \/ Cardinality(Backers(checked, challenger, tieBreak, f)) >= 2
      BY <1>4 DEF Kept
    <3> QED
      BY <1>1, <2>1, <3>1 DEF Judged
  <2> QED
    BY <1>0, <2>1, <2>2 DEF JudgedInv, Debated
<1>8. AnchorInv'
  BY <1>0, <1>1, <1>5 DEF AnchorInv
<1>9. SoundInv'
  BY <1>0, <1>1, <1>2, <1>5 DEF IInv, SoundInv, Debated
<1> QED
  BY <1>6, <1>7, <1>8, <1>9 DEF IInv

LEMMA EditStep == IInv /\ (Edit \/ PipelineEdits) => IInv'
<1> SUFFICES ASSUME IInv, Edit \/ PipelineEdits PROVE IInv'
  OBVIOUS
<1>0. /\ pc = "editor" /\ edited' \in EditsOf(draft) /\ pc' = "deliver"
      /\ UNCHANGED <<job, found, debate, final, degraded>>
  BY DEF Edit, PipelineEdits
<1>1. UNCHANGED <<cfg, context, tools, result, sound, draft, checked, challenger, tieBreak, final, degraded>>
  BY <1>0 DEF job, found, debate
<1>2. \A f : (IsValid(f)' <=> IsValid(f)) /\ (PassesPolicy(f)' <=> PassesPolicy(f))
  BY <1>0, SameJudgement
<1>3. Findings(edited')
  BY <1>0, EditsAreFindings DEF IInv, ShapeInv
<1>4. ShapeInv'
  BY <1>0, <1>1, <1>3 DEF IInv, ShapeInv, Before, Runner
<1>5. JudgedInv'
  BY <1>0, <1>1, <1>2 DEF IInv, JudgedInv, Judged, Debated
<1>6. AnchorInv'
  BY <1>0, <1>1, <1>2 DEF IInv, AnchorInv
<1>7. SoundInv'
  BY <1>0, <1>1, <1>2 DEF IInv, SoundInv, Debated
<1> QED
  BY <1>4, <1>5, <1>6, <1>7 DEF IInv

LEMMA DeliverStep == IInv /\ Deliver => IInv'
<1> SUFFICES ASSUME IInv, Deliver PROVE IInv'
  OBVIOUS
<1> DEFINE valid == Validated(edited, Fetched, Commentable)
<1>0. /\ cfg.engine = "runner" /\ pc = "deliver" /\ final' = ConfigFilters(valid, cfg)
      /\ pc' = "posted"
      /\ UNCHANGED <<job, found, debate, edited, degraded>>
  BY DEF Deliver
<1>1. UNCHANGED <<cfg, context, tools, result, sound, draft, checked, challenger, tieBreak, edited, degraded>>
  BY <1>0 DEF job, found, debate
<1>2. \A f : (IsValid(f)' <=> IsValid(f)) /\ (PassesPolicy(f)' <=> PassesPolicy(f))
  BY <1>0, SameJudgement
<1>3. Findings(valid) /\ Range(valid) = {f \in Range(edited) : IsValid(f)}
  BY ValidatedAreValid DEF IInv, ShapeInv
<1>4. /\ IsList(final') /\ Len(final') <= cfg.cap /\ Range(final') \subseteq Range(valid)
      /\ Len(final') < cfg.cap => \A f \in Range(valid) : Wanted(f, cfg) => f \in Range(final')
  <2>1. cfg.cap \in Nat
    BY ConfigsAssumption DEF IInv, ShapeInv
  <2> HIDE DEF valid
  <2> QED
    BY <1>0, <1>3, <2>1, ConfigFiltersKeep
<1> HIDE DEF valid
<1>5. Findings(final')
  BY <1>3, <1>4 DEF Findings
<1>6. ShapeInv'
  BY <1>0, <1>1, <1>5 DEF IInv, ShapeInv, Before, Runner
<1>7. JudgedInv'
  BY <1>0, <1>1, <1>2 DEF IInv, JudgedInv, Judged, Debated
<1>8. AnchorInv'
  <2>1. \A f \in Range(final') : IsValid(f)'
    BY <1>2, <1>3, <1>4
  <2> QED
    BY <1>0, <1>1, <1>4, <2>1 DEF AnchorInv
<1>9. SoundInv'
  <2>1. Len(final') < cfg.cap =>
          \A f \in Range(edited) : IsValid(f)' /\ Wanted(f, cfg) => f \in Range(final')
    BY <1>2, <1>3, <1>4
  <2>2. /\ \A f \in sound : IsValid(f)'
        /\ \A f \in sound : PassesPolicy(f)' => f \in Range(checked)
        /\ ~cfg.maxMode \/ cfg.decision = "light_review" => draft = checked
    BY <1>0, <1>2 DEF IInv, SoundInv
  <2> QED
    BY <1>0, <1>1, <2>1, <2>2 DEF SoundInv, Debated
<1> QED
  BY <1>6, <1>7, <1>8, <1>9 DEF IInv

LEMMA PipelineIngestsStep == IInv /\ PipelineIngests => IInv'
<1> SUFFICES ASSUME IInv, PipelineIngests PROVE IInv'
  OBVIOUS
<1>0. /\ cfg.engine = "pipeline" /\ pc = "context" /\ pc' = "primary" /\ context' \subseteq DOMAIN Files
      /\ degraded' \in {degraded, TRUE}
      /\ UNCHANGED <<cfg, tools, result, sound, draft, checked, challenger, tieBreak, edited, final>>
  BY DEF PipelineIngests, found, debate
<1>1. draft = <<>> /\ checked = <<>> /\ sound = {} /\ Range(<<>>) = {}
  BY <1>0, NothingToSend DEF IInv, ShapeInv, Before
<1>2. ShapeInv'
  BY <1>0 DEF IInv, ShapeInv, Before, Runner
<1>3. JudgedInv'
  BY <1>0, <1>1 DEF JudgedInv, Debated
<1>4. AnchorInv'
  BY <1>0, <1>1 DEF AnchorInv
<1>5. SoundInv'
  BY <1>0, <1>1 DEF SoundInv, Debated
<1> QED
  BY <1>2, <1>3, <1>4, <1>5 DEF IInv

LEMMA PipelineAnswersStep == IInv /\ PipelineAnswers => IInv'
<1> SUFFICES ASSUME IInv, PipelineAnswers PROVE IInv'
  OBVIOUS
<1> DEFINE valid(fs) == Validated(AttachAnchors(RepairAll(fs, Fetched, Commentable, Window), Diff),
                                  Fetched, Commentable)
           passed(fs, called) == ApplyPolicy(valid(fs), Threshold, called, Facts, VendorMessages)
<1>0. PICK fs \in Answers(PrimaryPool, MaxAnswer), called \in SUBSET Tools :
        /\ cfg.engine = "pipeline" /\ pc = "primary" /\ tools' = called
        /\ result' = valid(fs) /\ draft' = ConfigFilters(Dedupe(passed(fs, called)), cfg)
        /\ checked' = draft' /\ pc' \in {"deliver", "editor"}
        /\ UNCHANGED <<cfg, context, sound, challenger, tieBreak, edited, final, degraded>>
  BY DEF PipelineAnswers, out
<1>1. Findings(result') /\ \A f \in Range(result') : IsValid(f)
  <2>1. Findings(fs)
    BY PoolsAreGood, ConfigsAssumption, AnswersAreFindings
  <2>2. Findings(AttachAnchors(RepairAll(fs, Fetched, Commentable, Window), Diff))
    BY <2>1, RepairKeeps, AnchorKeeps
  <2> QED
    BY <1>0, <2>2, ValidatedAreValid
<1>2. Findings(passed(fs, called))
      /\ Range(passed(fs, called)) =
           {f \in Range(result') : MeetsPolicy(f, Threshold, called, Facts, VendorMessages)}
  <2>1. IsList(valid(fs)) /\ valid(fs) = result'
    BY <1>0, <1>1 DEF Findings
  <2> HIDE DEF valid
  <2>2. /\ IsList(passed(fs, called))
        /\ Range(passed(fs, called)) =
             {f \in Range(valid(fs)) : MeetsPolicy(f, Threshold, called, Facts, VendorMessages)}
    BY <2>1, PolicyKeeps
  <2> HIDE DEF passed
  <2> QED
    BY <1>1, <2>1, <2>2 DEF Findings
<1> HIDE DEF valid, passed
<1>3. Findings(Dedupe(passed(fs, called))) /\ Range(Dedupe(passed(fs, called))) \subseteq Range(passed(fs, called))
  BY <1>2, DedupeKeeps
<1>4. IsList(draft') /\ Range(draft') \subseteq Range(passed(fs, called))
  <2>1. cfg.cap \in Nat
    BY ConfigsAssumption DEF IInv, ShapeInv
  <2>2. /\ IsList(ConfigFilters(Dedupe(passed(fs, called)), cfg))
        /\ Range(ConfigFilters(Dedupe(passed(fs, called)), cfg)) \subseteq Range(Dedupe(passed(fs, called)))
    BY <1>3, <2>1, ConfigFiltersKeep
  <2> QED
    BY <1>0, <1>3, <2>2
<1>5. \A f \in Range(draft') : IsValid(f)' /\ PassesPolicy(f)' /\ Good(f)
  <2>1. \A f : IsValid(f)' <=> IsValid(f)
    BY <1>0 DEF IsValid, Fetched
  <2>2. \A f : PassesPolicy(f)' <=> MeetsPolicy(f, Threshold, called, Facts, VendorMessages)
    BY <1>0 DEF PassesPolicy, Threshold
  <2> QED
    BY <1>1, <1>2, <1>4, <2>1, <2>2 DEF Findings
<1>6. Findings(draft') /\ Findings(checked')
  BY <1>0, <1>4, <1>5 DEF Findings
<1>7. sound = {}
  BY <1>0 DEF IInv, ShapeInv, Before
<1>8. tools' \subseteq Tools
  BY <1>0
<1>9. ShapeInv'
  BY <1>0, <1>1, <1>6, <1>8 DEF IInv, ShapeInv, Before, Runner
<1>10. JudgedInv'
  BY <1>0, <1>5 DEF JudgedInv, Judged
<1>11. AnchorInv'
  BY <1>0, <1>5 DEF AnchorInv
<1>12. SoundInv'
  BY <1>0, <1>7 DEF SoundInv, Debated
<1> QED
  BY <1>9, <1>10, <1>11, <1>12 DEF IInv

LEMMA PipelineDegradesStep == IInv /\ PipelineDegrades => IInv'
<1> SUFFICES ASSUME IInv, PipelineDegrades PROVE IInv'
  OBVIOUS
<1>0. /\ cfg.engine = "pipeline" /\ pc = "primary" /\ pc' = "deliver" /\ degraded' = TRUE
      /\ UNCHANGED <<job, found, debate, edited, final>>
  BY DEF PipelineDegrades
<1>1. UNCHANGED <<cfg, context, tools, result, sound, draft, checked, challenger, tieBreak, edited, final>>
  BY <1>0 DEF job, found, debate
<1>2. draft = <<>> /\ checked = <<>> /\ sound = {} /\ Range(<<>>) = {}
  BY <1>0, NothingToSend DEF IInv, ShapeInv, Before
<1>3. ShapeInv'
  BY <1>0, <1>1 DEF IInv, ShapeInv, Before, Runner
<1>4. JudgedInv'
  BY <1>0, <1>1, <1>2 DEF JudgedInv, Debated
<1>5. AnchorInv'
  BY <1>0, <1>1, <1>2 DEF AnchorInv
<1>6. SoundInv'
  BY <1>0, <1>1, <1>2 DEF SoundInv, Debated
<1> QED
  BY <1>3, <1>4, <1>5, <1>6 DEF IInv

LEMMA PipelineDeliversStep == IInv /\ PipelineDelivers => IInv'
<1> SUFFICES ASSUME IInv, PipelineDelivers PROVE IInv'
  OBVIOUS
<1>0. /\ cfg.engine = "pipeline" /\ pc = "deliver" /\ final' = edited /\ pc' = "posted"
      /\ degraded' \in {degraded, TRUE}
      /\ UNCHANGED <<job, found, debate, edited>>
  BY DEF PipelineDelivers
<1>1. UNCHANGED <<cfg, context, tools, result, sound, draft, checked, challenger, tieBreak, edited>>
  BY <1>0 DEF job, found, debate
<1>2. \A f : (IsValid(f)' <=> IsValid(f)) /\ (PassesPolicy(f)' <=> PassesPolicy(f))
  BY <1>0, SameJudgement
<1>3. ShapeInv'
  BY <1>0, <1>1 DEF IInv, ShapeInv, Before, Runner
<1>4. JudgedInv'
  BY <1>0, <1>1, <1>2 DEF IInv, JudgedInv, Judged, Debated
<1>5. AnchorInv'
  BY <1>0, <1>1, <1>2 DEF IInv, AnchorInv
<1>6. SoundInv'
  BY <1>0, <1>1, <1>2 DEF IInv, SoundInv, Debated
<1> QED
  BY <1>3, <1>4, <1>5, <1>6 DEF IInv

LEMMA StutterStep == IInv /\ UNCHANGED vars => IInv'
<1> SUFFICES ASSUME IInv, UNCHANGED vars PROVE IInv'
  OBVIOUS
<1>0. UNCHANGED <<cfg, context, tools, pc, result, sound, draft, checked, challenger, tieBreak, edited,
                  final, degraded>>
  BY DEF vars, job, found, debate, out
<1>1. \A f : (IsValid(f)' <=> IsValid(f)) /\ (PassesPolicy(f)' <=> PassesPolicy(f))
  BY SameJudgement DEF vars
<1>2. ShapeInv'
  BY <1>0 DEF IInv, ShapeInv
<1>3. JudgedInv'
  BY <1>0, <1>1 DEF IInv, JudgedInv, Judged
<1>4. AnchorInv'
  BY <1>0, <1>1 DEF IInv, AnchorInv
<1>5. SoundInv'
  BY <1>0, <1>1 DEF IInv, SoundInv
<1> QED
  BY <1>2, <1>3, <1>4, <1>5 DEF IInv

LEMMA NextPreserves == IInv /\ [Next]_vars => IInv'
BY AssembleContextStep, PrimaryAnswersStep, StageFailsStep, RepairRetryStep, RegenerateRetryStep,
   PolicyFiltersStep, ChallengeStep, BreakTieStep, MergeStep, EditStep, DeliverStep,
   PipelineIngestsStep, PipelineAnswersStep, PipelineDegradesStep, PipelineDeliversStep,
   StutterStep, Zenon
   DEF Next

-----------------------------------------------------------------------------
(* Results *)

LEMMA Invariance == Spec => []IInv
<1>1. Init => IInv
  BY InitEstablishes
<1>2. IInv /\ [Next]_vars => IInv'
  BY NextPreserves
<1> QED
  BY <1>1, <1>2, PTL DEF Spec

\* The stages hand on lists of findings of the Finding model, whatever the models answer.
THEOREM TypeCorrect == Spec => []TypeOK
<1>1. IInv => TypeOK
  <2> SUFFICES ASSUME IInv PROVE TypeOK
    OBVIOUS
  <2>1. \A fs \in {result, draft, checked, challenger, edited, final} :
          \A i \in DOMAIN fs : fs[i].path \in STRING /\ fs[i].conf \in 0 .. 100
    <3> SUFFICES ASSUME NEW fs, Findings(fs), NEW i \in DOMAIN fs
                 PROVE  fs[i].path \in STRING /\ fs[i].conf \in 0 .. 100
      BY DEF IInv, ShapeInv
    <3> QED
      BY DEF Findings, Good, Range
  <2>2. Len(tieBreak) <= 1
    <3>1. tieBreak = <<>> \/ tieBreak = <<tieBreak[1]>>
      BY DEF IInv, ShapeInv
    <3> QED
      BY <3>1
  <2> QED
    BY <2>1, <2>2 DEF IInv, ShapeInv, TypeOK, Before, Runner
<1> QED
  BY <1>1, Invariance, PTL

\* What the runner posts is valid against the context and fits the cap, whatever the debate
\* and the editor did; what the pipeline posts is valid where its editor left it alone.
THEOREM OnlyAnchoredFindingsArePosted == Spec => []PostedFindingsAnchor
<1>1. IInv => PostedFindingsAnchor
  <2> SUFFICES ASSUME IInv, pc = "posted"
               PROVE  /\ \A i \in DOMAIN final :
                           IsValid(final[i]) \/ (cfg.engine = "pipeline" /\ final[i] \notin Range(draft))
                      /\ cfg.engine = "runner" => Len(final) <= cfg.cap
    BY DEF PostedFindingsAnchor
  <2>1. cfg.engine \in {"runner", "pipeline"}
    BY ConfigsAssumption DEF IInv, ShapeInv
  <2>2. CASE cfg.engine = "runner"
    BY <2>2 DEF IInv, AnchorInv, Range
  <2>3. CASE cfg.engine = "pipeline"
    BY <2>3 DEF IInv, AnchorInv
  <2> QED
    BY <2>1, <2>2, <2>3
<1> QED
  BY <1>1, Invariance, PTL

\* Nothing is posted that nobody judged: it passed the policy, two stages of the debate
\* raised it, or the editor rewrote it.
THEOREM OnlyJudgedFindingsArePosted == Spec => []PostedFindingsWereJudged
<1>1. IInv => PostedFindingsWereJudged
  <2> SUFFICES ASSUME IInv, NEW f \in Range(draft) PROVE Judged(f)
    BY Zenon DEF PostedFindingsWereJudged, Judged, Backers, Backs
  <2> QED
    BY DEF IInv, JudgedInv
<1> QED
  BY <1>1, Invariance, PTL

\* A valid finding of the first answer that passes the policy and is wanted is posted unless
\* a stage that may drop it did; the repair of other findings never costs it.
THEOREM SoundFindingsArePosted == Spec => []NothingLostOnTheWay
<1>1. IInv => NothingLostOnTheWay
  <2> SUFFICES ASSUME IInv, pc = "posted", cfg.engine = "runner",
                      ~cfg.maxMode \/ cfg.decision = "light_review",
                      Range(draft) \subseteq Range(edited), Len(final) < cfg.cap,
                      NEW f \in sound, PassesPolicy(f), Wanted(f, cfg)
               PROVE  f \in Range(final)
    BY DEF NothingLostOnTheWay
  <2>1. f \in Range(checked) /\ draft = checked /\ IsValid(f)
    BY DEF IInv, SoundInv
  <2> QED
    BY <2>1 DEF IInv, SoundInv
<1> QED
  BY <1>1, Invariance, PTL

-----------------------------------------------------------------------------
(* Sequences *)

LEMMA SplitSeq ==
    ASSUME NEW S, NEW s \in Seq(S), NEW n \in 1 .. Len(s)
    PROVE  LET front == SubSeq(s, 1, n)
               back == SubSeq(s, n + 1, Len(s)) IN
           /\ front \in Seq(S) /\ Len(front) = n /\ back \in Seq(S)
           /\ ToSet(s) = ToSet(front) \union ToSet(back)
  <1> DEFINE front == SubSeq(s, 1, n)
             back == SubSeq(s, n + 1, Len(s))
  <1>1. /\ front \in Seq(S) /\ Len(front) = n
        /\ \A i \in 1 .. n : front[i] = s[i]
    OBVIOUS
  <1>2. /\ back \in Seq(S) /\ Len(back) = Len(s) - n
        /\ \A i \in 1 .. Len(s) - n : back[i] = s[n + i]
    OBVIOUS
  <1> HIDE DEF front, back
  <1>3. ToSet(front) \union ToSet(back) \subseteq ToSet(s)
    <2>1. DOMAIN front = 1 .. n /\ DOMAIN back = 1 .. Len(s) - n /\ DOMAIN s = 1 .. Len(s)
      BY <1>1, <1>2
    <2>2. \A i \in 1 .. Len(s) - n : n + i \in 1 .. Len(s)
      OBVIOUS
    <2>3. \A i \in 1 .. n : i \in 1 .. Len(s)
      OBVIOUS
    <2>4. ToSet(front) \subseteq ToSet(s)
      BY <1>1, <2>1, <2>3 DEF ToSet
    <2>5. ToSet(back) \subseteq ToSet(s)
      BY <1>2, <2>1, <2>2 DEF ToSet
    <2>6. QED
      BY <2>4, <2>5
  <1>4. ASSUME NEW i \in 1 .. Len(s) PROVE s[i] \in ToSet(front) \union ToSet(back)
    <2>1. CASE i <= n
      BY <1>1, <2>1 DEF ToSet
    <2>2. CASE i > n
      <3>1. i - n \in 1 .. Len(s) - n /\ back[i - n] = s[i]
        BY <1>2, <2>2
      <3>2. QED
        BY <1>2, <3>1 DEF ToSet
    <2>3. QED
      BY <2>1, <2>2
  <1>5. ToSet(s) \subseteq ToSet(front) \union ToSet(back)
    BY <1>4 DEF ToSet
  <1>6. QED
    BY <1>1, <1>2, <1>3, <1>5 DEF front, back

LEMMA EmptyDomain ==
    ASSUME NEW s, DOMAIN s = {}
    PROVE  ToSet(s) = {}
  BY DEF ToSet

LEMMA NoneInEmpty ==
    ASSUME NEW s, s = <<>>
    PROVE  ToSet(s) = {}
  <1>1. DOMAIN s = {}
    OBVIOUS
  <1>2. QED
    BY <1>1, EmptyDomain, Zenon

LEMMA SeqGrows ==
    ASSUME NEW S, NEW T, S \subseteq T PROVE Seq(S) \subseteq Seq(T)
  OBVIOUS

LEMMA Concatenated ==
    ASSUME NEW S, NEW s \in Seq(S), NEW t \in Seq(S)
    PROVE  /\ s \o t \in Seq(S) /\ Len(s \o t) = Len(s) + Len(t)
           /\ \A i \in 1 .. Len(s) : (s \o t)[i] = s[i]
           /\ \A i \in Len(s) + 1 .. Len(s) + Len(t) : (s \o t)[i] = t[i - Len(s)]
  OBVIOUS

LEMMA Appended ==
    ASSUME NEW S, NEW s \in Seq(S), NEW x \in S
    PROVE  Append(s, x) = s \o <<x>>
  OBVIOUS

LEMMA HeadAndTail ==
    ASSUME NEW S, NEW s \in Seq(S), s # <<>>
    PROVE  /\ Head(s) \in S /\ Tail(s) \in Seq(S)
           /\ ToSet(s) = {Head(s)} \union ToSet(Tail(s))
  <1>1. /\ Tail(s) \in Seq(S) /\ Len(Tail(s)) = Len(s) - 1 /\ Head(s) = s[1] /\ Len(s) >= 1
        /\ \A i \in 1 .. Len(s) - 1 : Tail(s)[i] = s[i + 1]
    OBVIOUS
  <1>2. {Head(s)} \union ToSet(Tail(s)) \subseteq ToSet(s)
    BY <1>1 DEF ToSet
  <1>3. ASSUME NEW i \in 1 .. Len(s) PROVE s[i] \in {Head(s)} \union ToSet(Tail(s))
    <2>1. CASE i = 1
      BY <1>1, <2>1
    <2>2. CASE i > 1
      <3>1. i - 1 \in 1 .. Len(s) - 1 /\ Tail(s)[i - 1] = s[i]
        BY <1>1, <2>2
      <3>2. i - 1 \in DOMAIN Tail(s)
        BY <1>1, <3>1
      <3>3. QED
        BY <3>1, <3>2 DEF ToSet
    <2>3. QED
      BY <2>1, <2>2
  <1>4. ToSet(s) \subseteq {Head(s)} \union ToSet(Tail(s))
    BY <1>3 DEF ToSet
  <1>5. QED
    BY <1>1, <1>2, <1>4

FieldNames == {"pc", "findings", "since", "todo", "single", "response", "answered",
               "rejected", "status", "stored"}

\* A step of one delivery changes the fields it names.
LEMMA SetFields ==
    ASSUME DOMAIN rv = Reviews, NEW r \in Reviews, DOMAIN rv[r] = FieldNames,
           NEW fields, DOMAIN fields \subseteq FieldNames, Set(r, fields)
    PROVE  /\ rv' = [rv EXCEPT ![r] = rv'[r]] /\ DOMAIN rv'[r] = FieldNames
           /\ \A f \in FieldNames :
                rv'[r][f] = IF f \in DOMAIN fields THEN fields[f] ELSE rv[r][f]
  BY DEF Set

\* Filtering by the listing keeps exactly the findings that are not in it: the k-th of them
\* is the one with k of them up to it.
LEMMA PostableKeeps ==
    ASSUME NEW S, NEW findings \in Seq(S), NEW listed
    PROVE  /\ Postable(findings, listed) \in Seq(S)
           /\ ToSet(Postable(findings, listed)) = ToSet(findings) \ listed
  <1> DEFINE new == {i \in DOMAIN findings : findings[i] \notin listed}
             Below(i) == {j \in new : j <= i}
             Place(i) == Cardinality(Below(i))
             pick(k) == CHOOSE i \in new : Place(i) = k
             todo == [k \in 1 .. Cardinality(new) |-> findings[pick(k)]]
  <1>1. Postable(findings, listed) = todo
    BY DEF Postable
  <1>2. new \subseteq 1 .. Len(findings) /\ new \subseteq Nat /\ IsFiniteSet(new) /\ Cardinality(new) \in Nat
    <2>1. new \subseteq 1 .. Len(findings) /\ new \subseteq Nat
      OBVIOUS
    <2>2. IsFiniteSet(1 .. Len(findings))
      BY FS_Interval
    <2>3. QED
      BY <2>1, <2>2, FS_Subset, FS_CardinalityType
  <1>3. ASSUME NEW i \in new PROVE Place(i) \in 1 .. Cardinality(new)
    <2>1. Below(i) \subseteq new /\ i \in Below(i)
      BY <1>2
    <2>2. IsFiniteSet(Below(i)) /\ Place(i) \in Nat /\ Place(i) <= Cardinality(new)
      BY <1>2, <2>1, FS_Subset, FS_CardinalityType
    <2>3. Place(i) # 0
      BY <2>1, <2>2, FS_EmptySet
    <2>4. QED
      BY <2>2, <2>3, <1>2
  <1>4. ASSUME NEW i \in new, NEW j \in new, i < j PROVE Place(i) # Place(j)
    <2>1. Below(i) \subseteq Below(j) /\ j \in Below(j) /\ j \notin Below(i)
      BY <1>2, <1>4
    <2>2. IsFiniteSet(Below(j))
      BY <1>2, FS_Subset
    <2>3. QED
      BY <2>1, <2>2, FS_Subset
  <1>5. ASSUME NEW i \in new PROVE pick(Place(i)) = i
    <2>1. pick(Place(i)) \in new /\ Place(pick(Place(i))) = Place(i)
      OBVIOUS
    <2>2. ~(pick(Place(i)) < i) /\ ~(i < pick(Place(i)))
      BY <2>1, <1>4
    <2>3. QED
      BY <2>1, <2>2, <1>2
  <1>6. ASSUME NEW k \in 1 .. Cardinality(new) PROVE \E i \in new : Place(i) = k
    <2> SUFFICES ASSUME \A i \in new : Place(i) # k PROVE FALSE
      OBVIOUS
    <2> DEFINE rest == (1 .. Cardinality(new)) \ {k}
               rank == [i \in new |-> Place(i)]
    <2>1. rank \in [new -> rest]
      BY <1>3
    <2>2. IsFiniteSet(1 .. Cardinality(new)) /\ Cardinality(1 .. Cardinality(new)) = Cardinality(new)
      <3> HIDE DEF new
      <3>1. QED
        BY <1>2, FS_Interval
    <2>3. IsFiniteSet(rest) /\ Cardinality(rest) < Cardinality(new)
      <3> HIDE DEF new
      <3>1. IsFiniteSet(rest) /\ Cardinality(rest) = Cardinality(new) - 1
        BY <2>2, FS_RemoveElement
      <3>2. QED
        BY <3>1, <1>2
    <2>4. PICK i \in new, j \in new : i # j /\ rank[i] = rank[j]
      <3> HIDE DEF new, rest, rank
      <3>1. QED
        BY <1>2, <2>1, <2>3, FS_PigeonHole
    <2>5. i < j \/ j < i
      BY <1>2, <2>4
    <2>6. QED
      BY <1>4, <2>4, <2>5
  <1>7. ASSUME NEW k \in 1 .. Cardinality(new) PROVE pick(k) \in new
    BY <1>6
  <1>8. todo \in Seq(S)
    <2>1. ASSUME NEW k \in 1 .. Cardinality(new) PROVE findings[pick(k)] \in S
      <3>1. pick(k) \in DOMAIN findings
        BY <1>7
      <3> HIDE DEF pick, new
      <3>2. QED
        BY <3>1
    <2> HIDE DEF pick, new
    <2>2. QED
      BY <1>2, <2>1
  <1>9. ToSet(todo) \subseteq ToSet(findings) \ listed
    BY <1>7 DEF ToSet
  <1>10. ASSUME NEW i \in new PROVE findings[i] \in ToSet(todo)
    <2>1. todo[Place(i)] = findings[i] /\ Place(i) \in DOMAIN todo
      BY <1>3, <1>5
    <2>2. QED
      BY <2>1 DEF ToSet
  <1>11. ToSet(findings) \ listed \subseteq ToSet(todo)
    BY <1>10 DEF ToSet
  <1>12. QED
    BY <1>1, <1>8, <1>9, <1>11

-----------------------------------------------------------------------------
(* The inductive invariant *)

Finding == UNION {ToSet(f) : f \in UNION {Results[r] : r \in Reviews}}
Raised(r) == ToSet(rv[r].todo) \union ToSet(rv[r].single)

CommentTypes == comments \in Seq([issue : Finding, review : Reviews, resolved : BOOLEAN])

\* The fields of a delivery.
RecordFields(r) ==
  /\ DOMAIN rv[r] = FieldNames
  /\ rv[r].pc \in {"analysing", "posting", "seeding", "marking", "ended"}
  /\ rv[r].findings \in Results[r] \union {<<>>}
  /\ rv[r].stored \in Results[r] \union {<<>>}
  /\ rv[r].since \in 0 .. Len(comments)
  /\ rv[r].todo \in Seq(ToSet(rv[r].findings))
  /\ rv[r].single \in Seq(ToSet(rv[r].findings))
  /\ rv[r].response \in Seq(1 .. Len(comments))
  /\ rv[r].rejected \in BOOLEAN
  /\ rv[r].status = "running" <=> rv[r].pc # "ended"

\* A finding of a review that posts is in a thread, or still to be posted, or rejected.
Accounted(r) ==
  rv[r].pc \in {"posting", "seeding", "marking"} /\ ~rv[r].rejected =>
    ToSet(rv[r].findings) \subseteq Posted \union Raised(r)

Drained(r) == rv[r].pc # "posting" => rv[r].todo = <<>> /\ rv[r].single = <<>>

Delivered(r) == rv[r].status = "done" => ToSet(rv[r].stored) \subseteq Posted

\* What is still to be posted was not in the listing.
Filtered(r) == \A f \in Raised(r) : \A c \in 1 .. rv[r].since : comments[c].issue # f

DeliveryOf(r) == RecordFields(r) /\ Accounted(r) /\ Drained(r) /\ Delivered(r) /\ Filtered(r)

DeliveryInv ==
  /\ DOMAIN rv = Reviews /\ CommentTypes
  /\ \A r \in Reviews : DeliveryOf(r)

\* The bot's threads are only added to, or resolved.
Grown ==
  /\ Len(comments) <= Len(comments')
  /\ \A c \in 1 .. Len(comments) : comments'[c].issue = comments[c].issue

LEMMA GrownPosted ==
    ASSUME CommentTypes, CommentTypes', Grown
    PROVE  /\ Posted \subseteq Posted' /\ Len(comments) \in Nat /\ Len(comments') \in Nat
           /\ \A n \in 0 .. Len(comments) : n \in 0 .. Len(comments')
           /\ Seq(1 .. Len(comments)) \subseteq Seq(1 .. Len(comments'))
  <1>1. Len(comments) \in Nat /\ Len(comments') \in Nat /\ DOMAIN comments = 1 .. Len(comments)
        /\ DOMAIN comments' = 1 .. Len(comments')
    BY DEF CommentTypes
  <1>2. 1 .. Len(comments) \subseteq 1 .. Len(comments')
    BY <1>1 DEF Grown
  <1>3. Posted \subseteq Posted'
    BY <1>1, <1>2 DEF Posted, Grown
  <1>4. \A n \in 0 .. Len(comments) : n \in 0 .. Len(comments')
    BY <1>1 DEF Grown
  <1>5. Seq(1 .. Len(comments)) \subseteq Seq(1 .. Len(comments'))
    BY <1>2, SeqGrows
  <1>6. QED
    BY <1>1, <1>3, <1>4, <1>5

\* The other reviews' deliveries stand whatever is posted.
LEMMA OthersStand ==
    ASSUME CommentTypes, CommentTypes', Grown, NEW i, DeliveryOf(i), rv'[i] = rv[i]
    PROVE  DeliveryOf(i)'
  <1>1. RecordFields(i)'
    BY GrownPosted DEF DeliveryOf, RecordFields
  <1>2. Accounted(i)' /\ Delivered(i)' /\ Drained(i)'
    BY GrownPosted DEF DeliveryOf, Accounted, Delivered, Drained, Raised
  <1>3. Filtered(i)'
    <2>1. 1 .. rv[i].since \subseteq 1 .. Len(comments)
      BY GrownPosted DEF DeliveryOf, RecordFields
    <2>2. QED
      BY <2>1 DEF DeliveryOf, Filtered, Raised, Grown
  <1>4. QED
    BY <1>1, <1>2, <1>3 DEF DeliveryOf

LEMMA StepOf ==
    ASSUME DeliveryInv, CommentTypes', Grown, NEW r \in Reviews,
           rv' = [rv EXCEPT ![r] = rv'[r]], DeliveryOf(r)'
    PROVE  DeliveryInv'
  <1>1. DOMAIN rv' = Reviews /\ \A i \in Reviews \ {r} : rv'[i] = rv[i]
    BY DEF DeliveryInv
  <1>2. ASSUME NEW i \in Reviews PROVE DeliveryOf(i)'
    BY <1>1, OthersStand DEF DeliveryInv
  <1>3. QED
    BY <1>1, <1>2 DEF DeliveryInv

LEMMA FindingsOf ==
    ASSUME NEW r \in Reviews, NEW findings \in Results[r] \union {<<>>}
    PROVE  ToSet(findings) \subseteq Finding /\ findings \in Seq(ToSet(findings))
  <1>1. CASE findings \in Results[r]
    BY <1>1, DeliveryAssumption DEF Finding
  <1>2. CASE findings = <<>>
    BY <1>2 DEF ToSet
  <1>3. QED
    BY <1>1, <1>2

LEMMA InitDelivery == PostingInit => DeliveryInv
  <1> SUFFICES ASSUME PostingInit PROVE DeliveryInv
    OBVIOUS
  <1>1. DOMAIN rv = Reviews /\ CommentTypes /\ Len(comments) = 0
    BY DEF PostingInit, CommentTypes
  <1>2. ASSUME NEW r \in Reviews PROVE DeliveryOf(r)
    <2>1. rv[r] = Fresh
      BY DEF PostingInit
    <2>2. Raised(r) = {}
      BY <2>1 DEF Raised, Fresh, ToSet
    <2>3. RecordFields(r)
      BY <1>1, <2>1 DEF RecordFields, Fresh, FieldNames
    <2>4. QED
      BY <2>1, <2>2, <2>3 DEF DeliveryOf, Accounted, Drained, Delivered, Filtered, Fresh
  <1>3. QED
    BY <1>1, <1>2 DEF DeliveryInv

\* Nothing is posted: the listing and the threads stay.
LEMMA CommentsStay ==
    ASSUME CommentTypes, UNCHANGED comments
    PROVE  CommentTypes' /\ Grown /\ Posted' = Posted /\ Len(comments) \in Nat
  BY DEF CommentTypes, Grown, Posted

LEMMA AnalysedStep ==
    ASSUME DeliveryInv, NEW r \in Reviews, Analysed(r) PROVE DeliveryInv'
  <1>1. CommentTypes' /\ Grown /\ Posted' = Posted /\ Len(comments) \in Nat
    BY CommentsStay DEF DeliveryInv, Analysed
  <1>2. DOMAIN rv = Reviews /\ DeliveryOf(r) /\ rv[r].pc = "analysing" /\ UNCHANGED comments
    BY DEF DeliveryInv, Analysed
  <1>3. ASSUME NEW findings \in Results[r], NEW since \in 0 .. Len(comments),
               NEW todo \in Seq(ToSet(findings)),
               ToSet(findings) \subseteq Posted \union ToSet(todo),
               \A f \in ToSet(todo) : \A c \in 1 .. since : comments[c].issue # f,
               Set(r, [pc |-> "posting", findings |-> findings, since |-> since, todo |-> todo])
        PROVE  DeliveryInv'
    <2>1. /\ rv' = [rv EXCEPT ![r] = rv'[r]] /\ DOMAIN rv'[r] = FieldNames
          /\ rv'[r].pc = "posting" /\ rv'[r].findings = findings /\ rv'[r].since = since
          /\ rv'[r].todo = todo /\ rv'[r].single = rv[r].single
          /\ rv'[r].response = rv[r].response /\ rv'[r].rejected = rv[r].rejected
          /\ rv'[r].status = rv[r].status /\ rv'[r].stored = rv[r].stored
      <3> DEFINE fields == [pc |-> "posting", findings |-> findings, since |-> since,
                            todo |-> todo]
      <3>1. DOMAIN fields = {"pc", "findings", "since", "todo"} /\ DOMAIN fields \subseteq FieldNames
        BY DEF FieldNames
      <3>2. Set(r, fields)
        BY <1>3
      <3>3. /\ rv' = [rv EXCEPT ![r] = rv'[r]] /\ DOMAIN rv'[r] = FieldNames
            /\ \A f \in FieldNames : rv'[r][f] = IF f \in DOMAIN fields THEN fields[f] ELSE rv[r][f]
        <4> HIDE DEF fields
        <4>1. QED
          BY <1>2, <3>1, <3>2, SetFields DEF DeliveryOf, RecordFields
      <3>4. QED
        BY <3>1, <3>3 DEF FieldNames
    <2>2. rv[r].single = <<>> /\ rv[r].status = "running" /\ rv[r].stored \in Results[r] \union {<<>>}
          /\ rv[r].response \in Seq(1 .. Len(comments)) /\ rv[r].rejected \in BOOLEAN
      BY <1>2 DEF DeliveryOf, Drained, RecordFields
    <2>3. Raised(r)' = ToSet(todo)
      BY <2>1, <2>2 DEF Raised, ToSet
    <2>4. RecordFields(r)'
      BY <1>2, <1>3, <2>1, <2>2 DEF RecordFields
    <2>5. Accounted(r)' /\ Drained(r)' /\ Delivered(r)' /\ Filtered(r)'
      BY <1>1, <1>2, <1>3, <2>1, <2>2, <2>3 DEF Accounted, Drained, Delivered, Filtered
    <2>6. QED
      BY <1>1, <2>1, <2>4, <2>5, StepOf DEF DeliveryOf
  <1>4. PICK findings \in Results[r] :
          \/ Set(r, [pc |-> "posting", findings |-> findings, since |-> Len(comments),
                     todo |-> Postable(findings, Posted)])
          \/ Set(r, [pc |-> "posting", findings |-> findings, since |-> 0, todo |-> findings])
    BY DEF Analysed
  <1>5. findings \in Seq(ToSet(findings))
    BY FindingsOf
  <1>6. CASE Set(r, [pc |-> "posting", findings |-> findings, since |-> Len(comments),
                     todo |-> Postable(findings, Posted)])
    <2>1. /\ Postable(findings, Posted) \in Seq(ToSet(findings))
          /\ ToSet(Postable(findings, Posted)) = ToSet(findings) \ Posted
      BY <1>5, PostableKeeps
    <2>2. \A f \in ToSet(Postable(findings, Posted)) :
            \A c \in 1 .. Len(comments) : comments[c].issue # f
      BY <1>2, <2>1 DEF Posted, DeliveryInv, CommentTypes
    <2>3. Len(comments) \in 0 .. Len(comments)
      BY <1>1
    <2>4. QED
      BY <1>3, <1>6, <2>1, <2>2, <2>3
  <1>7. CASE Set(r, [pc |-> "posting", findings |-> findings, since |-> 0, todo |-> findings])
    <2>1. 0 \in 0 .. Len(comments) /\ 1 .. 0 = {}
      BY <1>1
    <2>2. QED
      BY <1>3, <1>5, <1>7, <2>1
  <1>8. QED
    BY <1>4, <1>6, <1>7

\* A step that posts, or fails to, and names what is still to be posted.
LEMMA PostingStep ==
    ASSUME DeliveryInv, NEW r \in Reviews, rv[r].pc = "posting", CommentTypes', Grown,
           NEW fields, Set(r, fields),
           DOMAIN fields \subseteq {"todo", "single", "response", "answered", "rejected"},
           rv'[r].todo \in Seq(ToSet(rv[r].findings)),
           rv'[r].single \in Seq(ToSet(rv[r].findings)),
           rv'[r].response \in Seq(1 .. Len(comments')),
           rv'[r].rejected \in BOOLEAN, rv[r].rejected => rv'[r].rejected,
           Raised(r)' \subseteq Raised(r),
           ~rv'[r].rejected => Raised(r) \subseteq Posted' \union Raised(r)'
    PROVE  DeliveryInv'
  <1>1. DOMAIN rv = Reviews /\ DeliveryOf(r) /\ CommentTypes
    BY DEF DeliveryInv
  <1>2. /\ rv' = [rv EXCEPT ![r] = rv'[r]] /\ DOMAIN rv'[r] = FieldNames
        /\ \A f \in FieldNames : rv'[r][f] = IF f \in DOMAIN fields THEN fields[f] ELSE rv[r][f]
    BY <1>1, SetFields DEF DeliveryOf, RecordFields, FieldNames
  <1>3. /\ rv'[r].pc = "posting" /\ rv'[r].findings = rv[r].findings
        /\ rv'[r].since = rv[r].since /\ rv'[r].status = rv[r].status
        /\ rv'[r].stored = rv[r].stored
    BY <1>2 DEF FieldNames
  <1>4. /\ Posted \subseteq Posted'
        /\ \A n \in 0 .. Len(comments) : n \in 0 .. Len(comments')
        /\ 1 .. rv[r].since \subseteq 1 .. Len(comments)
    BY <1>1, GrownPosted DEF DeliveryOf, RecordFields
  <1>5. RecordFields(r)'
    BY <1>1, <1>2, <1>3, <1>4 DEF DeliveryOf, RecordFields
  <1>6. Accounted(r)' /\ Delivered(r)' /\ Drained(r)'
    BY <1>1, <1>3, <1>4 DEF DeliveryOf, Accounted, Delivered, Drained
  <1>7. Filtered(r)'
    BY <1>1, <1>3, <1>4 DEF DeliveryOf, Filtered, Grown
  <1>8. QED
    BY <1>2, <1>5, <1>6, <1>7, StepOf DEF DeliveryOf

Threads(r, batch) == [i \in 1 .. Len(batch) |-> Thread(r, batch[i])]

\* What a create-review call leaves behind, if it created anything.
LEMMA CallPosts ==
    ASSUME CommentTypes, NEW r \in Reviews, NEW batch \in Seq(Finding),
           comments' \in {comments, comments \o Threads(r, batch)}
    PROVE  /\ CommentTypes' /\ Grown /\ Len(comments) \in Nat
           /\ Len(comments \o Threads(r, batch)) = Len(comments) + Len(batch)
           /\ comments' = comments \o Threads(r, batch) => ToSet(batch) \subseteq Posted'
           /\ \A c \in Len(comments) + 1 .. Len(comments') :
                comments'[c].review = r /\ comments'[c].issue \in ToSet(batch)
  <1> DEFINE T == [issue : Finding, review : Reviews, resolved : BOOLEAN]
             threads == Threads(r, batch)
             created == comments \o threads
  <1>1. /\ Len(batch) \in Nat /\ DOMAIN batch = 1 .. Len(batch)
        /\ threads \in Seq(T) /\ Len(threads) = Len(batch)
        /\ \A i \in 1 .. Len(batch) : threads[i].review = r /\ threads[i].issue = batch[i]
    BY DEF Thread, Threads
  <1>2. comments \in Seq(T) /\ Len(comments) \in Nat
    BY DEF CommentTypes
  <1>3. comments' \in {comments, created}
    OBVIOUS
  <1> HIDE DEF T, threads
  <1>4. /\ created \in Seq(T) /\ Len(created) = Len(comments) + Len(batch)
        /\ \A c \in 1 .. Len(comments) : created[c] = comments[c]
        /\ \A c \in Len(comments) + 1 .. Len(created) : created[c] = threads[c - Len(comments)]
    <2>1. comments \in Seq(T) /\ threads \in Seq(T) /\ Len(threads) = Len(batch)
      BY <1>1, <1>2
    <2>2. /\ comments \o threads \in Seq(T)
          /\ Len(comments \o threads) = Len(comments) + Len(threads)
          /\ \A c \in 1 .. Len(comments) : (comments \o threads)[c] = comments[c]
          /\ \A c \in Len(comments) + 1 .. Len(comments) + Len(threads) :
               (comments \o threads)[c] = threads[c - Len(comments)]
      BY <2>1, Concatenated, Zenon
    <2>3. QED
      BY <2>1, <2>2
  <1> HIDE DEF created
  <1>5. CommentTypes' /\ Grown
    <2>1. Len(comments) <= Len(comments') /\ comments' \in Seq(T)
          /\ \A c \in 1 .. Len(comments) : comments'[c] = comments[c]
      <3>1. CASE comments' = comments
        BY <1>2, <3>1
      <3>2. CASE comments' = created
        BY <1>1, <1>2, <1>4, <3>2
      <3>3. QED
        BY <1>3, <3>1, <3>2
    <2>2. QED
      BY <2>1 DEF CommentTypes, Grown, T
  <1>6. ASSUME NEW c \in Len(comments) + 1 .. Len(comments')
        PROVE  comments'[c].review = r /\ comments'[c].issue \in ToSet(batch)
    <2>1. comments' = created
      <3>1. CASE comments' = comments
        BY <1>2, <1>6, <3>1
      <3>2. QED
        BY <1>3, <3>1
    <2>2. c - Len(comments) \in 1 .. Len(batch)
      <3>1. c \in Len(comments) + 1 .. Len(comments) + Len(batch)
        BY <1>4, <1>6, <2>1
      <3>2. QED
        BY <1>1, <1>2, <3>1
    <2>3. comments'[c] = threads[c - Len(comments)]
      BY <1>4, <1>6, <2>1
    <2>4. QED
      BY <1>1, <2>2, <2>3 DEF ToSet
  <1>7. ASSUME comments' = created, NEW i \in 1 .. Len(batch) PROVE batch[i] \in Posted'
    <2>1. /\ Len(comments) + i \in Len(comments) + 1 .. Len(created)
          /\ Len(comments) + i \in DOMAIN created
          /\ (Len(comments) + i) - Len(comments) = i
      BY <1>1, <1>2, <1>4
    <2>2. created[Len(comments) + i] = threads[i]
      BY <1>4, <2>1
    <2>3. QED
      BY <1>1, <1>7, <2>1, <2>2 DEF Posted
  <1>8. comments' = created => ToSet(batch) \subseteq Posted'
    BY <1>1, <1>7 DEF ToSet
  <1>9. QED
    BY <1>2, <1>4, <1>5, <1>6, <1>8 DEF created, threads

\* The threads a step adds are the review's, of findings it had still to post.
NewRaised(r) ==
  \A c \in Len(comments) + 1 .. Len(comments') :
    comments'[c].review = r /\ comments'[c].issue \in Raised(r)

\* The ids a response may hold after a call.
LEMMA ResponseIds ==
    ASSUME CommentTypes, CommentTypes', Grown, NEW response \in Seq(1 .. Len(comments)),
           NEW n \in Nat, NEW answered, Len(comments') = Len(comments) + n
    PROVE  (IF answered THEN response ELSE Ids(n)) \in Seq(1 .. Len(comments'))
  <1>1. /\ Len(comments) \in Nat /\ Len(comments') \in Nat
        /\ Seq(1 .. Len(comments)) \subseteq Seq(1 .. Len(comments'))
    BY GrownPosted
  <1>2. Ids(n) \in Seq(1 .. Len(comments'))
    <2>1. \A i \in 1 .. n : Len(comments) + i \in 1 .. Len(comments')
      BY <1>1
    <2>2. QED
      BY <2>1 DEF Ids
  <1>3. QED
    BY <1>1, <1>2

LEMMA PostBatchStep ==
    ASSUME DeliveryInv, NEW r \in Reviews, PostBatch(r) PROVE DeliveryInv' /\ NewRaised(r) /\ Grown
  <1> DEFINE S == ToSet(rv[r].findings)
             n == IF Len(rv[r].todo) < BatchSize THEN Len(rv[r].todo) ELSE BatchSize
             batch == SubSeq(rv[r].todo, 1, n)
             rest == SubSeq(rv[r].todo, n + 1, Len(rv[r].todo))
             created == comments \o Threads(r, batch)
  <1>1. /\ DOMAIN rv = Reviews /\ DeliveryOf(r) /\ CommentTypes /\ rv[r].pc = "posting"
        /\ rv[r].single = <<>> /\ rv[r].todo \in Seq(S) /\ rv[r].todo # <<>>
        /\ rv[r].findings \in Results[r] \union {<<>>} /\ rv[r].rejected \in BOOLEAN
        /\ rv[r].response \in Seq(1 .. Len(comments)) /\ DOMAIN rv[r] = FieldNames
    BY DEF DeliveryInv, DeliveryOf, RecordFields, PostBatch
  <1>2. n \in 1 .. Len(rv[r].todo) /\ n \in Nat
    BY <1>1, DeliveryAssumption
  <1>3. /\ batch \in Seq(S) /\ Len(batch) = n /\ rest \in Seq(S)
        /\ ToSet(rv[r].todo) = ToSet(batch) \union ToSet(rest)
    <2> HIDE DEF n
    <2>1. QED
      BY <1>1, <1>2, SplitSeq
  <1>4. batch \in Seq(Finding)
    <2>1. S \subseteq Finding
      BY <1>1, FindingsOf
    <2>2. QED
      BY <1>3, <2>1, SeqGrows
  <1>5. \/ /\ comments' = created
           /\ Set(r, [todo |-> rest, answered |-> TRUE,
                      response |-> IF rv[r].answered THEN rv[r].response ELSE Ids(n)])
        \/ /\ comments' \in {comments, created}
           /\ Set(r, [todo |-> rest, single |-> batch])
    BY <1>3 DEF PostBatch, AfterFailure, Threads
  <1> HIDE DEF n, batch, rest
  <1>6. /\ CommentTypes' /\ Grown /\ Len(comments) \in Nat /\ Len(created) = Len(comments) + n
        /\ comments' = created => ToSet(batch) \subseteq Posted'
        /\ \A c \in Len(comments) + 1 .. Len(comments') :
             comments'[c].review = r /\ comments'[c].issue \in ToSet(batch)
    BY <1>1, <1>3, <1>4, <1>5, CallPosts
  <1> HIDE DEF created
  <1>7. ASSUME comments' = created,
               Set(r, [todo |-> rest, answered |-> TRUE,
                       response |-> IF rv[r].answered THEN rv[r].response ELSE Ids(n)])
        PROVE  DeliveryInv'
    <2> DEFINE response == IF rv[r].answered THEN rv[r].response ELSE Ids(n)
               fields == [todo |-> rest, answered |-> TRUE, response |-> response]
    <2>1. response \in Seq(1 .. Len(comments'))
      BY <1>1, <1>2, <1>6, <1>7, ResponseIds
    <2> HIDE DEF response
    <2>2. DOMAIN fields = {"todo", "answered", "response"} /\ Set(r, fields)
      BY <1>7 DEF response
    <2>3. \A f \in FieldNames : rv'[r][f] = IF f \in DOMAIN fields THEN fields[f] ELSE rv[r][f]
      <3> HIDE DEF fields
      <3>1. QED
        BY <1>1, <2>2, SetFields DEF FieldNames
    <2>4. /\ rv'[r].todo = rest /\ rv'[r].single = rv[r].single
          /\ rv'[r].response = response /\ rv'[r].rejected = rv[r].rejected
      BY <2>3 DEF FieldNames
    <2>5. Raised(r) = ToSet(batch) \union ToSet(rest) /\ Raised(r)' = ToSet(rest)
      <3>1. Raised(r) = ToSet(batch) \union ToSet(rest)
        BY <1>1, <1>3, NoneInEmpty DEF Raised
      <3>2. Raised(r)' = ToSet(rest)
        BY <1>1, <2>4, NoneInEmpty DEF Raised
      <3>3. QED
        BY <3>1, <3>2
    <2>6. DOMAIN fields \subseteq {"todo", "single", "response", "answered", "rejected"}
      BY <2>2
    <2> HIDE DEF fields
    <2>7. /\ rv'[r].todo \in Seq(S) /\ rv'[r].single \in Seq(S)
          /\ rv'[r].response \in Seq(1 .. Len(comments'))
          /\ rv'[r].rejected \in BOOLEAN /\ (rv[r].rejected => rv'[r].rejected)
          /\ Raised(r)' \subseteq Raised(r) /\ Raised(r) \subseteq Posted' \union Raised(r)'
      <3>1. <<>> \in Seq(S)
        OBVIOUS
      <3>2. QED
        BY <1>1, <1>3, <1>6, <1>7, <2>1, <2>4, <2>5, <3>1
    <2>8. QED
      BY <1>1, <1>6, <2>2, <2>6, <2>7, PostingStep
  <1>8. ASSUME comments' \in {comments, created}, Set(r, [todo |-> rest, single |-> batch])
        PROVE  DeliveryInv'
    <2> DEFINE fields == [todo |-> rest, single |-> batch]
    <2>2. DOMAIN fields = {"todo", "single"} /\ Set(r, fields)
      BY <1>8
    <2>3. \A f \in FieldNames : rv'[r][f] = IF f \in DOMAIN fields THEN fields[f] ELSE rv[r][f]
      <3> HIDE DEF fields
      <3>1. QED
        BY <1>1, <2>2, SetFields DEF FieldNames
    <2>4. /\ rv'[r].todo = rest /\ rv'[r].single = batch
          /\ rv'[r].response = rv[r].response /\ rv'[r].rejected = rv[r].rejected
      BY <2>3 DEF FieldNames
    <2>5. Raised(r) = ToSet(batch) \union ToSet(rest) /\ Raised(r)' = Raised(r)
      <3>1. Raised(r) = ToSet(batch) \union ToSet(rest)
        BY <1>1, <1>3, NoneInEmpty DEF Raised
      <3>2. Raised(r)' = ToSet(rest) \union ToSet(batch)
        BY <2>4 DEF Raised
      <3>3. QED
        BY <3>1, <3>2
    <2>6. DOMAIN fields \subseteq {"todo", "single", "response", "answered", "rejected"}
      BY <2>2
    <2>7. rv[r].response \in Seq(1 .. Len(comments'))
      BY <1>1, <1>6, GrownPosted
    <2> HIDE DEF fields
    <2>8. QED
      BY <1>1, <1>3, <1>6, <1>8, <2>2, <2>4, <2>5, <2>6, <2>7, PostingStep
  <1>9. NewRaised(r)
    BY <1>3, <1>6 DEF NewRaised, Raised
  <1>10. QED
    BY <1>5, <1>6, <1>7, <1>8, <1>9

LEMMA PostSingleStep ==
    ASSUME DeliveryInv, NEW r \in Reviews, PostSingle(r) PROVE DeliveryInv' /\ NewRaised(r) /\ Grown
  <1> DEFINE S == ToSet(rv[r].findings)
             next == Head(rv[r].single)
             rest == Tail(rv[r].single)
             batch == <<next>>
             created == comments \o Threads(r, batch)
  <1>1. /\ DOMAIN rv = Reviews /\ DeliveryOf(r) /\ CommentTypes /\ rv[r].pc = "posting"
        /\ rv[r].todo \in Seq(S) /\ rv[r].single \in Seq(S) /\ rv[r].single # <<>>
        /\ rv[r].findings \in Results[r] \union {<<>>} /\ rv[r].rejected \in BOOLEAN
        /\ rv[r].response \in Seq(1 .. Len(comments)) /\ DOMAIN rv[r] = FieldNames
    BY DEF DeliveryInv, DeliveryOf, RecordFields, PostSingle
  <1>2. next \in S /\ rest \in Seq(S) /\ ToSet(rv[r].single) = {next} \union ToSet(rest)
    BY <1>1, HeadAndTail
  <1>3. next \in Finding
    BY <1>1, <1>2, FindingsOf
  <1>4. Append(comments, Thread(r, next)) = created
    <2>1. Threads(r, batch) = <<Thread(r, next)>>
      BY DEF Threads
    <2>2. Thread(r, next) \in [issue : Finding, review : Reviews, resolved : BOOLEAN]
      BY <1>3 DEF Thread
    <2> HIDE DEF next, batch
    <2>3. Append(comments, Thread(r, next)) = comments \o <<Thread(r, next)>>
      BY <1>1, <2>2, Appended DEF CommentTypes
    <2>4. QED
      BY <2>1, <2>3, Zenon
  <1>5. \/ /\ comments' = created
           /\ Set(r, [single |-> rest, answered |-> TRUE,
                      response |-> IF rv[r].answered THEN rv[r].response ELSE Ids(1)])
        \/ /\ comments' \in {comments, created}
           /\ Set(r, [single |-> rest, rejected |-> TRUE])
    BY <1>4 DEF PostSingle, AfterFailure
  <1>6. batch \in Seq(Finding) /\ Len(batch) = 1 /\ ToSet(batch) = {next}
    <2>1. batch \in Seq(Finding) /\ Len(batch) = 1 /\ DOMAIN batch = {1} /\ batch[1] = next
      BY <1>3
    <2>2. QED
      BY <2>1 DEF ToSet
  <1> HIDE DEF next, rest, batch
  <1>7. /\ CommentTypes' /\ Grown /\ Len(comments) \in Nat /\ Len(created) = Len(comments) + 1
        /\ comments' = created => {next} \subseteq Posted'
        /\ \A c \in Len(comments) + 1 .. Len(comments') :
             comments'[c].review = r /\ comments'[c].issue \in {next}
    <2>1. comments' \in {comments, comments \o Threads(r, batch)}
      BY <1>5
    <2>2. CommentTypes /\ batch \in Seq(Finding)
      BY <1>1, <1>6
    <2>3. QED
      BY <1>6, <2>1, <2>2, CallPosts
  <1> HIDE DEF created
  <1>8. ASSUME comments' = created,
               Set(r, [single |-> rest, answered |-> TRUE,
                       response |-> IF rv[r].answered THEN rv[r].response ELSE Ids(1)])
        PROVE  DeliveryInv'
    <2> DEFINE response == IF rv[r].answered THEN rv[r].response ELSE Ids(1)
               fields == [single |-> rest, answered |-> TRUE, response |-> response]
    <2>1. response \in Seq(1 .. Len(comments'))
      BY <1>1, <1>7, <1>8, ResponseIds
    <2> HIDE DEF response
    <2>2. DOMAIN fields = {"single", "answered", "response"} /\ Set(r, fields)
      BY <1>8 DEF response
    <2>3. \A f \in FieldNames : rv'[r][f] = IF f \in DOMAIN fields THEN fields[f] ELSE rv[r][f]
      <3> HIDE DEF fields
      <3>1. QED
        BY <1>1, <2>2, SetFields DEF FieldNames
    <2>4. /\ rv'[r].todo = rv[r].todo /\ rv'[r].single = rest
          /\ rv'[r].response = response /\ rv'[r].rejected = rv[r].rejected
      BY <2>3 DEF FieldNames
    <2>5. Raised(r)' \subseteq Raised(r) /\ Raised(r) \subseteq {next} \union Raised(r)'
      BY <1>2, <2>4 DEF Raised
    <2>6. DOMAIN fields \subseteq {"todo", "single", "response", "answered", "rejected"}
      BY <2>2
    <2> HIDE DEF fields
    <2>7. /\ rv'[r].todo \in Seq(S) /\ rv'[r].single \in Seq(S)
          /\ rv'[r].response \in Seq(1 .. Len(comments'))
          /\ rv'[r].rejected \in BOOLEAN /\ (rv[r].rejected => rv'[r].rejected)
          /\ Raised(r)' \subseteq Raised(r) /\ Raised(r) \subseteq Posted' \union Raised(r)'
      BY <1>1, <1>2, <1>7, <1>8, <2>1, <2>4, <2>5
    <2>8. QED
      BY <1>1, <1>7, <2>2, <2>6, <2>7, PostingStep
  <1>9. ASSUME comments' \in {comments, created}, Set(r, [single |-> rest, rejected |-> TRUE])
        PROVE  DeliveryInv'
    <2> DEFINE fields == [single |-> rest, rejected |-> TRUE]
    <2>2. DOMAIN fields = {"single", "rejected"} /\ Set(r, fields)
      BY <1>9
    <2>3. \A f \in FieldNames : rv'[r][f] = IF f \in DOMAIN fields THEN fields[f] ELSE rv[r][f]
      <3> HIDE DEF fields
      <3>1. QED
        BY <1>1, <2>2, SetFields DEF FieldNames
    <2>4. /\ rv'[r].todo = rv[r].todo /\ rv'[r].single = rest
          /\ rv'[r].response = rv[r].response /\ rv'[r].rejected = TRUE
      BY <2>3 DEF FieldNames
    <2>5. Raised(r)' \subseteq Raised(r)
      BY <1>2, <2>4 DEF Raised
    <2>6. DOMAIN fields \subseteq {"todo", "single", "response", "answered", "rejected"}
      BY <2>2
    <2> HIDE DEF fields
    <2>7. rv'[r].response \in Seq(1 .. Len(comments'))
      BY <1>1, <1>7, <2>4, GrownPosted
    <2>8. QED
      BY <1>1, <1>2, <1>7, <2>2, <2>4, <2>5, <2>6, <2>7, PostingStep
  <1>10. NewRaised(r)
    BY <1>2, <1>7 DEF NewRaised, Raised
  <1>11. QED
    BY <1>5, <1>7, <1>8, <1>9, <1>10

LEMMA ResolveStep ==
    ASSUME DeliveryInv, NEW r \in Reviews, ResolveOutdated(r) PROVE DeliveryInv' /\ Grown
  <1>1. /\ DOMAIN rv = Reviews /\ DeliveryOf(r) /\ CommentTypes /\ rv[r].pc = "posting"
        /\ rv[r].single = <<>> /\ rv[r].todo = <<>> /\ DOMAIN rv[r] = FieldNames
    BY DEF DeliveryInv, DeliveryOf, RecordFields, ResolveOutdated
  <1>2. PICK closed : comments' = [c \in DOMAIN comments |->
                         IF rv[r].since > 0 /\ c \in closed
                         THEN [comments[c] EXCEPT !.resolved = TRUE] ELSE comments[c]]
    <2> DEFINE outdated == {c \in DOMAIN comments : ~comments[c].resolved
                                              /\ comments[c].issue \notin ToSet(rv[r].findings)}
    <2>1. PICK failed \in {{}, outdated} :
            comments' = [c \in DOMAIN comments |->
                         IF rv[r].since > 0 /\ c \in outdated \ failed
                         THEN [comments[c] EXCEPT !.resolved = TRUE] ELSE comments[c]]
      BY DEF ResolveOutdated
    <2>2. QED
      BY <2>1
  <1>3. CommentTypes' /\ Grown
    <2> DEFINE T == [issue : Finding, review : Reviews, resolved : BOOLEAN]
    <2>1. comments \in Seq(T) /\ DOMAIN comments = 1 .. Len(comments) /\ Len(comments) \in Nat
      BY <1>1 DEF CommentTypes
    <2>2. ASSUME NEW c \in DOMAIN comments
          PROVE  comments'[c] \in T /\ comments'[c].issue = comments[c].issue
      <3>1. comments[c] \in T
        <4> HIDE DEF T
        <4>1. QED
          BY <2>1
      <3>2. comments'[c] \in {comments[c], [comments[c] EXCEPT !.resolved = TRUE]}
        BY <1>2
      <3>3. QED
        BY <3>1, <3>2
    <2>3. DOMAIN comments' = 1 .. Len(comments) /\ comments' = [c \in 1 .. Len(comments) |-> comments'[c]]
      BY <1>2, <2>1
    <2> HIDE DEF T
    <2>4. comments' \in Seq(T) /\ Len(comments') = Len(comments)
      BY <2>1, <2>2, <2>3
    <2>5. QED
      BY <2>1, <2>2, <2>4 DEF CommentTypes, Grown, T
  <1>4. Set(r, [pc |-> "seeding"])
    BY DEF ResolveOutdated
  <1>5. /\ rv' = [rv EXCEPT ![r] = rv'[r]] /\ DOMAIN rv'[r] = FieldNames
        /\ \A f \in FieldNames \ {"pc"} : rv'[r][f] = rv[r][f]
        /\ rv'[r].pc = "seeding"
    <2>1. DOMAIN [pc |-> "seeding"] = {"pc"}
      OBVIOUS
    <2>2. QED
      BY <1>1, <1>4, <2>1, SetFields DEF FieldNames
  <1>6. /\ rv'[r].findings = rv[r].findings /\ rv'[r].todo = rv[r].todo
        /\ rv'[r].single = rv[r].single /\ rv'[r].response = rv[r].response
        /\ rv'[r].since = rv[r].since /\ rv'[r].rejected = rv[r].rejected
        /\ rv'[r].status = rv[r].status /\ rv'[r].stored = rv[r].stored
    BY <1>5 DEF FieldNames
  <1>7. /\ Posted \subseteq Posted' /\ \A n \in 0 .. Len(comments) : n \in 0 .. Len(comments')
        /\ Seq(1 .. Len(comments)) \subseteq Seq(1 .. Len(comments'))
    BY <1>1, <1>3, GrownPosted
  <1>8. Raised(r)' = Raised(r) /\ Raised(r) = {}
    BY <1>1, <1>6, NoneInEmpty DEF Raised
  <1>9. RecordFields(r)'
    BY <1>1, <1>5, <1>6, <1>7 DEF DeliveryOf, RecordFields
  <1>10. Accounted(r)' /\ Drained(r)' /\ Delivered(r)' /\ Filtered(r)'
    BY <1>1, <1>5, <1>6, <1>7, <1>8 DEF DeliveryOf, Accounted, Drained, Delivered, Filtered
  <1>11. QED
    BY <1>3, <1>5, <1>9, <1>10, StepOf DEF DeliveryOf

\* The outcome rows are written, or the job ends: nothing more is posted.
LEMMA SeedStep ==
    ASSUME DeliveryInv, NEW r \in Reviews, Seed(r) PROVE DeliveryInv'
  <1>1. CommentTypes' /\ Grown /\ Posted' = Posted /\ UNCHANGED comments
    BY CommentsStay DEF DeliveryInv, Seed
  <1>2. DOMAIN rv = Reviews /\ DeliveryOf(r) /\ rv[r].pc = "seeding" /\ DOMAIN rv[r] = FieldNames
    BY DEF DeliveryInv, DeliveryOf, RecordFields, Seed
  <1>3. Set(r, [pc |-> "marking"])
    BY DEF Seed
  <1>4. /\ rv' = [rv EXCEPT ![r] = rv'[r]] /\ DOMAIN rv'[r] = FieldNames
        /\ \A f \in FieldNames \ {"pc"} : rv'[r][f] = rv[r][f]
        /\ rv'[r].pc = "marking"
    <2>1. DOMAIN [pc |-> "marking"] = {"pc"}
      OBVIOUS
    <2>2. QED
      BY <1>2, <1>3, <2>1, SetFields DEF FieldNames
  <1>5. /\ rv'[r].findings = rv[r].findings /\ rv'[r].todo = rv[r].todo
        /\ rv'[r].single = rv[r].single /\ rv'[r].response = rv[r].response
        /\ rv'[r].since = rv[r].since /\ rv'[r].rejected = rv[r].rejected
        /\ rv'[r].status = rv[r].status /\ rv'[r].stored = rv[r].stored
    BY <1>4 DEF FieldNames
  <1>6. RecordFields(r)'
    BY <1>1, <1>2, <1>4, <1>5 DEF DeliveryOf, RecordFields
  <1>7. Accounted(r)' /\ Drained(r)' /\ Delivered(r)' /\ Filtered(r)'
    BY <1>1, <1>2, <1>4, <1>5 DEF DeliveryOf, Accounted, Drained, Delivered, Filtered, Raised
  <1>8. QED
    BY <1>1, <1>4, <1>6, <1>7, StepOf DEF DeliveryOf

\* A delivery that ended, or begins anew.
LEMMA NothingRaised ==
    ASSUME CommentTypes', NEW r \in Reviews, DOMAIN rv'[r] = FieldNames,
           rv'[r].pc \in {"analysing", "ended"}, rv'[r].findings = <<>>, rv'[r].since = 0,
           rv'[r].todo = <<>>, rv'[r].single = <<>>, rv'[r].response = <<>>,
           rv'[r].rejected = FALSE, rv'[r].stored \in Results[r] \union {<<>>},
           rv'[r].status = "running" <=> rv'[r].pc # "ended",
           rv'[r].status = "done" => ToSet(rv'[r].stored) \subseteq Posted'
    PROVE  DeliveryOf(r)'
  <1>1. 0 \in 0 .. Len(comments') /\ 1 .. 0 = {}
    BY DEF CommentTypes
  <1>2. \A S : <<>> \in Seq(S)
    OBVIOUS
  <1>3. Raised(r)' = {}
    BY NoneInEmpty DEF Raised
  <1>4. RecordFields(r)'
    <2>1. rv'[r].todo \in Seq(ToSet(rv'[r].findings)) /\ rv'[r].single \in Seq(ToSet(rv'[r].findings))
          /\ rv'[r].response \in Seq(1 .. Len(comments'))
      BY <1>2
    <2>2. rv'[r].findings \in Results[r] \union {<<>>} /\ rv'[r].since \in 0 .. Len(comments')
      BY <1>1
    <2>3. QED
      BY <2>1, <2>2 DEF RecordFields
  <1>5. Accounted(r)' /\ Drained(r)' /\ Delivered(r)' /\ Filtered(r)'
    BY <1>3 DEF Accounted, Drained, Delivered, Filtered
  <1>6. QED
    BY <1>4, <1>5 DEF DeliveryOf

LEMMA EndedOf ==
    ASSUME CommentTypes', NEW r \in Reviews, NEW status, NEW stored \in Results[r] \union {<<>>},
           rv'[r] = Ended(status, stored), status # "running",
           status = "done" => ToSet(stored) \subseteq Posted'
    PROVE  DeliveryOf(r)'
  <1>1. /\ DOMAIN rv'[r] = FieldNames /\ rv'[r].pc = "ended" /\ rv'[r].findings = <<>>
        /\ rv'[r].since = 0 /\ rv'[r].todo = <<>> /\ rv'[r].single = <<>>
        /\ rv'[r].response = <<>> /\ rv'[r].rejected = FALSE
        /\ rv'[r].status = status /\ rv'[r].stored = stored
    BY DEF Ended, Fresh, FieldNames
  <1>2. QED
    BY <1>1, NothingRaised

LEMMA MarkStep ==
    ASSUME DeliveryInv, NEW r \in Reviews, Mark(r) PROVE DeliveryInv'
  <1>1. CommentTypes' /\ Grown /\ Posted' = Posted
    BY CommentsStay DEF DeliveryInv, Mark
  <1>2. DOMAIN rv = Reviews /\ DeliveryOf(r) /\ rv[r].pc = "marking"
    BY DEF DeliveryInv, Mark
  <1>3. PICK status : /\ status = IF rv[r].rejected THEN "partial" ELSE "done"
                      /\ rv' = [rv EXCEPT ![r] = Ended(status, rv[r].findings)]
    BY DEF Mark
  <1>4. rv'[r] = Ended(status, rv[r].findings) /\ rv' = [rv EXCEPT ![r] = rv'[r]]
    BY <1>2, <1>3
  <1>5. status = "done" => ToSet(rv[r].findings) \subseteq Posted'
    BY <1>1, <1>2, <1>3, NoneInEmpty DEF DeliveryOf, Accounted, Drained, Raised
  <1>6. DeliveryOf(r)'
    <2>1. rv[r].findings \in Results[r] \union {<<>>} /\ status # "running"
      BY <1>2, <1>3 DEF DeliveryOf, RecordFields
    <2>2. QED
      BY <1>1, <1>4, <1>5, <2>1, EndedOf
  <1>7. QED
    BY <1>1, <1>4, <1>6, StepOf

LEMMA InterruptStep ==
    ASSUME DeliveryInv, NEW r \in Reviews, Interrupt(r) PROVE DeliveryInv'
  <1>1. CommentTypes' /\ Grown
    BY CommentsStay DEF DeliveryInv, Interrupt
  <1>2. rv'[r] = Ended("failed", <<>>) /\ rv' = [rv EXCEPT ![r] = rv'[r]]
    BY DEF DeliveryInv, Interrupt
  <1>3. DeliveryOf(r)'
    BY <1>1, <1>2, EndedOf
  <1>4. QED
    BY <1>1, <1>2, <1>3, StepOf

LEMMA RerunStep ==
    ASSUME DeliveryInv, NEW r \in Reviews, Rerun(r) PROVE DeliveryInv'
  <1> DEFINE fields == [f \in DOMAIN Fresh \ {"stored"} |-> Fresh[f]]
  <1>1. CommentTypes' /\ Grown
    BY CommentsStay DEF DeliveryInv, Rerun
  <1>2. DOMAIN rv = Reviews /\ DeliveryOf(r) /\ DOMAIN rv[r] = FieldNames
    BY DEF DeliveryInv, DeliveryOf, RecordFields
  <1>3. DOMAIN fields = FieldNames \ {"stored"} /\ Set(r, fields)
    BY DEF Rerun, Fresh, FieldNames
  <1>4. /\ rv' = [rv EXCEPT ![r] = rv'[r]] /\ DOMAIN rv'[r] = FieldNames
        /\ \A f \in FieldNames :
             rv'[r][f] = IF f \in FieldNames \ {"stored"} THEN fields[f] ELSE rv[r][f]
    <2> HIDE DEF fields
    <2>1. QED
      BY <1>2, <1>3, SetFields
  <1>5. /\ rv'[r].pc = "analysing" /\ rv'[r].findings = <<>> /\ rv'[r].since = 0
        /\ rv'[r].todo = <<>> /\ rv'[r].single = <<>> /\ rv'[r].response = <<>>
        /\ rv'[r].rejected = FALSE /\ rv'[r].status = "running" /\ rv'[r].stored = rv[r].stored
    BY <1>4 DEF Fresh, FieldNames
  <1>6. rv[r].stored \in Results[r] \union {<<>>}
    BY <1>2 DEF DeliveryOf, RecordFields
  <1>7. DeliveryOf(r)'
    BY <1>1, <1>4, <1>5, <1>6, NothingRaised
  <1>8. QED
    BY <1>1, <1>4, <1>7, StepOf

LEMMA DeliveryStep == DeliveryInv /\ [PostingNext]_postingVars => DeliveryInv'
  <1> SUFFICES ASSUME DeliveryInv, [PostingNext]_postingVars PROVE DeliveryInv'
    OBVIOUS
  <1>1. ASSUME NEW r \in Reviews, DeliverReview(r) PROVE DeliveryInv'
    BY <1>1, AnalysedStep, PostBatchStep, PostSingleStep, ResolveStep, SeedStep, MarkStep
       DEF DeliverReview
  <1>2. ASSUME UNCHANGED <<comments, rv>> PROVE DeliveryInv'
    <2>1. CommentTypes' /\ Grown
      BY <1>2, CommentsStay DEF DeliveryInv
    <2>2. \A r \in Reviews : DeliveryOf(r)'
      BY <1>2, <2>1, OthersStand DEF DeliveryInv
    <2>3. QED
      BY <1>2, <2>1, <2>2 DEF DeliveryInv
  <1>3. CASE \E r \in Reviews : Interrupt(r) \/ Rerun(r)
    BY <1>3, InterruptStep, RerunStep
  <1>4. CASE \/ \E r \in Reviews : \E i \in DOMAIN rows[r] : Reply(r, i)
             \/ ClassifyClosed \/ Nightly \/ PullCloses \/ Ages \/ Breaks
             \/ UNCHANGED postingVars
    BY <1>2, <1>4 DEF Reply, ClassifyClosed, Nightly, PullCloses, Ages, Breaks, postingVars
  <1>5. QED
    BY <1>1, <1>3, <1>4 DEF PostingNext

LEMMA DeliveryInvHolds == PostingSpec => []DeliveryInv
  BY InitDelivery, DeliveryStep, PTL DEF PostingSpec

-----------------------------------------------------------------------------
(* The outcome rows *)

Row == [comment : 0 .. Len(comments), outcome : Outcomes]
RowTypes == rows \in [Reviews -> Seq(Row)]

LEMMA ThreadsGrow == DeliveryInv /\ [PostingNext]_postingVars => Grown
  <1> SUFFICES ASSUME DeliveryInv, [PostingNext]_postingVars PROVE Grown
    OBVIOUS
  <1>1. ASSUME UNCHANGED comments PROVE Grown
    BY <1>1, CommentsStay DEF DeliveryInv
  <1>2. ASSUME NEW r \in Reviews, PostBatch(r) \/ PostSingle(r) \/ ResolveOutdated(r) PROVE Grown
    BY <1>2, PostBatchStep, PostSingleStep, ResolveStep
  <1>3. QED
    BY <1>1, <1>2 DEF PostingNext, DeliverReview, Analysed, Seed, Mark, Interrupt, Rerun, Reply,
                      ClassifyClosed, Nightly, PullCloses, Ages, Breaks, postingVars

LEMMA OutcomeKnown ==
    ASSUME NEW s, NEW resolved PROVE ClassifyFinding(s, resolved) \in Outcomes
  BY DEF ClassifyFinding, Outcomes

LEMMA ClassifiedRows ==
    ASSUME RowTypes, CommentTypes, NEW r \in Reviews, rv[r].stored \in Results[r] \union {<<>>},
           NEW s
    PROVE  Classified(r, s) \in Seq(Row)
  <1> DEFINE n == IF Len(rows[r]) > Len(rv[r].stored) THEN Len(rows[r]) ELSE Len(rv[r].stored)
  <1>1. /\ rows[r] \in Seq(Row) /\ Len(rows[r]) \in Nat /\ DOMAIN rows[r] = 1 .. Len(rows[r])
        /\ Len(rv[r].stored) \in Nat /\ Len(comments) \in Nat
    <2>1. rv[r].stored \in Seq(ToSet(rv[r].stored))
      BY FindingsOf
    <2>2. QED
      BY <2>1 DEF RowTypes, CommentTypes
  <1>2. n \in Nat
    BY <1>1
  <1> HIDE DEF n
  <1>3. ASSUME NEW i \in 1 .. n
        PROVE  (IF i \in DOMAIN rows[r] THEN rows[r][i] ELSE Pending(0)) \in Row
    <2>1. Pending(0) \in Row
      BY <1>1 DEF Row, Pending, Outcomes
    <2>2. i \in DOMAIN rows[r] => rows[r][i] \in Row
      BY <1>1
    <2>3. QED
      BY <2>1, <2>2
  <1>4. ASSUME NEW i \in 1 .. n PROVE Classified(r, s)[i] \in Row
    <2> DEFINE row == IF i \in DOMAIN rows[r] THEN rows[r][i] ELSE Pending(0)
    <2>1. \E o \in Outcomes : Classified(r, s)[i] \in {row, [row EXCEPT !.outcome = o]}
      BY <1>4, OutcomeKnown DEF Classified, n
    <2>2. row \in Row
      BY <1>3
    <2> HIDE DEF row
    <2>3. QED
      BY <2>1, <2>2 DEF Row
  <1>5. Classified(r, s) = [i \in 1 .. n |-> Classified(r, s)[i]]
    BY DEF Classified, n
  <1>6. QED
    BY <1>2, <1>4, <1>5

LEMMA SeededRows ==
    ASSUME RowTypes, DeliveryInv, NEW r \in Reviews, Seed(r) PROVE RowTypes'
  <1> DEFINE response == rv[r].response
             id(i) == IF i \in DOMAIN response THEN response[i] ELSE 0
             n == Len(rv[r].findings)
             old == rows[r]
             m == IF Len(old) > n THEN Len(old) ELSE n
             new == [i \in 1 .. m |->
                       IF i \notin DOMAIN old THEN Pending(id(i))
                       ELSE IF i <= n /\ old[i].comment = 0 THEN [old[i] EXCEPT !.comment = id(i)]
                       ELSE old[i]]
  <1>1. rows' = [rows EXCEPT ![r] = new] /\ UNCHANGED comments
    BY DEF Seed
  <1>2. /\ old \in Seq(Row) /\ Len(old) \in Nat /\ DOMAIN old = 1 .. Len(old)
        /\ n \in Nat /\ Len(comments) \in Nat /\ response \in Seq(1 .. Len(comments))
    <2>1. rv[r].findings \in Seq(ToSet(rv[r].findings))
      BY FindingsOf DEF DeliveryInv, DeliveryOf, RecordFields
    <2>2. QED
      BY <2>1 DEF RowTypes, DeliveryInv, DeliveryOf, RecordFields, CommentTypes
  <1>3. m \in Nat
    BY <1>2
  <1>4. ASSUME NEW i \in 1 .. m PROVE id(i) \in 0 .. Len(comments)
    BY <1>2
  <1> HIDE DEF id, m
  <1>5. ASSUME NEW i \in 1 .. m PROVE new[i] \in Row
    <2>1. CASE i \notin DOMAIN old
      BY <1>4, <2>1 DEF Row, Pending, Outcomes
    <2>2. CASE i \in DOMAIN old
      <3>1. old[i] \in Row
        BY <1>2, <2>2
      <3>2. new[i] \in {old[i], [old[i] EXCEPT !.comment = id(i)]}
        BY <2>2
      <3> HIDE DEF old, new
      <3>3. QED
        BY <1>4, <3>1, <3>2 DEF Row
    <2>3. QED
      BY <2>1, <2>2
  <1>6. new = [i \in 1 .. m |-> new[i]]
    OBVIOUS
  <1> HIDE DEF new
  <1>7. new \in Seq(Row)
    BY <1>3, <1>5, <1>6
  <1>8. QED
    BY <1>1, <1>7 DEF RowTypes, Row

LEMMA RowsStep == DeliveryInv /\ RowTypes /\ [PostingNext]_postingVars => RowTypes'
  <1> SUFFICES ASSUME DeliveryInv, RowTypes, [PostingNext]_postingVars PROVE RowTypes'
    OBVIOUS
  <1>1. Seq(Row) \subseteq Seq(Row')
    <2>1. Len(comments) \in Nat /\ Len(comments') \in Nat /\ Len(comments) <= Len(comments')
      BY DeliveryStep, ThreadsGrow DEF DeliveryInv, CommentTypes, Grown
    <2>2. Row \subseteq Row'
      BY <2>1 DEF Row
    <2>3. QED
      BY <2>2, SeqGrows
  <1>2. ASSUME rows' \in [Reviews -> Seq(Row)] PROVE RowTypes'
    BY <1>1, <1>2 DEF RowTypes
  <1>3. ASSUME NEW R, Classify(R) PROVE RowTypes'
    <2> PICK s \in Signals :
          rows' = [r \in Reviews |-> IF r \in R THEN Classified(r, s) ELSE rows[r]]
      BY <1>3 DEF Classify
    <2>1. ASSUME NEW r \in Reviews PROVE Classified(r, s) \in Seq(Row) /\ rows[r] \in Seq(Row)
      BY ClassifiedRows DEF DeliveryInv, DeliveryOf, RecordFields, RowTypes
    <2>2. rows' \in [Reviews -> Seq(Row)]
      BY <2>1
    <2>3. QED
      BY <1>2, <2>2
  <1>4. CASE UNCHANGED rows
    BY <1>2, <1>4 DEF RowTypes
  <1>5. CASE \E r \in Reviews : Seed(r)
    BY <1>5, SeededRows
  <1>6. CASE ClassifyClosed
    BY <1>3, <1>6 DEF ClassifyClosed
  <1>7. CASE Nightly
    BY <1>3, <1>7 DEF Nightly
  <1>8. ASSUME NEW r \in Reviews, NEW i \in DOMAIN rows[r], Reply(r, i) PROVE RowTypes'
    <2>1. rows[r] \in Seq(Row) /\ rows[r][i] \in Row
      BY <1>8 DEF RowTypes
    <2>2. rows' = [rows EXCEPT ![r] = [rows[r] EXCEPT ![i] = [rows[r][i] EXCEPT !.outcome = "dismissed"]]]
      BY <1>8 DEF Reply
    <2>3. [rows[r][i] EXCEPT !.outcome = "dismissed"] \in Row
      BY <2>1 DEF Row, Outcomes
    <2>4. [rows[r] EXCEPT ![i] = [rows[r][i] EXCEPT !.outcome = "dismissed"]] \in Seq(Row)
      BY <1>8, <2>1, <2>3
    <2>5. rows' \in [Reviews -> Seq(Row)]
      BY <2>2, <2>4 DEF RowTypes
    <2>6. QED
      BY <1>2, <2>5
  <1>9. QED
    BY <1>4, <1>5, <1>6, <1>7, <1>8
       DEF PostingNext, DeliverReview, Analysed, PostBatch, PostSingle, ResolveOutdated, Mark, Interrupt,
           Rerun, PullCloses, Ages, Breaks, Unchanged, postingVars

-----------------------------------------------------------------------------
(* The theorems *)

\* A review that ends "done" has a thread for each of its findings, whatever call failed,
\* fell back to single comments or was retried, and however other reviews of the pull request
\* post, resolve and end meanwhile (post_review, _mark_review_done).
THEOREM DoneIsDelivered == PostingSpec => []DoneMeansDelivered
  <1>1. DeliveryInv => DoneMeansDelivered
    BY DEF DeliveryInv, DeliveryOf, Delivered, DoneMeansDelivered
  <1>2. QED
    BY <1>1, DeliveryInvHolds, PTL

\* No step of a review opens a thread for a finding that the listing its findings were
\* filtered by already held, also not in the single comments that follow a failed batch
\* (filter_new_findings, post_review).
THEOREM NothingReposted == PostingSpec => NoRepost
  <1>1. ASSUME DeliveryInv, [PostingNext]_postingVars,
               NEW c \in Len(comments) + 1 .. Len(comments'),
               NEW d \in 1 .. rv[comments'[c].review].since
        PROVE  comments[d].issue # comments'[c].issue
    <2>1. Len(comments) \in Nat
      BY <1>1 DEF DeliveryInv, CommentTypes
    <2>2. comments' # comments
      BY <1>1, <2>1
    <2>3. PICK r \in Reviews : PostBatch(r) \/ PostSingle(r) \/ ResolveOutdated(r)
      BY <1>1, <2>2 DEF PostingNext, DeliverReview, Analysed, Seed, Mark, Interrupt, Rerun, Reply,
                        ClassifyClosed, Nightly, PullCloses, Ages, Breaks, postingVars
    <2>4. CASE PostBatch(r) \/ PostSingle(r)
      <3>1. comments'[c].review = r /\ comments'[c].issue \in Raised(r)
        BY <1>1, <2>4, PostBatchStep, PostSingleStep DEF NewRaised
      <3>2. Filtered(r)
        BY <1>1 DEF DeliveryInv, DeliveryOf
      <3>3. QED
        BY <1>1, <3>1, <3>2 DEF Filtered
    <2>5. CASE ResolveOutdated(r)
      <3>1. Len(comments') = Len(comments)
        BY <2>1, <2>5 DEF ResolveOutdated, Set
      <3>2. QED
        BY <1>1, <2>1, <3>1
    <2>6. QED
      BY <2>3, <2>4, <2>5
  <1>2. DeliveryInv /\ [PostingNext]_postingVars =>
          [ \A c \in Len(comments) + 1 .. Len(comments') :
              \A d \in 1 .. rv[comments'[c].review].since :
                comments[d].issue # comments'[c].issue ]_postingVars
    BY <1>1
  <1>3. QED
    BY <1>2, DeliveryInvHolds, PTL DEF PostingSpec, NoRepost

\* Every outcome row of every reachable state has a known outcome and, if a comment at all,
\* one that was created; no listing knows more threads than there are
\* (seed_pending_finding_outcomes).
THEOREM PostingTypesCorrect == PostingSpec => []PostingTypeOK
  <1>1. PostingInit => RowTypes
    BY DEF PostingInit, RowTypes, Row
  <1>2. PostingSpec => []RowTypes
    BY <1>1, RowsStep, DeliveryInvHolds, PTL DEF PostingSpec
  <1>3. DeliveryInv /\ RowTypes => PostingTypeOK
    <2> SUFFICES ASSUME DeliveryInv, RowTypes, NEW r \in Reviews
                 PROVE  /\ DOMAIN rows[r] = 1 .. Cardinality(DOMAIN rows[r])
                        /\ \A i \in DOMAIN rows[r] :
                             rows[r][i] \in [comment : 0 .. Len(comments), outcome : Outcomes]
                        /\ rv[r].since <= Len(comments)
                        /\ rv[r].status = "running" <=> rv[r].pc # "ended"
      BY DEF PostingTypeOK
    <2>1. /\ rows[r] \in Seq(Row) /\ Len(rows[r]) \in Nat /\ DOMAIN rows[r] = 1 .. Len(rows[r])
          /\ Len(comments) \in Nat
      BY DEF RowTypes, DeliveryInv, CommentTypes
    <2>2. Cardinality(1 .. Len(rows[r])) = Len(rows[r])
      BY <2>1, FS_Interval
    <2>3. \A i \in DOMAIN rows[r] : rows[r][i] \in Row
      BY <2>1
    <2>4. QED
      BY <2>1, <2>2, <2>3 DEF DeliveryInv, DeliveryOf, RecordFields, Row
  <1>4. QED
    BY <1>2, <1>3, DeliveryInvHolds, PTL

=============================================================================
