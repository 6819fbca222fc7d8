---- MODULE ReviewRouting ----
(***************************************************************************)
(* What a review job does before it analyses anything (run_review and      *)
(* _run_fast_path_stage of agent/runner.py, agent/fast_path.py): it loads  *)
(* the repository's configuration through a cache, looks up the adaptive   *)
(* threshold, has a model classify the pull request, and decides how deep  *)
(* the review goes.  Jobs of one installation run side by side with the    *)
(* tuner of their threshold.                                               *)
(***************************************************************************)
EXTENDS ThresholdTuner, ReviewConfigFile

CONSTANTS
  Jobs,
  PullRequests,   \* records [draft, large, tokens, files, file]: file is .codereview.yml
  Answers,        \* what the classifying model may return
  NoConfidence

VARIABLES
  pr,          \* job -> its pull request; all are of one repository at one base
  configEntry, \* codereview_yml:<repo>:<base> in Redis
  zeros,       \* fast-path-zero-confidence counter of the model
  jobs         \* job -> [pc, cfg, thr, decision, conf, label, route]

routingVars == <<pr, configEntry, zeros, jobs>>
allVars == <<tunerVars, routingVars>>

NoRoute == [depth |-> "none", tier |-> "none", maxMode |-> FALSE, severity |-> "low",
            chunked |-> FALSE, budget |-> "full"]

\* The configurations the jobs may run under: of the repository's file, or the defaults.
Configs == {DefaultConfig} \union {ParseConfig(pr[j].file) : j \in Jobs}

\* An earlier job may have left the configuration in the cache.
RoutingInit ==
  /\ TunerInit
  /\ pr \in [Jobs -> PullRequests]
  /\ \A i, j \in Jobs : pr[i].file = pr[j].file
  /\ configEntry \in {NoEntry} \union Configs
  /\ zeros = 0
  /\ jobs = [j \in Jobs |-> [pc |-> "config", cfg |-> DefaultConfig, thr |-> Initial,
                             decision |-> "none", conf |-> NoConfidence, label |-> "none",
                             route |-> NoRoute]]

\* The record with other fields, or new ones.
With(record, fields) ==
  [f \in DOMAIN record \union DOMAIN fields |->
     IF f \in DOMAIN fields THEN fields[f] ELSE record[f]]
Update(j, fields) == jobs' = [jobs EXCEPT ![j] = With(@, fields)]

\* ---- fast_path.py --------------------------------------------------------------

\* _normalize_confidence_value: floats and texts up to 1 are fractions, integers are not.
ConfidenceOf(type, hundredths) ==
  IF type = "int" /\ hundredths \in 0 .. 10000 THEN hundredths \div 100
  ELSE IF type \in {"float", "text"} /\ hundredths \in 0 .. 100 THEN hundredths
  ELSE IF type \in {"float", "text"} /\ hundredths \in 101 .. 10000 THEN Rounded(hundredths)
  ELSE NoConfidence

NormalizeConfidence(raw) == ConfidenceOf(raw.t, raw.v)

HighRisk(p) == \E f \in p.files : f.risky
Changed(p) == p.lines
Classes(p) == {f.class : f \in p.files}

\* _heuristic_confidence, from the classes and the size of the change.
HeuristicConfidence(p) ==
  CASE p.files = {} -> NoConfidence
    [] p.files # {} /\ HighRisk(p) -> 40
    [] p.files # {} /\ ~HighRisk(p) ->
         IF Classes(p) \subseteq {"docs_only", "generated", "lockfile"} /\ Changed(p) <= 250 THEN 95
         ELSE IF Classes(p) \subseteq {"config_only", "test_only", "docs_only"}
                   /\ Changed(p) <= 180 THEN 84
         ELSE IF Changed(p) <= 80 /\ Cardinality(p.files) <= 3 THEN 78
         ELSE 65

\* The model's own confidence, an alias of it, or the heuristic.
RecoveredConfidence(answer, p) ==
  IF NormalizeConfidence(answer.conf) # NoConfidence THEN NormalizeConfidence(answer.conf)
  ELSE IF NormalizeConfidence(answer.alias) # NoConfidence THEN NormalizeConfidence(answer.alias)
  ELSE HeuristicConfidence(p)

Full(label) == [decision |-> "full_review", conf |-> NoConfidence, label |-> label]

\* Mutant: a recovered confidence is taken without the rules below it.
NormalizeDecisionTrusting(answer, p, fp) ==
  IF answer.decision = "invalid" THEN Full("invalid")
  ELSE [decision |-> answer.decision, conf |-> RecoveredConfidence(answer, p), label |-> "model"]

\* normalize_fast_path_decision: escalate whatever is not safe to shorten.
NormalizeDecision(answer, p, fp) ==
  LET conf == RecoveredConfidence(answer, p)
      shortened == answer.decision \in {"skip_review", "light_review"}
      Escalate(label) == [decision |-> "full_review", conf |-> conf, label |-> label]
  IN IF answer.decision = "malformed" THEN Full("invalid")
     ELSE IF conf = NoConfidence /\ answer.conf.t = "none" THEN Full("missing_confidence")
     ELSE IF conf = NoConfidence THEN Full("invalid")
     ELSE IF answer.decision = "invalid" THEN Full("invalid")
     ELSE IF shortened /\ HighRisk(p) THEN Escalate("high_risk_path")
     ELSE IF answer.decision = "skip_review" /\ ~fp.allowSkip THEN Escalate("skip_disabled")
     ELSE IF answer.decision = "skip_review" /\ conf < fp.skipMin THEN Escalate("low_confidence")
     ELSE IF answer.decision = "light_review" /\ conf < fp.lightMin THEN Escalate("low_confidence")
     ELSE IF shortened /\ answer.fullContext THEN Escalate("requires_full_context")
     ELSE [decision |-> answer.decision, conf |-> conf, label |-> "model"]

\* ---- the configuration ------------------------------------------------------------

\* _deserialize_config rebuilds every section a review reads to the values that were
\* serialised; consistency_probe, which it leaves a plain mapping, is read by nobody.
ConfigCached(j) ==
  /\ jobs[j].pc = "config" /\ configEntry # NoEntry
  /\ Update(j, [pc |-> "prelude", cfg |-> configEntry])
  /\ UNCHANGED <<tunerVars, pr, configEntry, zeros>>

ConfigMissed(j) ==
  /\ jobs[j].pc = "config" /\ configEntry = NoEntry
  /\ Update(j, [pc |-> "fetch"])
  /\ UNCHANGED <<tunerVars, pr, configEntry, zeros>>

\* load_review_config at the base ref: any failure of the fetch reads as "no file", and
\* the defaults are cached like a configuration.  The cache write may be lost.
ConfigFetched(j) ==
  /\ jobs[j].pc = "fetch"
  /\ \E cfg \in {ParseConfig(pr[j].file), DefaultConfig} :
       /\ Update(j, [pc |-> "prelude", cfg |-> cfg])
       /\ configEntry' \in {cfg, configEntry}
  /\ UNCHANGED <<tunerVars, pr, zeros>>

ConfigExpires ==
  /\ configEntry # NoEntry
  /\ configEntry' = NoEntry
  /\ UNCHANGED <<tunerVars, pr, zeros, jobs>>

Chunking(j) ==
  jobs[j].cfg.chunking.enabled /\ pr[j].tokens >= jobs[j].cfg.chunking.proactive

\* Drafts and pull requests too large to review end here.
Prelude(j) ==
  /\ jobs[j].pc = "prelude"
  /\ LET cfg == jobs[j].cfg
     IN IF pr[j].draft /\ ~cfg.drafts
        THEN Update(j, [pc |-> "done", route |-> [NoRoute EXCEPT !.depth = "draft"]])
        ELSE IF pr[j].large /\ ~Chunking(j)
        THEN Update(j, [pc |-> "done", route |-> [NoRoute EXCEPT !.depth = "too_large"]])
        ELSE IF ~cfg.fastPath.enabled
        THEN Update(j, With(Full("disabled"), [pc |-> "route"]))
        ELSE IF ~cfg.adaptive.enabled
        THEN Update(j, [pc |-> "classify", thr |-> cfg.fastPath.skipMin])
        ELSE Update(j, [pc |-> "threshold"])
  /\ UNCHANGED <<tunerVars, pr, configEntry, zeros>>

\* ---- the threshold ---------------------------------------------------------------

\* get_effective_fast_path_threshold: the Redis entry, else the row.
ThresholdCached(j) ==
  /\ jobs[j].pc = "threshold" /\ entry # NoEntry
  /\ Update(j, [pc |-> "classify", thr |-> entry])
  /\ UNCHANGED <<tunerVars, pr, configEntry, zeros>>

\* Without an entry, or when Redis fails, the row is read; no row or a failed query reads
\* as the initial threshold of the job's own repository.
ThresholdRead(j) ==
  /\ jobs[j].pc = "threshold"
  /\ \E value \in {jobs[j].cfg.adaptive.initial} \union ({row} \ {NoRow}) :
       Update(j, [pc |-> "fill", thr |-> value])
  /\ UNCHANGED <<tunerVars, pr, configEntry, zeros>>

\* What was read is cached, however old it is by then.
ThresholdFilled(j) ==
  /\ jobs[j].pc = "fill"
  /\ entry' \in {jobs[j].thr, entry}
  /\ Update(j, [pc |-> "classify"])
  /\ UNCHANGED <<row, history, judgeWindow, tuner, rollback, tunes, rollbacks, pr, configEntry,
                 zeros>>

\* ---- the classification -------------------------------------------------------------

\* The thresholds in force for a job.
InForce(j) ==
  LET fp == jobs[j].cfg.fastPath
  IN IF jobs[j].cfg.adaptive.enabled
     THEN [fp EXCEPT !.skipMin = jobs[j].thr, !.lightMin = Greater(0, jobs[j].thr - 10)]
     ELSE fp

\* A provider answers.  A confidence of 0 counts against its model; the counter is read as
\* healthy when Redis fails, unless the confidence is 0.
Classified(j) ==
  /\ jobs[j].pc = "classify"
  /\ \E a \in Answers, redis \in BOOLEAN :
       LET d == NormalizeDecision(a, pr[j], InForce(j))
           zero == d.conf # NoConfidence /\ d.conf = 0
           counted == IF zero THEN zeros + 1 ELSE 0
           flagged == /\ jobs[j].cfg.fastPath.bugCheck /\ zero
                      /\ redis => counted >= jobs[j].cfg.fastPath.zeroLimit
       IN /\ zeros' = IF jobs[j].cfg.fastPath.bugCheck /\ redis THEN counted ELSE zeros
          /\ Update(j, With(IF flagged THEN Full("confidence_anomaly") ELSE d,
                            [pc |-> "route"]))
  /\ UNCHANGED <<tunerVars, pr, configEntry>>

\* Every provider failed, or none is configured.
ClassificationFails(j) ==
  /\ jobs[j].pc = "classify"
  /\ \E label \in {"fast_path_error", "no_provider_available"} :
       Update(j, With(Full(label), [pc |-> "route"]))
  /\ UNCHANGED <<tunerVars, pr, configEntry, zeros>>

ZerosExpire ==
  /\ zeros # 0
  /\ zeros' = 0
  /\ UNCHANGED <<tunerVars, pr, configEntry, jobs>>

\* _review_config_for_fast_path_decision, _apply_missing_confidence_guardrail and the
\* compaction after a classification that failed.
RouteOf(j) ==
  LET cfg == jobs[j].cfg
      d == jobs[j].decision
      fixed == cfg.model.explicit \/ cfg.models.pinned
      tier == IF d = "light_review" /\ cfg.fastPath.economy /\ ~fixed THEN "economy"
              ELSE IF d = "high_risk_review" /\ ~fixed THEN "frontier"
              ELSE IF jobs[j].label = "missing_confidence" /\ ~cfg.model.explicit THEN "economy"
              ELSE cfg.models.tier
  IN [depth |-> d,
      tier |-> tier,
      maxMode |-> d = "high_risk_review" \/ cfg.maxMode.enabled,
      severity |-> IF d = "high_risk_review" THEN "low" ELSE cfg.severity,
      chunked |-> Chunking(j),
      budget |-> CASE jobs[j].label = "missing_confidence" -> "guarded"
                   [] jobs[j].label = "fast_path_error" -> "compact"
                   [] OTHER -> "full"]

Route(j) ==
  /\ jobs[j].pc = "route"
  /\ Update(j, [pc |-> "done", route |-> IF jobs[j].decision = "skip_review"
                                         THEN [NoRoute EXCEPT !.depth = "skip_review"]
                                         ELSE RouteOf(j)])
  /\ UNCHANGED <<tunerVars, pr, configEntry, zeros>>

JobStep(j) ==
  \/ ConfigCached(j) \/ ConfigMissed(j) \/ ConfigFetched(j) \/ Prelude(j)
  \/ ThresholdCached(j) \/ ThresholdRead(j) \/ ThresholdFilled(j)
  \/ Classified(j) \/ ClassificationFails(j) \/ Route(j)

RoutingNext ==
  \/ TunerNext /\ UNCHANGED routingVars
  \/ \E j \in Jobs : JobStep(j)
  \/ ConfigExpires \/ ZerosExpire

RoutingSpec == RoutingInit /\ [][RoutingNext]_allVars

-----------------------------------------------------------------------------
\* Whatever .codereview.yml holds, the configuration in force stays within its ranges.
RoutingTypeOK ==
  /\ row \in 0 .. 100 \union {NoRow} /\ entry \in 0 .. 100 \union {NoEntry}
  /\ \A j \in Jobs :
       LET cfg == jobs[j].cfg
       IN /\ {cfg.threshold, cfg.fastPath.skipMin, cfg.fastPath.lightMin} \subseteq 0 .. 100
          /\ cfg.cap > 0 /\ cfg.fastPath.zeroLimit > 0
          /\ cfg.severity \in Severities /\ jobs[j].thr \in 0 .. 100
          /\ jobs[j].route.tier \in Tiers \union {"none"}

\* The initial thresholds of the installation's repositories.
Initials == OtherInitials \union {cfg.adaptive.initial : cfg \in Configs}

\* Only a change that is safe to leave unread is skipped: no high-risk file, skipping
\* allowed, a confidence of at least the threshold in force, which is not below both the
\* tuner's minimum and the lowest initial threshold of the installation; and no outage,
\* malformed answer or anomaly ever skips a review (fast_path.py:118-180,
\* runner.py:656-690).
SkipOnlyWhenSafe ==
  \A j \in Jobs :
    jobs[j].pc = "done" /\ jobs[j].route.depth = "skip_review" =>
      /\ ~HighRisk(pr[j])
      /\ jobs[j].cfg.fastPath.allowSkip /\ jobs[j].cfg.fastPath.enabled
      /\ jobs[j].label = "model" /\ jobs[j].conf # NoConfidence
      /\ jobs[j].conf >= InForce(j).skipMin
      /\ jobs[j].cfg.adaptive.enabled =>
           \E floor \in {Minimum} \union Initials : jobs[j].conf >= floor

\* A job's threshold was committed for its installation, or is the initial threshold of
\* one of the installation's repositories, not always the job's own: the key is shared.  So
\* it is, however the lookups, the tuner, a rollback and the expiry of the entry
\* interleave: a tuner whose transaction failed is never believed
\* (threshold_tuner.py:101-126, 191-212).
AppliedThresholdHasSource ==
  /\ entry # NoEntry => entry \in Committed \union Initials
  /\ \A j \in Jobs : jobs[j].pc \in {"fill", "classify"} /\ jobs[j].cfg.adaptive.enabled =>
       jobs[j].thr \in Committed \union Initials

\* The row goes down by a rollback, or by a run of the tuner that had measured enough
\* samples, little disagreement and healthy guardrails and that the judge it read had let
\* pass, whatever else was committed since the run read the row
\* (threshold_tuner.py:41-85, 129-222).
LoweringNeedsEvidence ==
  [][ (IF row' = NoRow THEN Initial ELSE row') < (IF row = NoRow THEN Initial ELSE row) =>
        \/ rollback.pc = "idle" /\ rollback'.pc = "cache" /\ row' = rollback'.value
        \/ /\ tuner.pc = "commit" /\ tuner.m.samples >= MinSamples /\ tuner.m.disagree < Low
           /\ tuner.m.dismiss + tuner.m.ignore <= MaxFalseAccept /\ tuner.m.dismiss <= MaxDismiss
           /\ JudgeOn => tuner.judge.independent /\ tuner.judge.samples >= MinJudgeSamples ]_allVars
====
