---- MODULE ReviewConfigFile ----
(***************************************************************************)
(* How .codereview.yml becomes the configuration of a review               *)
(* (agent/review_config.py).  A scalar of the file is [t, v]: its YAML     *)
(* type and its value in hundredths; "none" is an absent key, "junk" a     *)
(* text that is no number.  A section is a function from its keys, or      *)
(* NoSection when the file has none or something that is no mapping.  The  *)
(* section consistency_probe, which no module of the service reads, is     *)
(* left out.                                                               *)
(***************************************************************************)
EXTENDS Integers, Sequences

CONSTANT NoSection

Absent == [t |-> "none", v |-> 0]
Key(section, k) == IF section # NoSection /\ k \in DOMAIN section THEN section[k] ELSE Absent

\* int() truncates towards zero; round() rounds halves to even.
Truncated(h) == IF h < 0 THEN -((-h) \div 100) ELSE h \div 100
Rounded(h) ==
  LET n == h \div 100
      r == h % 100
  IN IF r > 50 \/ (r = 50 /\ n % 2 = 1) THEN n + 1 ELSE n

\* What int() makes of a scalar: a text must be an integer's.
IsInt(raw) == raw.t \in {"int", "float"} \/ (raw.t = "text" /\ raw.v % 100 = 0)

PositiveInt(raw, default) ==
  IF IsInt(raw) /\ Truncated(raw.v) > 0 THEN Truncated(raw.v) ELSE default

BoundedInt(raw, default, low, high) ==
  IF IsInt(raw) /\ Truncated(raw.v) \in low .. high THEN Truncated(raw.v) ELSE default

\* A value of at most 1 is a fraction, so 1 means 100 percent.
Percentage(raw, default) ==
  IF raw.t \notin {"int", "float", "text"} \/ raw.v < 0 \/ raw.v > 10000 THEN default
  ELSE IF raw.v <= 100 THEN raw.v ELSE Rounded(raw.v)

\* bool(): an absent key keeps the default, any non-empty text is true.
Truth(raw, default) ==
  CASE raw.t = "none" -> default
    [] raw.t \in {"text", "junk"} -> TRUE
    [] OTHER -> raw.v # 0

\* An enumerated setting: its value when the file names an allowed one.
OneOf(section, k, allowed, default) ==
  IF section # NoSection /\ k \in DOMAIN section /\ section[k] \in allowed THEN section[k]
  ELSE default

Severities == {"low", "medium", "high", "critical"}
Providers == {"anthropic", "openai", "gemini"}
Tiers == {"frontier", "balanced", "economy", "fallback"}

ParseMaxMode(s) ==
  [enabled |-> Truth(Key(s, "enabled"), FALSE),
   conflict |-> Percentage(Key(s, "conflict_threshold"), 35),
   highRisk |-> IF s = NoSection THEN "high" ELSE OneOf(s, "high_risk_severity", Severities, "low")]

ParseChunking(s) ==
  [enabled |-> Truth(Key(s, "enabled"), TRUE),
   proactive |-> PositiveInt(Key(s, "proactive_threshold_tokens"), 35000),
   target |-> PositiveInt(Key(s, "target_chunk_tokens"), 18000),
   maxChunks |-> PositiveInt(Key(s, "max_chunks"), 8),
   minFiles |-> PositiveInt(Key(s, "min_files_per_chunk"), 1)]

ParseFastPath(s) ==
  [enabled |-> Truth(Key(s, "enabled"), TRUE),
   skipMin |-> BoundedInt(Key(s, "skip_min_confidence"), 90, 0, 100),
   lightMin |-> BoundedInt(Key(s, "light_review_min_confidence"), 80, 0, 100),
   economy |-> Truth(Key(s, "force_economy_on_light_review"), FALSE),
   allowSkip |-> Truth(Key(s, "allow_skip"), TRUE),
   bugCheck |-> Truth(Key(s, "confidence_bug_check"), TRUE),
   zeroLimit |-> PositiveInt(Key(s, "zero_confidence_limit"), 5)]

ParseAdaptive(s) ==
  [enabled |-> Truth(Key(s, "enabled"), TRUE),
   initial |-> BoundedInt(Key(s, "initial_threshold"), 90, 0, 100),
   minimum |-> BoundedInt(Key(s, "minimum_threshold"), 60, 0, 100),
   step |-> BoundedInt(Key(s, "step_down"), 2, 1, 50),
   low |-> BoundedInt(Key(s, "target_disagreement_low"), 5, 0, 100),
   high |-> BoundedInt(Key(s, "target_disagreement_high"), 15, 0, 100),
   maxFalseAccept |-> BoundedInt(Key(s, "max_false_accept_rate"), 5, 0, 100),
   maxDismiss |-> BoundedInt(Key(s, "max_dismiss_rate"), 25, 0, 100),
   minSamples |-> PositiveInt(Key(s, "min_samples"), 100)]

DefaultName(provider) == provider \o "-default"

\* A configured model, or prices for it, count as the user's explicit choice.
ParseModel(s) ==
  LET provider == OneOf(s, "provider", Providers, "anthropic")
  IN [provider |-> provider,
      name |-> IF s # NoSection /\ "name" \in DOMAIN s THEN s["name"] ELSE DefaultName(provider),
      explicit |-> s # NoSection /\ {"provider", "name", "pricing"} \intersect DOMAIN s # {}]

\* The routing of the roles: a role the file names has the policy's tier unless it gives
\* one of its own, any other role its default tier.  s["primary_review"] is the tier the
\* file gives that role, "none" when it gives none.
ParseModels(s) ==
  LET policy == OneOf(s, "policy", Tiers, "balanced")
      named == s # NoSection /\ "primary_review" \in DOMAIN s
  IN [policy |-> policy,
      tier |-> IF named THEN OneOf(s, "primary_review", Tiers, policy) ELSE "balanced",
      pinned |-> named /\ {"provider", "model"} \subseteq DOMAIN s,
      fastTier |-> "economy",
      fallback |-> Truth(Key(s, "allow_auto_fallback"), TRUE),
      diversity |-> Truth(Key(s, "require_provider_diversity"), FALSE)]

ParsePackaging(top) ==
  [layered |-> Truth(Key(top, "layered_context_enabled"), TRUE),
   partial |-> Truth(Key(top, "partial_review_mode_enabled"), TRUE),
   partialLines |-> PositiveInt(Key(top, "partial_review_changed_lines_threshold"), 600),
   summaries |-> PositiveInt(Key(top, "max_summary_calls_per_review"), 3)]

\* delivery.request_changes: a switch, or the name of a policy.
Policies == {"never", "critical_only", "high_or_above", "always"}
ParsePolicy(s) ==
  LET raw == OneOf(s, "request_changes", Policies \union {"on", "off"}, "critical_only")
  IN CASE raw = "on" -> "always" [] raw = "off" -> "never" [] OTHER -> raw

\* load_review_config; file is a function from section names, top-level scalars in "".
Section(file, name) == IF name \in DOMAIN file THEN file[name] ELSE NoSection
ParseConfig(file) ==
  LET top == Section(file, "")
  IN [threshold |-> Percentage(Key(top, "confidence_threshold"), 85),
      severity |-> OneOf(top, "severity_threshold", Severities, "low"),
      drafts |-> Truth(Key(top, "review_drafts"), FALSE),
      cap |-> PositiveInt(Key(top, "max_findings_per_pr"), 50),
      packaging |-> ParsePackaging(top),
      policy |-> ParsePolicy(Section(file, "delivery")),
      model |-> ParseModel(Section(file, "model")),
      maxMode |-> ParseMaxMode(Section(file, "max_mode")),
      chunking |-> ParseChunking(Section(file, "chunking")),
      fastPath |-> ParseFastPath(Section(file, "fast_path")),
      adaptive |-> ParseAdaptive(Section(file, "adaptive_threshold")),
      models |-> ParseModels(Section(file, "models"))]

\* ReviewConfig(): no file, a file that is not YAML, or one that is no mapping.
DefaultConfig == ParseConfig(<<>>)
====
