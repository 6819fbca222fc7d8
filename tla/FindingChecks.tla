---- MODULE FindingChecks ----
(***************************************************************************)
(* The pure checks a model's findings go through before anything is posted *)
(* (agent/repair.py, anchors.py, validator.py, policy.py, dedupe.py,       *)
(* pipeline/validation_stage.py, the debate helpers of runner.py).         *)
(*                                                                         *)
(* A finding is a record                                                   *)
(*   [path, start, end, text, msg, sev, cat, conf, ev, claim, sugg, side]  *)
(* A line of text is <<word, ws>>: two lines with one word and another ws  *)
(* differ only in what normalize_for_match removes.  claim is what the     *)
(* evidence cites: a tool call, a fact id, or "-".  sugg abstracts the     *)
(* suggestion to what the validator says of it.  A file is a sequence of   *)
(* lines, a diff a sequence of [path, new, old] with 0 for no line number. *)
(***************************************************************************)
EXTENDS Lists, SequencesExt, FiniteSetsExt

SeverityRank == [low |-> 0, medium |-> 1, high |-> 2, critical |-> 3]
Rank(f) == SeverityRank[f.sev]
SameLine(t, u) == t[1] = u[1]

LinesOf(f) == f.start .. f.end

\* Stable descending sort by (severity, confidence): Python's sorted(reverse=True)
\* keeps the order of equal keys.
Ahead(f, g) == Rank(f) > Rank(g) \/ (Rank(f) = Rank(g) /\ f.conf > g.conf)
RankedAt(fs, i) ==
  1 + Cardinality({j \in DOMAIN fs : Ahead(fs[j], fs[i]) \/ (j < i /\ ~Ahead(fs[i], fs[j]))})
Ranked(fs) == [k \in DOMAIN fs |-> fs[CHOOSE i \in DOMAIN fs : RankedAt(fs, i) = k]]

\* The first element for which key is largest: max(pool, key = confidence).
MostConfident(fs) ==
  fs[CHOOSE i \in DOMAIN fs : \A j \in DOMAIN fs :
       fs[i].conf > fs[j].conf \/ (fs[i].conf = fs[j].conf /\ i <= j)]

\* ---- diff_parser.py, anchors.py -----------------------------------------------

\* Lines GitHub lets a comment on the head side anchor to.
RightSideLines(diff) == {<<l.path, l.new>> : l \in {m \in Range(diff) : m.new # 0}}

AnchorKey(l) == <<l.path, IF l.new # 0 THEN l.new ELSE l.old>>

\* build_diff_anchor_index: a later diff line with the same key replaces an earlier one.
AnchorOf(diff, path, line) ==
  LET at == {i \in DOMAIN diff : AnchorKey(diff[i]) = <<path, line>>}
  IN IF at = {} THEN {} ELSE {diff[Max(at)]}

AttachAnchor(f, diff) ==
  LET a == AnchorOf(diff, f.path, f.start)
  IN [f EXCEPT !.side = IF a = {} THEN @
                        ELSE IF \E l \in a : l.new # 0 THEN "RIGHT" ELSE "LEFT"]

AttachAnchors(fs, diff) == [i \in DOMAIN fs |-> AttachAnchor(fs[i], diff)]

WithValidAnchor(fs, diff) ==
  Picked(fs, {i \in DOMAIN fs : AnchorOf(diff, fs[i].path, fs[i].end) # {}})

\* ---- repair.py -------------------------------------------------------------

\* repair_finding: re-locate a finding whose quoted line drifted by at most window
\* lines; the quoted text becomes the file's own when only its whitespace differed.
RepairFinding(f, files, commentable, window) ==
  IF f.path \notin DOMAIN files \/ f.start \notin DOMAIN files[f.path] THEN f
  ELSE
    LET text == files[f.path]
        n == Len(text)
        span == IF f.end > f.start THEN f.end - f.start ELSE 0
        near == {l \in DOMAIN text : /\ l >= f.start - window
                                     /\ l <= f.end + window
                                     /\ SameLine(text[l], f.text)}
        at == Min(near)
        last == IF at + span > n THEN n ELSE at + span
    IN IF SameLine(text[f.start], f.text) THEN [f EXCEPT !.text = text[f.start]]
       ELSE IF near = {} \/ ~(\A l \in at .. last : <<f.path, l>> \in commentable) THEN f
       ELSE [f EXCEPT !.start = at, !.end = last, !.text = text[at]]

RepairAll(fs, files, commentable, window) ==
  [i \in DOMAIN fs |-> RepairFinding(fs[i], files, commentable, window)]

\* ---- validator.py --------------------------------------------------------------

\* FindingValidator.validate: the reason a finding is dropped, or "valid".
DropReason(f, files, commentable) ==
  CASE f.path \notin DOMAIN files -> "file_not_in_context"
    [] f.path \in DOMAIN files
         /\ (f.start \notin DOMAIN files[f.path] \/ f.end < f.start \/ f.end > Len(files[f.path]))
         -> "line_out_of_range"
    [] OTHER ->
       IF \A l \in LinesOf(f) : files[f.path][l] # f.text THEN "target_line_mismatch"
       ELSE IF \E l \in LinesOf(f) : <<f.path, l>> \notin commentable THEN "line_not_in_diff"
       ELSE IF f.sugg = "incoherent" THEN "incoherent_suggestion"
       ELSE IF f.sugg = "broken" THEN "syntax_invalid_suggestion"
       ELSE "valid"

Validated(fs, files, commentable) ==
  Picked(fs, {i \in DOMAIN fs : DropReason(fs[i], files, commentable) = "valid"})
Rejected(fs, files, commentable) ==
  Picked(fs, {i \in DOMAIN fs : DropReason(fs[i], files, commentable) # "valid"})

\* ---- policy.py -------------------------------------------------------------------

InferenceCap == 75
InferenceFloor == 50

EffectiveThreshold(f, threshold) ==
  IF f.ev = "inference" /\ f.sev \in {"low", "medium"} /\ f.conf <= InferenceCap
       /\ InferenceFloor < threshold
  THEN InferenceFloor ELSE threshold

\* cross_check_tool_evidence and cross_check_fact_ids: cited evidence must exist.
EvidenceExists(f, tools, facts) ==
  /\ f.ev = "tool_verified" => f.claim \in tools
  /\ f.ev = "verified_fact" => f.claim \in facts

\* auto_tag_vendor_claims: a message about a vendor is re-validated under the vendor
\* rules of schema.py.  vendor messages are the ones of VendorMessages.
VendorRulesHold(f) ==
  /\ f.sev = "critical" => f.ev = "tool_verified"
  /\ f.sev = "high" => f.ev \in {"tool_verified", "verified_fact"}
  /\ f.ev # "tool_verified" => f.conf <= 85

MeetsPolicy(f, threshold, tools, facts, vendorMessages) ==
  /\ f.conf >= EffectiveThreshold(f, threshold)
  /\ f.msg \in vendorMessages => VendorRulesHold(f)
  /\ EvidenceExists(f, tools, facts)

ApplyPolicy(fs, threshold, tools, facts, vendorMessages) ==
  Picked(fs, {i \in DOMAIN fs : MeetsPolicy(fs[i], threshold, tools, facts, vendorMessages)})

Fields == {"path", "start", "end", "text", "msg", "sev", "cat", "conf", "ev", "claim", "sugg",
           "side"}

\* The Finding model's own validators: what a parsed model answer can contain.
WellFormed(f) ==
  /\ DOMAIN f = Fields /\ f.path \in STRING /\ f.sev \in DOMAIN SeverityRank
  /\ f.start >= 1
  /\ f.conf \in 0 .. 100
  /\ f.sev = "critical" => f.ev = "tool_verified"
  /\ f.ev = "inference" => f.sev \in {"low", "medium"} /\ f.conf <= InferenceCap
  /\ f.ev \in {"tool_verified", "verified_fact"} => f.claim # "-"

\* ---- dedupe.py -------------------------------------------------------------------

DedupeKey(f) == <<f.path, f.end, f.side, f.msg, f.cat, f.text[1]>>
NearKey(f) == <<f.path, f.cat, f.msg>>
Apart(f, g) == IF f.end > g.end THEN f.end - g.end ELSE g.end - f.end

\* Put f into kept: the first entry it duplicates stays, unless it is one f beats.
Fold(kept, f, dup, beaten) ==
  IF dup = {} THEN Append(kept, f)
  ELSE IF Min(dup) \in beaten THEN [kept EXCEPT ![Min(dup)] = f]
  ELSE kept

PutExact(kept, f) ==
  Fold(kept, f, {i \in DOMAIN kept : DedupeKey(kept[i]) = DedupeKey(f)},
       {i \in DOMAIN kept : Rank(f) > Rank(kept[i]) \/ f.conf > kept[i].conf})
ExactDedupe(fs) ==
  LET kept[n \in 0 .. Len(fs)] == IF n = 0 THEN <<>> ELSE PutExact(kept[n - 1], fs[n])
  IN kept[Len(fs)]

PutNear(kept, f, window) ==
  Fold(kept, f,
       {i \in DOMAIN kept : NearKey(kept[i]) = NearKey(f) /\ Apart(kept[i], f) <= window},
       {i \in DOMAIN kept : Ahead(f, kept[i])})
NearDedupe(fs, window) ==
  LET kept[n \in 0 .. Len(fs)] == IF n = 0 THEN <<>> ELSE PutNear(kept[n - 1], fs[n], window)
  IN kept[Len(fs)]

Dedupe(fs) == Ranked(NearDedupe(ExactDedupe(fs), 2))

\* ---- apply_config_filters ------------------------------------------------------------

\* cfg: severity (name), cats ({} for all), ignored (paths), cap (findings per pull request).
Wanted(f, cfg) ==
  /\ Rank(f) >= SeverityRank[cfg.severity]
  /\ cfg.cats = {} \/ f.cat \in cfg.cats
  /\ f.path \notin cfg.ignored

ConfigFilters(fs, cfg) ==
  LET kept == Picked(fs, {i \in DOMAIN fs : Wanted(fs[i], cfg)})
  IN IF Len(kept) > cfg.cap THEN SubSeq(Ranked(kept), 1, cfg.cap) ELSE kept

\* ---- debate (runner.py) -------------------------------------------------------------

SameIssue(f, g) ==
  /\ f.path = g.path /\ f.cat = g.cat
  /\ f.start <= g.end /\ g.start <= f.end

\* _cluster_findings: votes are [by, f]; a vote joins the first cluster with its file
\* and category that has an overlapping member, or starts a new one.
Votes(fs, by) == [i \in DOMAIN fs |-> [by |-> by, f |-> fs[i]]]
Join(cs, v) ==
  LET joins == {i \in DOMAIN cs : \E m \in Range(cs[i]) : SameIssue(m.f, v.f)}
  IN IF joins = {} THEN Append(cs, <<v>>) ELSE [cs EXCEPT ![Min(joins)] = Append(@, v)]
Clusters(votes) ==
  LET cs[n \in 0 .. Len(votes)] == IF n = 0 THEN <<>> ELSE Join(cs[n - 1], votes[n])
  IN cs[Len(votes)]

Voters(cluster) == {v.by : v \in Range(cluster)}

\* round(100 * part / whole): a half is rounded to the even neighbour.
Percentage(part, whole) ==
  LET q == (100 * part) \div whole
      twice == 2 * ((100 * part) % whole)
  IN IF twice > whole \/ (twice = whole /\ q % 2 = 1) THEN q + 1 ELSE q

\* _calculate_conflict_score: the rounded percentage of issues only one side raised.
ConflictScore(primary, challenger) ==
  LET cs == Clusters(Votes(primary, "primary") \o Votes(challenger, "challenger"))
      lone == Cardinality({i \in DOMAIN cs : Cardinality(Voters(cs[i])) = 1})
  IN IF cs = <<>> THEN 0 ELSE Percentage(lone, Len(cs))

HasHighRisk(fs, severity) == \E i \in DOMAIN fs : Rank(fs[i]) >= SeverityRank[severity]

\* Mutant: any stage's high finding bypasses the vote.
ClusterWinnerAnyHigh(cluster, primaryValidated) ==
  LET fs == [i \in DOMAIN cluster |-> cluster[i].f]
  IN IF Cardinality(Voters(cluster)) >= 2 \/ (primaryValidated /\ HasHighRisk(fs, "high"))
     THEN <<MostConfident(fs)>> ELSE <<>>

\* One cluster's outcome: the most confident member if two stages agree, a validated
\* high primary alone otherwise, nothing else.
ClusterWinner(cluster, primaryValidated) ==
  LET mine == Picked(cluster, {i \in DOMAIN cluster : cluster[i].by = "primary"})
      fs(vs) == [i \in DOMAIN vs |-> vs[i].f]
  IN IF Cardinality(Voters(cluster)) >= 2 THEN <<MostConfident(fs(cluster))>>
     ELSE IF primaryValidated /\ HasHighRisk(fs(mine), "high") THEN <<MostConfident(fs(mine))>>
     ELSE <<>>

Winners(cs, primaryValidated) ==
  LET won[n \in 0 .. Len(cs)] ==
        IF n = 0 THEN <<>> ELSE won[n - 1] \o ClusterWinner(cs[n], primaryValidated)
  IN won[Len(cs)]

\* _merge_debate_results; tieBreak is a sequence of at most one result.
MergeDebate(primary, challenger, tieBreak, primaryValidated) ==
  Ranked(Winners(Clusters(Votes(primary, "primary") \o Votes(challenger, "challenger")
                            \o (IF tieBreak = <<>> THEN <<>> ELSE Votes(tieBreak[1], "tie_break"))),
                 primaryValidated))
====
