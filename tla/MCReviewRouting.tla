---- MODULE MCReviewRouting ----
(***************************************************************************)
(* A job beside the tuner, the rollback and a review of another repository *)
(* of the installation.  The step is ten points and the minimum two steps  *)
(* below the start, so that a heuristic confidence of 78 falls on either   *)
(* side of a threshold that moved; the other repository's initial          *)
(* threshold is below the minimum, and one answer's confidence between     *)
(* the two.  A fetch that fails gives every pull request the defaults too: *)
(* then the large one is too large and the draft is not reviewed.          *)
(***************************************************************************)
EXTENDS ReviewRouting, TLC

Int100(n) == [t |-> "int", v |-> n * 100]
Raw(t, v) == [t |-> t, v |-> v]
None == Raw("none", 0)

Measured(s, d, i, x) == [samples |-> s, disagree |-> d, ignore |-> i, dismiss |-> x]
MCMetrics == {Measured(20, 2, 1, 1), Measured(5, 2, 0, 0), Measured(20, 2, 6, 2),
              Measured(20, 20, 0, 0)}
MCJudgeWindows ==
  {[available |-> TRUE, independent |-> TRUE, samples |-> 9, error |-> 5, reliability |-> 80],
   [available |-> TRUE, independent |-> TRUE, samples |-> 9, error |-> 50, reliability |-> 80]}

TextFile(risky, class) == [class |-> class, risky |-> risky]
PR(files, lines, file) ==
  [draft |-> FALSE, large |-> FALSE, tokens |-> 20000, lines |-> lines, files |-> files,
   file |-> file]
Code == {TextFile(FALSE, "reviewable")}
Auth == {TextFile(TRUE, "reviewable")}
Strange == ("" :> ("confidence_threshold" :> Raw("text", 101)
                   @@ "max_findings_per_pr" :> Int100(0)))
           @@ ("fast_path" :> ("skip_min_confidence" :> Int100(101)
                               @@ "force_economy_on_light_review" :> Raw("bool", 100)
                               @@ "allow_skip" :> Raw("text", 0)))
           @@ ("adaptive_threshold" :> ("initial_threshold" :> Int100(75)))
Fixed == ("" :> ("severity_threshold" :> "high"))
         @@ ("adaptive_threshold" :> ("enabled" :> Raw("bool", 0)))
         @@ ("fast_path" :> ("skip_min_confidence" :> Raw("float", 7050)
                             @@ "allow_skip" :> Raw("bool", 0)
                             @@ "zero_confidence_limit" :> Int100(1)))
         @@ ("chunking" :> ("proactive_threshold_tokens" :> Int100(1000)))
Off == ("" :> ("review_drafts" :> Raw("bool", 100)))
       @@ ("fast_path" :> ("enabled" :> Raw("bool", 0))) @@ ("model" :> ("name" :> "pinned"))
MCPullRequests ==
  {PR(Code, 20, Strange), [PR(Auth, 500, Fixed) EXCEPT !.large = TRUE],
   [PR(Code, 20, Off) EXCEPT !.draft = TRUE]}

Says(d, conf, alias, full) == [decision |-> d, conf |-> conf, alias |-> alias, fullContext |-> full]
MCAnswers ==
  {Says("skip_review", Int100(95), None, FALSE), Says("skip_review", None, Raw("text", 66), FALSE),
   Says("skip_review", None, None, FALSE), Says("light_review", Raw("float", 80), None, TRUE),
   Says("high_risk_review", Int100(0), None, FALSE), Says("malformed", None, None, FALSE)}
====
