---- MODULE MCChunkedReview ----
(***************************************************************************)
(* Up to four changed files: a and b of one integration group, c of        *)
(* another, and d a document; target and limits that give one, two and     *)
(* three chunks, a truncated plan and a budget that ends the loop.         *)
(***************************************************************************)
EXTENDS ChunkedReview

File(p, r, g, traits, n) ==
  [path |-> p, rank |-> r, traits |-> traits, group |-> g, grank |-> g, tokens |-> n]
MCDiffFiles == {File("a", 1, 2, {}, 2), File("b", 2, 2, {"config_only", "test_only"}, 1),
                File("c", 3, 1, {}, 2), File("d", 4, 3, {"docs_only", "test_only"}, 2)}
MCLines == [a |-> << <<"x", 0>>, <<"y", 0>> >>, b |-> << <<"x", 0>> >>,
            c |-> << <<"x", 0>>, <<"z", 1>> >>, d |-> << <<"w", 0>> >>]
New(p, n) == [path |-> p, new |-> n, old |-> 0]
MCDiff == <<New("a", 1), New("a", 2), New("b", 1), New("c", 1), New("c", 2), New("d", 1)>>
MCFacts == {"fact"}
MCVendorMessages == {"vendor"}

Base == [path |-> "a", start |-> 1, end |-> 1, text |-> <<"x", 0>>, msg |-> "m", sev |-> "high",
         cat |-> "bug", conf |-> 90, ev |-> "diff_visible", claim |-> "-", sugg |-> "none",
         side |-> "RIGHT"]
OnB == [Base EXCEPT !.path = "b", !.ev = "tool_verified", !.claim = "tool"]
OnC == [Base EXCEPT !.path = "c", !.start = 2, !.end = 2, !.text = <<"z", 0>>]
Lower == [Base EXCEPT !.sev = "low", !.conf = 95]
MCPool == {Base, OnB, OnC}
MCEditorPool == {Lower, [Base EXCEPT !.sugg = "broken"]}
MCPromptCosts == {1, 2}

Default == [target |-> 2, minFiles |-> 1, maxChunks |-> 3, classes |-> {}, ignored |-> {},
            maxTotal |-> 3, threshold |-> 85, maxMode |-> FALSE, conflict |-> 50,
            highRisk |-> "critical", severity |-> "low", cats |-> {}, cap |-> 3]
MCConfigs ==
  {Default,
   [Default EXCEPT !.maxChunks = 1, !.maxTotal = 9, !.maxMode = TRUE, !.threshold = 0],
   [Default EXCEPT !.target = 3, !.minFiles = 2, !.classes = {"reviewable"}, !.ignored = {"c"}]}
====
