---- MODULE MCReviewAnalysis ----
(***************************************************************************)
(* One file of five lines in context, another one not; a diff that touches *)
(* lines 2 to 4 and deletes a line whose old number is 3.                  *)
(***************************************************************************)
EXTENDS ReviewAnalysis

MCFiles == [a |-> << <<"x", 0>>, <<"y", 0>>, <<"x", 1>>, <<"z", 0>>, <<"w", 0>> >>]
MCDiff == << [path |-> "a", new |-> 2, old |-> 2], [path |-> "a", new |-> 3, old |-> 0],
             [path |-> "a", new |-> 0, old |-> 3], [path |-> "a", new |-> 4, old |-> 4] >>
MCTools == {"grep"}
MCFacts == {"fact"}
MCVendorMessages == {"vendor"}

Base == [path |-> "a", start |-> 2, end |-> 2, text |-> <<"y", 0>>, msg |-> "m", sev |-> "high",
         cat |-> "bug", conf |-> 90, ev |-> "diff_visible", claim |-> "-", sugg |-> "none",
         side |-> "RIGHT"]
Drifted == [Base EXCEPT !.start = 1, !.end = 1, !.conf = 86]
Misquoted == [Base EXCEPT !.text = <<"q", 0>>]
Outside == [Base EXCEPT !.start = 5, !.end = 5, !.text = <<"w", 0>>]
Elsewhere == [Base EXCEPT !.path = "b"]
Unproved == [Base EXCEPT !.ev = "tool_verified", !.claim = "grep", !.sev = "critical"]
Hunch == [Base EXCEPT !.sev = "medium", !.ev = "inference", !.conf = 60, !.start = 4, !.end = 4,
          !.text = <<"z", 0>>, !.cat = "style"]
Doubtful == [Base EXCEPT !.conf = 60, !.start = 4, !.end = 4, !.text = <<"z", 0>>]
Vendor == [Base EXCEPT !.msg = "vendor", !.start = 3, !.end = 3, !.text = <<"x", 1>>]
Broken == [Base EXCEPT !.sugg = "broken"]
Louder == [Base EXCEPT !.conf = 95, !.text = <<"q", 0>>]
Overlap == [Base EXCEPT !.end = 3, !.conf = 70]

MCPrimaryPool == {Base, Drifted, Misquoted, Outside, Unproved, Hunch, Doubtful, Vendor}
MCRetryPool == {Base, Doubtful, Unproved, Elsewhere}
MCDebatePool == {Louder, Overlap, Hunch, Outside}
MCEditorPool == {Broken, [Hunch EXCEPT !.sev = "low"]}

Default == [engine |-> "runner", threshold |-> 85, maxMode |-> FALSE, decision |-> "full_review",
            conflict |-> 50, highRisk |-> "critical", severity |-> "low", cats |-> {},
            ignored |-> {}, cap |-> 2]
MCConfigs ==
  {Default,
   [Default EXCEPT !.threshold = 0, !.cap = 1],
   [Default EXCEPT !.maxMode = TRUE],
   [Default EXCEPT !.maxMode = TRUE, !.decision = "light_review", !.severity = "high"],
   [Default EXCEPT !.engine = "pipeline", !.severity = "medium"],
   [Default EXCEPT !.engine = "pipeline", !.threshold = 0, !.cap = 1, !.cats = {"bug"}]}
====
