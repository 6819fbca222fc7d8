---- MODULE MCReviewJob ----
(***************************************************************************)
(* Two providers, each with a balanced and an economy model, and a third   *)
(* whose model is retired.  The cases: no pin, a pin of the retired model  *)
(* with and without the automatic fallback, a model the catalog does not   *)
(* know, one key only, chunking and an oversized pull request.             *)
(***************************************************************************)
EXTENDS ReviewJob

Model(p, m) == [provider |-> p, model |-> m]
Record(p, m, tier, status, price) ==
  [provider |-> p, model |-> m, tier |-> tier, status |-> status, score |-> 50, price |-> price,
   caps |-> {"tools", "structured"}, window |-> 100, shut |-> FALSE, live |-> TRUE]
MCCatalog ==
  <<Record("anthropic", "sonnet", "balanced", "active", 3),
    Record("openai", "gpt", "balanced", "legacy", 2),
    [Record("openai", "mini", "economy", "active", 1) EXCEPT !.window = 0],
    Record("anthropic", "haiku", "economy", "active", 2),
    Record("gemini", "flash", "balanced", "retired", 1)>>

Policy(pin, fallback, fast) ==
  [order |-> <<"anthropic", "openai", "gemini">>, pin |-> pin, autoFallback |-> fallback,
   roles |-> <<>>, fastPath |-> fast, default |-> Model("anthropic", "sonnet"),
   debate |-> [challenger |-> Model("openai", "gpt"), tie_break |-> Model("anthropic", "sonnet")]]
PR(config, keys) ==
  [config |-> config, keys |-> keys, chunking |-> FALSE, huge |-> FALSE, draft |-> FALSE,
   tokens |-> 50]
Both == {"anthropic", "openai"}
MCCases ==
  {PR(Policy(NoModel, TRUE, TRUE), Both),
   [PR(Policy(NoModel, TRUE, FALSE), Both) EXCEPT !.tokens = 200, !.draft = TRUE],
   PR(Policy(Model("gemini", "flash"), TRUE, FALSE), {"openai"}),
   PR(Policy(Model("gemini", "flash"), FALSE, FALSE), Both),
   PR(Policy(Model("openai", "newest"), TRUE, FALSE), {"anthropic"}),
   [PR(Policy(NoModel, TRUE, FALSE), Both) EXCEPT !.chunking = TRUE, !.huge = TRUE],
   [PR(Policy(NoModel, TRUE, FALSE), Both) EXCEPT !.huge = TRUE]}

Call(tool, path) == [tool |-> tool, path |-> path, hit |-> FALSE]
MCToolCalls == {Call("fetch_file_content", TRUE), Call("unknown", TRUE)}
MCLlmErrors == {[code |-> 429, invalid |-> FALSE, quota |-> TRUE],
                [code |-> 529, invalid |-> FALSE, quota |-> TRUE],
                [code |-> 400, invalid |-> FALSE, quota |-> TRUE]}
====
