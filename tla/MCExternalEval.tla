---------------------------- MODULE MCExternalEval ----------------------------
(***************************************************************************)
(* Three trees of a branch.  One has two files in two directories, whose   *)
(* shards together exceed the least cap allowed.  One has the first of     *)
(* them with another text, in a directory with more files than the engine  *)
(* puts in a shard (one of them ignored, one that cannot be read), an      *)
(* example, a flagged guide and a file beyond the listing's limit.  In the *)
(* third nothing is left to scan.                                          *)
(***************************************************************************)
EXTENDS ExternalEval

File(path, dir, traits, hits) == [path |-> path, dir |-> dir, traits |-> traits, hits |-> hits]
Code(path, dir) == File(path, dir, {"source"}, {"secret", "style"})
Auth == File(2, "auth", {"source", "risky"}, {"secret", "eval"})
Minified == File(3, "app", {"source", "ignored"}, {"eval"})
Guide == File(4, "docs", {"guide", "injection"}, {})
Filler == File(5, "docs", {"filler"}, {})
Lost == File(6, "app", {"source", "unreadable"}, {"secret"})
Sample == File(7, "tests", {"source", "example"}, {"secret", "eval"})

Patched == File(1, "app", {"source"}, {"style"})

MCRepos == {<<Patched, Auth>>,
            <<Code(1, "app"), Lost, Minified, Guide, Sample, Code(8, "lib")>>,
            <<Guide, Filler>>}

MCTiers == <<[files |-> 4, risky |-> 2, shards |-> 2, size |-> 2],
             [files |-> 2, risky |-> 1, shards |-> 2, size |-> 3],
             [files |-> 0, risky |-> 0, shards |-> 1, size |-> 1]>>

MCRules == {[id |-> "secret", severity |-> "critical", confident |-> TRUE, examples |-> FALSE],
            [id |-> "eval", severity |-> "high", confident |-> TRUE, examples |-> TRUE],
            [id |-> "style", severity |-> "low", confident |-> TRUE, examples |-> TRUE]}
=============================================================================
