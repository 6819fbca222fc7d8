---- MODULE MCContextBundle ----
(***************************************************************************)
(* Every pull request of two of nine files, in either order, and some of   *)
(* three: a source of two hunks, the last without a newline, a test,       *)
(* generated files, a lockfile, a vendored one, one that only deletes, a   *)
(* document, and a source that moved on since the diff was read.  The      *)
(* settings make each budget bind, with and without summaries and partial  *)
(* reviews.                                                                *)
(***************************************************************************)
EXTENDS ContextBundle

File(path, traits, weight, hunks, sizes) ==
  [path |-> path, traits |-> traits, weight |-> weight, hunks |-> hunks, sizes |-> sizes]
Hunk(new, old, kinds) == [new |-> new, old |-> old, kinds |-> kinds]

Source == File("auth", {}, 270, <<Hunk(2, 2, <<"ctx", "add", "add">>),
                                  Hunk(9, 7, <<"del", "marker", "add">>)>>, {12})
Test == File("test", {"test"}, 110, <<Hunk(1, 1, <<"add", "ctx">>)>>, {6})
Generated == File("generated", {"generated"}, 150, <<Hunk(1, 0, <<"add", "add", "add">>)>>, {3})
Marked == File("marked", {"marked"}, 150, <<Hunk(1, 0, <<"add", "add">>)>>, {2})
Lock == File("lock", {"lockfile"}, 45, <<Hunk(3, 3, <<"add", "del">>)>>, {9})
Vendored == File("vendor", {"vendored"}, 150, <<Hunk(1, 0, <<"add">>)>>, {1})
Deleting == File("old", {}, 150, <<Hunk(4, 4, <<"ctx", "del">>)>>, {8})
Docs == File("docs", {"docs"}, 0, <<Hunk(5, 5, <<"add", "ctx">>)>>, {9})
Moved == File("moved", {}, 150, <<Hunk(3, 3, <<"add">>), Hunk(8, 7, <<"del", "del">>)>>, {4, 9})

AllFiles == {Source, Test, Generated, Marked, Lock, Vendored, Deleting, Docs, Moved}
MCPullRequests ==
  ({<<f, g>> : f, g \in AllFiles} \ {<<f, f>> : f \in AllFiles}) \union
  {<<Test, Source, Deleting>>, <<Generated, Lock, Marked>>, <<Vendored, Moved, Lock>>,
   <<Docs, Moved, Source>>}

Wide == [hunks |-> 20, surroundings |-> 30, repo |-> 4, repoTexts |-> <<3, 2, 1>>, cap |-> 60,
         partial |-> TRUE, threshold |-> 2, summaries |-> FALSE, maxSummaries |-> 1]
MCSettings ==
  {Wide,
   [Wide EXCEPT !.hunks = 7, !.surroundings = 5, !.partial = FALSE],
   [Wide EXCEPT !.hunks = 9, !.surroundings = 11, !.threshold = 9, !.summaries = TRUE],
   [Wide EXCEPT !.hunks = 5, !.surroundings = 2, !.summaries = TRUE, !.maxSummaries = 2]}
====
