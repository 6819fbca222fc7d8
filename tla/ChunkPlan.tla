---- MODULE ChunkPlan ----
(***************************************************************************)
(* The chunk planner of agent/chunking.py.  A changed file is a record     *)
(*   [path, rank, traits, group, grank, tokens]                            *)
(* rank and grank order paths and integration groups as their names sort;  *)
(* traits are what the name tests of _classify_file see in the path.       *)
(***************************************************************************)
EXTENDS Integers, Sequences, FiniteSets, SequencesExt, FiniteSetsExt

\* The first name test that answers decides the class of a file.
ClassOrder == <<"deleted_only", "binary_unsupported", "lockfile", "generated", "docs_only",
                "test_only", "config_only">>
FileClass(f) ==
  LET hits == {i \in DOMAIN ClassOrder : ClassOrder[i] \in f.traits}
  IN IF hits = {} THEN "reviewable" ELSE ClassOrder[Min(hits)]

AllowedClasses == {"reviewable", "config_only", "test_only"}

\* include_file_classes of the configuration, or the default when none is allowed.
IncludedClasses(cfg) ==
  IF cfg.classes \intersect AllowedClasses = {} THEN AllowedClasses
  ELSE cfg.classes \intersect AllowedClasses

\* The k-th smallest of the numbers S.
Nth(S, k) == CHOOSE x \in S : Cardinality({y \in S : y <= x}) = k

InPathOrder(fs) ==
  LET ranks == {f.rank : f \in fs}
  IN [k \in 1 .. Cardinality(ranks) |-> CHOOSE f \in fs : f.rank = Nth(ranks, k)]
Tokens(fs) ==
  LET sum[n \in 0 .. Len(fs)] == IF n = 0 THEN 0 ELSE sum[n - 1] + fs[n].tokens
  IN sum[Len(fs)]

ReviewSurface(files, cfg) ==
  {f \in files : f.path \notin cfg.ignored /\ FileClass(f) \in IncludedClasses(cfg)}

\* _group_by_integration: one sequence of files per group, groups in key order.
Grouped(surface) ==
  LET ranks == {f.grank : f \in surface}
  IN [k \in 1 .. Cardinality(ranks) |->
        InPathOrder({f \in surface : f.grank = Nth(ranks, k)})]

\* Mutant: an active chunk of just enough files is not flushed.
PackLate(acc, group, cfg) ==
  IF /\ acc.active # <<>>
     /\ Tokens(acc.active) + Tokens(group) > cfg.target
     /\ Len(acc.active) > cfg.minFiles
  THEN [done |-> Append(acc.done, acc.active), active |-> group]
  ELSE [acc EXCEPT !.active = @ \o group]

\* A group that would overflow the target starts a new chunk once the active one holds
\* enough files.
Pack(acc, group, cfg) ==
  IF /\ acc.active # <<>>
     /\ Tokens(acc.active) + Tokens(group) > cfg.target
     /\ Len(acc.active) >= cfg.minFiles
  THEN [done |-> Append(acc.done, acc.active), active |-> group]
  ELSE [acc EXCEPT !.active = @ \o group]

\* plan_chunks before truncation: the groups are packed greedily.
AllChunks(surface, cfg) ==
  LET groups == Grouped(surface)
      packed[n \in 0 .. Len(groups)] ==
        IF n = 0 THEN [done |-> <<>>, active |-> <<>>] ELSE Pack(packed[n - 1], groups[n], cfg)
      end == packed[Len(groups)]
  IN IF end.active = <<>> THEN end.done ELSE Append(end.done, end.active)

\* At most max_chunks of them are reviewed; the rest makes the plan partial.
PlanChunks(files, cfg) ==
  LET all == AllChunks(ReviewSurface(files, cfg), cfg)
  IN [chunks |-> IF Len(all) > cfg.maxChunks THEN SubSeq(all, 1, cfg.maxChunks) ELSE all,
      partial |-> Len(all) > cfg.maxChunks]

PathsOf(chunk) == {chunk[i].path : i \in DOMAIN chunk}
====
