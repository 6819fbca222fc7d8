---- MODULE RepoScan ----
(***************************************************************************)
(* review/external: how a repository is scanned.  The files of a tree are  *)
(* listed and sampled, dealt into shards by directory, and analyzed by     *)
(* rules; ReviewEngine.review does all of it in one call (Report), the     *)
(* jobs of ExternalEval one shard at a time.                               *)
(*                                                                         *)
(* A file is a record [path, dir, traits, hits]: hits are the rules whose  *)
(* pattern its text matches, and traits what the tests of its name and     *)
(* text say of it: "ignored", "risky", "guide", "source", "example",       *)
(* "injection", "filler", "unreadable" and "tiny".  A file costs two       *)
(* tokens (60 each) to analyze and three to estimate.                      *)
(***************************************************************************)
EXTENDS Lists, SequencesExt, FiniteSetsExt

CONSTANTS
  Repos,      \* trees: sequences of files
  Tiers,      \* recommended_plan, the largest first: [files, risky, shards, size]
  Rules,      \* the registry: records [id, severity, confident, examples]
  MaxFiles, SampleLimit, MaxShardFiles, MaxAnalyzed, EngineCap, \* EngineConfig
  ShardFloor, EstimateFloor  \* least tokens of a shard, of an estimate

ASSUME ScanAssumption ==
  /\ {MaxFiles, MaxShardFiles, MaxAnalyzed} \subseteq Nat \ {0}
  /\ {SampleLimit, EngineCap, ShardFloor, EstimateFloor} \subseteq Nat
  /\ Tiers \in Seq({Tiers[i] : i \in DOMAIN Tiers}) /\ Tiers # <<>>
  /\ \A i \in DOMAIN Tiers : {Tiers[i].shards, Tiers[i].size} \subseteq Nat \ {0}
  /\ Repos \subseteq Seq(UNION {ToSet(repo) : repo \in Repos})
  /\ \A repo \in Repos : \A i, k \in DOMAIN repo : repo[i].path = repo[k].path => i = k
  /\ \A r \in Rules : /\ r.severity \in {"critical", "high", "medium", "low"}
                      /\ r.id # "injection" \* what a follow-up is called here

-----------------------------------------------------------------------------
(* Reading files *)

Is(f, trait) == trait \in f.traits
Paths(files) == {files[i].path : i \in DOMAIN files}

\* fetch_file: by path and branch, so from any tree the branch had meanwhile.  A path
\* that is not there reads as an empty text, and so does any answer of status 400 or more.
Blank(f) == [path |-> f.path, dir |-> f.dir, traits |-> f.traits \union {"unreadable"},
             hits |-> f.hits]
Texts(f, heads) ==
  {g \in UNION {ToSet(repo) : repo \in heads} : g.path = f.path}
    \union {Blank(f) : repo \in {h \in heads : f.path \notin Paths(h)}}
Fetches(files, heads, failed) ==
  LET texts(f) == IF f \in failed THEN {Blank(f)} ELSE Texts(f, heads)
      fetched == {g \in [files -> UNION {texts(f) : f \in files}] :
                    \A f \in files : g[f] \in texts(f)}
  IN {{g[f] : f \in files} : g \in fetched}

-----------------------------------------------------------------------------
(* Prepass *)

\* _extract_blobs: a long listing is cut.
Listed(repo) == SubSeq(repo, 1, Min({Len(repo), MaxFiles}))

\* partition_files
Inspectable(files) == SelectSeq(files, LAMBDA f : ~Is(f, "ignored"))
RiskyPaths(files) == {f \in ToSet(Inspectable(files)) : Is(f, "risky")}

\* prepass_target_priority
Priority(f) == IF Is(f, "risky") THEN 0 ELSE IF Is(f, "guide") THEN 1 ELSE 2

\* run_prepass: the files fetched as samples.
Sampled(files) ==
  LET all == {f \in ToSet(files) : ~Is(f, "ignored")}
      ahead(f) == {g \in all : \/ Priority(g) < Priority(f)
                               \/ Priority(g) = Priority(f) /\ g.path < f.path}
  IN {f \in all : Cardinality(ahead(f)) < SampleLimit}
Flagged(samples, trait) ==
  {f.path : f \in {g \in samples : ~Is(g, "unreadable") /\ Is(g, trait)}}
Excluded(samples) == Flagged(samples, "injection") \union Flagged(samples, "filler")

\* recommended_plan: the last tier takes what no other does.
Plan(files) ==
  LET fits(t) == Len(Inspectable(files)) >= t.files \/ Cardinality(RiskyPaths(files)) >= t.risky
      fitting == {i \in DOMAIN Tiers : fits(Tiers[i])} \union {Len(Tiers)}
  IN Tiers[Min(fitting)]

-----------------------------------------------------------------------------
(* build_shards *)

\* Directories in the order of the tree, the fuller ones first.
Groups(files) ==
  LET in(d) == {i \in DOMAIN files : files[i].dir = d}
      dirs == {files[i].dir : i \in DOMAIN files}
      order == Sorted(dirs, {p \in dirs \X dirs :
                 \/ Cardinality(in(p[1])) > Cardinality(in(p[2]))
                 \/ /\ Cardinality(in(p[1])) = Cardinality(in(p[2]))
                    /\ Min(in(p[1])) < Min(in(p[2]))})
  IN [n \in DOMAIN order |-> Picked(files, in(order[n]))]

\* Each directory goes whole to the bucket that holds least.
Put(buckets, group) ==
  LET least == CHOOSE b \in DOMAIN buckets :
        \A c \in DOMAIN buckets : \/ Len(buckets[b]) < Len(buckets[c])
                                  \/ Len(buckets[b]) = Len(buckets[c]) /\ b <= c
  IN [buckets EXCEPT ![least] = @ \o group]
Deal(groups, count) ==
  LET dealt[n \in 0 .. Len(groups)] ==
        IF n = 0 THEN [b \in 1 .. count |-> <<>>] ELSE Put(dealt[n - 1], groups[n])
  IN dealt[Len(groups)]

\* Mutant: the step is one too long.
ChunksSkipping(bucket, size) ==
  [i \in 1 .. ((Len(bucket) + size - 1) \div size) |->
     SubSeq(bucket, (i - 1) * (size + 1) + 1, Min({(i - 1) * (size + 1) + size, Len(bucket)}))]

Chunks(bucket, size) ==
  [i \in 1 .. ((Len(bucket) + size - 1) \div size) |->
     SubSeq(bucket, (i - 1) * size + 1, Min({i * size, Len(bucket)}))]

\* size = 0: the buckets are not split.
Split(bucket, size) ==
  IF bucket = <<>> THEN <<>>
  ELSE IF size = 0 \/ Len(bucket) <= size THEN <<bucket>>
  ELSE Chunks(bucket, size)
BuildShards(files, count, size, excluded) ==
  LET eligible == Picked(files, {i \in DOMAIN files : files[i].path \notin excluded})
      buckets == Deal(Groups(eligible), count)
      shards[n \in 0 .. Len(buckets)] ==
        IF n = 0 THEN <<>> ELSE shards[n - 1] \o Split(buckets[n], size)
  IN shards[Len(buckets)]

\* plan_shards of the engine splits buckets; the prepass job calls build_shards without
\* a size.
EngineShards(files) ==
  BuildShards(files, Plan(files).shards, Min({Plan(files).size, MaxShardFiles}),
              Excluded(Sampled(files)))
JobShards(files, excluded) == BuildShards(files, Plan(files).shards, 0, excluded)

-----------------------------------------------------------------------------
(* Analysis and synthesis *)

\* analyze_file: one finding for each rule that matches.
AnalyzeFile(f) ==
  IF ~Is(f, "source") \/ Is(f, "unreadable") THEN {}
  ELSE {[path |-> f.path, rule |-> r.id, severity |-> r.severity, confident |-> r.confident] :
          r \in {q \in Rules : q.id \in f.hits /\ (Is(f, "example") => q.examples)}}

\* _analyze_shard_with_samples: no more files than the limit.
Analyzed(shard) == SubSeq(shard, 1, Min({Len(shard), MaxAnalyzed}))
AnalyzeTexts(texts) == UNION {AnalyzeFile(f) : f \in texts}
AnalyzeShard(shard) == AnalyzeTexts(ToSet(Analyzed(shard)))

IsCritical(finding) == finding.severity \in {"critical", "high"} /\ finding.confident
\* The set stands for the list that dedupe leaves; its ranking is left out.
Synthesize(findings) == {finding \in findings : IsCritical(finding)}

ShardTokens(n) == Max({2 * n, ShardFloor})
EstimateTokens(n) == Max({3 * n, EstimateFloor})

-----------------------------------------------------------------------------
(* ReviewEngine.review *)

\* _prompt_injection_followup: a finding for each file the prepass kept out.
Followups(files) ==
  {[path |-> f.path, rule |-> "injection", severity |-> "critical", confident |-> TRUE] :
     f \in {g \in ToSet(files) : g.path \in Flagged(Sampled(files), "injection")}}

\* validate_findings_against_samples: the excerpt of a very short file is made up.
Reproducible(files, findings) ==
  {finding \in findings :
     \E f \in ToSet(files) : f.path = finding.path /\ ~Is(f, "unreadable")
                             /\ (finding.rule = "injection" => ~Is(f, "tiny"))}

\* A shard that exceeds the budget is left out, and the next ones are tried.
Scan(acc, shard) ==
  IF acc.used + ShardTokens(Len(shard)) > EngineCap THEN [acc EXCEPT !.truncated = TRUE]
  ELSE [acc EXCEPT !.used = @ + ShardTokens(Len(Analyzed(shard))),
                   !.raw = @ \union AnalyzeShard(shard)]
Report(repo) ==
  LET files == Listed(repo)
      shards == EngineShards(files)
      scanned[n \in 0 .. Len(shards)] ==
        IF n = 0 THEN [used |-> 0, raw |-> {}, truncated |-> FALSE]
        ELSE Scan(scanned[n - 1], shards[n])
      all == scanned[Len(shards)]
  IN [status |-> IF all.truncated THEN "partial" ELSE "complete",
      findings |-> Reproducible(files, Synthesize(all.raw) \union Followups(files))]
====
