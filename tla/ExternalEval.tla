----------------------------- MODULE ExternalEval -----------------------------
(***************************************************************************)
(* One external evaluation of a repository: the dashboard creates it and   *)
(* may cancel it, and three kinds of ARQ jobs carry it out.  The prepass   *)
(* job plans and inserts the shards and enqueues a job for each; a shard   *)
(* job analyzes its shard, and the one that finds none left enqueues the   *)
(* synthesize job, which sets the final status.                            *)
(*                                                                         *)
(* The files, shards and findings are those of RepoScan.  A transaction    *)
(* that reads and writes without an await on anything but the database is  *)
(* one action; the ORM writes a status only if it differs from the one     *)
(* read, which matters for the one transaction that is held open.          *)
(***************************************************************************)
EXTENDS RepoScan

CONSTANTS
    MaxShards,  \* bound: shards of a plan
    Jobs,       \* slots for ARQ jobs queued or running at the same time
    MaxTries,   \* max_tries of the worker
    Caps,       \* the token budgets a user may set
    MaxEvents,  \* bound on cancellations, pushes, crashes, failures and reads that fail
    PushEvents, \* bound: a push counts as so many events
    Faults      \* what may happen here, a subset of FaultKinds

FaultKinds == {"cancel",   \* a user cancels the evaluation
               "push",     \* the branch moves on
               "unread",   \* GitHub answers the read of a file with an error
               "die",      \* a job raises or times out; ARQ does not retry it
               "crash",    \* a worker stops; ARQ runs its jobs again
               "enqueue"}  \* create's enqueue_job raises

ASSUME ConstantsAssumption ==
    /\ \A repo \in Repos : \A excluded \in SUBSET Paths(repo) :
         DOMAIN JobShards(Listed(repo), excluded) \subseteq 1 .. MaxShards
    /\ MaxTries \in Nat \ {0}
    /\ Caps \subseteq Nat
    /\ {MaxEvents, PushEvents} \subseteq Nat
    /\ Faults \subseteq FaultKinds

VARIABLES
    eval,       \* Postgres: status of the ExternalEvaluation row
    cap,        \* Postgres: its token_budget_cap
    tree,       \* GitHub: the tree of the target branch
    plan,       \* try of the prepass -> the shards it inserted
    shard,      \* Postgres: status of each ExternalEvaluationShard row
    persisted,  \* Postgres: how often a shard's findings were inserted
    found,      \* Postgres: the findings inserted for a shard
    job,        \* Redis and worker: the ARQ jobs
    api,        \* the dashboard's handlers
    budget,     \* events left
    mishaps     \* what befell the evaluation (history)

scan == <<cap, tree, plan>>
stored == <<persisted, found>>
vars == <<eval, scan, shard, stored, job, api, budget, mishaps>>

-----------------------------------------------------------------------------
Terminal == {"complete", "partial", "failed", "canceled"}
EvalStatuses == Terminal \cup {"none", "queued", "scanning", "analyzing", "synthesizing"}

\* The table has no unique key: every attempt of the prepass inserts its rows.
Rows == (1 .. MaxShards) \X (1 .. MaxTries)
ShardStatuses == {"none", "queued", "running", "done", "skipped"}
Pending == {"queued", "running"}
Inserted == {r \in Rows : shard[r] # "none"}
FilesOf(r) == plan[r[2]][r[1]]

NoRow == <<>>
NoJob == [stage |-> "absent", kind |-> "none", row |-> NoRow, tries |-> 0,
          todo |-> {}, read |-> "none", heads |-> {}]
QueuedJob(kind, row, tries) ==
    [NoJob EXCEPT !.stage = "queued", !.kind = kind, !.row = row, !.tries = tries]
JobRecord ==
    [stage : {"queued", "scan", "enqueue", "check", "analyze", "count", "merge", "end"},
     kind : {"prepass", "shard", "synthesize"}, row : Rows \cup {NoRow},
     tries : 0 .. MaxTries,
     todo : SUBSET (1 .. MaxShards),  \* prepass: the shards still to enqueue
     read : ShardStatuses,            \* shard: its status as its transaction read it
     heads : SUBSET Repos]            \* the trees the branch has had since it began to read

Init ==
    /\ eval = "none" /\ cap = 0
    /\ tree \in Repos
    /\ plan = [t \in 1 .. MaxTries |-> <<>>]
    /\ shard = [r \in Rows |-> "none"]
    /\ persisted = [r \in Rows |-> 0]
    /\ found = [r \in Rows |-> {}]
    /\ job = [j \in Jobs |-> NoJob]
    /\ api = "idle"
    /\ budget = MaxEvents
    /\ mishaps = {}

Spend == budget > 0 /\ budget' = budget - 1
Suffers(mishap) == mishaps' = mishaps \cup {mishap}

Running(j) == job[j].stage \notin {"absent", "queued"}
At(j, kind, stage) == job[j].kind = kind /\ job[j].stage = stage
Goto(j, stage) == [job EXCEPT ![j].stage = stage]
Begin(j, stage, heads) ==
    [job EXCEPT ![j].stage = stage, ![j].tries = @ + 1, ![j].heads = heads]
Ended(j) == [job EXCEPT ![j] = NoJob]

\* enqueue_job without a job id: nothing keeps two jobs of the same work apart.  The
\* slots are alike, so any free one will do.
Enqueued(jobs, kind, row) ==
    LET free == {k \in Jobs : jobs[k] = NoJob}
    IN IF free = {} THEN {}
       ELSE {[jobs EXCEPT ![CHOOSE k \in free : TRUE] = QueuedJob(kind, row, 0)]}

-----------------------------------------------------------------------------
(* The dashboard: create_external_eval, cancel_external_eval *)

\* The budget must cover the estimate of the tree as it is now.
Create ==
    /\ eval = "none"
    /\ \E c \in Caps : c >= EstimateTokens(Len(Listed(tree))) /\ cap' = c
    /\ eval' = "queued"
    /\ api' = "enqueue"
    /\ UNCHANGED <<tree, plan, shard, stored, job, budget, mishaps>>

\* The evaluation names a branch, not a commit, and each job reads it as it is then.
Reading == {"scan", "analyze"}
Push ==
    /\ "push" \in Faults
    /\ budget >= PushEvents /\ budget' = budget - PushEvents
    /\ eval # "none"
    /\ tree' \in Repos \ {tree}
    /\ job' = [j \in Jobs |-> IF job[j].stage \in Reading
                              THEN [job[j] EXCEPT !.heads = @ \cup {tree'}] ELSE job[j]]
    /\ mishaps' = IF eval = "queued" THEN mishaps ELSE mishaps \cup {"moved"}
    /\ UNCHANGED <<eval, cap, plan, shard, stored, api>>

\* Reads fail of some of the files.
MayFail(files) ==
    {failed \in SUBSET files :
       failed # {} => "unread" \in Faults /\ Cardinality(failed) \in 1 .. budget}
ReadsFail(failed) == budget' = budget - Cardinality(failed)
Unread(failed) == IF failed = {} THEN {} ELSE {"unread"}

\* A create whose enqueue_job raises leaves a queued evaluation without a job.
CreateEnqueue ==
    /\ api = "enqueue"
    /\ \/ job' \in Enqueued(job, "prepass", NoRow) /\ UNCHANGED mishaps
       \/ "enqueue" \in Faults /\ Suffers("lost") /\ UNCHANGED job
    /\ api' = "idle"
    /\ UNCHANGED <<eval, scan, shard, stored, budget>>

CancelRead ==
    /\ "cancel" \in Faults
    /\ Spend
    /\ api = "idle"
    /\ eval \notin Terminal \cup {"none"}
    /\ api' = "cancel"
    /\ UNCHANGED <<eval, scan, shard, stored, job, mishaps>>

\* The status is written whatever it became since it was read.
CancelCommit ==
    /\ api = "cancel"
    /\ eval' = "canceled"
    /\ api' = "idle"
    /\ UNCHANGED <<scan, shard, stored, job, budget, mishaps>>

-----------------------------------------------------------------------------
(* run_external_eval_prepass *)

\* No job looks whether the evaluation was canceled.
PrepassStart(j) ==
    /\ At(j, "prepass", "queued")
    /\ job' = Begin(j, "scan", {tree})
    /\ eval' = "scanning"
    /\ UNCHANGED <<scan, shard, stored, api, budget, mishaps>>

\* Resolving the repository raises RepoAccessError.
PrepassFails(j) ==
    /\ At(j, "prepass", "scan")
    /\ eval' = "failed"
    /\ job' = Goto(j, "end")
    /\ UNCHANGED <<scan, shard, stored, api, budget, mishaps>>

\* The evaluation moves on and all shards are inserted in one transaction; with
\* no eligible file there are none.
PrepassPersist(j) ==
    /\ At(j, "prepass", "scan")
    /\ \E listed \in {Listed(repo) : repo \in job[j].heads} :
         \E failed \in MayFail(Sampled(listed)) :
           \E samples \in Fetches(Sampled(listed), job[j].heads, failed) :
             LET t == job[j].tries
                 shards == JobShards(listed, Excluded(samples))
             IN /\ plan' = [plan EXCEPT ![t] = shards]
                /\ shard' = [r \in Rows |-> IF r[2] = t /\ r[1] \in DOMAIN shards
                                           THEN "queued" ELSE shard[r]]
                /\ job' = [job EXCEPT ![j].stage = "enqueue", ![j].todo = DOMAIN shards,
                                      ![j].heads = {}]
                /\ ReadsFail(failed)
                /\ mishaps' = mishaps \cup Unread(failed)
                                \cup (IF shards = <<>> THEN {"empty"} ELSE {})
    /\ eval' = "analyzing"
    /\ UNCHANGED <<cap, tree, stored, api>>

\* A shard's row is looked up by its key; of several rows it may be any.
PrepassEnqueue(j) ==
    /\ At(j, "prepass", "enqueue")
    /\ \E k \in job[j].todo, r \in Inserted :
         /\ r[1] = k
         /\ job' \in Enqueued([job EXCEPT ![j].todo = @ \ {k}], "shard", r)
    /\ UNCHANGED <<eval, scan, shard, stored, api, budget, mishaps>>

PrepassReturn(j) ==
    /\ At(j, "prepass", "enqueue")
    /\ job[j].todo = {}
    /\ job' = Goto(j, "end")
    /\ UNCHANGED <<eval, scan, shard, stored, api, budget, mishaps>>

-----------------------------------------------------------------------------
(* run_external_eval_shard *)

ShardStart(j) ==
    /\ At(j, "shard", "queued")
    /\ job' = Begin(j, "check", {})
    /\ shard' = [shard EXCEPT ![job[j].row] = "running"]
    /\ UNCHANGED <<eval, scan, stored, api, budget, mishaps>>

\* The cap is compared with what finished shards used.
Used == MapThenSumSet(LAMBDA r : ShardTokens(Len(FilesOf(r))), {r \in Rows : shard[r] = "done"})
Fits(j) == Used + ShardTokens(Len(FilesOf(job[j].row))) <= cap

\* A shard that does not fit is skipped and returns: it does not look whether it was
\* the last, and if it was, no job will.
ShardSkip(j) ==
    /\ At(j, "shard", "check")
    /\ ~Fits(j)
    /\ shard' = [shard EXCEPT ![job[j].row] = "skipped"]
    /\ job' = Goto(j, "end")
    /\ mishaps' = IF \/ \E r \in Rows \ {job[j].row} : shard[r] \in Pending
                     \/ \E k \in Jobs : At(k, "shard", "count")
                  THEN mishaps ELSE mishaps \cup {"skipped_last"}
    /\ UNCHANGED <<eval, scan, stored, api, budget>>

ShardCheck(j) ==
    /\ At(j, "shard", "check")
    /\ Fits(j)
    /\ job' = [job EXCEPT ![j].stage = "analyze", ![j].read = shard[job[j].row],
                          ![j].heads = {tree}]
    /\ UNCHANGED <<eval, scan, shard, stored, api, budget, mishaps>>

\* After the analysis the shard is done and its findings are inserted.
ShardCommit(j) ==
    /\ At(j, "shard", "analyze")
    /\ LET r == job[j].row
           files == ToSet(Analyzed(FilesOf(r)))
       IN \E failed \in MayFail(files) :
            \E texts \in Fetches(files, job[j].heads, failed) :
              /\ found' = [found EXCEPT ![r] = @ \cup Synthesize(AnalyzeTexts(texts))]
              /\ persisted' = [persisted EXCEPT ![r] = @ + 1]
              /\ ReadsFail(failed)
              /\ mishaps' = mishaps \cup Unread(failed)
    /\ shard' = IF job[j].read = "done" THEN shard
                ELSE [shard EXCEPT ![job[j].row] = "done"]
    /\ job' = [job EXCEPT ![j].stage = "count", ![j].read = "none", ![j].heads = {}]
    /\ UNCHANGED <<eval, scan, api>>

\* Mutant: only queued shards count as pending.
ShardCountQueued(j) ==
    /\ At(j, "shard", "count")
    /\ IF \E r \in Rows : shard[r] = "queued" THEN job' = Goto(j, "end")
       ELSE job' \in Enqueued(Goto(j, "end"), "synthesize", NoRow)
    /\ UNCHANGED <<eval, scan, shard, stored, api, budget, mishaps>>

\* Mutant: the count does not see the job's own shard as done.
ShardCountUnflushed(j) ==
    /\ At(j, "shard", "count")
    /\ IF \E r \in Rows : shard[r] \in Pending \/ r = job[j].row
       THEN job' = Goto(j, "end")
       ELSE job' \in Enqueued(Goto(j, "end"), "synthesize", NoRow)
    /\ UNCHANGED <<eval, scan, shard, stored, api, budget, mishaps>>

\* The job that sees no shard pending enqueues the synthesis; two jobs that
\* finish together both do.
ShardCount(j) ==
    /\ At(j, "shard", "count")
    /\ IF \E r \in Rows : shard[r] \in Pending THEN job' = Goto(j, "end")
       ELSE job' \in Enqueued(Goto(j, "end"), "synthesize", NoRow)
    /\ UNCHANGED <<eval, scan, shard, stored, api, budget, mishaps>>

-----------------------------------------------------------------------------
(* run_external_eval_synthesize *)

SynthesizeStart(j) ==
    /\ At(j, "synthesize", "queued")
    /\ job' = Begin(j, "merge", {})
    /\ eval' = "synthesizing"
    /\ UNCHANGED <<scan, shard, stored, api, budget, mishaps>>

SynthesizeCommit(j) ==
    /\ At(j, "synthesize", "merge")
    /\ eval' = IF \E r \in Rows : shard[r] = "skipped" THEN "partial" ELSE "complete"
    /\ job' = Goto(j, "end")
    /\ UNCHANGED <<scan, shard, stored, api, budget, mishaps>>

-----------------------------------------------------------------------------
(* The worker *)

JobEnd(j) ==
    /\ job[j].stage = "end"
    /\ job' = Ended(j)
    /\ UNCHANGED <<eval, scan, shard, stored, api, budget, mishaps>>

\* An exception or the job timeout: no handler writes anything.
JobDies(j) ==
    /\ "die" \in Faults
    /\ Spend
    /\ Running(j)
    /\ job' = Ended(j)
    /\ Suffers("lost")
    /\ UNCHANGED <<eval, scan, shard, stored, api>>

Requeued(j) == [job EXCEPT ![j] = QueuedJob(job[j].kind, job[j].row, job[j].tries)]

WorkerCrash(j) ==
    /\ "crash" \in Faults
    /\ Spend
    /\ Running(j)
    /\ IF job[j].tries < MaxTries THEN job' = Requeued(j) /\ Suffers("rerun")
       ELSE job' = Ended(j) /\ Suffers("lost")
    /\ UNCHANGED <<eval, scan, shard, stored, api>>

JobStep(j) ==
    \/ PrepassStart(j) \/ PrepassFails(j) \/ PrepassPersist(j)
    \/ PrepassEnqueue(j) \/ PrepassReturn(j)
    \/ ShardStart(j) \/ ShardSkip(j) \/ ShardCheck(j) \/ ShardCommit(j) \/ ShardCount(j)
    \/ SynthesizeStart(j) \/ SynthesizeCommit(j) \/ JobEnd(j)

Next ==
    \/ Create \/ Push \/ CreateEnqueue \/ CancelRead \/ CancelCommit
    \/ \E j \in Jobs : JobStep(j) \/ JobDies(j) \/ WorkerCrash(j)

Spec == Init /\ [][Next]_vars

\* Jobs run to their end and the dashboard's handlers finish.
Fairness == /\ WF_vars(CreateEnqueue) /\ WF_vars(CancelCommit)
            /\ \A j \in Jobs : WF_vars(JobStep(j))

FairSpec == Spec /\ Fairness

-----------------------------------------------------------------------------
Mishaps == {"lost", "rerun", "empty", "skipped_last", "moved", "unread"}
Findable == UNION {AnalyzeFile(f) : f \in UNION {ToSet(repo) : repo \in Repos}}
Plans == UNION {{JobShards(Listed(repo), excluded) : excluded \in SUBSET Paths(repo)} : repo \in Repos}

TypeOK ==
    /\ eval \in EvalStatuses
    /\ cap \in Caps \cup {0} /\ tree \in Repos
    /\ plan \in [1 .. MaxTries -> {<<>>} \cup Plans]
    /\ shard \in [Rows -> ShardStatuses]
    /\ \A r \in Inserted : r[1] \in DOMAIN plan[r[2]]
    /\ persisted \in [Rows -> Nat] /\ found \in [Rows -> SUBSET Findable]
    /\ job \in [Jobs -> JobRecord \cup {NoJob}]
    /\ api \in {"idle", "enqueue", "cancel"}
    /\ budget \in Nat
    /\ mishaps \subseteq Mishaps

\* While no job is run twice, the synthesis runs after the last shard: a complete
\* evaluation has every shard done, a partial one also skipped ones, and no shard is
\* still to add findings.
SynthesisSeesEveryShard ==
    "rerun" \notin mishaps =>
      /\ eval \in {"complete", "partial"} => \A r \in Inserted : shard[r] \notin Pending
      /\ eval = "complete" => \A r \in Inserted : shard[r] = "done"
      /\ eval = "partial" => \E r \in Inserted : shard[r] = "skipped"

\* The jobs and ReviewEngine.review split the same work differently.  A complete evaluation
\* holds, once each, the findings that the engine reports on the tree, but for the files
\* the prepass flagged, which the jobs report in its metadata only.  Excepted are an
\* evaluation one of whose jobs was run twice; one whose branch moved after its prepass
\* began, as each shard reads the branch when it is analyzed, and what is stored may be
\* of several trees; one that a read failed, which nothing records; and a shard with more
\* files than are analyzed, as only the engine splits shards to that size.
ScannedLikeTheEngine ==
    (eval = "complete" /\ mishaps \cap {"rerun", "moved", "unread"} = {}
       /\ \A r \in Inserted : Len(FilesOf(r)) <= MaxAnalyzed) =>
    LET report == Report(tree)
    IN /\ \A r \in Inserted : persisted[r] = 1
       /\ report.status = "complete" =>
            UNION {found[r] : r \in Inserted} = {f \in report.findings : f.rule # "injection"}

\* The prepass was interrupted after it inserted its shards, and inserted them
\* again: the rows of the first time may stay queued for ever.
ShardsInsertedTwice == \E r, q \in Inserted : r[2] # q[2]

\* Every evaluation created comes to a terminal status and rests there, canceled or not and
\* through restarts of workers, unless a job was lost, there was no shard, the last shard
\* to finish was skipped, or the prepass inserted its shards twice.
EvaluationFinalizes ==
    <>[](\/ eval \in Terminal \cup {"none"} \/ ShardsInsertedTwice
         \/ mishaps \cap {"lost", "empty", "skipped_last"} # {})
=============================================================================
