# Nash AI: a verification project

Nash AI reviews GitHub pull requests: a FastAPI service takes webhooks and dashboard
requests, ARQ workers on Redis run the reviews, Postgres keeps their rows and GitHub receives
the comments. This directory holds TLA+ models of the system's core, the TLC runs that check
them on small instances, and TLAPS proofs of what holds for every instance. All paths below are
relative to `src/apps/api/src/app/` unless they start with `src/`.

## 1. The system

### Components, their state and their operations

| Component | State | Operations | Hard part | Modules |
|---|---|---|---|---|
| Webhook entry (`webhooks/router.py`) | Redis delivery markers | verify, claim, dispatch, mark done, release | redelivery while the first delivery runs | `WebhookDelivery` |
| Rate limits and token budget (`ratelimit.py`) | sliding windows, counters | check, consume, record | check then act | `AdmissionGates` |
| Review submission and recovery (`webhooks/handlers.py`, `queue/`, parts of `api/router.py`) | `reviews` rows, submission lock, ARQ jobs | submit, supersede, rerun, force requeue, mark failed, enqueue, recover | handlers, jobs, cron and TTL interleave on three stores | `ReviewLifecycle`, `ReviewLease` |
| Configuration, tuner, fast path (`agent/review_config.py`, `agent/config_cache.py`, `agent/threshold_tuner.py`, `agent/fast_path.py`) | the repository's file and its cache, the threshold row and its cache | load, tune, roll back, classify, route | values of any type, caches beside transactions | `ReviewConfigFile`, `ThresholdTuner`, `ReviewRouting` |
| Job, models, agent loop, circuit breaker (`agent/runner.py`, `agent/pipeline/`, `llm/`, `agent/loop.py`) | the job, the transcript, Redis keys per provider | route, call, fall back, finalize, charge, write | every call may fail, and each failure path ends differently | `ModelRouter`, `AgentLoop`, `ReviewJob` |
| Context (`agent/context_builder.py`) | the bundle, three budgets | pick, fetch, rank, pack, anchor | limits reached in the middle of a file | `ContextBundle` |
| Findings: repair, validation, policy, debate, dedupe, editor (`agent/`) | lists of findings | filter, merge, rewrite | rewriting after validation | `FindingChecks`, `ReviewAnalysis` |
| Chunked review (`agent/chunking.py`, `agent/chunked_runtime.py`) | chunk state in the row's artifacts | plan, review a chunk, persist, resume, synthesise | resuming, early stops | `ChunkPlan`, `ChunkedReview` |
| Delivery and outcomes (`delivery/`, `telemetry/finding_outcomes.py`) | threads on GitHub, outcome rows | list, post, resolve, seed, mark, classify | reruns, partly failed batches | `ReviewDelivery` |
| Observability (`observability/`) | event counter, Langfuse handles, audit rows | start, emit, persist, finish | concurrent tasks on one row | `AuditTrail` |
| External evaluation (`agent/external/orchestrator.py`, `api/external_evals.py`, `review/external/`) | evaluation, shard and finding rows; ARQ jobs | create, cancel, prepass, shard, synthesize | last-finisher detection, budget, duplicates | `RepoScan`, `ExternalEval` |
| Dashboard API, users, usage, labels, benchmarks (`api/`) | single rows | CRUD | | only rerun, force recovery and external evaluations |
| Snapshots, profiles, errors, MCP, web, admin | no state a later step decides by | | I/O | not modelled |

`PROJECT.json` lists the same parts with their source files and the reason each part that is not
modelled is not.

### How they interact

A `pull_request` event enters `webhooks/router.py`, which deduplicates it by delivery id
(`WebhookDelivery`) and calls `queue_pull_request_review`. The handler passes gates (skip tag,
circuit, rate limit, budget: `AdmissionGates`), takes the submission lock of the head in Redis
(`SET NX EX 900`), writes the review row in one transaction, which also supersedes the active
reviews of other heads, and enqueues `review_pr`. The dashboard's rerun and force requeue do the
same from an existing row. A cron in the worker fails rows that have been running or queued for too
long (`ReviewLifecycle`).

The worker runs the job: it fetches the pull request, checks that its head is still the live head,
loads the configuration and decides by a cheap model how deep to review (`ReviewRouting`), packs the
context (`ContextBundle`), tries models in the order of `ModelRouter`, each in a tool loop
(`AgentLoop`), and ends with a row, a charge and the circuit breaker's keys (`ReviewJob`). What the
models answer becomes findings through the checks of `FindingChecks`, in one piece
(`ReviewAnalysis`) or in chunks (`ChunkedReview`). The findings are posted and their outcomes
followed (`ReviewDelivery`), and the whole is recorded (`AuditTrail`).

The modules meet at steps of one another: `JobFetch`, `JobReview` and `JobDeliver` of
`ReviewLifecycle` are one step each there and a module of their own here; `ReviewJob` knows of a
result only whether it has findings, `ReviewAnalysis` of a model only what it may answer.
`ReviewAnalysis` and `ChunkedReview` extend `FindingChecks`; `ChunkedReview` extends `ChunkPlan`;
`ReviewRouting` extends `ThresholdTuner` and composes its steps with those of the jobs;
`ReviewJob` extends `ModelRouter` and `AgentLoop`; `ExternalEval` extends `RepoScan`.

## 2. ReviewLifecycle

Models one pull request. Heads (commits) are the keys, since the lock's key
(`queue/idempotency.py:11`) and the unique constraint of `reviews` (`db/models.py:136`) contain the
head sha.

| Variable | Code |
|---|---|
| `liveHead`, `events`, `posted` | GitHub: the head, undelivered events, heads with a posted review |
| `hook[p]` | an API handler: where it is (`pc`), what it serves (`kind`), what it has read (`saw`, `others`) |
| `lock[h]` | the key `review:lock:...` of the head |
| `row[h]`, `started` | `reviews.status`, and whether `reviews.started_at` is set |
| `stale` | the rows the recovery has read and not yet committed |
| `job[j]` | an ARQ job: its stage in `run_review`, tries, the outcome it will write, the status it read |
| `budget` | how many pushes, redeliveries, dashboard requests and faults are left |

| Action | Code |
|---|---|
| `HookReceive`, `HookDrop`, `HookSkip`, `HookLock`, `HookSelect`, `HookInsert`, `HookRequeue`, `EnqueueOk`, `EnqueueRaises`, `EnqueueReturnsNone`, `HookUnlock` | `queue_pull_request_review`, one action per await that another process can interleave with |
| `ApiRead`, `ApiCommit`, `MarkFailed` | `rerun_review`, `force_recover_review` |
| `JobStart` ... `JobRelease`, `JobFinishRaises`, `Cancel` | `run_review` with `_mark_review_running`, `_fetch_pr_inputs`, `_mark_review_done`, its `except` clauses and its `finally` |
| `WorkerCrash`, `Interrupted` | ARQ's handling of an interrupted job, `max_tries = 2` |
| `RecoverRunning`, `RecoverQueued`, `RecoverCommit` | `recover_stale_reviews` |
| `LockExpire`, `LockExpireUnderJob` | the TTL, after the job or before its end |

Sessions run READ COMMITTED and lock no row, so a transaction that decides by what it read is a
read action and a commit action. The ORM writes only columns whose value differs from the one read:
`ApiCommit` does not write the status of a row read as queued, and a requeue that read no
`started_at` does not clear the one a job has set since.

**Time.** Only orders that the constants impose are used. The recovery age of a running row (10
minutes) equals `job_timeout` and is counted from `started_at`, which an attempt sets after it
began, so `RecoverRunning` does not fire on an attempt before its terminal write; a running row
without `started_at` may be recovered at any time. A queued row is aged by `created_at`, which a
requeue does not renew, so `RecoverQueued` may fire at any time but on a row whose handler has just
inserted it. The lock's TTL (15 minutes) outlives a handler; that it ends before its job does is the
fault `early_expiry`.

**Faults** are a constant, so that a run says what it assumes: `crash` (a worker dies at any point),
`api_crash` (an API process dies or a handler raises), `shutdown` (a worker stop cancels the job and
ARQ runs it again), `database` (a terminal write raises), `enqueue` (`enqueue_job` raises or returns
None), `lost_reply` (it raises although the job was stored), `early_expiry`, `unkeyed` (reviews are
off or the installation has no model key: the event is answered and leaves no row, `HookDrop`) and
`blank_head` (GitHub's answer to the job names no head, and the head check is passed over).
`Overtaking` are `lost_reply`, `early_expiry` and `shutdown`: with any of them two jobs of one head
can exist, and this is possible in the code as it is.

**Fairness** (`FairSpec`, liveness only): weak fairness of each handler's and job's own steps, as
neither process waits on anything but I/O with a timeout; of the recovery, which is an enabled cron
by default; of the TTL. None of pushes, users or faults.

**Left out**: the installation row, pull request comments, check runs, what a review says, token
accounting (only its outcome "budget exhausted" in `HookSkip`), which provider keys there are (only
that there is none, in `HookDrop`), the flag
`use_review_pipeline_worker` (off by default). A database error in a handler is a handler crash.
Where a transaction reads and writes one row with no await in between but the database's
(`_mark_review_running`, `mark_failed`, the enqueue-failure update), it is one action.

### The lease it implements

`ReviewLease` says what the submission lock promises, with no key, queue or process in it: each
head has a lease that is free, held by a handler, handed to a job, or an orphan whose holder
vanished. Only the handler that holds it queues the review, only the job that has it starts the
review (at most `MaxTries` times) and settles it, and an orphan becomes free only by expiring.
Beside the lease a review may be superseded by a review of another head, and failed by an
administrator or the recovery. `ReviewLifecycleRefinement` maps the lifecycle to it: the lease of a
head is read off the handlers between lock and enqueue, the jobs of the head, and the key
(`LeaseOf`); two of them at once are "shared", which no step of the lease allows.
`ImplementsReviewLease` is `Lease!Spec` as a property of the run.

### Properties

* `OneJobPerHead`: no two jobs of one head, unless a fault lets a job overtake its lock.
* `ImplementsReviewLease`: every behaviour is one of the lease. It says more than `OneJobPerHead`:
  which steps may change a row, and who acts while a handler or a job is lost.
* `ReviewedHeadWasLive`: no attempt, first or retried, gets past the head check unless its commit
  was the live head at some time since this attempt began, as long as GitHub's answers name the
  head.
* `SupersededLostOnlyInRace`: no terminal write undoes a supersession unless the job had read the
  row before it was superseded.
* `EveryReviewSettles` (liveness): a queued or running review is settled, or rests as a queued row
  with a `started_at`, the one form the recovery does not select.
* `EveryEventIsAnswered` (liveness): unless its handler crashes, reviews are off or no model key is
  configured, each event ends in a settled row for its head, or in a row at rest where the recovery
  does not see it.

### Runs

| Run | Bounds | Distinct states | Shows |
|---|---|---|---|
| `lifecycle_lock` | 2 heads, 2 handlers, 2 jobs, 2 events; crash, api_crash, database, enqueue, unkeyed, blank_head | @LOCK@ | `TypeOK`, `OneJobPerHead`, `ImplementsReviewLease` |
| `lifecycle_settles` | 2 heads, 1 handler, 1 job, 2 events; crash, shutdown, enqueue, database, lost_reply, early_expiry | @SETTLES@ | `ReviewedHeadWasLive`, `SupersededLostOnlyInRace`, `EveryReviewSettles`, `EveryEventIsAnswered` |

Two heads are enough for a supersession in both directions; two handlers and two jobs are the
smallest numbers at which a lock can fail; two events allow a push and a crash, or a rerun and a
cancellation, in one behaviour, and `MaxTries = 2` is the code's value. With one job slot, as in
`lifecycle_settles`, an enqueue waits for the job before it, which delays a review but settles none;
`ReviewedHeadWasLive` and `SupersededLostOnlyInRace` are proved for any number of jobs and handlers.
Deadlock is not checked here or in the other runs: the environment's events are bounded, so a quiet
system stops.

## 3. WebhookDelivery

Models the marker of each delivery id (`marker`), the requests of the API (`request`), and how often
a delivery's handler has succeeded (`handled`). `lost` is history: the deliveries that were handled
but whose marker "done" was not written or is gone.

| Action | Code (`webhooks/router.py`) |
|---|---|
| `Send` | a delivery or redelivery reaches `github_webhook`; a "closed" event skips the claim |
| `IsDuplicateDelivery` | `_is_duplicate_delivery`, `SET NX EX 120` |
| `HandlerSucceeds`, `HandlerRaises` | the handler and the `except BaseException` around it |
| `MarkDeliveryDone`, `ReleaseDelivery` | the commands after it, each of which may raise |
| `ProcessDies`, `MarkerExpires` | death between any two steps; the two TTLs |

The marker of 120 seconds is assumed to outlive a handler (`"slow"` is not among the faults of the
run); nothing in the code enforces that, and with it neither `OneRequestPerDelivery` nor
`HandledOnce` holds, so no property here catches that hazard.

| Run | Bounds | Distinct states | Shows |
|---|---|---|---|
| `webhook_delivery` | 2 deliveries and a "closed" one, 3 requests, 7 sends; fail, crash, redis, late | 16 k | `DeliveryTypeOK`, `OneRequestPerDelivery`, `DoneMeansHandled`, `HandledOnce` |

Three requests allow a duplicate beside a first request and a later retry; seven sends allow each of
the deliveries to be sent again after a failure, and one of them after a success.

## 4. AdmissionGates

Models the limits of one installation: the sorted sets of its sliding window and of each user's
(`window`), today's token counter (`used`), and the requests that pass them and become reviews
(`review`). `granted`, `spent` and `skewed` are history: the requests that passed each window, the
tokens of the reviews finished today, and the reasons why the counter differs from them.

| Action | Code |
|---|---|
| `Submit`, `NextGate` | the order of the gates in `queue_pull_request_review`, `rerun_review`, `force_recover_review` |
| `ReadTime`, `CheckWindow` | `_check_sliding_window_rate_limit`: `time.time()`, then the transaction of four commands |
| `CheckBudget` | `current_daily_token_usage` against the daily budget |
| `Record` | `_record_token_budget_usage` with the Lua script |
| `Write` | the terminal write after it; when it raises, the `except` clause records once more |
| `Tick` | time, and the new key at midnight UTC |

Both windows use one limit, where the code has 30 for the installation and 20 for a user.

| Run | Bounds | Distinct states | Shows |
|---|---|---|---|
| `admission_gates` | 1 user, 2 requests at once, limit 2 in 4 ticks, days of 4 ticks, 3 tokens a day, at most 2 a review, 6 ticks; redis, database | 1.6 M | `UsedWithinLimit`, `GrantsWithinLimit`, `UsageExplained` |

* `UsedWithinLimit`: the counter never exceeds the budget, which is what the script is for.
* `GrantsWithinLimit`: no window of time holds more passed requests than the limit plus one for each
  other request under way. The excess is real: a request that read its time before another one
  removed old entries no longer counts them. With the limits above one request too many passes, and
  the bound is tight.
* `UsageExplained`: counter and tokens spent differ only by records that raised, were made twice or
  did not fit, and a record is refused only within one review of the limit.

A record that does not fit adds nothing, so the counter stays below the limit and the gate stays
open. Four ticks are enough for two requests to pass, a third to read its time and a fourth to
overtake it.

## 5. ReviewConfigFile, ThresholdTuner and ReviewRouting

What a job decides before it analyzes anything. `ReviewConfigFile` holds the normalizations of
`agent/review_config.py`: a scalar of the file is its YAML type and its value, and each parser
returns what Python's conversions make of it. `ThresholdTuner` holds the row of the adaptive
threshold and its history, the two Redis entries, the hourly tuner (which reads, decides, commits
and caches, and may fail before the commit) and the operator's rollback. `ReviewRouting` composes
them with jobs that load the configuration through its cache, look up the threshold, have a model
classify the pull request and choose a depth (`_run_fast_path_stage`).

The threshold's row and its Redis entry belong to the installation, but the value a lookup falls
back to is the initial threshold of the job's own repository, and that value is cached, too:
`ThresholdRead` and `ThresholdFilled` use the job's configuration, and `OthersFill` are the jobs of
the installation's other repositories, which fill the entry with theirs (`OtherInitials`). The
tuner's judge gate reads its metrics from Redis or, without them, from the database (`JudgeRead`).
The cached configuration is the parsed file again but for `consistency_probe`, which comes back as a
plain dictionary; nothing but a test reads it, and it is left out.

| Run | Bounds | Distinct states | Shows |
|---|---|---|---|
| `review_routing` | 1 job, 3 kinds of pull request, 6 answers, jobs of another repository, 2 runs of the tuner, 1 rollback | @ROUTING@ | `SkipOnlyWhenSafe`, `AppliedThresholdHasSource`, `LoweringNeedsEvidence` |

* `SkipOnlyWhenSafe`: whatever the file, the caches and the answer hold, only a classified change
  without high-risk files is skipped, at a confidence of at least the threshold in force, which is
  not below both the tuner's minimum and the lowest initial threshold of the installation.
* `AppliedThresholdHasSource`: no interleaving of lookup, tuner, rollback and expiry lets a job
  apply, or the cache keep, a threshold other than one committed to the row or the initial threshold
  of one of the installation's repositories, which need not be the job's own.
* `LoweringNeedsEvidence` (action property): the row only goes down by a rollback, or by a run of
  the tuner whose measurements and whose judge allowed it, whatever was committed in between.

One job is enough: jobs share only the two cache entries, whose other writers are the tuner, the
rollback and `OthersFill`, and the initial threshold of the other repository is below the tuner's
minimum. Two runs of the tuner let one measure before and commit after the other's cache write.

## 6. ModelRouter, AgentLoop and ReviewJob

`ModelRouter` is `llm/router.py` as pure operators: which model serves a role, and the chain of
fallbacks (`AttemptChain`), which goes over the tiers and in each over the providers in their order
(`WithTier`) and takes what they offer (`WithOffer`) unless the model is `Pinned`. `AgentLoop` is
the transcript of one attempt: how each of the two kinds of client appends replies, tool results and
the closing request (`agent/loop.py`, `agent/finalize.py`). `ReviewJob` is the control of a job from
the gate to its row: for each stage the chain, which errors go on to the next model, what a stage
that failed leads to in the runner and in the pipeline, the runner's second call for findings that
did not validate (`ValidationRetry`), a chunked review whose chunks nobody answered (`Chunks`), then
the charge, the row, the stamp of the key and the circuit breaker, each of which may raise.

| Run | Bounds | Distinct states | Shows |
|---|---|---|---|
| `review_job` | 1 review run twice, 5 models of 3 providers, 7 cases of configuration, keys and size, 2 turns, both engines | @JOB@ | `TranscriptValid`, `ModelFailureIsTotal`, `NoFreeReviews`, `DoneMeansAnswered` |

* `TranscriptValid`: what the next call sends has a result right after every tool call, no result
  without a call and no empty user message, through cut-off replies, failing tools and early stops.
* `ModelFailureIsTotal`: the models fail a review that is not chunked only if each provider with a
  key and a usable model was tried and failed; no later stage discards what the primary review had,
  with one exception that the property names: the runner's validation retry, which no `try` guards.
* `NoFreeReviews`: a review that its own job ended had its tokens presented to the daily budget,
  whichever path of the job wrote the row. A row that the recovery or an administrator fails after a
  pipeline was cancelled is not modelled.
* `DoneMeansAnswered`: a row says done only if a model answered; degraded runs are partial. Two
  kinds of review are done without an answer, and have no findings: a pull request refused as too
  large, and a chunked one all of whose chunks failed or were over the limits.

Two providers with two tiers each and a third whose model is retired give every kind of fallback: to
a tier, to a provider, from an unknown and from a retired pin.

## 7. ContextBundle

`build_context_bundle`: the files chosen under the partial-review threshold (`Pick`), their sources
fetched concurrently and in any order (`BeginFetch`, `EndFetch`), the hunks ranked by risk
(`RankHunks`) and packed one at a time with their surroundings (`PackHunk`), the anchors
(`ListAnchors`) and the note on limited scope (`AddNote`). A line of text costs one token. The
packer cuts the lines of a file into hunks where their numbers jump (`BuildHunks`), and the marker
"No newline at end of file" is a context line without a number (`NumberHunk`); what is shown is a
set of parts, each a hunk of a file with its text, its surroundings or a summary in their place.
`Lists` holds what Python's comprehensions, `sorted()` and `sum()` do (`Picked`, `Sorted`, `SumOf`).

| Run | Bounds | Distinct states | Shows |
|---|---|---|---|
| `context_bundle` | all pairs of 9 kinds of files and 4 triples, 4 settings | @CONTEXT@ | `NothingLeftOutUnsaid`, `RiskiestHunksFirst`, `PromptWithinBudgets` |

* `NothingLeftOutUnsaid`: what is not in the prompt is recorded as dropped or covered by the note.
* `RiskiestHunksFirst`: a dropped hunk did not fit beside the shown ones of at least its risk.
* `PromptWithinBudgets`: what is rendered keeps the budgets, and the telemetry counts what is
  rendered.

The kinds of files are the classes the code tells apart, and the settings make each budget bind.

## 8. FindingChecks and ReviewAnalysis

`FindingChecks` holds the checks of findings as pure operators: repair of a quoted line, anchors,
validation, the policy thresholds, the two deduplications, the clusters of the debate, the
repository's filters. A filter keeps the findings at some positions (`Picked`), and a loop over a
list is a recursive function of how far it has come. `ReviewAnalysis` is the order in which both
engines apply them around arbitrary model answers: the primary answer, the focused repair or the
regeneration, policy, the challenger and the tie-break, the merge, the editor and the delivery.

| Run | Bounds | Distinct states | Shows |
|---|---|---|---|
| `review_analysis` | pools of 8, 4, 4 and 2 findings, answers of at most 2, 6 configurations | @ANALYSIS@ | `PostedFindingsAnchor`, `PostedFindingsWereJudged`, `NothingLostOnTheWay` |

* `PostedFindingsAnchor`: what the runner posts is on lines of the diff at the head, quotes its
  range and keeps the cap, whatever debate and editor rewrote after validation. The side of the diff
  that a comment names is checked neither by the code nor here, so GitHub may still refuse one.
* `PostedFindingsWereJudged`: a challenger or a tie-break alone puts nothing into a review.
* `NothingLostOnTheWay`: a valid finding of the first answer is posted unless a stage that may drop
  it did.

The pools hold a finding of each kind a check tells apart: exact, drifted, misquoted, outside the
diff, in another file, unproved, inferred, doubtful, about a vendor, duplicated, overlapping.

## 9. ChunkPlan and ChunkedReview

`ChunkPlan` is the planner (`agent/chunking.py`): the surface of the review, integration groups, the
accumulation of groups up to a target (`Pack`), the cut at a number of chunks. `ChunkedReview` is
the loop over the plan with its persisted state (`stored`), interrupted at any step and resumed by a
new attempt (`LoadState`, `Interrupt`), and the synthesis, debate, editor and delivery after it.
After the loop the run's debug artifacts hold the state without the key of its plan, and a review
that fails or is cancelled then writes them over the stored state (`LateFailure`): the next attempt
finds nothing to resume, and `forgotten` counts the chunks it has to review again. `notes` is what
the summary says of the reasons for missing chunks, which is cut at a length and rewritten by the
editor.

| Run | Bounds | Distinct states | Shows |
|---|---|---|---|
| `chunked_review` | every diff of up to 4 files, 3 configurations, prompts of 1 or 2, 1 interruption | @CHUNKED@ | `PlanCoversSurface`, `ChunkWorkIsKept`, `MissingChunksExplained`, `ChunkFindingsSurvive` |

* `PlanCoversSurface`: the plan loses no file and splits no group; a chunk is over the target only
  if it is one group, or what precedes its last group are fewer files than the minimum.
* `ChunkWorkIsKept`: interruptions in the loop cost at most the chunk in progress; only a failure
  after the loop costs the chunks that were done.
* `MissingChunksExplained`: the synthesis of a posted review was given exactly the chunks passed
  that are done, any other chunk failed or lies where the loop stopped, and a review that covers
  none says why. With a covered chunk the reasons may be cut or lost to the editor, and nothing is
  claimed.
* `ChunkFindingsSurvive`: what a chunk's checks kept is posted, if this attempt read its file.

Four files in three groups give one to three chunks, a plan that is cut and a budget that stops the
loop between chunks.

## 10. ReviewDelivery

The findings of the reviews of one pull request become threads and outcome rows. `Analysed` lists
the bot's comments and filters by them; `PostBatch` and `PostSingle` post, a batch that fails being
repeated comment by comment; `ResolveOutdated`, `Seed` and `Mark` follow; `ClassifyClosed`,
`Nightly` and `Reply` give the rows their outcomes. A listing, a batch or a job may fail, an attempt
may be interrupted, and a review run again. The nightly pass catches nothing for a pull request that
raises: `Breaks` makes this pull request, or one the pass meets before it, raise (or no longer
raise), and while it does, a pass classifies some of the rows or none and ends (`Classify`).
Fairness: `Ages`, as time passes, and `Nightly`, a cron that is on by default.

| Run | Bounds | Distinct states | Shows |
|---|---|---|---|
| `review_delivery` | 2 reviews of 1 or 2 of 2 findings, batches of 1, 1 fault, 1 rerun | @DELIVERY@ | `DoneMeansDelivered`, `NoRepost`, `OutcomesSettle` |

* `DoneMeansDelivered`: a review that the runner ends as done has a thread for each of its findings.
  The pipeline's worker promises no such thing: its status ignores rejected comments.
* `NoRepost` (action property): no review raises again what the listing it filtered by held.
* `OutcomesSettle` (liveness): again and again every finding of every delivered review has an
  outcome, even if the close was lost or never comes, unless from some night on the pass always ends
  at a pull request that raises.

Two reviews with a common finding are the smallest case of a repeated and of an outdated thread.

## 11. AuditTrail

What is left on record: the observer counts events per review, drops those beyond its cap and
samples the rest (`cfg.unsampled` are the draws that leave one out, none at the default rate of 1);
the Langfuse sink keeps a handle per open trace and span; the database sink persists each event in a
task that reads a row (`Read`) and commits it later (`Commit`, `Fail`); the runner inserts rows of
its own (`Audited`). Runs of both engines end, abort and are retried.

| Run | Bounds | Distinct states | Shows |
|---|---|---|---|
| `audit_trail` | both engines; 1 run with the database sink, 2 without; 4 caps, 2 calls, 1 fault; some draws of the sampler | @AUDIT@ | `AuditNeverOvercounts`, `DiagnosticsReachARow`, `ObservedFromStartToEnd` |

* `AuditNeverOvercounts`: the rows of a run never account for more than its calls cost, once per
  writer.
* `DiagnosticsReachARow`: unless a session failed or two tasks of a stage overlapped, a diagnostic
  is in a row of its stage, or the row says that the list was cut.
* `ObservedFromStartToEnd`: a retry is observed from its start, unless the sampler leaves its start
  out, and a run that ended by itself and of which neither cap nor sampler took an event leaves no
  handle open.

## 12. RepoScan and ExternalEval

`RepoScan` is the scan of a repository as pure operators: the listing and its cut, the sampled files
and what they are flagged for, the tier of the plan, `build_shards` (groups by directory, dealt to
the least filled bucket by `Put`, split at a size by `Split`), the rules, the bar a finding must
pass, the budget of `ReviewEngine.review` (`Scan`). Its loops are recursive functions of the groups,
buckets and shards done so far. `ExternalEval` models one evaluation over it: the row (`eval`,
`cap`), the shard rows (`shard`, by key and by the try of the prepass that inserted them, since the
table has no unique key), how often a shard's findings were inserted (`persisted`), the jobs and the
dashboard's handlers (`api`); `tree` is the branch on GitHub, which may move at any time: the
prepass and each shard read it by name, file by file, so a job may see files of several trees
(`heads`), and a read that is answered with an error is an empty file (`unread`). The actions follow
`run_external_eval_prepass` (`Prepass*`), `run_external_eval_shard` (`Shard*`),
`run_external_eval_synthesize` (`Synthesize*`) and the two endpoints (`Create*`, `Cancel*`). The
analysis between `ShardCheck` and `ShardCommit` runs inside an open transaction, hence the status
read in between. A file costs two tokens to analyze and three to estimate (120 and 180 in the code);
the two floors keep their order to the cap.

Faults: `cancel`, `push`, `die` (a job raises or times out: ARQ does not retry), `crash` (it is run
again), `enqueue`, `unread`. A push counts as `PushEvents` of the events, so that one moves the
branch in a behaviour. Fairness is weak fairness of the jobs' and handlers' own steps, which wait on
nothing but I/O with a timeout. There is no recovery cron for evaluations, so `mishaps` records what
befell one: a job lost, a job run twice, a branch that moved after the prepass began, a read that
failed, a plan without shards, a skipped shard that finished last.

| Run | Bounds | Distinct states | Shows |
|---|---|---|---|
| `external_eval` | 3 trees of 2 to 6 files, 2 shards, 3 jobs, 2 tries, caps 6 and 15, 2 events; all faults | @EXTERNAL@ | `SynthesisSeesEveryShard`, `ScannedLikeTheEngine`, `EvaluationFinalizes` |

* `SynthesisSeesEveryShard`: while no job is run twice, a complete or partial verdict is only given
  when no shard is pending, and it counts the skipped ones.
* `ScannedLikeTheEngine`: the jobs and `ReviewEngine.review` split the same files by different calls
  of `build_shards`; a complete evaluation stores, once each, what the engine would report, apart
  from the flagged files and from shards longer than a job analyzes, unless a job was run twice, the
  branch moved after the prepass began or a read failed, of which the code records nothing.
* `EvaluationFinalizes` (liveness): an evaluation rests in a terminal status, canceled or not and
  through restarts, unless one of the mishaps befell it or the prepass inserted its shards twice.

The trees are chosen so that two shards exceed the smallest cap, that a bucket is split by the
engine but not by the jobs, and that a plan is empty. Two shards are enough for one to be the last.

## 13. Proofs

`ReviewLifecycleProofs` proves, for every set of heads, handlers and jobs, every `MaxTries` and
`MaxEvents` and (where not said otherwise) every set of faults:

* `TypeCorrect`: `Spec => []TypeOK`. Besides the shapes it says that a job waits in the queue only
  while it has a try left.
* `LockKeepsOneJobPerHead`: if `Faults` holds no `Overtaking` fault, `Spec => []OneJobPerHead`.
  `OneJobPerHead` alone is not inductive: that a handler about to enqueue has no rival follows from
  the lock being held on its behalf, and that the job may delete the lock from nobody else holding
  it. `LockHandover` says just this; the invariant is `TypeOK /\ LockHandover /\ OneJobPerHead`.
* `HeadCheckedInEveryAttempt`: if `Faults` does not hold `blank_head`,
  `Spec => []ReviewedHeadWasLive`, by strengthening with
  `AttemptSawLiveHead` (before the check, an attempt at the live head has recorded that it was
  live).
* `SupersededStays`: `Spec => SupersededLostOnlyInRace`, an action property, one step per action
  that writes `row`.
* `LifecycleImplementsLease`: without `Overtaking` faults, `Spec => ImplementsReviewLease`. The lock
  invariant above says that a head never has two actors, so `LeaseOf` is never "shared" and its
  value can be read off one handler, one job or the key (`LeaseRead`). Each action is then shown to
  be one step of the lease for its head, and to leave every other head's lease alone (`LeaseFrame`),
  or to be a stutter.

`EntryProofs` is about what a request meets before anything is analyzed. Of `WebhookDelivery`, for
any number of deliveries, requests and sends:

* `DeliveryTypeCorrect`, and under every fault `DoneDeliveriesHandled` (`DoneMeansHandled`),
  strengthened by `MarkMeansHandled`: a request about to mark has handled its delivery.
* `WorkedOnByOneRequest` and `HandledAtMostOnce`, if no handler outlives its marker. The invariant
  is their conjunction: that a second success is impossible needs that nobody else works on the
  delivery, and that in turn that the marker is there as long as somebody does.

Of `AdmissionGates`, for any limits and any finite number of requests at once:

* `TypeCorrect`, `BudgetKept` (`UsedWithinLimit`) and `UsageAccounted` (`UsageExplained`), the last
  two inductive together with `TypeOK`.
* `GrantsAreLimited` (`GrantsWithinLimit`). The invariant tells, for every window of time that ends
  at `t`, two phases apart. Until a request with a time after `t` is checked, the sorted set still
  holds every request of that window that passed, so each is counted (`Counted`). From then on only
  requests that read a time up to `t` before can still pass; they are at most all requests but one,
  and each that passes leaves one fewer (`Overtaken`). The sum of the two never exceeds the bound.

Of `ReviewRouting`, for any configuration files, pull requests, metrics and answers:

* `ThresholdsHaveSources` (`AppliedThresholdHasSource`): the row and what tuner and rollback are
  about to cache was committed (`Believed`), and what a job applies or the entry holds is that or
  some repository's initial threshold (`Sources`, in `JobInv`).
* `SkipsAreSafe` (`SkipOnlyWhenSafe`): `JobInv` carries the conditions of a skip from the
  configuration read through the threshold and the classification to the route.
* `LoweringsHaveEvidence` (`LoweringNeedsEvidence`), an action property. It needs `OneStepApart`:
  while the tuner decides, only a rollback moves the row, and by a step at most, so that a decision
  to raise the threshold the tuner read never lowers the row it overwrites.

`FindingChecksProofs` has the lemmas that the modules below cite, for lists of any length: what
`Picked` keeps, that `Sorted` lists each element once and in order and that the ranking is a
permutation (both by the pigeonhole principle), and each loop of `FindingChecks` unfolded step by
step. `DedupeKeeps` says that the two deduplications make up no finding, `DedupeCovers` that they
drop one only beside a near duplicate they keep, and `MergeKeeps` that what a debate yields was in
the draft or has two backers.

`FindingProofs`, of `ReviewAnalysis` for any files, diff, configurations and pools of findings:

* `OnlyAnchoredFindingsArePosted` (`PostedFindingsAnchor`), `OnlyJudgedFindingsArePosted`
  (`PostedFindingsWereJudged`) and `SoundFindingsArePosted` (`NothingLostOnTheWay`), from one
  invariant: what the last validation let through (`AnchorInv`); that every finding of the draft
  passed the policy or has two backers (`JudgedInv`); and where a finding that was valid before a
  retry is by now, stage by stage (`SoundInv`). And `TypeCorrect`.

Of `ReviewDelivery`, for any reviews, results, batch size and number of faults:

* `DoneIsDelivered` (`DoneMeansDelivered`). In `DeliveryInv` every finding of a review is in a
  thread of the bot or still to be posted, unless GitHub rejected one (`Accounted`), and nothing is
  left to be posted when posting is over (`Drained`).
* `NothingReposted` (`NoRepost`), an action property: what a review still has to post is in no
  thread that its listing saw (`Filtered`). `PostableKeeps` says what the filter before posting
  keeps.
* `PostingTypesCorrect`; among others an outcome row points to a thread that exists.

`ChunkingProofs`, of `ChunkPlan` and `ChunkedReview` for any changed files, diff, configurations and
pools, and any number of interruptions:

* `PlansCoverTheSurface` (`PlanCoversSurface`): the planner's loop is unfolded group by group, and
  each step keeps that the chunks built so far split the groups seen so far and tear none apart.
* `FinishedWorkIsKept` (`ChunkWorkIsKept`), by `WorkInv`: what the worker holds as done is what is
  stored as done, but for the chunk being saved, and each model run is one of them, a failure, an
  interruption, forgotten by a late failure, or under way.
* `MissingChunksAreExplained` (`MissingChunksExplained`), by `ExplainInv`: what the loop has passed
  was covered or failed, and it ends after the last chunk or says why; and by `NotesInv`: an attempt
  that covers no chunk finds nothing, is not edited and keeps its notes.
* `FindingsOfChunksSurvive` (`ChunkFindingsSurvive`), from `ShapeInv` (whatever a chunk's state
  stores, in whichever attempt, is right about its file and about the lines under review, so the
  later checks find no fault with it) and `SurviveInv` (the draft covers it). And `TypeCorrect`.

Of `ContextBundle`, for any pull requests, settings, weights and sources:

* `LeftOutIsSaid` (`NothingLeftOutUnsaid`), by `PackInv`: what became of each hunk that left the
  queue, which from the start of the packing holds every other ready one.
* `RiskiestAreFirst` (`RiskiestHunksFirst`), which is inductive with `QueueInv`: the queue is sorted
  by risk (`SortedKeeps`), and what has left it is at least as risky as what is in it.
* `PromptsFit` (`PromptWithinBudgets`), by `BudgetInv`: the counters are the cost of what is shown.
  A step adds a part to a set and its cost to a counter, so the sums are unfolded number by number.
* `BundleTypesCorrect`.

`ReviewJobProofs`, for any reviews, providers, tools, thresholds and numbers of retries:

* `NothingFree` (`NoFreeReviews`), by `Paid`: where the tokens of a run may be unpaid (its stages
  and the way to the first charge), and that a second charge needs an exception that came after it.
* `DoneIsAnswered` (`DoneMeansAnswered`), by `Answered`: a run past its agent stage was served, or
  has no findings and was too long to be asked or chunked.
* `TranscriptsValid` (`TranscriptValid`), by `Talks`: each message may follow the ones before, in
  the form its provider accepts, whatever stage and provider comes next.
* `ModelFailuresAreTotal` (`ModelFailureIsTotal`). `AttemptChain` is unfolded tier by tier and
  provider by provider: it is a list of known models and, unless one is pinned, it has a model of
  every provider that can offer one (`ChainOffers`). `Tries` says that a job blames the models only
  at the end of the chain its primary review resolved, and that nobody had served it before; only
  the runner blames a retry.
* `TypeCorrect`. `JobInv` is the conjunction of the others for every review; each action has a lemma
  that it `Moves` one review from good to good and leaves the others.

`ExternalEvalProofs`, for any repositories, caps, jobs and faults:

* `TypeCorrect`, from `BaseInv`: the prepass job is the only one, its try exceeds that of every row
  it will insert, and shard jobs have rows.
* `SynthesisComesLast` (`SynthesisSeesEveryShard`) and `FindingsStoredOnce` (the findings of a shard
  are inserted at most once, and exactly once if the evaluation is complete), both while no job is
  run twice. `EvalInv` adds to `BaseInv`, under that condition, that each shard's row follows its
  one job (`OneJobPerShard`), which makes the count by which a job finds itself the last conclusive
  (`SynthesisLast`).
* `JobsScanLikeTheEngine` (`ScannedLikeTheEngine`). About `RepoScan`, for any tree: the groups hold
  every file (`GroupsHold`), dealing loses none (`DealHolds`), nor does the division into chunks
  (`ChunksHold`), so both calls of `build_shards` hold just the files the prepass did not exclude
  (`ShardsHold`). A shard of the engine is no longer than the bucket it was split from, which is a
  shard of the jobs, so where the jobs analyze whole shards the engine does, too, and both find the
  same file by file (`SameFindings`). `ScanInv` adds to `EvalInv` that, as long as no job was run
  twice, no read failed and the branch has not moved since the prepass began, every job has read the
  tree as it is (`Still`), the rows are its shards (`Scanned`), and what they hold is what was found
  in them (`FoundAll`).

`AuditTrailProofs`, for any caps, bounds and numbers of runs, sink tasks and lost updates. A step
emits a list of events that the cap may cut anywhere; what a list does is proved event by event.

* `RowsNeverOvercount` (`AuditNeverOvercounts`). A task that read a row may write back what it read,
  so it does not suffice to count the rows: `AccountInv` counts the tokens of the rows, together
  with those the tasks may write back, and the calls not yet written; each call adds one of these.
* `NoDiagnosticIsLost` (`DiagnosticsReachARow`): a diagnostic is with its task or in a row of its
  key (`DiagnosticsInv`), as a task's copy is a row of its event's key (`CopyInv`).
* `TracesMatchRuns` (`ObservedFromStartToEnd`): what Langfuse holds open of a run that was not cut
  is its trace and the span of the place it is at (`HandlesInv`). And `TypeCorrect`.

Assumptions: the named `ASSUME`s of the modules, which TLC evaluates on every run, and the faults
excluded where a theorem says so. Most say that a number is a number or a set is finite. Some
say more:

* `ConstantsAssumption` of `ExternalEval` bounds the number of shards of any repository in `Repos`,
  which bounds the type of their rows and nothing else.
* `CatalogAssumption` and `CasesAssumption`: the catalog and a configuration's order of providers
  are lists, the default model is of a provider of the catalog, and a role's tier is one of
  `TierOrder`.
* `DeliveryAssumption`, `PoolsAssumption`, `BundleAssumption`: results and pull requests are lists,
  and a finding or a file has the fields the code reads, of their types.
* `FilesAssumption` of `ChunkedReview`: the files of a diff have different paths, and no two the
  same rank: the place of its path in sorted order, which is how the planner breaks ties.
* `ScanAssumption`: trees are lists, there is a tier, every tier asks for at least one shard and one
  file in it (as those of `recommended_plan` do), and no rule has the name of the follow-ups.

Not proved, and checked by TLC only: liveness (`EveryReviewSettles`, `EveryEventIsAnswered`,
`OutcomesSettle`, `EvaluationFinalizes`), which the prover does not do.

Induction over a list is available to the proofs in one form: a recursive function is unfolded once
per index, and a set of indices that holds 0 and is closed under the next one holds them all
(`UpTo`), which follows from the least element of a set of numbers.

## 14. Assumptions about the environment

* The database role sees every row. `recover_stale_reviews` (`queue/recovery.py:54`) and the
  evaluation jobs (`agent/external/orchestrator.py:80`) query before `set_installation_context`;
  under the NOBYPASSRLS role of `src/apps/api/scripts/create_app_db_role.sql` and FORCE ROW LEVEL
  SECURITY they find nothing.
* Redis does not lose keys or jobs; ARQ runs an interrupted job again until `max_tries`.
* Row locks between concurrent updates are not modelled; a transaction Postgres aborts is a crash of
  its handler.
* A model may answer anything its schema admits. The runs draw answers from pools that hold one
  finding, classification or reply of each kind that a check tells apart.
* GitHub may refuse any call, a batch of comments may be stored although its reply was lost, and a
  head or a branch may move at any time.

## 15. What the code does that a reader may not expect

The models follow the code in these points; the properties are stated so that they hold with them,
and name them in their conditions. Three differ from what the repository's texts say: a requeued
review need not reach a terminal state (`src/docs/stale-review-recovery-runbook.md:40`), repeated
answers of confidence 0 escalate only if the job has a Redis pool to count them in
(`src/docs/fast-path-tuning.md:74`), and a truncated tree of GitHub is not listed by subtrees
(`review/external/sources/github.py:13`).

Lifecycle and webhooks
* The live head is compared once per attempt (`queue/worker.py:186`, `agent/runner.py:301`); a push
  after that does not stop the review, and an answer without a head, or with an empty one, passes
  the check. An event that meets reviews switched off or no model key leaves no row
  (`webhooks/handlers.py:264`). A supersession orders no heads: the older of two webhooks handled
  last supersedes the review of the newer head. A job that had read its row before it was superseded
  writes its outcome over it (`agent/runner.py:2068`).
* When enqueueing raises, the handler has answered and a redelivery is dropped as a duplicate
  (`webhooks/handlers.py:552`).
* A requeued row keeps its `created_at`, and one with a `started_at` is not selected by the recovery
  of queued rows (`api/router.py:1095`), so it may rest queued.
* A pull request event that was under way clears a later `suspended_at`
  (`webhooks/handlers.py:473`).

Admission, models and pipeline
* Token records that do not fit add nothing, so the gate never closes (`ratelimit.py:15`). A write
  that fails after charging charges again; a row written as done whose key's `last_used_at` cannot
  be stamped becomes failed.
* The circuit that is opened belongs to the provider of the last attempt, the one that is asked to
  the configured provider (`agent/runner.py:1985`, `webhooks/handlers.py:194`); the pipeline records
  no failures. If all providers fail in the pipeline, the review ends partial.
* A cancelled pipeline, and one whose final write raises, leaves a running row, posted or not. Its
  status ignores rejected comments (`agent/pipeline/worker_adapter.py:12`).
* The validation retry asks a model outside of any `try` (`agent/runner.py:1452`, line 1487), so its
  failure fails a review that had a primary result. A chunk whose model fails is passed over, and a
  chunked review that nobody answered is done (`agent/runner.py:2490`).
* `completion.choices[0]` is read before the reply is checked for emptiness (`agent/loop.py:286`);
  the OpenAI client executes tool calls of a reply that was cut off.
* The deduplication keeps the first finding, also against one of higher severity
  (`agent/dedupe.py:62`). The winner of a debate may be the challenger's copy, which was not
  validated. The editor's drop of a prior finding resolves its thread. A threshold of 0 is 85 in the
  runner (`agent/runner.py:1510`) and 0 in the pipeline.

Routing
* Without a row the threshold is the initial one of the repository that asks, and it is cached for
  the installation (`agent/threshold_tuner.py:117`): a low one of one repository lowers the bar of
  the others. Their configurations come from the cache with `consistency_probe` as a dictionary
  (`agent/config_cache.py:167`).
* An error of GitHub is cached as the default configuration for an hour
  (`agent/config_cache.py:199`); `.inf` and `.nan` raise where a float becomes an int
  (`agent/review_config.py:647`).
* An adaptive threshold replaces the configured `skip_min_confidence`. A rollback undoes the latest
  change only, and a tuner that has read before it overwrites it. A threshold of 1 means 100 %.

Context and chunks
* A failure or cancellation after the chunk loop replaces the stored chunk state by one that cannot
  be resumed (`agent/runner.py:2632`), and every chunk is reviewed again.
* A file whose source cannot be fetched loses its hunks; files with deletions only are not included;
  a deletion's surroundings are taken around its old line. Anchors and the note have no budget. The
  selection may exceed the threshold by its last file. The diff is fetched by pull request, not by
  commit.
* A resumed chunked review has the sources of this attempt only, so findings of files it has not
  read again are lost to later checks.

Delivery and observability
* After a batch failed, comments are posted one by one, also those the failed call stored
  (`github/client.py:58`), and a verdict to request changes is lost. A finding that returns stays
  hidden in its resolved thread. The bot's own resolution of a thread counts as a dismissal. One
  group that raises ends the nightly pass. A review without findings posts nothing.
* The event counter and the cap of an aborted run are left to the next; an end event dropped at the
  cap leaves its handle open. Concurrent tasks of the database sink read and write the same row, and
  a second error of a row is not written. Runner and sink both count tokens.

External evaluations
* The branch is read by name whenever a job reads it, so the findings may be of several commits, and
  a file whose read fails is an empty file (`review/external/sources/github.py:169`); nothing
  records either.
* The jobs call `build_shards` without a size and analyze at most 200 files of a shard; the rest is
  never analyzed, though the evaluation says complete. They do not report follow-ups on injected
  prompts, nor validate, and files the configuration ignores still go into shards.
* A plan without shards, or a skipped shard that finished last, leaves the evaluation analyzing. The
  cap is compared with the tokens of finished shards (`agent/external/orchestrator.py:223`). A
  prepass run again inserts its shards again; a cancelled evaluation can be written over (line 85).

## 16. Not modelled, and why

* Snapshots and storage, error reporting, structured logging: written and not read by a decision.
* Provider adapters and backoff below a call: a call answers or fails, in any way `AgentLoop` and
  `ReviewJob` tell apart. Prompts, and the profiles that choose among them, change what a model says
  and not what the code does with it.
* Installation synchronization, users, usage, labels, benchmarks: requests that write one row each.
  Sessions and authentication likewise decide nothing by a state that another process changes.
* The MCP server, the web dashboard and the offline evaluation: clients of the API and of the
  pipeline, with no state the service depends on.
* Redaction, rendering, diff parsing: text in, text out. The models begin with parsed hunks.

## 17. What is left to prove

Every safety invariant and every action property of the runs has a theorem. Liveness stays with TLC,
and with it what one would have to know of the fair schedules of ARQ and of the crons.
