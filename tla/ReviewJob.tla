---- MODULE ReviewJob ----
(***************************************************************************)
(* One review job from the gate of the webhook to its row: the models each *)
(* stage tries (ModelRouter), the conversation with one of them            *)
(* (AgentLoop), what the job charges to the token budget and writes to the *)
(* row when it ends, and the circuit breaker of the providers.  A job runs *)
(* the legacy runner (run_review) or, behind a flag, the pipeline worker,  *)
(* which hands oversized and chunked reviews to the legacy runner.         *)
(*                                                                         *)
(* What the findings are, the lock and the queue are the matter of         *)
(* ReviewAnalysis, ChunkedReview and ReviewLifecycle; here a result has    *)
(* findings or none.                                                       *)
(***************************************************************************)
EXTENDS ModelRouter, AgentLoop, FiniteSets

CONSTANTS
  Reviews,        \* ids of the reviews of one installation, in the order of their rows
  NoProvider,
  Cases,          \* records [config, keys, chunking, huge, draft, tokens]
  LlmErrors,      \* records [code, invalid, quota]
  MaxIterations,  \* of the agent loop
  Threshold,      \* FAILURE_THRESHOLD
  MaxRuns         \* bound on the runs of one review

ASSUME JobAssumption ==
  /\ Reviews \subseteq Nat /\ IsFiniteSet(Reviews)
  /\ MaxIterations \in Nat \ {0} /\ Threshold \in Nat \ {0} /\ MaxRuns \in Nat
  /\ NoProvider \notin Providers

VARIABLES
  pipeline,  \* use_review_pipeline_worker
  case,      \* review -> what its pull request and its configuration ask for
  row,       \* review -> [status, named]: named, the provider written into the row
  job,       \* review -> the job of its last run
  runs,      \* review -> how often it was run
  failures,  \* Redis: circuit:failures:<provider>
  open       \* Redis: is circuit:open:<provider> there?

vars == <<pipeline, case, row, job, runs, failures, open>>
circuit == <<failures, open>>

Ended == {"done", "partial", "failed", "skipped", "superseded"}
Idle == [pc |-> "idle", at |-> 1, runtime |-> NoProvider, served |-> NoProvider,
         findings |-> FALSE, sent |-> <<>>, retried |-> FALSE, degraded |-> FALSE,
         spent |-> FALSE, charged |-> 0, outcome |-> "none", cause |-> "none",
         attempts |-> <<>>, configured |-> FALSE, handler |-> FALSE, delegated |-> FALSE]

Init ==
  /\ pipeline \in BOOLEAN
  /\ case \in [Reviews -> Cases]
  /\ row = [r \in Reviews |-> [status |-> "none", named |-> NoProvider]]
  /\ job = [r \in Reviews |-> Idle]
  /\ runs = [r \in Reviews |-> 0]
  /\ failures = [p \in Providers |-> 0]
  /\ open = [p \in Providers |-> FALSE]

\* The record with other fields, or new ones.
With(record, fields) ==
  [f \in DOMAIN record \union DOMAIN fields |->
     IF f \in DOMAIN fields THEN fields[f] ELSE record[f]]
Update(r, fields) == job' = [job EXCEPT ![r] = With(@, fields)]
WriteRow(r, status) == row' = [row EXCEPT ![r].status = status]
Keep(kept) == UNCHANGED <<pipeline, case, runs, kept>>

Chunked(r)   == case[r].chunking /\ case[r].huge
Delegates(r) == case[r].chunking \/ case[r].huge
InPipeline(r) == pipeline /\ ~Delegates(r)

Attempt(r) == job[r].attempts[job[r].at]
LastAttempt(r) == job[r].at = Len(job[r].attempts)
\* The stage is the job's current one and has its chain.
In(r, stage) == job[r].pc = stage /\ job[r].attempts # <<>>
Enter(r, stage, fields) == Update(r, With([pc |-> stage, at |-> 1, attempts |-> <<>>], fields))

-----------------------------------------------------------------------------
(* The gate and the start *)

\* The provider named by the newest review that names one.
CircuitProvider ==
  LET named == {r \in Reviews : row[r].named # NoProvider}
  IN IF named = {} THEN "anthropic" ELSE row[CHOOSE r \in named : \A s \in named : s <= r].named

\* A webhook event: skipped while the circuit of that provider is open.
Submit(r) ==
  /\ row[r].status = "none"
  /\ WriteRow(r, IF open[CircuitProvider] THEN "skipped" ELSE "queued")
  /\ Keep(<<job, circuit>>)

\* The dashboard runs an ended review again, whatever the circuit.
Rerun(r) ==
  /\ row[r].status \in Ended /\ job[r].pc \in {"idle", "over"}
  /\ runs[r] < MaxRuns
  /\ WriteRow(r, "queued") /\ job' = [job EXCEPT ![r] = Idle]
  /\ Keep(<<circuit>>)

Start(r) ==
  /\ row[r].status = "queued" /\ job[r].pc = "idle"
  /\ runs' = [runs EXCEPT ![r] = @ + 1]
  /\ Update(r, [Idle EXCEPT !.pc = IF pipeline THEN "adapter" ELSE "fetch"])
  /\ IF pipeline THEN UNCHANGED row ELSE WriteRow(r, "running")
  /\ UNCHANGED <<pipeline, case, circuit>>

\* The job has its result and ends the row with it.
Conclude(r, status, fields) ==
  Update(r, With([pc |-> "charge", outcome |-> status, sent |-> <<>>], fields))
\* An exception reaches the handlers of the job.
Raise(r, cause) == Conclude(r, "failed", [cause |-> cause, handler |-> TRUE])
Supersede(r) == Conclude(r, "superseded", [cause |-> "superseded", handler |-> TRUE])

\* run_review_via_pipeline up to the pipeline or the legacy runner.
AdapterSetup(r) ==
  /\ job[r].pc = "adapter"
  /\ \/ (Raise(r, "github") \/ Supersede(r)) /\ UNCHANGED row
     \/ /\ Delegates(r)
        /\ Update(r, [pc |-> "fetch", delegated |-> TRUE]) /\ WriteRow(r, "running")
     \/ /\ ~Delegates(r) /\ case[r].draft
        /\ Conclude(r, "skipped", [cause |-> "draft", configured |-> TRUE])
        /\ WriteRow(r, "running")
     \/ /\ ~Delegates(r) /\ ~case[r].draft
        /\ Enter(r, "agent", [configured |-> TRUE])
        /\ WriteRow(r, "running")
  /\ Keep(<<circuit>>)

\* run_review up to the fast path.  A pull request that is too large and not
\* chunked is told so.
Fetch(r) ==
  /\ job[r].pc = "fetch"
  /\ \/ Raise(r, "github") \/ Supersede(r)
     \/ case[r].draft /\ Conclude(r, "skipped", [cause |-> "draft", configured |-> TRUE])
     \/ /\ ~case[r].draft /\ case[r].huge /\ ~case[r].chunking
        /\ Conclude(r, "done", [cause |-> "too_large", configured |-> TRUE])
     \/ /\ ~case[r].draft /\ (case[r].huge => case[r].chunking)
        /\ Update(r, [pc |-> IF case[r].config.fastPath THEN "fast" ELSE "context",
                      configured |-> TRUE])
  /\ Keep(<<row, circuit>>)

-----------------------------------------------------------------------------
(* The stages that call models *)

StageRole ==
  [fast |-> "fast_path", chunks |-> "chunk_review", agent |-> "primary_review", editor |-> "editor"]

\* A configuration has an order of providers and a default model, asks for a known tier, and
\* names models of known providers.
ASSUME CasesAssumption ==
  \A c \in Cases, stage \in DOMAIN StageRole :
    LET role == StageRole[stage]
        pin == ExplicitModel(c.config, role)
    IN /\ c.config.order \in Seq(ToSet(c.config.order))
       /\ c.config.default # NoModel /\ c.config.default.provider \in Providers
       /\ RoleConfig(c.config, role).tier \in ToSet(TierOrder)
       /\ pin # NoModel => pin.provider \in Providers

\* A stage starts: it resolves its chain.  The worker adapter does so for the
\* primary review before the pipeline and names its first model the runtime model.
Resolve(r) ==
  /\ job[r].pc \in DOMAIN StageRole /\ job[r].attempts = <<>>
  /\ \E chain \in {AttemptChain(case[r].config, StageRole[job[r].pc], case[r].tokens,
                                 case[r].keys, job[r].served)} :
       Update(r, [attempts |-> chain,
                  runtime |-> IF InPipeline(r) /\ job[r].pc = "agent" THEN chain[1].provider
                              ELSE job[r].runtime])
  /\ Keep(<<row, circuit>>)

\* The prepass tries every model of its chain and then does without.
FastPath(r) ==
  /\ In(r, "fast")
  /\ LET p == Attempt(r).provider
     IN \/ Enter(r, "context", [runtime |-> p, spent |-> TRUE])
        \/ Conclude(r, "skipped", [cause |-> "fast_path", runtime |-> p, spent |-> TRUE])
        \/ IF LastAttempt(r) THEN Enter(r, "context", <<>>)
           ELSE Update(r, [at |-> job[r].at + 1])
  /\ Keep(<<row, circuit>>)

\* Context assembly.
Context(r) ==
  /\ job[r].pc = "context"
  /\ \/ Raise(r, "github")
     \/ Enter(r, IF Chunked(r) THEN "chunks" ELSE "agent", <<>>)
  /\ Keep(<<row, circuit>>)

\* A chunked review reads its chunks and synthesises them with one model, the
\* first of the chain.  A chunk whose model fails is passed over, and the chunks end
\* at a prompt over the budget or past the deadline; with no answer there is
\* nothing to synthesise or to edit.  An error of the synthesis fails the review.
Chunks(r) ==
  /\ In(r, "chunks")
  /\ LET p == Attempt(r).provider
     IN \/ \E found \in BOOLEAN :
             Enter(r, IF found THEN "editor" ELSE "deliver",
                   [findings |-> found, spent |-> TRUE, served |-> p, runtime |-> p])
        \/ \E answered \in {[spent |-> TRUE, runtime |-> p], [findings |-> FALSE]} :
             Enter(r, "deliver", answered)
        \/ Conclude(r, "failed", [cause |-> "models", handler |-> TRUE,
                                  spent |-> TRUE, runtime |-> p])
  /\ Keep(<<row, circuit>>)

\* What the attempt would send next.
Transcript(r) == IF job[r].sent = <<>> THEN Opening(Attempt(r).provider) ELSE job[r].sent

\* One turn of the agent loop.
ModelCall(r) ==
  /\ In(r, "agent")
  /\ Turns(job[r].sent) < MaxIterations
  /\ \E reply \in Replies(Attempt(r).provider), github \in BOOLEAN :
       LET loop == AfterReply(Attempt(r).provider, Transcript(r), reply, github)
       IN Update(r, [sent |-> loop.sent, spent |-> TRUE,
                     pc |-> IF loop.over THEN "finalize" ELSE "agent"])
  /\ Keep(<<row, circuit>>)

\* The deadline of the stage, its token limit or MAX_ITERATIONS ends the loop.
LoopStops(r) ==
  /\ In(r, "agent")
  /\ Update(r, [pc |-> "finalize"])
  /\ Keep(<<row, circuit>>)

Reviewed(r, found) ==
  LET p == Attempt(r).provider
  IN Enter(r, IF found THEN "editor" ELSE "deliver",
           [sent |-> <<>>, findings |-> found, served |-> p, spent |-> TRUE,
            runtime |-> IF InPipeline(r) THEN job[r].runtime ELSE p])

\* finalize_review: a missing or refused submission is an empty review, one that
\* does not fit the schema is asked for once more and then salvaged.
Finalize(r) ==
  /\ job[r].pc = "finalize"
  /\ \/ \E found \in BOOLEAN : Reviewed(r, found)
     \/ ~job[r].retried /\ Update(r, [retried |-> TRUE, spent |-> TRUE])
     \/ /\ ~InPipeline(r)
        /\ Update(r, [pc |-> "retry", served |-> Attempt(r).provider, spent |-> TRUE,
                      runtime |-> Attempt(r).provider])
  /\ Keep(<<row, circuit>>)

\* The runner asks the model that answered once more when too many of its findings were
\* not valid.  An error of this call reaches the handler, although there is a result.
ValidationRetry(r) ==
  /\ job[r].pc = "retry"
  /\ (\E found \in BOOLEAN : Reviewed(r, found)) \/ Raise(r, "retry")
  /\ Keep(<<row, circuit>>)

\* Mutant: the isolated stage forgets to say that it failed.
UnreviewedUnseen(r) ==
  IF InPipeline(r) THEN Enter(r, "deliver", [sent |-> <<>>]) ELSE Raise(r, "models")

\* Every model of the chain failed.
Unreviewed(r) ==
  IF InPipeline(r) THEN Enter(r, "deliver", [sent |-> <<>>, degraded |-> TRUE])
  ELSE Raise(r, "models")

\* An error of the loop or of the finalization, and in the pipeline the deadline
\* of the stage, goes on to the next model.
AttemptFails(r) ==
  /\ In(r, "agent") \/ job[r].pc = "finalize"
  /\ IF LastAttempt(r) THEN Unreviewed(r)
     ELSE Update(r, [pc |-> "agent", at |-> job[r].at + 1, retried |-> FALSE, sent |-> <<>>])
  /\ Keep(<<row, circuit>>)

\* The chunked review falls back on quota errors only and needs its editor; the
\* runner posts the draft when all fail; the pipeline tries the model that
\* answered, once.
EditorFails(r, error) ==
  LET next == Update(r, [at |-> job[r].at + 1])
  IN IF Chunked(r)
     THEN IF QuotaError(error) /\ ~LastAttempt(r) THEN next ELSE Raise(r, "models")
     ELSE IF ~InPipeline(r) /\ ~LastAttempt(r) THEN next ELSE Enter(r, "deliver", <<>>)

Editor(r) ==
  /\ In(r, "editor")
  /\ \/ \E left \in BOOLEAN : Enter(r, "deliver", [findings |-> left, spent |-> TRUE])
     \/ \E error \in LlmErrors : EditorFails(r, error)
     \/ ~InPipeline(r) /\ Raise(r, "github")
  /\ Keep(<<row, circuit>>)

-----------------------------------------------------------------------------
(* The end of a job *)

\* post_review posts all, some or none; the runner then seeds the outcome rows.
\* The pipeline only counts a post that raised.
Deliver(r) ==
  /\ job[r].pc = "deliver"
  /\ \E posted \in {"all", "some", "none"} :
       IF InPipeline(r)
       THEN Conclude(r, IF job[r].degraded \/ posted = "none" THEN "partial" ELSE "done",
                     [degraded |-> job[r].degraded \/ posted = "none"])
       ELSE \/ Conclude(r, CASE posted = "all"  -> "done"
                             [] posted = "some" -> "partial"
                             [] posted = "none" -> IF job[r].findings THEN "partial" ELSE "failed",
                        [cause |-> IF posted = "none" THEN "github" ELSE "none"])
            \/ Raise(r, "database")
  /\ Keep(<<row, circuit>>)

\* A stage of the pipeline that is isolated degrades it: validation withholds
\* the findings it could not check.
StageDegrades(r) ==
  /\ InPipeline(r)
  /\ In(r, "editor")
  /\ Enter(r, "deliver", [findings |-> FALSE, degraded |-> TRUE])
  /\ Keep(<<row, circuit>>)

\* Mutant: only a review that succeeded is charged.
ChargeDone(r) ==
  /\ job[r].pc = "charge"
  /\ Update(r, [pc |-> "write",
                charged |-> job[r].charged
                  + (IF job[r].spent /\ job[r].outcome = "done" THEN 1 ELSE 0)])
  /\ Keep(<<row, circuit>>)

\* _mark_review_done charges the budget before it writes the row.
Charge(r) ==
  /\ job[r].pc = "charge"
  /\ Update(r, [pc |-> "write", charged |-> job[r].charged + (IF job[r].spent THEN 1 ELSE 0)])
  /\ Keep(<<row, circuit>>)

\* What follows the job's own write of its row: the runner blames a provider for
\* any exception, and the adapter marks a review failed again whose runner raised.
AfterHandler(r, written) ==
  IF /\ written /\ job[r].cause \notin {"superseded", "cancelled"} /\ ~InPipeline(r)
     /\ pipeline => job[r].delegated THEN "blame"
  ELSE IF ~written /\ job[r].delegated THEN "remark" ELSE "over"

Isolated(r) == InPipeline(r) /\ ~job[r].handler /\ job[r].cause # "draft"

Write(r) ==
  /\ job[r].pc = "write"
  /\ \/ /\ row' = [row EXCEPT ![r] = [status |-> job[r].outcome,
                                     named |-> IF job[r].configured /\ job[r].cause # "superseded"
                                               THEN case[r].config.default.provider
                                               ELSE @.named]]
        /\ Update(r, [pc |-> IF job[r].handler THEN AfterHandler(r, TRUE) ELSE "stamp"])
     \/ /\ IF Isolated(r) THEN Update(r, [pc |-> "served"])
           ELSE IF job[r].handler THEN Update(r, [pc |-> AfterHandler(r, FALSE)])
           ELSE Raise(r, "database")
        /\ UNCHANGED row
  /\ Keep(<<circuit>>)

\* last_used_at of the user's keys is a transaction of its own.
Stamp(r) ==
  /\ job[r].pc = "stamp"
  /\ \/ Update(r, [pc |-> "success"])
     \/ /\ job[r].outcome = "done"
        /\ IF Isolated(r) THEN Update(r, [pc |-> "served"]) ELSE Raise(r, "database")
  /\ Keep(<<row, circuit>>)

Runtime(r) == IF job[r].runtime = NoProvider THEN "anthropic" ELSE job[r].runtime

\* record_provider_success deletes both keys.
CloseCircuit(p) ==
  /\ failures' = [failures EXCEPT ![p] = 0]
  /\ open' = [open EXCEPT ![p] = FALSE]

Success(r) ==
  /\ job[r].pc = "success"
  /\ IF job[r].outcome = "done" THEN CloseCircuit(Runtime(r)) ELSE UNCHANGED circuit
  /\ Update(r, [pc |-> IF Isolated(r) THEN "served" ELSE "over"])
  /\ Keep(<<row>>)

\* The adapter records the model that answered as well.
Served(r) ==
  /\ job[r].pc = "served"
  /\ IF job[r].served # NoProvider /\ ~job[r].degraded
     THEN CloseCircuit(job[r].served) ELSE UNCHANGED circuit
  /\ Update(r, [pc |-> "over"])
  /\ Keep(<<row>>)

\* record_provider_failure counts, and from the threshold on sets the open key in
\* a later call.
Blame(r) ==
  /\ job[r].pc = "blame"
  /\ failures' = [failures EXCEPT ![Runtime(r)] = @ + 1]
  /\ Update(r, [pc |-> IF failures[Runtime(r)] + 1 >= Threshold THEN "trip"
                       ELSE IF job[r].delegated THEN "remark" ELSE "over"])
  /\ Keep(<<row, open>>)

Trip(r) ==
  /\ job[r].pc = "trip"
  /\ open' = [open EXCEPT ![Runtime(r)] = TRUE]
  /\ Update(r, [pc |-> IF job[r].delegated THEN "remark" ELSE "over"])
  /\ Keep(<<row, failures>>)

\* The adapter's handler of an exception of the runner it delegated to: its own
\* context has no tokens to charge.
Remark(r) ==
  /\ job[r].pc = "remark"
  /\ \/ WriteRow(r, "failed")
     \/ UNCHANGED row
  /\ Update(r, [pc |-> "over"])
  /\ Keep(<<circuit>>)

\* ARQ cancels the job: the runner marks its review failed, the pipeline worker
\* catches exceptions only and leaves the row as it is.
Cancel(r) ==
  /\ job[r].pc \notin {"idle", "over", "blame", "trip", "remark"}
  /\ ~job[r].handler
  /\ IF InPipeline(r) \/ job[r].pc = "adapter" THEN Update(r, [pc |-> "over", sent |-> <<>>])
     ELSE Conclude(r, "failed", [cause |-> "cancelled", handler |-> TRUE])
  /\ Keep(<<row, circuit>>)

\* The two keys expire on their own.
Expire(p) ==
  /\ \/ failures[p] > 0 /\ failures' = [failures EXCEPT ![p] = 0] /\ UNCHANGED open
     \/ open[p] /\ open' = [open EXCEPT ![p] = FALSE] /\ UNCHANGED failures
  /\ Keep(<<row, job>>)

Stage(r) ==
  Resolve(r) \/ FastPath(r) \/ Context(r) \/ Chunks(r) \/ ModelCall(r) \/ LoopStops(r)
  \/ Finalize(r) \/ ValidationRetry(r) \/ AttemptFails(r) \/ Editor(r) \/ StageDegrades(r) \/ Deliver(r)
Ending(r) ==
  Charge(r) \/ Write(r) \/ Stamp(r) \/ Success(r) \/ Served(r)
  \/ Blame(r) \/ Trip(r) \/ Remark(r) \/ Cancel(r)

Next ==
  \/ \E r \in Reviews : Submit(r) \/ Rerun(r) \/ Start(r) \/ AdapterSetup(r) \/ Fetch(r)
                        \/ Stage(r) \/ Ending(r)
  \/ \E p \in Providers : Expire(p)

Spec == Init /\ [][Next]_vars

-----------------------------------------------------------------------------
(* Properties *)

\* Every stage points into its chain, and a run charges its tokens at most twice:
\* when its row is written and when that write raised and the handler wrote it.
TypeOK ==
  /\ failures \in [Providers -> Nat] /\ open \in [Providers -> BOOLEAN]
  /\ \A r \in Reviews :
       /\ row[r].status \in {"none", "queued", "running"} \cup Ended
       /\ job[r].runtime \in Providers \cup {NoProvider}
       /\ job[r].charged \in 0 .. 2
       /\ job[r].attempts # <<>> => job[r].at \in 1 .. Len(job[r].attempts)

\* A provider rejects a transcript in which a tool call has no result right after
\* it, a result has no call, or a user message is empty.  Whatever the replies,
\* truncations, tool failures and early stops of the loop, what the next call of
\* the model sends is accepted.
TranscriptValid ==
  \A r \in Reviews : LET sent == job[r].sent IN
    \A k \in DOMAIN sent :
      /\ sent[k].calls # <<>> =>
           k < Len(sent) /\ Len(sent[k + 1].results) = Len(sent[k].calls)
      /\ sent[k].results # <<>> => k > 1 /\ Len(sent[k - 1].calls) = Len(sent[k].results)
      /\ sent[k].by = "user" => sent[k].text \/ sent[k].results # <<>>

\* Does provider p have a model the primary review may fall back to?
CanServe(r, p) ==
  LET asked == RoleConfig(case[r].config, "primary_review")
  IN \E k \in DOMAIN Catalog :
       /\ Catalog[k].provider = p /\ Catalog[k].live
       /\ \E t \in DOMAIN FallbackTiers(asked.tier) : FallbackTiers(asked.tier)[t] = Catalog[k].tier
       /\ ModelUsable(Catalog[k], asked.needs, case[r].tokens)

\* The models fail a review only when they failed it altogether: unless the
\* repository pinned a model without a fallback, every provider with a key in
\* the policy's order that has a usable model was tried and failed, and no
\* later stage (an editor that fails on every model) discards a result the
\* primary review had.  One call does: the validation retry of the runner, which
\* the pipeline does not have (runner.py:1452-1499).  Chunked reviews, whose
\* editor has no draft to fall back to, are out of it.
ModelFailureIsTotal ==
  \A r \in Reviews :
    LET tried == {job[r].attempts[k].provider : k \in 1 .. job[r].at}
    IN ~Chunked(r) =>
         /\ job[r].cause = "models" =>
              /\ job[r].served = NoProvider
              /\ Pinned(case[r].config, "primary_review") \/ \A p \in case[r].keys :
                   CanServe(r, p) /\ p \in ToSet(case[r].config.order) => p \in tried
         /\ job[r].cause = "retry" => ~InPipeline(r)

\* When a review has ended by its own job, whichever path of the runner, the pipeline or
\* the adapter wrote its last status, its tokens were presented to the daily budget.
NoFreeReviews ==
  \A r \in Reviews :
    job[r].pc = "over" /\ row[r].status \in Ended /\ job[r].spent => job[r].charged > 0

\* A row says done only if a model answered the primary review: degraded runs of
\* the pipeline show as partial.  Two kinds of review are done without an answer,
\* and post no finding: a pull request refused as too large, and a chunked one all of
\* whose chunks failed or were over the limits (runner.py:2411-2415, 2490-2503, 1194).
DoneMeansAnswered ==
  \A r \in Reviews :
    job[r].pc = "over" /\ row[r].status = "done" =>
      \/ job[r].served # NoProvider
      \/ ~job[r].findings /\ (Chunked(r) \/ (case[r].huge /\ ~case[r].chunking))
====
