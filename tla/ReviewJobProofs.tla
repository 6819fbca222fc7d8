---- MODULE ReviewJobProofs ----
(***************************************************************************)
(* Proofs about ReviewJob, for any catalog, cases of configuration, tool   *)
(* calls, numbers of turns and runs: that no review ends without its       *)
(* tokens on the daily budget, that "done" means a model answered, that    *)
(* every transcript is one the providers accept, that the models are       *)
(* blamed only when every provider that could serve was tried, and type    *)
(* correctness. Each step concerns one review, so the invariants are ones  *)
(* of a review (Good, Tries), and each action has a lemma that it keeps    *)
(* them. The chain of a stage is built by recursive functions over the     *)
(* tiers and over the order of the providers: they are unfolded into one   *)
(* fact per step, which a set of numbers closed under +1 (UpTo) carries to *)
(* the end.                                                                *)
(***************************************************************************)
EXTENDS ReviewJob, FiniteSetTheorems, WellFoundedInduction, TLAPS

-----------------------------------------------------------------------------
(* The inductive invariant *)

FieldNames == {"pc", "at", "runtime", "served", "findings", "sent", "retried", "degraded",
               "spent", "charged", "outcome", "cause", "attempts", "configured", "handler",
               "delegated"}

Stages == {"adapter", "fetch", "fast", "context", "chunks", "agent", "finalize", "retry",
           "editor", "deliver"}
Settled == {"stamp", "success", "served", "blame", "trip", "remark", "over"}

\* A job has its fields, an outcome when it comes to charge and write it.
Fields(r) ==
  /\ DOMAIN job[r] = FieldNames
  /\ job[r].pc \in {"idle", "charge", "write"} \union Stages \union Settled
  /\ job[r].runtime \in Providers \union {NoProvider}
  /\ job[r].served \in Providers \union {NoProvider}
  /\ job[r].handler \in BOOLEAN /\ job[r].spent \in BOOLEAN /\ job[r].degraded \in BOOLEAN
  /\ job[r].charged \in 0 .. 2
  /\ job[r].outcome \in Ended \union {"none"}
  /\ job[r].pc \in {"charge", "write"} => job[r].outcome \in Ended

\* A stage with a chain points into it, and the chain names providers.
Offers(chain) == {m \in ToSet(chain) : m.provider \in Providers}
Points(at, chain) ==
  /\ chain \in Seq(Offers(chain))
  /\ IF chain = <<>> THEN at = 1 ELSE at \in 1 .. Len(chain)
Chained(r) ==
  /\ Points(job[r].at, job[r].attempts)
  /\ job[r].pc \in {"finalize", "retry"} => job[r].attempts # <<>>

\* No stage runs on a row that has ended.
Rows(r) ==
  /\ DOMAIN row[r] = {"status", "named"}
  /\ row[r].status \in {"none", "queued", "running"} \union Ended
  /\ row[r].status = "none" => job[r].pc = "idle"
  /\ job[r].pc \in Stages => row[r].status \in {"queued", "running"}

\* Where the tokens of a run can be unpaid: in its stages and on the way to the
\* first charge.  A second charge needs an exception that reached the handler.
Paid(r) ==
  /\ job[r].pc = "idle" => ~job[r].spent
  /\ job[r].pc \in Stages => ~job[r].handler /\ job[r].charged = 0
  /\ job[r].pc = "charge" => job[r].charged <= IF job[r].handler THEN 1 ELSE 0
  /\ ~job[r].handler => job[r].charged <= 1
  /\ job[r].pc \in {"stamp", "success"} => ~job[r].handler
  /\ job[r].pc \in {"write", "stamp", "blame", "trip", "remark"} /\ job[r].spent =>
       job[r].charged > 0
  /\ job[r].pc \notin Stages /\ row[r].status \in Ended /\ job[r].spent => job[r].charged > 0

\* A review without an answer is of a huge pull request, or known to be degraded when it is
\* delivered.
HasAnswer(r) == job[r].served # NoProvider \/ case[r].huge
Excused(r) == Chunked(r) \/ (InPipeline(r) /\ job[r].degraded)
Answered(r) ==
  /\ job[r].pc = "chunks" => Chunked(r)
  /\ job[r].pc \in {"retry", "editor"} => job[r].served # NoProvider
  /\ job[r].pc = "deliver" => job[r].served # NoProvider \/ Excused(r)
  /\ job[r].outcome = "done" => HasAnswer(r)
  /\ job[r].pc # "idle" /\ row[r].status = "done" => HasAnswer(r)

Messages ==
  [by : {"system", "user", "assistant", "tool"}, text : BOOLEAN,
   calls : Seq(ToolCalls), results : Seq({"content", "failed"})]
Accepted(sent, k) ==
  /\ sent[k].calls # <<>> => k < Len(sent) /\ Len(sent[k + 1].results) = Len(sent[k].calls)
  /\ sent[k].results # <<>> => k > 1 /\ Len(sent[k - 1].calls) = Len(sent[k].results)
  /\ sent[k].by = "user" => sent[k].text \/ sent[k].results # <<>>
Valid(sent) == \A k \in DOMAIN sent : Accepted(sent, k)
Talks(r) == job[r].sent \in Seq(Messages) /\ Valid(job[r].sent)

Good(r) == Fields(r) /\ Chained(r) /\ Rows(r) /\ Paid(r) /\ Answered(r) /\ Talks(r)
\* What the record says of the models that were tried.  Until the job has its result nothing
\* is to blame; until the primary review (or the chunks) answered nobody served, and without
\* an answer there is no finding; the agent loop goes through the chain that was resolved for
\* it; the models are blamed, outside of chunked reviews, only at the end of that chain, and
\* the validation retry only where there is one.
Unserved == {"idle", "adapter", "fetch", "fast", "context", "chunks", "agent", "finalize"}
Primary(r) ==
  AttemptChain(case[r].config, "primary_review", case[r].tokens, case[r].keys, NoProvider)
Tries(r) ==
  /\ job[r].pc = "retry" \/ job[r].cause = "retry" => ~InPipeline(r)
  /\ job[r].findings = FALSE \/ job[r].served # NoProvider
  /\ job[r].pc \in Stages \union {"idle"} => job[r].cause = "none"
  /\ job[r].pc \in Unserved => job[r].served = NoProvider
  /\ job[r].pc \in {"agent", "finalize"} => job[r].attempts \in {<<>>, Primary(r)}
  /\ job[r].cause = "models" /\ ~Chunked(r) =>
       /\ job[r].served = NoProvider
       /\ job[r].attempts = Primary(r) /\ job[r].at = Len(Primary(r))

Shape ==
  /\ DOMAIN job = Reviews /\ DOMAIN row = Reviews
  /\ pipeline \in BOOLEAN /\ case \in [Reviews -> Cases]
Circuit == failures \in [Providers -> Nat] /\ open \in [Providers -> BOOLEAN]
JobInv == Shape /\ Circuit /\ \A r \in Reviews : Good(r)

-----------------------------------------------------------------------------
(* The fields of a job *)

\* A step of review r leaves the jobs, and the rows, of the others alone.
JobAside(r) == DOMAIN job' = Reviews /\ \A s \in Reviews \ {r} : job'[s] = job[s]
RowAside(r) == DOMAIN row' = Reviews /\ \A s \in Reviews \ {r} : row'[s] = row[s]

\* A step of one job changes the fields it names.
LEMMA UpdateFields ==
    ASSUME DOMAIN job = Reviews, NEW r \in Reviews, DOMAIN job[r] = FieldNames,
           NEW fields, DOMAIN fields \subseteq FieldNames, Update(r, fields)
    PROVE  /\ JobAside(r) /\ DOMAIN job'[r] = FieldNames
           /\ \A f \in FieldNames :
                job'[r][f] = IF f \in DOMAIN fields THEN fields[f] ELSE job[r][f]
  <1>1. job'[r] = With(job[r], fields) /\ JobAside(r)
    BY DEF Update, JobAside
  <1>2. QED
    BY <1>1 DEF With

LEMMA EnterFields ==
    ASSUME DOMAIN job = Reviews, NEW r \in Reviews, DOMAIN job[r] = FieldNames, NEW stage,
           NEW fields, DOMAIN fields \subseteq FieldNames \ {"pc", "at", "attempts"},
           Enter(r, stage, fields)
    PROVE  /\ JobAside(r) /\ DOMAIN job'[r] = FieldNames
           /\ job'[r].pc = stage /\ job'[r].at = 1 /\ job'[r].attempts = <<>>
           /\ \A f \in FieldNames \ {"pc", "at", "attempts"} :
                job'[r][f] = IF f \in DOMAIN fields THEN fields[f] ELSE job[r][f]
  <1> DEFINE base == [pc |-> stage, at |-> 1, attempts |-> <<>>]
             all == With(base, fields)
  <1>1. DOMAIN base = {"pc", "at", "attempts"}
    OBVIOUS
  <1>2. /\ DOMAIN all = {"pc", "at", "attempts"} \union DOMAIN fields
        /\ \A f \in DOMAIN all : all[f] = IF f \in DOMAIN fields THEN fields[f] ELSE base[f]
    <2> HIDE DEF base
    <2>1. QED
      BY <1>1 DEF With
  <1>3. all.pc = stage /\ all.at = 1 /\ all.attempts = <<>>
    <2>1. "pc" \in DOMAIN all /\ "at" \in DOMAIN all /\ "attempts" \in DOMAIN all
      BY <1>2
    <2>2. all.pc = base.pc /\ all.at = base.at /\ all.attempts = base.attempts
      <3> HIDE DEF base, all
      <3>1. QED
        BY <1>2, <2>1
    <2> HIDE DEF all
    <2>3. QED
      BY <2>2
  <1>4. Update(r, all) /\ DOMAIN all \subseteq FieldNames
    BY <1>2 DEF Enter, FieldNames
  <1> HIDE DEF all, base
  <1>5. /\ JobAside(r) /\ DOMAIN job'[r] = FieldNames
        /\ \A f \in FieldNames : job'[r][f] = IF f \in DOMAIN all THEN all[f] ELSE job[r][f]
    BY <1>4, UpdateFields
  <1>6. QED
    BY <1>2, <1>3, <1>5 DEF FieldNames

LEMMA ConcludeFields ==
    ASSUME DOMAIN job = Reviews, NEW r \in Reviews, DOMAIN job[r] = FieldNames, NEW status,
           NEW fields, DOMAIN fields \subseteq FieldNames \ {"pc", "outcome", "sent"},
           Conclude(r, status, fields)
    PROVE  /\ JobAside(r) /\ DOMAIN job'[r] = FieldNames
           /\ job'[r].pc = "charge" /\ job'[r].outcome = status /\ job'[r].sent = <<>>
           /\ \A f \in FieldNames \ {"pc", "outcome", "sent"} :
                job'[r][f] = IF f \in DOMAIN fields THEN fields[f] ELSE job[r][f]
  <1> DEFINE base == [pc |-> "charge", outcome |-> status, sent |-> <<>>]
             all == With(base, fields)
  <1>1. DOMAIN base = {"pc", "outcome", "sent"}
    OBVIOUS
  <1>2. /\ DOMAIN all = {"pc", "outcome", "sent"} \union DOMAIN fields
        /\ \A f \in DOMAIN all : all[f] = IF f \in DOMAIN fields THEN fields[f] ELSE base[f]
    <2> HIDE DEF base
    <2>1. QED
      BY <1>1 DEF With
  <1>3. all.pc = "charge" /\ all.outcome = status /\ all.sent = <<>>
    <2>1. "pc" \in DOMAIN all /\ "outcome" \in DOMAIN all /\ "sent" \in DOMAIN all
      BY <1>2
    <2>2. all.pc = base.pc /\ all.outcome = base.outcome /\ all.sent = base.sent
      <3> HIDE DEF base, all
      <3>1. QED
        BY <1>2, <2>1
    <2> HIDE DEF all
    <2>3. QED
      BY <2>2
  <1>4. Update(r, all) /\ DOMAIN all \subseteq FieldNames
    BY <1>2 DEF Conclude, FieldNames
  <1> HIDE DEF all, base
  <1>5. /\ JobAside(r) /\ DOMAIN job'[r] = FieldNames
        /\ \A f \in FieldNames : job'[r][f] = IF f \in DOMAIN all THEN all[f] ELSE job[r][f]
    BY <1>4, UpdateFields
  <1>6. QED
    BY <1>2, <1>3, <1>5 DEF FieldNames

-----------------------------------------------------------------------------
(* What a step of one review has to show *)

\* The step of review r leaves the others alone and keeps its own part.
Moves(r) ==
  /\ JobAside(r) /\ RowAside(r)
  /\ case' = case /\ pipeline' = pipeline
  /\ Good(r)'

LEMMA MovesKeep ==
    ASSUME Shape, \A s \in Reviews : Good(s), NEW r \in Reviews, Moves(r)
    PROVE  Shape' /\ \A s \in Reviews : Good(s)'
  <1>1. Shape'
    BY DEF Moves, Shape, JobAside, RowAside
  <1>2. ASSUME NEW s \in Reviews PROVE Good(s)'
    <2>1. CASE s = r
      BY <2>1 DEF Moves
    <2>2. CASE s # r
      <3>1. job'[s] = job[s] /\ row'[s] = row[s] /\ case' = case /\ pipeline' = pipeline
        BY <2>2 DEF Moves, Shape, JobAside, RowAside
      <3>2. InPipeline(s)' = InPipeline(s) /\ HasAnswer(s)' = HasAnswer(s)
        BY <3>1 DEF InPipeline, HasAnswer, Delegates
      <3>3. Good(s) /\ Chunked(s)' = Chunked(s) /\ Excused(s)' = Excused(s)
        BY <3>1, <3>2 DEF Excused, Chunked
      <3>4. QED
        BY <3>1, <3>2, <3>3 DEF Good, Fields, Chained, Rows, Paid, Answered, Talks
    <2>3. QED
      BY <2>1, <2>2
  <1>3. QED
    BY <1>1, <1>2

\* The job goes from a stage to a stage.
LEMMA InStage ==
    ASSUME Shape, NEW r \in Reviews, Good(r),
           JobAside(r), RowAside(r),
           case' = case, pipeline' = pipeline,
           job[r].pc \in Stages, job'[r].pc \in Stages,
           row'[r].status \in {"queued", "running"}, DOMAIN row'[r] = {"status", "named"},
           DOMAIN job'[r] = FieldNames,
           job'[r].handler = job[r].handler, job'[r].charged = job[r].charged,
           job'[r].outcome = job[r].outcome, job'[r].spent \in BOOLEAN,
           job'[r].degraded \in BOOLEAN,
           job'[r].runtime \in Providers \union {NoProvider},
           job'[r].served \in Providers \union {NoProvider},
           job[r].served # NoProvider => job'[r].served # NoProvider,
           job'[r].pc = "chunks" => Chunked(r),
           job'[r].pc \in {"retry", "editor"} => job'[r].served # NoProvider,
           job'[r].pc = "deliver" =>
             job'[r].served # NoProvider \/ Chunked(r) \/ (InPipeline(r) /\ job'[r].degraded),
           Chained(r)', Talks(r)'
    PROVE  Moves(r)
  <1>1. InPipeline(r)' = InPipeline(r) /\ Chunked(r)' = Chunked(r)
    BY DEF InPipeline, Delegates, Chunked
  <1>2. Fields(r)'
    BY DEF Good, Fields, Stages
  <1>3. Rows(r)'
    BY DEF Good, Rows, Stages
  <1>4. Paid(r)'
    BY DEF Good, Fields, Paid, Stages, Ended
  <1>5. Answered(r)'
    BY <1>1 DEF Good, Answered, HasAnswer, Excused, Ended
  <1>6. QED
    BY <1>2, <1>3, <1>4, <1>5 DEF Moves, Good

\* The job has its outcome: from a stage, or later because an exception reached
\* the handler for the first time.
LEMMA Concluded ==
    ASSUME Shape, NEW r \in Reviews, Good(r),
           JobAside(r), RowAside(r),
           case' = case, pipeline' = pipeline, DOMAIN job'[r] = FieldNames,
           row'[r].status = row[r].status
             \/ {row[r].status, row'[r].status} \subseteq {"queued", "running"},
           DOMAIN row'[r] = {"status", "named"},
           job'[r].pc = "charge", job'[r].outcome \in Ended, job'[r].sent = <<>>,
           job'[r].at = job[r].at, job'[r].attempts = job[r].attempts,
           job'[r].served = job[r].served, job'[r].charged = job[r].charged,
           job'[r].runtime \in Providers \union {NoProvider},
           job'[r].spent \in BOOLEAN, job'[r].degraded \in BOOLEAN, job'[r].handler \in BOOLEAN,
           \/ job[r].pc \in Stages
           \/ job[r].pc # "idle" /\ ~job[r].handler /\ job'[r].handler
              /\ job'[r].spent = job[r].spent,
           job'[r].outcome = "done" => HasAnswer(r)
    PROVE  Moves(r)
  <1>1. HasAnswer(r)' = HasAnswer(r)
    BY DEF HasAnswer
  <1>2. Fields(r)'
    BY DEF Good, Fields
  <1>3. Rows(r)'
    BY DEF Good, Rows, Stages
  <1>4. Paid(r)'
    BY DEF Good, Fields, Rows, Paid, Stages, Ended
  <1>5. Answered(r)'
    BY <1>1 DEF Good, Rows, Answered, Stages, Ended
  <1>6. Chained(r)' /\ Talks(r)'
    BY DEF Good, Chained, Points, Talks, Valid, Offers
  <1>7. QED
    BY <1>2, <1>3, <1>4, <1>5, <1>6 DEF Moves, Good

-----------------------------------------------------------------------------
(* The gate and the start *)

LEMMA RowSame ==
    ASSUME Shape, NEW r \in Reviews, row' = row
    PROVE  RowAside(r) /\ row'[r] = row[r]
  BY DEF Shape, RowAside

LEMMA RowWritten ==
    ASSUME Shape, NEW r \in Reviews, Good(r), NEW status, WriteRow(r, status)
    PROVE  RowAside(r) /\ row'[r].status = status /\ DOMAIN row'[r] = {"status", "named"}
  BY DEF Shape, RowAside, WriteRow, Good, Rows

\* A new job has spent nothing and sent nothing.
LEMMA FreshJob ==
    ASSUME Shape, NEW r \in Reviews, JobAside(r), RowAside(r), case' = case, pipeline' = pipeline,
           NEW pc \in {"idle", "adapter", "fetch"}, DOMAIN job'[r] = FieldNames,
           job'[r].pc = pc,
           \A f \in FieldNames \ {"pc"} : job'[r][f] = Idle[f],
           row'[r].status \in {"queued", "running"}, DOMAIN row'[r] = {"status", "named"}
    PROVE  Moves(r)
  <1>1. /\ job'[r].pc = pc /\ job'[r].at = 1 /\ job'[r].runtime = NoProvider
        /\ job'[r].served = NoProvider /\ job'[r].sent = <<>> /\ job'[r].degraded = FALSE
        /\ job'[r].spent = FALSE /\ job'[r].charged = 0 /\ job'[r].outcome = "none"
        /\ job'[r].attempts = <<>> /\ job'[r].handler = FALSE
    BY DEF FieldNames, Idle
  <1>2. Fields(r)'
    <2>1. job'[r].handler \in BOOLEAN /\ job'[r].spent \in BOOLEAN /\ job'[r].degraded \in BOOLEAN
      BY <1>1
    <2>2. job'[r].charged \in 0 .. 2 /\ pc \in {"idle", "charge", "write"} \union Stages
      BY <1>1 DEF Stages
    <2>3. QED
      BY <1>1, <2>1, <2>2 DEF Fields
  <1>3. Chained(r)' /\ Talks(r)'
    BY <1>1 DEF Chained, Points, Talks, Valid
  <1>4. Rows(r)' /\ Paid(r)' /\ Answered(r)'
    BY <1>1 DEF Rows, Paid, Answered, Stages, Ended, Settled
  <1>5. QED
    BY <1>2, <1>3, <1>4 DEF Moves, Good

LEMMA SubmitMoves ==
    ASSUME Shape, NEW r \in Reviews, Good(r), Submit(r)
    PROVE  Moves(r)
  <1>1. PICK status \in {"skipped", "queued"} : WriteRow(r, status)
    BY DEF Submit
  <1>2. job' = job /\ case' = case /\ pipeline' = pipeline /\ row[r].status = "none"
    BY DEF Submit, Keep
  <1>3. RowAside(r) /\ row'[r].status = status /\ DOMAIN row'[r] = {"status", "named"}
    BY <1>1, RowWritten
  <1>4. JobAside(r) /\ job'[r] = job[r] /\ job[r].pc = "idle" /\ job[r].spent = FALSE
    BY <1>2 DEF Shape, JobAside, Good, Rows, Paid, Fields
  <1>5. HasAnswer(r)' = HasAnswer(r)
    BY <1>2 DEF HasAnswer
  <1>6. Fields(r)' /\ Chained(r)' /\ Talks(r)'
    BY <1>4 DEF Good, Fields, Chained, Talks
  <1>7. Rows(r)' /\ Paid(r)'
    BY <1>3, <1>4 DEF Good, Rows, Paid, Ended, Stages
  <1>8. Answered(r)'
    BY <1>3, <1>4, <1>5 DEF Good, Answered
  <1>9. QED
    BY <1>2, <1>3, <1>4, <1>6, <1>7, <1>8 DEF Moves, Good

LEMMA RerunMoves ==
    ASSUME Shape, NEW r \in Reviews, Good(r), Rerun(r)
    PROVE  Moves(r)
  <1>1. WriteRow(r, "queued") /\ job' = [job EXCEPT ![r] = Idle]
        /\ case' = case /\ pipeline' = pipeline
    BY DEF Rerun, Keep
  <1>2. RowAside(r) /\ row'[r].status = "queued" /\ DOMAIN row'[r] = {"status", "named"}
    BY <1>1, RowWritten
  <1>3. JobAside(r) /\ job'[r] = Idle
    BY <1>1 DEF Shape, JobAside
  <1>4. DOMAIN Idle = FieldNames
    BY DEF Idle, FieldNames
  <1>5. Idle.pc = "idle"
    BY DEF Idle
  <1>6. QED
    BY <1>1, <1>2, <1>3, <1>4, <1>5, FreshJob

LEMMA StartMoves ==
    ASSUME Shape, NEW r \in Reviews, Good(r), Start(r)
    PROVE  Moves(r)
  <1>1. PICK pc \in {"adapter", "fetch"} : Update(r, [Idle EXCEPT !.pc = pc])
    BY DEF Start
  <1> DEFINE fields == [Idle EXCEPT !.pc = pc]
  <1>2. case' = case /\ pipeline' = pipeline
    BY DEF Start
  <1>3. DOMAIN fields = FieldNames
    BY DEF Idle, FieldNames
  <1>4. Update(r, fields)
    BY <1>1
  <1>5. /\ JobAside(r) /\ DOMAIN job'[r] = FieldNames
        /\ \A f \in FieldNames : job'[r][f] = fields[f]
    <2> HIDE DEF fields
    <2>1. QED
      BY <1>3, <1>4, UpdateFields DEF Shape, Good, Fields
  <1>6. RowAside(r) /\ row'[r].status \in {"queued", "running"} /\ DOMAIN row'[r] = {"status", "named"}
    <2>1. CASE WriteRow(r, "running")
      BY <2>1, RowWritten
    <2>2. CASE row' = row
      BY <2>2, RowSame DEF Start, Good, Rows
    <2>3. QED
      BY <2>1, <2>2 DEF Start
  <1>7. fields.pc = pc /\ \A f \in FieldNames \ {"pc"} : fields[f] = Idle[f]
    BY DEF Idle, FieldNames
  <1> HIDE DEF fields
  <1>8. job'[r].pc = pc /\ \A f \in FieldNames \ {"pc"} : job'[r][f] = Idle[f]
    BY <1>5, <1>7 DEF FieldNames
  <1>9. QED
    BY <1>2, <1>5, <1>6, <1>8, FreshJob

-----------------------------------------------------------------------------
(* The ways a stage leaves the stages *)

\* A stage has its outcome.
LEMMA ConcludeMoves ==
    ASSUME Shape, NEW r \in Reviews, Good(r), job[r].pc \in Stages,
           RowAside(r), case' = case, pipeline' = pipeline,
           row'[r].status \in {"queued", "running"}, DOMAIN row'[r] = {"status", "named"},
           NEW status \in Ended, status = "done" => HasAnswer(r),
           NEW fields,
           DOMAIN fields \subseteq {"cause", "handler", "configured", "runtime", "spent", "degraded"},
           "handler" \in DOMAIN fields => fields.handler \in BOOLEAN,
           "spent" \in DOMAIN fields => fields.spent \in BOOLEAN,
           "degraded" \in DOMAIN fields => fields.degraded \in BOOLEAN,
           "runtime" \in DOMAIN fields => fields.runtime \in Providers \union {NoProvider},
           Conclude(r, status, fields)
    PROVE  Moves(r)
  <1>1. /\ JobAside(r) /\ DOMAIN job'[r] = FieldNames
        /\ job'[r].pc = "charge" /\ job'[r].outcome = status /\ job'[r].sent = <<>>
        /\ \A f \in FieldNames \ {"pc", "outcome", "sent"} :
             job'[r][f] = IF f \in DOMAIN fields THEN fields[f] ELSE job[r][f]
    <2>1. DOMAIN fields \subseteq FieldNames \ {"pc", "outcome", "sent"}
      BY DEF FieldNames
    <2>2. QED
      BY <2>1, ConcludeFields DEF Shape, Good, Fields
  <1>2. /\ job'[r].at = job[r].at /\ job'[r].attempts = job[r].attempts
        /\ job'[r].served = job[r].served /\ job'[r].charged = job[r].charged
    BY <1>1 DEF FieldNames
  <1>3. /\ job'[r].runtime \in Providers \union {NoProvider}
        /\ job'[r].spent \in BOOLEAN /\ job'[r].degraded \in BOOLEAN /\ job'[r].handler \in BOOLEAN
    BY <1>1 DEF FieldNames, Good, Fields
  <1>4. row[r].status \in {"queued", "running"}
    BY DEF Good, Rows
  <1>5. QED
    BY <1>1, <1>2, <1>3, <1>4, Concluded

\* An exception leaves a stage.
LEMMA RaiseMoves ==
    ASSUME Shape, NEW r \in Reviews, Good(r), job[r].pc \in Stages, row' = row,
           case' = case, pipeline' = pipeline, NEW cause, NEW status \in Ended \ {"done"},
           Conclude(r, status, [cause |-> cause, handler |-> TRUE])
    PROVE  Moves(r)
  <1>1. /\ RowAside(r) /\ row'[r].status \in {"queued", "running"}
        /\ DOMAIN row'[r] = {"status", "named"}
    BY RowSame DEF Good, Rows
  <1> DEFINE fields == [cause |-> cause, handler |-> TRUE]
  <1>2. DOMAIN fields = {"cause", "handler"} /\ fields.handler = TRUE
    OBVIOUS
  <1> HIDE DEF fields
  <1>3. Conclude(r, status, fields)
    BY DEF fields
  <1>4. QED
    BY <1>1, <1>2, <1>3, ConcludeMoves

\* An exception after the stages reaches the handler, which none had before.
LEMMA LateRaiseMoves ==
    ASSUME Shape, NEW r \in Reviews, Good(r), job[r].pc # "idle", ~job[r].handler, row' = row,
           case' = case, pipeline' = pipeline, NEW cause,
           Conclude(r, "failed", [cause |-> cause, handler |-> TRUE])
    PROVE  Moves(r)
  <1>1. RowAside(r) /\ row'[r].status = row[r].status /\ DOMAIN row'[r] = {"status", "named"}
    BY RowSame DEF Good, Rows
  <1> DEFINE fields == [cause |-> cause, handler |-> TRUE]
  <1>2. DOMAIN fields = {"cause", "handler"} /\ fields.handler = TRUE
    OBVIOUS
  <1>3. DOMAIN fields \subseteq FieldNames \ {"pc", "outcome", "sent"}
    BY <1>2 DEF FieldNames
  <1> HIDE DEF fields
  <1>4. Conclude(r, "failed", fields)
    BY DEF fields
  <1>5. /\ JobAside(r) /\ DOMAIN job'[r] = FieldNames
        /\ job'[r].pc = "charge" /\ job'[r].outcome = "failed" /\ job'[r].sent = <<>>
        /\ \A f \in FieldNames \ {"pc", "outcome", "sent"} :
             job'[r][f] = IF f \in DOMAIN fields THEN fields[f] ELSE job[r][f]
    BY <1>3, <1>4, ConcludeFields DEF Shape, Good, Fields
  <1>6. /\ job'[r].at = job[r].at /\ job'[r].attempts = job[r].attempts
        /\ job'[r].served = job[r].served /\ job'[r].charged = job[r].charged
        /\ job'[r].runtime = job[r].runtime /\ job'[r].spent = job[r].spent
        /\ job'[r].degraded = job[r].degraded /\ job'[r].handler = TRUE
    BY <1>2, <1>5 DEF FieldNames
  <1>7. job'[r].outcome \in Ended /\ job'[r].outcome # "done"
    BY <1>5 DEF Ended
  <1>8. /\ job'[r].runtime \in Providers \union {NoProvider}
        /\ job'[r].spent \in BOOLEAN /\ job'[r].degraded \in BOOLEAN /\ job'[r].handler \in BOOLEAN
    BY <1>6 DEF Good, Fields
  <1>9. job'[r].handler
    BY <1>6
  <1>10. QED
    BY <1>1, <1>5, <1>6, <1>7, <1>8, <1>9, Concluded

LEMMA CancelMoves ==
    ASSUME Shape, NEW r \in Reviews, Good(r), Cancel(r)
    PROVE  Moves(r)
  <1>1. /\ job[r].pc \notin {"idle", "over", "blame", "trip", "remark"} /\ ~job[r].handler
        /\ row' = row /\ case' = case /\ pipeline' = pipeline
    BY DEF Cancel, Keep
  <1>2. CASE Conclude(r, "failed", [cause |-> "cancelled", handler |-> TRUE])
    BY <1>1, <1>2, LateRaiseMoves
  <1>3. CASE Update(r, [pc |-> "over", sent |-> <<>>])
    <2> DEFINE fields == [pc |-> "over", sent |-> <<>>]
    <2>1. DOMAIN fields = {"pc", "sent"} /\ fields.pc = "over" /\ fields.sent = <<>>
      OBVIOUS
    <2> HIDE DEF fields
    <2>2. Update(r, fields)
      BY <1>3 DEF fields
    <2>3. /\ JobAside(r) /\ DOMAIN job'[r] = FieldNames
          /\ \A f \in FieldNames :
               job'[r][f] = IF f \in DOMAIN fields THEN fields[f] ELSE job[r][f]
      BY <2>1, <2>2, UpdateFields DEF Shape, Good, Fields, FieldNames
    <2>4. /\ job'[r].pc = "over" /\ job'[r].sent = <<>> /\ job'[r].at = job[r].at
          /\ job'[r].attempts = job[r].attempts /\ job'[r].served = job[r].served
          /\ job'[r].charged = job[r].charged /\ job'[r].runtime = job[r].runtime
          /\ job'[r].spent = job[r].spent /\ job'[r].degraded = job[r].degraded
          /\ job'[r].handler = job[r].handler /\ job'[r].outcome = job[r].outcome
      BY <2>1, <2>3 DEF FieldNames
    <2>5. RowAside(r) /\ row'[r] = row[r]
      BY <1>1, RowSame
    <2>6. HasAnswer(r)' = HasAnswer(r)
      BY <1>1, <2>4 DEF HasAnswer
    <2>7. Fields(r)' /\ Rows(r)'
      BY <1>1, <2>3, <2>4, <2>5 DEF Good, Fields, Rows, Stages, Settled
    <2>8. Paid(r)'
      BY <1>1, <2>4, <2>5 DEF Good, Fields, Rows, Paid, Stages, Ended
    <2>9. Answered(r)'
      BY <1>1, <2>4, <2>5, <2>6 DEF Good, Answered
    <2>10. Chained(r)' /\ Talks(r)'
      BY <2>4 DEF Good, Chained, Points, Talks, Valid, Offers
    <2>11. QED
      BY <1>1, <2>3, <2>5, <2>7, <2>8, <2>9, <2>10 DEF Moves, Good
  <1>4. QED
    BY <1>2, <1>3 DEF Cancel

-----------------------------------------------------------------------------
(* The ways a stage goes on *)

\* What field f of the job is once the fields are written.
After(r, fields, f) == IF f \in DOMAIN fields THEN fields[f] ELSE job[r][f]

LEMMA EnterMoves ==
    ASSUME Shape, NEW r \in Reviews, Good(r), job[r].pc \in Stages,
           RowAside(r), case' = case, pipeline' = pipeline,
           row'[r].status \in {"queued", "running"}, DOMAIN row'[r] = {"status", "named"},
           NEW stage \in Stages \ {"finalize", "retry"}, NEW fields,
           DOMAIN fields \subseteq
             {"runtime", "served", "findings", "sent", "degraded", "spent", "configured"},
           After(r, fields, "runtime") \in Providers \union {NoProvider},
           After(r, fields, "spent") \in BOOLEAN, After(r, fields, "degraded") \in BOOLEAN,
           "served" \in DOMAIN fields => fields.served \in Providers,
           "sent" \in DOMAIN fields => fields.sent = <<>>,
           stage = "chunks" => Chunked(r),
           stage = "editor" => After(r, fields, "served") # NoProvider,
           stage = "deliver" =>
             \/ After(r, fields, "served") # NoProvider
             \/ Chunked(r) \/ (InPipeline(r) /\ After(r, fields, "degraded")),
           Enter(r, stage, fields)
    PROVE  Moves(r)
  <1>1. /\ JobAside(r) /\ DOMAIN job'[r] = FieldNames
        /\ job'[r].pc = stage /\ job'[r].at = 1 /\ job'[r].attempts = <<>>
        /\ \A f \in FieldNames \ {"pc", "at", "attempts"} :
             job'[r][f] = IF f \in DOMAIN fields THEN fields[f] ELSE job[r][f]
    <2>1. DOMAIN fields \subseteq FieldNames \ {"pc", "at", "attempts"}
      BY DEF FieldNames
    <2>2. QED
      BY <2>1, EnterFields DEF Shape, Good, Fields
  <1>2. /\ job'[r].handler = job[r].handler /\ job'[r].charged = job[r].charged
        /\ job'[r].outcome = job[r].outcome
    BY <1>1 DEF FieldNames
  <1>3. /\ job'[r].runtime = After(r, fields, "runtime")
        /\ job'[r].spent = After(r, fields, "spent")
        /\ job'[r].degraded = After(r, fields, "degraded")
        /\ job'[r].served = After(r, fields, "served")
        /\ job'[r].sent = After(r, fields, "sent")
    BY <1>1 DEF FieldNames, After
  <1>4. /\ job'[r].served \in Providers \union {NoProvider}
        /\ job[r].served # NoProvider => job'[r].served # NoProvider
    BY <1>3, JobAssumption DEF After, Good, Fields
  <1>5. Chained(r)'
    BY <1>1 DEF Chained, Points
  <1>6. job'[r].sent = <<>> \/ job'[r].sent = job[r].sent
    BY <1>3 DEF After
  <1>7. Talks(r)'
    <2>1. CASE job'[r].sent = <<>>
      BY <2>1 DEF Talks, Valid
    <2>2. CASE job'[r].sent = job[r].sent
      BY <2>2 DEF Good, Talks
    <2>3. QED
      BY <1>6, <2>1, <2>2
  <1>8. QED
    BY <1>1, <1>2, <1>3, <1>4, <1>5, <1>7, InStage

LEMMA UpdateMoves ==
    ASSUME Shape, NEW r \in Reviews, Good(r), job[r].pc \in Stages,
           RowAside(r), case' = case, pipeline' = pipeline,
           row'[r].status \in {"queued", "running"}, DOMAIN row'[r] = {"status", "named"},
           NEW fields,
           DOMAIN fields \subseteq
             {"pc", "at", "attempts", "runtime", "sent", "retried", "spent", "configured",
              "delegated"},
           After(r, fields, "pc") \in Stages,
           After(r, fields, "pc") \in {"chunks", "retry", "editor", "deliver"} =>
             After(r, fields, "pc") = job[r].pc,
           After(r, fields, "pc") \in {"finalize", "retry"} =>
             After(r, fields, "attempts") # <<>>,
           Points(After(r, fields, "at"), After(r, fields, "attempts")),
           After(r, fields, "runtime") \in Providers \union {NoProvider},
           After(r, fields, "spent") \in BOOLEAN,
           After(r, fields, "sent") \in Seq(Messages), Valid(After(r, fields, "sent")),
           Update(r, fields)
    PROVE  Moves(r)
  <1>1. /\ JobAside(r) /\ DOMAIN job'[r] = FieldNames
        /\ \A f \in FieldNames : job'[r][f] = After(r, fields, f)
    <2>1. DOMAIN fields \subseteq FieldNames
      BY DEF FieldNames
    <2>2. QED
      BY <2>1, UpdateFields DEF Shape, Good, Fields, After
  <1>2. /\ job'[r].handler = job[r].handler /\ job'[r].charged = job[r].charged
        /\ job'[r].outcome = job[r].outcome /\ job'[r].served = job[r].served
        /\ job'[r].degraded = job[r].degraded
    BY <1>1 DEF FieldNames, After
  <1>3. /\ job'[r].pc = After(r, fields, "pc") /\ job'[r].at = After(r, fields, "at")
        /\ job'[r].attempts = After(r, fields, "attempts")
        /\ job'[r].runtime = After(r, fields, "runtime")
        /\ job'[r].spent = After(r, fields, "spent")
        /\ job'[r].sent = After(r, fields, "sent")
    BY <1>1 DEF FieldNames
  <1>4. /\ job'[r].degraded \in BOOLEAN /\ job'[r].served \in Providers \union {NoProvider}
    BY <1>2 DEF Good, Fields
  <1>5. /\ job'[r].pc = "chunks" => Chunked(r)
        /\ job'[r].pc \in {"retry", "editor"} => job'[r].served # NoProvider
        /\ job'[r].pc = "deliver" =>
             job'[r].served # NoProvider \/ Chunked(r) \/ (InPipeline(r) /\ job'[r].degraded)
    BY <1>2, <1>3 DEF Good, Answered, Excused
  <1>6. Chained(r)'
    BY <1>3 DEF Chained
  <1>7. Talks(r)'
    BY <1>3 DEF Talks
  <1>8. QED
    BY <1>1, <1>2, <1>3, <1>4, <1>5, <1>6, <1>7, InStage

-----------------------------------------------------------------------------
(* The best candidate of a tier *)

\* A set that holds 0 and is closed under +1 below N holds every number up to N.
LEMMA UpTo ==
    ASSUME NEW N \in Nat, NEW S, 0 \in S, \A n \in 0 .. (N - 1) : n \in S => n + 1 \in S
    PROVE  \A n \in 0 .. N : n \in S
  <1> DEFINE Bad == {n \in 0 .. N : n \notin S}
             R == {ss \in Nat \X Nat : ss[1] < ss[2]}
  <1> SUFFICES ASSUME Bad # {} PROVE FALSE
    OBVIOUS
  <1>1. IsWellFoundedOn(R, Nat)
    BY NatLessThanWellFounded, Zenon DEF OpToRel
  <1>2. Bad \in SUBSET Nat
    OBVIOUS
  <1>3. PICK m \in Bad : \A n \in Bad : <<n, m>> \notin R
    <2> HIDE DEF R, Bad
    <2>1. QED
      BY <1>1, <1>2, WFMin
  <1>4. m \in 0 .. N /\ m \notin S /\ m # 0
    BY <1>3
  <1>5. m - 1 \in 0 .. (N - 1) /\ m - 1 \in 0 .. N /\ m - 1 \in Nat /\ m - 1 < m /\ m \in Nat
    BY <1>4
  <1>6. <<m - 1, m>> \in R
    BY <1>5
  <1>7. m - 1 \in S
    BY <1>3, <1>5, <1>6
  <1>8. (m - 1) + 1 \in S /\ (m - 1) + 1 = m
    BY <1>4, <1>5, <1>7
  <1>9. QED
    BY <1>4, <1>8

LEMMA CatalogIsSeq == Len(Catalog) \in Nat /\ DOMAIN Catalog = 1 .. Len(Catalog)
  BY CatalogAssumption

LEMMA PreferenceIsNumber ==
    ASSUME NEW order, order \in Seq(ToSet(order)), NEW p
    PROVE  Preference(order, p) \in Int
  <1> DEFINE First(k) == order[k] = p /\ \A l \in 1 .. k - 1 : order[l] # p
             N == Len(order)
             S == {n \in 0 .. N : (\E k \in 1 .. n : order[k] = p) => \E k \in 1 .. n : First(k)}
  <1>1. N \in Nat /\ DOMAIN order = 1 .. N
    OBVIOUS
  <1> HIDE DEF N
  <1>2. 0 \in S
    BY <1>1
  <1>3. ASSUME NEW n \in 0 .. (N - 1), n \in S PROVE n + 1 \in S
    <2>1. n + 1 \in 0 .. N /\ \A k \in 1 .. n : k \in 1 .. (n + 1)
      BY <1>1
    <2>2. CASE \E k \in 1 .. n : order[k] = p
      <3>1. \E k \in 1 .. n : First(k)
        BY <1>3, <2>2
      <3> HIDE DEF First
      <3>2. QED
        BY <2>1, <3>1
    <2>3. CASE ~\E k \in 1 .. n : order[k] = p
      <3>1. \A k \in 1 .. (n + 1) : k \notin 1 .. n => k = n + 1
        BY <1>1
      <3>2. (n + 1) - 1 = n /\ n + 1 \in 1 .. (n + 1)
        BY <1>1
      <3>3. order[n + 1] = p => First(n + 1)
        BY <2>3, <3>2
      <3> HIDE DEF First
      <3>4. QED
        BY <2>1, <2>3, <3>1, <3>2, <3>3
    <2>4. QED
      BY <2>2, <2>3
  <1>4. N \in S
    <2>1. N \in 0 .. N
      BY <1>1
    <2> HIDE DEF S
    <2>2. QED
      BY <1>1, <1>2, <1>3, <2>1, UpTo
  <1>5. CASE \E k \in DOMAIN order : order[k] = p
    <2>1. \E k \in DOMAIN order : First(k)
      BY <1>1, <1>4, <1>5
    <2>2. (CHOOSE k \in DOMAIN order : First(k)) \in DOMAIN order
      <3> HIDE DEF First
      <3>1. QED
        BY <2>1, Zenon
    <2>3. Preference(order, p) = CHOOSE k \in DOMAIN order : First(k)
      BY <1>5, Zenon DEF Preference
    <2>4. QED
      BY <1>1, <2>2, <2>3
  <1>6. CASE ~\E k \in DOMAIN order : order[k] = p
    BY <1>1, <1>6 DEF Preference, N
  <1>7. QED
    BY <1>5, <1>6

\* What decides between two entries of the catalog before their places do.
Price(order, cheapest, k) ==
  1000 * (IF cheapest THEN Catalog[k].price ELSE Preference(order, Catalog[k].provider))
    - ScoreModel(Catalog[k])

LEMMA PriceIsNumber ==
    ASSUME NEW order, order \in Seq(ToSet(order)), NEW cheapest, NEW k \in DOMAIN Catalog
    PROVE  Price(order, cheapest, k) \in Int
  <1>1. Catalog[k].price \in Int /\ Catalog[k].score \in Int
    BY CatalogAssumption
  <1>2. Preference(order, Catalog[k].provider) \in Int
    BY PreferenceIsNumber
  <1>3. ScoreModel(Catalog[k]) \in Int
    BY <1>1 DEF ScoreModel
  <1>4. QED
    BY <1>1, <1>2, <1>3 DEF Price

LEMMA BetterByPrice ==
    ASSUME NEW order, NEW cheapest, NEW j, NEW k
    PROVE  Better(order, cheapest, j, k) <=>
             \/ Price(order, cheapest, k) - Price(order, cheapest, j) > 0
             \/ Price(order, cheapest, k) - Price(order, cheapest, j) = 0 /\ j < k
  BY DEF Better, Price

\* Among some entries of the catalog one is better than all the others.
LEMMA BestExists ==
    ASSUME NEW order, order \in Seq(ToSet(order)), NEW cheapest,
           NEW usable \in SUBSET DOMAIN Catalog, usable # {}
    PROVE  \E b \in usable : \A l \in usable \ {b} : Better(order, cheapest, b, l)
  <1> DEFINE N == Len(Catalog)
             Of(k) == Price(order, cheapest, k)
             Best(b, n) == \A l \in usable : l <= n /\ l # b => Better(order, cheapest, b, l)
             S == {n \in 0 .. N : (\E k \in usable : k <= n) =>
                                    \E b \in usable : b <= n /\ Best(b, n)}
  <1>1. N \in Nat /\ DOMAIN Catalog = 1 .. N
    BY CatalogIsSeq
  <1>2. \A k \in 1 .. N : Of(k) \in Int
    BY <1>1, PriceIsNumber
  <1>3. \A j, k \in 1 .. N : Better(order, cheapest, j, k) <=>
                               Of(k) - Of(j) > 0 \/ (Of(k) - Of(j) = 0 /\ j < k)
    BY BetterByPrice
  <1> HIDE DEF N, Of
  <1>4. \A j, k, l \in 1 .. N :
          /\ Better(order, cheapest, j, k) \/ Better(order, cheapest, k, j) \/ j = k
          /\ Better(order, cheapest, j, k) /\ Better(order, cheapest, k, l)
               => Better(order, cheapest, j, l)
    <2>1. ASSUME NEW j \in 1 .. N, NEW k \in 1 .. N
          PROVE  Better(order, cheapest, j, k) \/ Better(order, cheapest, k, j) \/ j = k
      BY <1>1, <1>2, <1>3
    <2>2. ASSUME NEW j \in 1 .. N, NEW k \in 1 .. N, NEW l \in 1 .. N,
                 Better(order, cheapest, j, k), Better(order, cheapest, k, l)
          PROVE  Better(order, cheapest, j, l)
      <3>1. Of(k) - Of(j) > 0 \/ (Of(k) - Of(j) = 0 /\ j < k)
        BY <1>3, <2>2
      <3>2. Of(l) - Of(k) > 0 \/ (Of(l) - Of(k) = 0 /\ k < l)
        BY <1>3, <2>2
      <3>3. Of(l) - Of(j) > 0 \/ (Of(l) - Of(j) = 0 /\ j < l)
        BY <1>1, <1>2, <3>1, <3>2
      <3>4. QED
        BY <1>3, <3>3
    <2>3. QED
      BY <2>1, <2>2
  <1>5. 0 \in S
    BY <1>1
  <1>6. ASSUME NEW n \in 0 .. (N - 1), n \in S PROVE n + 1 \in S
    <2>1. n + 1 \in 0 .. N /\ n + 1 \in 1 .. N
      BY <1>1
    <2>2. \A l \in usable : l \in 1 .. N /\ (l <= n + 1 => l <= n \/ l = n + 1)
      BY <1>1
    <2>3. SUFFICES ASSUME \E k \in usable : k <= n + 1
                   PROVE  \E b \in usable : b <= n + 1 /\ Best(b, n + 1)
      BY <2>1
    <2>4. CASE \E k \in usable : k <= n
      <3>1. PICK b \in usable : b <= n /\ Best(b, n)
        BY <1>6, <2>4
      <3>2. b <= n + 1 /\ b \in 1 .. N
        BY <1>1, <2>2, <3>1
      <3>3. CASE n + 1 \notin usable
        BY <2>2, <3>1, <3>2, <3>3
      <3>4. CASE n + 1 \in usable /\ Better(order, cheapest, b, n + 1)
        BY <2>2, <3>1, <3>2, <3>4
      <3>5. CASE n + 1 \in usable /\ Better(order, cheapest, n + 1, b)
        <4>1. n + 1 <= n + 1
          BY <2>1
        <4>2. Best(n + 1, n + 1)
          BY <1>4, <2>1, <2>2, <3>1, <3>2, <3>5
        <4> HIDE DEF Best
        <4>3. QED
          BY <3>5, <4>1, <4>2
      <3>6. b # n + 1
        BY <1>1, <3>1
      <3>7. QED
        BY <1>4, <2>1, <3>2, <3>3, <3>4, <3>5, <3>6
    <2>5. CASE ~\E k \in usable : k <= n
      <3>1. n + 1 \in usable /\ n + 1 <= n + 1
        BY <2>1, <2>2, <2>3, <2>5
      <3>2. Best(n + 1, n + 1)
        BY <2>2, <2>5
      <3> HIDE DEF Best
      <3>3. QED
        BY <3>1, <3>2
    <2>6. QED
      BY <2>4, <2>5
  <1>7. N \in S
    <2>1. N \in 0 .. N
      BY <1>1
    <2> HIDE DEF S
    <2>2. QED
      BY <1>1, <1>5, <1>6, <2>1, UpTo
  <1>8. \A k \in usable : k <= N
    BY <1>1
  <1>9. PICK b \in usable : Best(b, N)
    BY <1>7, <1>8
  <1>10. QED
    BY <1>8, <1>9

\* The models the catalog names.
Listed == {[provider |-> Catalog[k].provider, model |-> Catalog[k].model] : k \in DOMAIN Catalog}

\* A tier has a best candidate if a provider has a usable model in it.
CanOffer(tier, needs, tokens, p) ==
  \E k \in DOMAIN Catalog :
    /\ Catalog[k].provider = p /\ Catalog[k].live /\ Catalog[k].tier = tier
    /\ ModelUsable(Catalog[k], needs, tokens)

LEMMA BestCandidateIsOne ==
    ASSUME NEW config, config.order \in Seq(ToSet(config.order)), NEW role, NEW tier, NEW needs,
           NEW tokens, NEW providers
    PROVE  LET best == BestCandidate(config, role, tier, needs, tokens, providers)
           IN /\ best # NoModel => best \in Listed /\ best.provider \in providers \cap Providers
              /\ \A p \in providers : CanOffer(tier, needs, tokens, p) => best # NoModel
  <1> DEFINE usable == {k \in DOMAIN Catalog :
                          /\ Catalog[k].live /\ Catalog[k].provider \in providers
                          /\ Catalog[k].tier = tier /\ ModelUsable(Catalog[k], needs, tokens)}
             cheapest == role = "fast_path" /\ tier = "economy"
             b == CHOOSE k \in usable : \A l \in usable \ {k} : Better(config.order, cheapest, k, l)
             model == [provider |-> Catalog[b].provider, model |-> Catalog[b].model]
  <1>1. BestCandidate(config, role, tier, needs, tokens, providers)
          = IF usable = {} THEN NoModel ELSE model
    BY Zenon DEF BestCandidate
  <1>2. usable # {} => b \in usable
    <2>1. usable \in SUBSET DOMAIN Catalog
      OBVIOUS
    <2> HIDE DEF usable, cheapest
    <2>2. QED
      BY <2>1, BestExists
  <1>3. \A p \in providers : CanOffer(tier, needs, tokens, p) => usable # {}
    BY DEF CanOffer
  <1>4. usable # {} =>
          /\ b \in DOMAIN Catalog /\ Catalog[b].provider \in providers
    BY <1>2
  <1> HIDE DEF usable, b
  <1>5. usable # {} => /\ model \in Listed /\ model # NoModel
                       /\ model.provider = Catalog[b].provider
                       /\ Catalog[b].provider \in providers \cap Providers
    BY <1>4, CatalogAssumption DEF Listed, Providers
  <1> HIDE DEF model
  <1>6. QED
    BY <1>1, <1>3, <1>5

-----------------------------------------------------------------------------
(* The chain of a stage *)

\* A chain is a list of models of known providers.
IsChain(chain) ==
  /\ chain \in Seq(ToSet(chain)) /\ chain # <<>>
  /\ \A m \in ToSet(chain) : m.provider \in Providers

LEMMA ResolvedModel ==
    ASSUME NEW c \in Cases, NEW stage \in DOMAIN StageRole, NEW previous
    PROVE  ResolveModel(c.config, StageRole[stage], c.tokens, c.keys, previous).provider
             \in Providers
  <1> DEFINE role == StageRole[stage]
             pin == ExplicitModel(c.config, role)
             asked == RoleConfig(c.config, role)
             from == (c.keys \cap asked.only) \ (IF asked.diverse THEN {previous} ELSE {})
             best == BestCandidate(c.config, role, asked.tier, asked.needs, c.tokens, from)
             models == <<best, pin, c.config.default>>
             Is(k) == models[k] # NoModel /\ \A j \in 1 .. k - 1 : models[j] = NoModel
  <1>1. /\ c.config.order \in Seq(ToSet(c.config.order))
        /\ c.config.default # NoModel /\ c.config.default.provider \in Providers
        /\ pin # NoModel => pin.provider \in Providers
    BY CasesAssumption
  <1>2. best # NoModel => best.provider \in Providers
    BY <1>1, BestCandidateIsOne
  <1>3. ResolveModel(c.config, role, c.tokens, c.keys, previous) \in {pin, FirstOf(models)}
        /\ (ResolveModel(c.config, role, c.tokens, c.keys, previous) = pin => 
              pin # NoModel \/ ResolveModel(c.config, role, c.tokens, c.keys, previous)
                                 = FirstOf(models))
    BY Zenon DEF ResolveModel
  <1> HIDE DEF best, pin
  <1>4. /\ DOMAIN models = 1 .. 3 /\ models[1] = best /\ models[2] = pin
        /\ models[3] = c.config.default
    OBVIOUS
  <1> HIDE DEF models
  <1>5. \E k \in DOMAIN models : Is(k)
    <2>1. CASE best # NoModel
      <3>1. 1 \in DOMAIN models /\ Is(1)
        BY <1>4, <2>1
      <3> HIDE DEF Is
      <3>2. QED
        BY <3>1
    <2>2. CASE best = NoModel /\ pin # NoModel
      <3>1. 2 \in DOMAIN models /\ Is(2)
        BY <1>4, <2>2
      <3> HIDE DEF Is
      <3>2. QED
        BY <3>1
    <2>3. CASE best = NoModel /\ pin = NoModel
      <3>1. \A j \in 1 .. 3 - 1 : j = 1 \/ j = 2
        OBVIOUS
      <3>2. 3 \in DOMAIN models /\ Is(3)
        BY <1>1, <1>4, <2>3, <3>1
      <3> HIDE DEF Is
      <3>3. QED
        BY <3>2
    <2>4. QED
      BY <2>1, <2>2, <2>3
  <1>6. PICK k \in DOMAIN models : Is(k) /\ FirstOf(models) = models[k]
    <2>1. FirstOf(models) = models[CHOOSE k \in DOMAIN models : Is(k)]
      BY Zenon DEF FirstOf
    <2> HIDE DEF Is
    <2>2. QED
      BY <1>5, <2>1, Zenon
  <1>7. FirstOf(models) \in {best, pin, c.config.default} \ {NoModel}
    <2>1. k = 1 \/ k = 2 \/ k = 3
      BY <1>4
    <2>2. QED
      BY <1>4, <1>6, <2>1
  <1>8. FirstOf(models).provider \in Providers
    BY <1>1, <1>2, <1>7
  <1>9. QED
    BY <1>1, <1>3, <1>8

LEMMA WithOfferKeeps ==
    ASSUME NEW chain, IsChain(chain), NEW m, m # NoModel => m.provider \in Providers
    PROVE  /\ IsChain(WithOffer(chain, m)) /\ ToSet(chain) \subseteq ToSet(WithOffer(chain, m))
           /\ m # NoModel => m \in ToSet(WithOffer(chain, m))
  <1>1. CASE m \in {NoModel} \cup ToSet(chain)
    BY <1>1 DEF WithOffer
  <1>2. CASE m \notin {NoModel} \cup ToSet(chain)
    <2> DEFINE longer == Append(chain, m)
               n == Len(chain)
    <2>1. WithOffer(chain, m) = longer
      BY <1>2 DEF WithOffer
    <2>2. n \in Nat /\ DOMAIN chain = 1 .. n /\ chain \in Seq(ToSet(chain))
      BY DEF IsChain
    <2>3. /\ DOMAIN longer = 1 .. n + 1 /\ longer[n + 1] = m /\ longer # <<>>
          /\ \A i \in 1 .. n : longer[i] = chain[i]
          /\ longer \in Seq(ToSet(chain) \cup {m})
      BY <2>2
    <2> HIDE DEF longer, n
    <2>4. ToSet(longer) = ToSet(chain) \cup {m}
      <3>1. n + 1 \in 1 .. n + 1 /\ \A i \in 1 .. n + 1 : i \in 1 .. n \/ i = n + 1
        BY <2>2
      <3>2. \A i \in 1 .. n : i \in 1 .. n + 1
        BY <2>2
      <3>3. QED
        BY <2>2, <2>3, <3>1, <3>2 DEF ToSet
    <2>5. QED
      BY <1>2, <2>1, <2>3, <2>4 DEF IsChain
  <1>3. QED
    BY <1>1, <1>2

\* What one provider is asked for in one tier.
OfferOf(config, role, tier, tokens, available, p) ==
  IF p \in available
  THEN BestCandidate(config, role, tier, RoleConfig(config, role).needs, tokens, {p}) ELSE NoModel

\* One provider of the order after the other.
LEMMA WithTierUnfolds ==
    ASSUME NEW config, Len(config.order) \in Nat, NEW role, NEW tier, NEW tokens, NEW available,
           NEW chain
    PROVE  \E g :
             /\ g[0] = chain
             /\ WithTier(config, role, tier, tokens, available, chain) = g[Len(config.order)]
             /\ \A k \in 0 .. (Len(config.order) - 1) :
                  g[k + 1] = WithOffer(g[k], OfferOf(config, role, tier, tokens, available,
                                                     config.order[k + 1]))
  <1> DEFINE N == Len(config.order)
             Of(k) == OfferOf(config, role, tier, tokens, available, config.order[k])
             Is(g, m) == g = [k \in 0 .. m |-> IF k = 0 THEN chain ELSE WithOffer(g[k - 1], Of(k))]
             S == {m \in 0 .. N : \E g : Is(g, m)}
             all == CHOOSE g : Is(g, N)
  <1>1. WithTier(config, role, tier, tokens, available, chain) = all[N]
    BY Zenon DEF WithTier, OfferOf
  <1> HIDE DEF Of
  <1>2. 0 \in S
    <2> DEFINE g == [k \in 0 .. 0 |-> chain]
    <2>1. Is(g, 0)
      OBVIOUS
    <2>2. 0 \in 0 .. N
      OBVIOUS
    <2> HIDE DEF Is, g
    <2>3. QED
      BY <2>1, <2>2
  <1>3. ASSUME NEW m \in 0 .. (N - 1), m \in S PROVE m + 1 \in S
    <2>1. PICK g : Is(g, m)
      BY <1>3
    <2> DEFINE h == [k \in 0 .. (m + 1) |-> IF k = 0 THEN chain ELSE WithOffer(g[k - 1], Of(k))]
    <2>2. \A k \in 0 .. m : h[k] = g[k]
      BY <2>1
    <2>3. \A k \in 0 .. (m + 1) : k # 0 => h[k - 1] = g[k - 1]
      <3>1. \A k \in 0 .. (m + 1) : k # 0 => k - 1 \in 0 .. m
        BY <1>3
      <3> HIDE DEF h
      <3>2. QED
        BY <2>2, <3>1
    <2>4. h = [k \in 0 .. (m + 1) |-> IF k = 0 THEN chain ELSE WithOffer(h[k - 1], Of(k))]
      BY <2>3
    <2>5. m + 1 \in 0 .. N
      BY <1>3
    <2>6. QED
      BY <2>4, <2>5
  <1>4. \E g : Is(g, N)
    <2>1. \A n \in 0 .. N : n \in S
      <3> HIDE DEF S
      <3>1. QED
        BY <1>2, <1>3, UpTo
    <2>2. N \in 0 .. N
      OBVIOUS
    <2>3. N \in S
      <3> HIDE DEF S
      <3>1. QED
        BY <2>1, <2>2
    <2> HIDE DEF Is
    <2>4. QED
      BY <2>3
  <1>5. Is(all, N)
    <2> HIDE DEF Is
    <2>1. QED
      BY <1>4, Zenon
  <1> HIDE DEF all
  <1>6. \A k \in 0 .. N : all[k] = IF k = 0 THEN chain ELSE WithOffer(all[k - 1], Of(k))
    BY <1>5
  <1>7. 0 \in 0 .. N
    OBVIOUS
  <1>8. ASSUME NEW k \in 0 .. (N - 1) PROVE all[k + 1] = WithOffer(all[k], Of(k + 1))
    <2>1. k + 1 \in 0 .. N /\ k + 1 # 0 /\ (k + 1) - 1 = k
      OBVIOUS
    <2>2. QED
      BY <1>6, <2>1
  <1>9. all[0] = chain
    BY <1>6, <1>7
  <1>10. QED
    BY <1>1, <1>8, <1>9 DEF Of

LEMMA WithTierKeeps ==
    ASSUME NEW config, config.order \in Seq(ToSet(config.order)), NEW role, NEW tier, NEW tokens,
           NEW available, NEW chain, IsChain(chain)
    PROVE  LET longer == WithTier(config, role, tier, tokens, available, chain)
           IN /\ IsChain(longer) /\ ToSet(chain) \subseteq ToSet(longer)
              /\ \A p \in available \cap ToSet(config.order) :
                   CanOffer(tier, RoleConfig(config, role).needs, tokens, p) =>
                     \E m \in ToSet(longer) : m.provider = p
  <1> DEFINE N == Len(config.order)
             Of(p) == OfferOf(config, role, tier, tokens, available, p)
             Can(p) == CanOffer(tier, RoleConfig(config, role).needs, tokens, p)
  <1>1. N \in Nat /\ DOMAIN config.order = 1 .. N
    OBVIOUS
  <1>2. PICK g : /\ g[0] = chain
                 /\ WithTier(config, role, tier, tokens, available, chain) = g[N]
                 /\ \A k \in 0 .. (N - 1) : g[k + 1] = WithOffer(g[k], Of(config.order[k + 1]))
    BY <1>1, WithTierUnfolds
  <1>3. ASSUME NEW p
        PROVE  /\ Of(p) # NoModel => Of(p).provider = p /\ p \in Providers
               /\ p \in available /\ Can(p) => Of(p) # NoModel
    <2> DEFINE best == BestCandidate(config, role, tier, RoleConfig(config, role).needs, tokens,
                                     {p})
    <2>1. /\ best # NoModel => best.provider \in {p} \cap Providers
          /\ Can(p) => best # NoModel
      BY BestCandidateIsOne
    <2>2. Of(p) = IF p \in available THEN best ELSE NoModel
      BY DEF OfferOf
    <2> HIDE DEF best, Of, Can
    <2>3. QED
      BY <2>1, <2>2
  <1> HIDE DEF Of, Can, N
  <1> DEFINE Upto(k) ==
               /\ IsChain(g[k]) /\ ToSet(chain) \subseteq ToSet(g[k])
               /\ \A i \in 1 .. k : config.order[i] \in available /\ Can(config.order[i]) =>
                    \E m \in ToSet(g[k]) : m.provider = config.order[i]
             S == {k \in 0 .. N : Upto(k)}
  <1>4. 0 \in S
    BY <1>1, <1>2
  <1>5. ASSUME NEW k \in 0 .. (N - 1), k \in S PROVE k + 1 \in S
    <2> DEFINE m == Of(config.order[k + 1])
    <2>1. Upto(k) /\ k + 1 \in 0 .. N
      BY <1>1, <1>5
    <2>2. m # NoModel => m.provider \in Providers /\ m.provider = config.order[k + 1]
      BY <1>3
    <2>3. config.order[k + 1] \in available /\ Can(config.order[k + 1]) => m # NoModel
      BY <1>3
    <2>4. g[k + 1] = WithOffer(g[k], m)
      BY <1>2
    <2> HIDE DEF m
    <2>5. /\ IsChain(g[k + 1]) /\ ToSet(g[k]) \subseteq ToSet(g[k + 1])
          /\ m # NoModel => m \in ToSet(g[k + 1])
      BY <2>1, <2>2, <2>4, WithOfferKeeps
    <2>6. \A i \in 1 .. (k + 1) : i \in 1 .. k \/ i = k + 1
      BY <1>1
    <2>7. Upto(k + 1)
      BY <2>1, <2>2, <2>3, <2>5, <2>6
    <2> HIDE DEF Upto
    <2>8. QED
      BY <2>1, <2>7
  <1>6. N \in S
    <2>1. N \in 0 .. N
      BY <1>1
    <2> HIDE DEF S
    <2>2. QED
      BY <1>1, <1>4, <1>5, <2>1, UpTo
  <1>7. Upto(N)
    BY <1>6
  <1>8. \A p \in ToSet(config.order) : \E i \in 1 .. N : config.order[i] = p
    BY <1>1 DEF ToSet
  <1>9. QED
    BY <1>2, <1>7, <1>8 DEF Can

\* One tier after the other.
Unfolds(g, c, role, previous) ==
  LET tiers == FallbackTiers(RoleConfig(c.config, role).tier)
  IN /\ g[0] = <<ResolveModel(c.config, role, c.tokens, c.keys, previous)>>
     /\ AttemptChain(c.config, role, c.tokens, c.keys, previous) = g[Len(tiers)]
     /\ \A t \in 0 .. (Len(tiers) - 1) :
          g[t + 1] = WithTier(c.config, role, tiers[t + 1], c.tokens, c.keys, g[t])

LEMMA ChainUnfolds ==
    ASSUME NEW c, NEW role, NEW previous, ~Pinned(c.config, role),
           Len(FallbackTiers(RoleConfig(c.config, role).tier)) \in Nat
    PROVE  \E g : Unfolds(g, c, role, previous)
  <1> DEFINE tiers == FallbackTiers(RoleConfig(c.config, role).tier)
             model == ResolveModel(c.config, role, c.tokens, c.keys, previous)
             chain == AttemptChain(c.config, role, c.tokens, c.keys, previous)
             N == Len(tiers)
             More(t, before) == WithTier(c.config, role, tiers[t], c.tokens, c.keys, before)
             Is(g, m) == g = [t \in 0 .. m |-> IF t = 0 THEN <<model>> ELSE More(t, g[t - 1])]
             S == {m \in 0 .. N : \E g : Is(g, m)}
             all == CHOOSE g : Is(g, N)
  <1>1. chain = all[N]
    BY Zenon DEF AttemptChain
  <1>0. N \in Nat
    OBVIOUS
  <1> HIDE DEF More, N, model, chain, tiers
  <1>2. 0 \in S
    <2> DEFINE g == [t \in 0 .. 0 |-> <<model>>]
    <2>1. Is(g, 0)
      OBVIOUS
    <2>2. 0 \in 0 .. N
      BY <1>0
    <2> HIDE DEF Is, g
    <2>3. QED
      BY <2>1, <2>2
  <1>3. ASSUME NEW m \in 0 .. (N - 1), m \in S PROVE m + 1 \in S
    <2>1. PICK g : Is(g, m)
      BY <1>3
    <2> DEFINE h == [t \in 0 .. (m + 1) |-> IF t = 0 THEN <<model>> ELSE More(t, g[t - 1])]
    <2>2. \A t \in 0 .. m : h[t] = g[t]
      BY <2>1
    <2>3. \A t \in 0 .. (m + 1) : t # 0 => h[t - 1] = g[t - 1]
      <3>1. \A t \in 0 .. (m + 1) : t # 0 => t - 1 \in 0 .. m
        BY <1>0, <1>3
      <3> HIDE DEF h
      <3>2. QED
        BY <2>2, <3>1
    <2>4. h = [t \in 0 .. (m + 1) |-> IF t = 0 THEN <<model>> ELSE More(t, h[t - 1])]
      BY <2>3
    <2>5. m + 1 \in 0 .. N
      BY <1>0, <1>3
    <2>6. QED
      BY <2>4, <2>5
  <1>4. \E g : Is(g, N)
    <2>1. \A n \in 0 .. N : n \in S
      <3> HIDE DEF S
      <3>1. QED
        BY <1>0, <1>2, <1>3, UpTo
    <2>2. N \in 0 .. N
      BY <1>0
    <2>3. N \in S
      <3> HIDE DEF S
      <3>1. QED
        BY <2>1, <2>2
    <2> HIDE DEF Is
    <2>4. QED
      BY <2>3
  <1>5. Is(all, N)
    <2> HIDE DEF Is
    <2>1. QED
      BY <1>4, Zenon
  <1> HIDE DEF all
  <1>6. \A t \in 0 .. N : all[t] = IF t = 0 THEN <<model>> ELSE More(t, all[t - 1])
    BY <1>5
  <1>7. 0 \in 0 .. N
    BY <1>0
  <1>8. ASSUME NEW t \in 0 .. (N - 1) PROVE all[t + 1] = More(t + 1, all[t])
    <2>1. t + 1 \in 0 .. N /\ t + 1 # 0 /\ (t + 1) - 1 = t
      BY <1>0
    <2>2. QED
      BY <1>6, <2>1
  <1>9. all[0] = <<model>>
    BY <1>6, <1>7
  <1>10. QED
    <2>1. Unfolds(all, c, role, previous)
      BY <1>1, <1>8, <1>9 DEF Unfolds, More, N, model, chain, tiers
    <2>2. QED
      BY <2>1, Zenon

LEMMA TiersAreList ==
    ASSUME NEW tier \in ToSet(TierOrder)
    PROVE  /\ Len(FallbackTiers(tier)) \in Nat
           /\ DOMAIN FallbackTiers(tier) = 1 .. Len(FallbackTiers(tier))
  <1>1. DOMAIN TierOrder = 1 .. 4 /\ TierOrder \in Seq({"frontier", "balanced", "economy", "fallback"})
    BY DEF TierOrder
  <1>2. PICK k \in 1 .. 4 : FallbackTiers(tier) = SubSeq(TierOrder, k, 4)
    <2>1. \E k \in 1 .. 4 : TierOrder[k] = tier
      BY <1>1 DEF ToSet
    <2>2. QED
      BY <2>1, Zenon DEF FallbackTiers
  <1>3. QED
    BY <1>1, <1>2

\* Every provider with a key and a usable model is in the chain.
EveryoneIn(chain, c, role) ==
  LET asked == RoleConfig(c.config, role)
  IN \A p \in c.keys \cap ToSet(c.config.order), t \in DOMAIN FallbackTiers(asked.tier) :
       CanOffer(FallbackTiers(asked.tier)[t], asked.needs, c.tokens, p) =>
         \E m \in ToSet(chain) : m.provider = p

\* The chain of a stage: a list of models of known providers, and of everyone who can offer
\* one unless a model is pinned.
LEMMA ChainOffers ==
    ASSUME NEW c \in Cases, NEW stage \in DOMAIN StageRole,
           NEW previous \in Providers \cup {NoProvider}
    PROVE  LET role == StageRole[stage]
               chain == AttemptChain(c.config, role, c.tokens, c.keys, previous)
           IN IsChain(chain) /\ (~Pinned(c.config, role) => EveryoneIn(chain, c, role))
  <1> DEFINE role == StageRole[stage]
             asked == RoleConfig(c.config, role)
             tiers == FallbackTiers(asked.tier)
             N == Len(tiers)
             model == ResolveModel(c.config, role, c.tokens, c.keys, previous)
             chain == AttemptChain(c.config, role, c.tokens, c.keys, previous)
             order == c.config.order
  <1>1. order \in Seq(ToSet(order)) /\ asked.tier \in ToSet(TierOrder)
    BY CasesAssumption
  <1>2. N \in Nat /\ DOMAIN tiers = 1 .. N
    BY <1>1, TiersAreList
  <1>3. IsChain(<<model>>)
    <2>1. model.provider \in Providers
      BY ResolvedModel
    <2> HIDE DEF model
    <2>2. ToSet(<<model>>) = {model}
      BY DEF ToSet
    <2>3. QED
      BY <2>1, <2>2 DEF IsChain
  <1>4. CASE Pinned(c.config, role)
    <2>1. chain = <<model>>
      BY <1>4 DEF AttemptChain
    <2>2. QED
      BY <1>3, <1>4, <2>1
  <1>5. CASE ~Pinned(c.config, role)
    <2>1. PICK g : /\ g[0] = <<model>> /\ chain = g[N]
                   /\ \A t \in 0 .. (N - 1) :
                        g[t + 1] = WithTier(c.config, role, tiers[t + 1], c.tokens, c.keys, g[t])
      <3>1. \E h : Unfolds(h, c, role, previous)
        BY <1>2, <1>5, ChainUnfolds, Zenon
      <3>2. PICK h : Unfolds(h, c, role, previous)
        BY <3>1
      <3>3. /\ h[0] = <<model>> /\ chain = h[N]
            /\ \A t \in 0 .. (N - 1) :
                 h[t + 1] = WithTier(c.config, role, tiers[t + 1], c.tokens, c.keys, h[t])
        BY <3>2 DEF Unfolds
      <3> HIDE DEF asked, N, chain, model, tiers
      <3>4. QED
        BY <3>3, Zenon
    <2> DEFINE Has(t, p) == CanOffer(tiers[t], asked.needs, c.tokens, p)
               Upto(k) ==
                 /\ IsChain(g[k])
                 /\ \A p \in c.keys \cap ToSet(order), t \in 1 .. k :
                      Has(t, p) => \E m \in ToSet(g[k]) : m.provider = p
               S == {k \in 0 .. N : Upto(k)}
    <2>2. ASSUME NEW k \in 0 .. (N - 1), IsChain(g[k])
          PROVE  /\ IsChain(g[k + 1]) /\ ToSet(g[k]) \subseteq ToSet(g[k + 1])
                 /\ \A p \in c.keys \cap ToSet(order) :
                      Has(k + 1, p) => \E m \in ToSet(g[k + 1]) : m.provider = p
      <3>1. g[k + 1] = WithTier(c.config, role, tiers[k + 1], c.tokens, c.keys, g[k])
        BY <2>1
      <3> HIDE DEF role, tiers, N
      <3>2. QED
        BY <1>1, <2>2, <3>1, WithTierKeeps
    <2> HIDE DEF Has, tiers, N, chain, model, order
    <2>3. 0 \in S
      BY <1>2, <1>3, <2>1
    <2>4. ASSUME NEW k \in 0 .. (N - 1), k \in S PROVE k + 1 \in S
      <3>1. Upto(k) /\ k + 1 \in 0 .. N
        BY <1>2, <2>4
      <3>2. \A t \in 1 .. (k + 1) : t \in 1 .. k \/ t = k + 1
        BY <1>2
      <3>3. Upto(k + 1)
        BY <2>2, <3>1, <3>2
      <3> HIDE DEF Upto
      <3>4. QED
        BY <3>1, <3>3
    <2>5. N \in S
      <3>1. N \in 0 .. N
        BY <1>2
      <3> HIDE DEF S
      <3>2. QED
        BY <1>2, <2>3, <2>4, <3>1, UpTo
    <2>6. Upto(N)
      BY <2>5
    <2>7. QED
      BY <1>2, <2>1, <2>6 DEF EveryoneIn, Has, tiers, N, chain, order
  <1>6. QED
    BY <1>4, <1>5

-----------------------------------------------------------------------------
(* The stages *)

\* A stage that leaves the row alone.
LEMMA StageRow ==
    ASSUME Shape, NEW r \in Reviews, Good(r), job[r].pc \in Stages, row' = row
    PROVE  /\ RowAside(r) /\ row'[r].status \in {"queued", "running"}
           /\ DOMAIN row'[r] = {"status", "named"}
  BY RowSame DEF Good, Rows

\* What a step may leave as it is.
LEMMA Standing ==
    ASSUME NEW r \in Reviews, Good(r)
    PROVE  /\ Points(job[r].at, job[r].attempts)
           /\ job[r].runtime \in Providers \union {NoProvider} /\ job[r].spent \in BOOLEAN
           /\ job[r].sent \in Seq(Messages) /\ Valid(job[r].sent)
           /\ job[r].pc \in {"finalize", "retry"} => job[r].attempts # <<>>
  BY DEF Good, Fields, Chained, Talks

\* A stage enters one that has no answer to show.
LEMMA EnterPlain ==
    ASSUME Shape, NEW r \in Reviews, Good(r), job[r].pc \in Stages,
           RowAside(r), case' = case, pipeline' = pipeline,
           row'[r].status \in {"queued", "running"}, DOMAIN row'[r] = {"status", "named"},
           NEW stage \in Stages \ {"finalize", "retry"}, NEW fields,
           DOMAIN fields \subseteq {"sent", "degraded", "configured", "findings", "spent"},
           "spent" \in DOMAIN fields => fields.spent \in BOOLEAN,
           "degraded" \in DOMAIN fields => fields.degraded = TRUE,
           "sent" \in DOMAIN fields => fields.sent = <<>>,
           stage # "editor", stage = "chunks" => Chunked(r),
           stage = "deliver" =>
             job[r].pc = "editor" \/ Chunked(r) \/ (InPipeline(r) /\ After(r, fields, "degraded")),
           Enter(r, stage, fields)
    PROVE  Moves(r)
  <1>1. /\ After(r, fields, "runtime") \in Providers \union {NoProvider}
        /\ After(r, fields, "spent") \in BOOLEAN /\ After(r, fields, "degraded") \in BOOLEAN
    BY DEF After, Good, Fields
  <1>2. stage = "deliver" =>
          \/ After(r, fields, "served") # NoProvider
          \/ Chunked(r) \/ (InPipeline(r) /\ After(r, fields, "degraded"))
    BY DEF After, Good, Answered
  <1>3. "served" \notin DOMAIN fields
    OBVIOUS
  <1>4. DOMAIN fields \subseteq
          {"runtime", "served", "findings", "sent", "degraded", "spent", "configured"}
    OBVIOUS
  <1>5. QED
    BY <1>1, <1>2, <1>3, <1>4, EnterMoves

LEMMA AdapterSetupMoves ==
    ASSUME Shape, NEW r \in Reviews, Good(r), AdapterSetup(r)
    PROVE  Moves(r)
  <1>1. job[r].pc \in Stages /\ job[r].pc = "adapter" /\ case' = case /\ pipeline' = pipeline
    BY DEF AdapterSetup, Keep, Stages
  <1>2. ASSUME WriteRow(r, "running")
        PROVE  /\ RowAside(r) /\ row'[r].status \in {"queued", "running"}
               /\ DOMAIN row'[r] = {"status", "named"}
    BY <1>2, RowWritten
  <1>3. CASE (Raise(r, "github") \/ Supersede(r)) /\ row' = row
    <2>1. "failed" \in Ended \ {"done"} /\ "superseded" \in Ended \ {"done"}
      BY DEF Ended
    <2>2. QED
      BY <1>1, <1>3, <2>1, RaiseMoves DEF Raise, Supersede
  <1>4. ASSUME Update(r, [pc |-> "fetch", delegated |-> TRUE]), WriteRow(r, "running")
        PROVE  Moves(r)
    <2> DEFINE fields == [pc |-> "fetch", delegated |-> TRUE]
    <2>1. DOMAIN fields = {"pc", "delegated"} /\ fields.pc = "fetch"
      OBVIOUS
    <2> HIDE DEF fields
    <2>2. Update(r, fields)
      BY <1>4 DEF fields
    <2>3. /\ After(r, fields, "pc") = "fetch" /\ After(r, fields, "at") = job[r].at
          /\ After(r, fields, "attempts") = job[r].attempts
          /\ After(r, fields, "runtime") = job[r].runtime
          /\ After(r, fields, "spent") = job[r].spent /\ After(r, fields, "sent") = job[r].sent
      BY <2>1 DEF After
    <2>4. "fetch" \in Stages
      BY DEF Stages
    <2>5. QED
      BY <1>1, <1>2, <1>4, <2>1, <2>2, <2>3, <2>4, Standing, UpdateMoves
  <1>5. ASSUME Conclude(r, "skipped", [cause |-> "draft", configured |-> TRUE]),
               WriteRow(r, "running")
        PROVE  Moves(r)
    <2> DEFINE fields == [cause |-> "draft", configured |-> TRUE]
    <2>1. DOMAIN fields = {"cause", "configured"} /\ "skipped" \in Ended
      BY DEF Ended
    <2> HIDE DEF fields
    <2>2. Conclude(r, "skipped", fields)
      BY <1>5 DEF fields
    <2>3. QED
      BY <1>1, <1>2, <1>5, <2>1, <2>2, ConcludeMoves
  <1>6. ASSUME Enter(r, "agent", [configured |-> TRUE]), WriteRow(r, "running")
        PROVE  Moves(r)
    <2> DEFINE fields == [configured |-> TRUE]
    <2>1. DOMAIN fields = {"configured"} /\ "agent" \in Stages \ {"finalize", "retry"}
      BY DEF Stages
    <2> HIDE DEF fields
    <2>2. Enter(r, "agent", fields)
      BY <1>6 DEF fields
    <2>3. QED
      BY <1>1, <1>2, <1>6, <2>1, <2>2, EnterPlain
  <1>7. QED
    BY <1>3, <1>4, <1>5, <1>6 DEF AdapterSetup

LEMMA FetchMoves ==
    ASSUME Shape, NEW r \in Reviews, Good(r), Fetch(r)
    PROVE  Moves(r)
  <1>1. /\ job[r].pc \in Stages /\ job[r].pc = "fetch"
        /\ row' = row /\ case' = case /\ pipeline' = pipeline
    BY DEF Fetch, Keep, Stages
  <1>2. /\ RowAside(r) /\ row'[r].status \in {"queued", "running"}
        /\ DOMAIN row'[r] = {"status", "named"}
    BY <1>1, StageRow
  <1>3. CASE Raise(r, "github") \/ Supersede(r)
    <2>1. "failed" \in Ended \ {"done"} /\ "superseded" \in Ended \ {"done"}
      BY DEF Ended
    <2>2. QED
      BY <1>1, <1>3, <2>1, RaiseMoves DEF Raise, Supersede
  <1>4. ASSUME NEW status \in {"skipped", "done"}, NEW cause, status = "done" => HasAnswer(r),
               Conclude(r, status, [cause |-> cause, configured |-> TRUE])
        PROVE  Moves(r)
    <2> DEFINE fields == [cause |-> cause, configured |-> TRUE]
    <2>1. DOMAIN fields = {"cause", "configured"} /\ status \in Ended
      BY DEF Ended
    <2> HIDE DEF fields
    <2>2. Conclude(r, status, fields)
      BY <1>4 DEF fields
    <2>3. QED
      BY <1>1, <1>2, <1>4, <2>1, <2>2, ConcludeMoves
  <1>5. ASSUME NEW stage \in {"fast", "context"}, Update(r, [pc |-> stage, configured |-> TRUE])
        PROVE  Moves(r)
    <2> DEFINE fields == [pc |-> stage, configured |-> TRUE]
    <2>1. DOMAIN fields = {"pc", "configured"} /\ fields.pc = stage
      OBVIOUS
    <2> HIDE DEF fields
    <2>2. Update(r, fields)
      BY <1>5 DEF fields
    <2>3. /\ After(r, fields, "pc") = stage /\ After(r, fields, "at") = job[r].at
          /\ After(r, fields, "attempts") = job[r].attempts
          /\ After(r, fields, "runtime") = job[r].runtime
          /\ After(r, fields, "spent") = job[r].spent /\ After(r, fields, "sent") = job[r].sent
      BY <2>1 DEF After
    <2>4. stage \in Stages
      BY DEF Stages
    <2>5. QED
      BY <1>1, <1>2, <1>5, <2>1, <2>2, <2>3, <2>4, Standing, UpdateMoves
  <1>6. CASE case[r].draft /\ Conclude(r, "skipped", [cause |-> "draft", configured |-> TRUE])
    BY <1>4, <1>6
  <1>7. CASE /\ ~case[r].draft /\ case[r].huge /\ ~case[r].chunking
             /\ Conclude(r, "done", [cause |-> "too_large", configured |-> TRUE])
    BY <1>4, <1>7 DEF HasAnswer
  <1>8. CASE Update(r, [pc |-> IF case[r].config.fastPath THEN "fast" ELSE "context",
                        configured |-> TRUE])
    BY <1>5, <1>8
  <1>9. QED
    BY <1>3, <1>6, <1>7, <1>8 DEF Fetch

\* The attempt of a stage that has its chain.
LEMMA AttemptOffered ==
    ASSUME NEW r \in Reviews, Good(r), job[r].attempts # <<>>
    PROVE  /\ Attempt(r).provider \in Providers
           /\ ~LastAttempt(r) => Points(job[r].at + 1, job[r].attempts)
  BY DEF Good, Chained, Points, Offers, Attempt, LastAttempt

LEMMA ResolveMoves ==
    ASSUME Shape, NEW r \in Reviews, Good(r), Resolve(r)
    PROVE  Moves(r)
  <1>1. /\ job[r].pc \in {"fast", "chunks", "agent", "editor"} /\ job[r].attempts = <<>>
        /\ row' = row /\ case' = case /\ pipeline' = pipeline
    BY DEF Resolve, Keep, StageRole
  <1> DEFINE chain == AttemptChain(case[r].config, StageRole[job[r].pc], case[r].tokens,
                                   case[r].keys, job[r].served)
             runtime == IF InPipeline(r) /\ job[r].pc = "agent" THEN chain[1].provider
                        ELSE job[r].runtime
             fields == [attempts |-> chain, runtime |-> runtime]
  <1>2. Update(r, fields)
    BY DEF Resolve
  <1>3. chain # <<>> /\ chain \in Seq(Offers(chain))
    <2>1. job[r].pc \in DOMAIN StageRole
      BY DEF Resolve
    <2>2. case[r] \in Cases /\ job[r].served \in Providers \cup {NoProvider}
      BY DEF Shape, Good, Fields
    <2>3. IsChain(chain)
      BY <2>1, <2>2, ChainOffers
    <2>4. chain \in Seq(ToSet(chain)) /\ Offers(chain) = ToSet(chain)
      BY <2>3 DEF IsChain, Offers
    <2>5. QED
      BY <2>3, <2>4 DEF IsChain
  <1> HIDE DEF chain
  <1>4. Points(1, chain) /\ chain[1].provider \in Providers
    BY <1>3 DEF Points, Offers
  <1>5. job[r].at = 1 /\ job[r].pc \in Stages
    BY <1>1 DEF Good, Chained, Points, Stages
  <1>6. runtime \in Providers \union {NoProvider}
    BY <1>4, Standing
  <1> HIDE DEF runtime
  <1>7. DOMAIN fields = {"attempts", "runtime"} /\ fields.attempts = chain /\ fields.runtime = runtime
    OBVIOUS
  <1> HIDE DEF fields
  <1>8. /\ After(r, fields, "pc") = job[r].pc /\ After(r, fields, "at") = 1
        /\ After(r, fields, "attempts") = chain /\ After(r, fields, "runtime") = runtime
        /\ After(r, fields, "spent") = job[r].spent /\ After(r, fields, "sent") = job[r].sent
    BY <1>5, <1>7 DEF After
  <1>9. /\ RowAside(r) /\ row'[r].status \in {"queued", "running"}
        /\ DOMAIN row'[r] = {"status", "named"}
    BY <1>1, <1>5, StageRow
  <1>10. QED
    BY <1>1, <1>2, <1>4, <1>5, <1>6, <1>7, <1>8, <1>9, Standing, UpdateMoves

LEMMA FastPathMoves ==
    ASSUME Shape, NEW r \in Reviews, Good(r), FastPath(r)
    PROVE  Moves(r)
  <1>1. /\ job[r].pc \in Stages /\ job[r].pc = "fast" /\ job[r].attempts # <<>>
        /\ row' = row /\ case' = case /\ pipeline' = pipeline
    BY DEF FastPath, In, Keep, Stages
  <1>2. /\ RowAside(r) /\ row'[r].status \in {"queued", "running"}
        /\ DOMAIN row'[r] = {"status", "named"}
    BY <1>1, StageRow
  <1>3. PICK p \in Providers : p = Attempt(r).provider
    BY <1>1, AttemptOffered
  <1>4. "context" \in Stages \ {"finalize", "retry"} /\ "skipped" \in Ended
    BY DEF Stages, Ended
  <1>5. CASE Enter(r, "context", [runtime |-> p, spent |-> TRUE])
    <2> DEFINE fields == [runtime |-> p, spent |-> TRUE]
    <2>1. DOMAIN fields = {"runtime", "spent"} /\ fields.runtime = p /\ fields.spent = TRUE
      OBVIOUS
    <2> HIDE DEF fields
    <2>2. Enter(r, "context", fields)
      BY <1>5 DEF fields
    <2>3. /\ After(r, fields, "runtime") \in Providers \union {NoProvider}
          /\ After(r, fields, "spent") \in BOOLEAN /\ After(r, fields, "degraded") \in BOOLEAN
      BY <2>1 DEF After, Good, Fields
    <2>4. QED
      BY <1>1, <1>2, <1>4, <2>1, <2>2, <2>3, EnterMoves
  <1>6. CASE Conclude(r, "skipped", [cause |-> "fast_path", runtime |-> p, spent |-> TRUE])
    <2> DEFINE fields == [cause |-> "fast_path", runtime |-> p, spent |-> TRUE]
    <2>1. DOMAIN fields = {"cause", "runtime", "spent"} /\ fields.runtime = p /\ fields.spent = TRUE
      OBVIOUS
    <2> HIDE DEF fields
    <2>2. Conclude(r, "skipped", fields)
      BY <1>6 DEF fields
    <2>3. QED
      BY <1>1, <1>2, <1>4, <2>1, <2>2, ConcludeMoves
  <1>7. CASE Enter(r, "context", <<>>)
    <2>1. DOMAIN <<>> = {}
      OBVIOUS
    <2>2. QED
      BY <1>1, <1>2, <1>4, <1>7, <2>1, EnterPlain
  <1>8. CASE ~LastAttempt(r) /\ Update(r, [at |-> job[r].at + 1])
    <2> DEFINE fields == [at |-> job[r].at + 1]
    <2>1. DOMAIN fields = {"at"} /\ fields.at = job[r].at + 1
      OBVIOUS
    <2> HIDE DEF fields
    <2>2. Update(r, fields)
      BY <1>8 DEF fields
    <2>3. /\ After(r, fields, "pc") = job[r].pc /\ After(r, fields, "at") = job[r].at + 1
          /\ After(r, fields, "attempts") = job[r].attempts
          /\ After(r, fields, "runtime") = job[r].runtime
          /\ After(r, fields, "spent") = job[r].spent /\ After(r, fields, "sent") = job[r].sent
      BY <2>1 DEF After
    <2>4. Points(job[r].at + 1, job[r].attempts)
      BY <1>1, <1>8, AttemptOffered
    <2>5. QED
      BY <1>1, <1>2, <2>1, <2>2, <2>3, <2>4, Standing, UpdateMoves
  <1>9. QED
    BY <1>3, <1>5, <1>6, <1>7, <1>8 DEF FastPath

LEMMA ContextMoves ==
    ASSUME Shape, NEW r \in Reviews, Good(r), Context(r)
    PROVE  Moves(r)
  <1>1. /\ job[r].pc \in Stages /\ job[r].pc = "context"
        /\ row' = row /\ case' = case /\ pipeline' = pipeline
    BY DEF Context, Keep, Stages
  <1>2. /\ RowAside(r) /\ row'[r].status \in {"queued", "running"}
        /\ DOMAIN row'[r] = {"status", "named"}
    BY <1>1, StageRow
  <1>3. CASE Raise(r, "github")
    <2>1. "failed" \in Ended \ {"done"}
      BY DEF Ended
    <2>2. QED
      BY <1>1, <1>3, <2>1, RaiseMoves DEF Raise
  <1>4. ASSUME NEW stage \in {"chunks", "agent"}, stage = "chunks" => Chunked(r),
               Enter(r, stage, <<>>)
        PROVE  Moves(r)
    <2>1. DOMAIN <<>> = {} /\ stage \in Stages \ {"finalize", "retry"} /\ stage \notin {"editor", "deliver"}
      BY DEF Stages
    <2>2. QED
      BY <1>1, <1>2, <1>4, <2>1, EnterPlain
  <1>5. QED
    BY <1>3, <1>4 DEF Context

LEMMA ChunksMoves ==
    ASSUME Shape, NEW r \in Reviews, Good(r), Chunks(r)
    PROVE  Moves(r)
  <1>1. /\ job[r].pc \in Stages /\ job[r].pc = "chunks" /\ job[r].attempts # <<>>
        /\ row' = row /\ case' = case /\ pipeline' = pipeline
    BY DEF Chunks, In, Keep, Stages
  <1>2. /\ RowAside(r) /\ row'[r].status \in {"queued", "running"}
        /\ DOMAIN row'[r] = {"status", "named"}
    BY <1>1, StageRow
  <1>3. PICK p \in Providers : p = Attempt(r).provider
    BY <1>1, AttemptOffered
  <1>8. Chunked(r)
    BY <1>1 DEF Good, Answered
  <1>4. ASSUME NEW found \in BOOLEAN, NEW stage \in {"editor", "deliver"},
               Enter(r, stage, [findings |-> found, spent |-> TRUE, served |-> p, runtime |-> p])
        PROVE  Moves(r)
    <2> DEFINE fields == [findings |-> found, spent |-> TRUE, served |-> p, runtime |-> p]
    <2>1. /\ DOMAIN fields = {"findings", "spent", "served", "runtime"}
          /\ fields.runtime = p /\ fields.served = p /\ fields.spent = TRUE
      OBVIOUS
    <2> HIDE DEF fields
    <2>2. Enter(r, stage, fields)
      BY <1>4 DEF fields
    <2>3. /\ After(r, fields, "runtime") \in Providers \union {NoProvider}
          /\ After(r, fields, "spent") \in BOOLEAN /\ After(r, fields, "degraded") \in BOOLEAN
          /\ After(r, fields, "served") = p
      BY <2>1 DEF After, Good, Fields
    <2>4. p # NoProvider /\ stage \in Stages \ {"finalize", "retry"}
      BY JobAssumption DEF Stages
    <2>5. QED
      BY <1>1, <1>2, <2>1, <2>2, <2>3, <2>4, EnterMoves
  <1>5. CASE Conclude(r, "failed", [cause |-> "models", handler |-> TRUE, spent |-> TRUE,
                                    runtime |-> p])
    <2> DEFINE fields == [cause |-> "models", handler |-> TRUE, spent |-> TRUE, runtime |-> p]
    <2>1. /\ DOMAIN fields = {"cause", "handler", "spent", "runtime"}
          /\ fields.runtime = p /\ fields.spent = TRUE /\ fields.handler = TRUE
          /\ "failed" \in Ended
      BY DEF Ended
    <2> HIDE DEF fields
    <2>2. Conclude(r, "failed", fields)
      BY <1>5 DEF fields
    <2>3. QED
      BY <1>1, <1>2, <2>1, <2>2, ConcludeMoves
  <1>6. CASE \E found \in BOOLEAN :
               Enter(r, IF found THEN "editor" ELSE "deliver",
                     [findings |-> found, spent |-> TRUE, served |-> p, runtime |-> p])
    <2>1. PICK found \in BOOLEAN :
               Enter(r, IF found THEN "editor" ELSE "deliver",
                     [findings |-> found, spent |-> TRUE, served |-> p, runtime |-> p])
      BY <1>6
    <2>2. CASE found
      BY <1>4, <2>1, <2>2
    <2>3. CASE ~found
      BY <1>4, <2>1, <2>3
    <2>4. QED
      BY <2>2, <2>3
  <1>7. ASSUME NEW fields, DOMAIN fields \subseteq {"spent", "runtime", "findings"},
               "spent" \in DOMAIN fields => fields.spent = TRUE,
               "runtime" \in DOMAIN fields => fields.runtime = p,
               Enter(r, "deliver", fields)
        PROVE  Moves(r)
    <2>1. /\ After(r, fields, "runtime") \in Providers \union {NoProvider}
          /\ After(r, fields, "spent") \in BOOLEAN /\ After(r, fields, "degraded") \in BOOLEAN
      BY <1>7 DEF After, Good, Fields
    <2>2. "deliver" \in Stages \ {"finalize", "retry"}
      BY DEF Stages
    <2>3. /\ "served" \notin DOMAIN fields /\ "sent" \notin DOMAIN fields
          /\ DOMAIN fields \subseteq
               {"runtime", "served", "findings", "sent", "degraded", "spent", "configured"}
      BY <1>7
    <2>4. QED
      BY <1>1, <1>2, <1>7, <1>8, <2>1, <2>2, <2>3, EnterMoves
  <1>9. CASE Enter(r, "deliver", [spent |-> TRUE, runtime |-> p])
    <2> DEFINE fields == [spent |-> TRUE, runtime |-> p]
    <2>1. DOMAIN fields = {"spent", "runtime"} /\ fields.spent = TRUE /\ fields.runtime = p
      OBVIOUS
    <2> HIDE DEF fields
    <2>2. Enter(r, "deliver", fields)
      BY <1>9 DEF fields
    <2>3. QED
      BY <1>7, <2>1, <2>2
  <1>10. CASE Enter(r, "deliver", [findings |-> FALSE])
    <2>1. DOMAIN [findings |-> FALSE] = {"findings"}
      OBVIOUS
    <2>2. QED
      BY <1>7, <1>10, <2>1
  <1>11. QED
    BY <1>3, <1>5, <1>6, <1>9, <1>10 DEF Chunks

LEMMA LoopStopsMoves ==
    ASSUME Shape, NEW r \in Reviews, Good(r), LoopStops(r)
    PROVE  Moves(r)
  <1>1. /\ job[r].pc \in Stages /\ job[r].pc = "agent" /\ job[r].attempts # <<>>
        /\ row' = row /\ case' = case /\ pipeline' = pipeline
    BY DEF LoopStops, In, Keep, Stages
  <1>2. /\ RowAside(r) /\ row'[r].status \in {"queued", "running"}
        /\ DOMAIN row'[r] = {"status", "named"}
    BY <1>1, StageRow
  <1> DEFINE fields == [pc |-> "finalize"]
  <1>3. DOMAIN fields = {"pc"} /\ fields.pc = "finalize" /\ "finalize" \in Stages
    BY DEF Stages
  <1> HIDE DEF fields
  <1>4. Update(r, fields)
    BY DEF LoopStops, fields
  <1>5. /\ After(r, fields, "pc") = "finalize" /\ After(r, fields, "at") = job[r].at
        /\ After(r, fields, "attempts") = job[r].attempts
        /\ After(r, fields, "runtime") = job[r].runtime
        /\ After(r, fields, "spent") = job[r].spent /\ After(r, fields, "sent") = job[r].sent
    BY <1>3 DEF After
  <1>6. QED
    BY <1>1, <1>2, <1>3, <1>4, <1>5, Standing, UpdateMoves

LEMMA ReviewedMoves ==
    ASSUME Shape, NEW r \in Reviews, Good(r), job[r].pc \in Stages, job[r].attempts # <<>>,
           row' = row, case' = case, pipeline' = pipeline, NEW found \in BOOLEAN,
           Reviewed(r, found)
    PROVE  Moves(r)
  <1>1. /\ RowAside(r) /\ row'[r].status \in {"queued", "running"}
        /\ DOMAIN row'[r] = {"status", "named"}
    BY StageRow
  <1>2. PICK p \in Providers : p = Attempt(r).provider
    BY AttemptOffered
  <1>3. PICK stage \in {"editor", "deliver"} : stage = IF found THEN "editor" ELSE "deliver"
    OBVIOUS
  <1> DEFINE runtime == IF InPipeline(r) THEN job[r].runtime ELSE p
             fields == [sent |-> <<>>, findings |-> found, served |-> p, spent |-> TRUE,
                        runtime |-> runtime]
  <1>4. runtime \in Providers \union {NoProvider}
    BY Standing
  <1>5. Enter(r, stage, fields)
    BY <1>2, <1>3 DEF Reviewed
  <1> HIDE DEF runtime
  <1>6. /\ DOMAIN fields = {"sent", "findings", "served", "spent", "runtime"}
        /\ fields.runtime = runtime /\ fields.served = p /\ fields.spent = TRUE
        /\ fields.sent = <<>>
    OBVIOUS
  <1> HIDE DEF fields
  <1>7. /\ After(r, fields, "runtime") = runtime
        /\ After(r, fields, "spent") \in BOOLEAN /\ After(r, fields, "degraded") \in BOOLEAN
        /\ After(r, fields, "served") = p
    BY <1>6 DEF After, Good, Fields
  <1>8. p # NoProvider /\ stage \in Stages \ {"finalize", "retry"}
    BY JobAssumption DEF Stages
  <1>9. QED
    BY <1>1, <1>4, <1>5, <1>6, <1>7, <1>8, EnterMoves

LEMMA FinalizeMoves ==
    ASSUME Shape, NEW r \in Reviews, Good(r), Finalize(r)
    PROVE  Moves(r)
  <1>1. /\ job[r].pc \in Stages /\ job[r].pc = "finalize"
        /\ row' = row /\ case' = case /\ pipeline' = pipeline
    BY DEF Finalize, Keep, Stages
  <1>2. /\ RowAside(r) /\ row'[r].status \in {"queued", "running"}
        /\ DOMAIN row'[r] = {"status", "named"}
    BY <1>1, StageRow
  <1>3. job[r].attempts # <<>>
    BY <1>1, Standing
  <1>4. CASE \E found \in BOOLEAN : Reviewed(r, found)
    BY <1>1, <1>3, <1>4, ReviewedMoves
  <1>5. CASE Update(r, [retried |-> TRUE, spent |-> TRUE])
    <2> DEFINE fields == [retried |-> TRUE, spent |-> TRUE]
    <2>1. DOMAIN fields = {"retried", "spent"} /\ fields.spent = TRUE
      OBVIOUS
    <2> HIDE DEF fields
    <2>2. Update(r, fields)
      BY <1>5 DEF fields
    <2>3. /\ After(r, fields, "pc") = job[r].pc /\ After(r, fields, "at") = job[r].at
          /\ After(r, fields, "attempts") = job[r].attempts
          /\ After(r, fields, "runtime") = job[r].runtime
          /\ After(r, fields, "spent") \in BOOLEAN /\ After(r, fields, "sent") = job[r].sent
      BY <2>1 DEF After
    <2>4. QED
      BY <1>1, <1>2, <1>3, <2>1, <2>2, <2>3, Standing, UpdateMoves
  <1>6. CASE /\ ~InPipeline(r)
             /\ Update(r, [pc |-> "retry", served |-> Attempt(r).provider, spent |-> TRUE,
                           runtime |-> Attempt(r).provider])
    <2>1. PICK p \in Providers : p = Attempt(r).provider
      BY <1>3, <1>1, AttemptOffered
    <2> DEFINE fields == [pc |-> "retry", served |-> p, spent |-> TRUE, runtime |-> p]
    <2>2. /\ DOMAIN fields = {"pc", "served", "spent", "runtime"} /\ fields.pc = "retry"
          /\ fields.served = p /\ fields.spent = TRUE /\ fields.runtime = p
      OBVIOUS
    <2>3. Update(r, fields)
      BY <1>6, <2>1
    <2> HIDE DEF fields
    <2>4. /\ JobAside(r) /\ DOMAIN job'[r] = FieldNames
          /\ \A f \in FieldNames :
               job'[r][f] = IF f \in DOMAIN fields THEN fields[f] ELSE job[r][f]
      BY <2>2, <2>3, UpdateFields DEF Shape, Good, Fields, FieldNames
    <2>5. /\ job'[r].pc = "retry" /\ job'[r].served = p /\ job'[r].spent = TRUE
          /\ job'[r].runtime = p /\ job'[r].handler = job[r].handler
          /\ job'[r].charged = job[r].charged /\ job'[r].outcome = job[r].outcome
          /\ job'[r].degraded = job[r].degraded /\ job'[r].sent = job[r].sent
          /\ job'[r].at = job[r].at /\ job'[r].attempts = job[r].attempts
      BY <2>2, <2>4 DEF FieldNames
    <2>6. /\ Chained(r)' /\ Talks(r)'
          /\ job'[r].degraded \in BOOLEAN /\ p # NoProvider /\ job'[r].pc \in Stages
      BY <1>3, <2>5, JobAssumption DEF Good, Fields, Chained, Talks, Stages
    <2>7. QED
      BY <1>1, <1>2, <2>4, <2>5, <2>6, InStage
  <1>7. QED
    BY <1>4, <1>5, <1>6 DEF Finalize

LEMMA ValidationRetryMoves ==
    ASSUME Shape, NEW r \in Reviews, Good(r), ValidationRetry(r)
    PROVE  Moves(r)
  <1>1. /\ job[r].pc \in Stages /\ job[r].pc = "retry"
        /\ row' = row /\ case' = case /\ pipeline' = pipeline
    BY DEF ValidationRetry, Keep, Stages
  <1>2. job[r].attempts # <<>> /\ "failed" \in Ended \ {"done"}
    BY <1>1, Standing DEF Ended
  <1>3. CASE \E found \in BOOLEAN : Reviewed(r, found)
    BY <1>1, <1>2, <1>3, ReviewedMoves
  <1>4. CASE Raise(r, "retry")
    BY <1>1, <1>2, <1>4, RaiseMoves DEF Raise
  <1>5. QED
    BY <1>3, <1>4 DEF ValidationRetry

LEMMA AttemptFailsMoves ==
    ASSUME Shape, NEW r \in Reviews, Good(r), AttemptFails(r)
    PROVE  Moves(r)
  <1>1. /\ job[r].pc \in Stages /\ job[r].pc \in {"agent", "finalize"}
        /\ row' = row /\ case' = case /\ pipeline' = pipeline
    BY DEF AttemptFails, In, Keep, Stages
  <1>2. /\ RowAside(r) /\ row'[r].status \in {"queued", "running"}
        /\ DOMAIN row'[r] = {"status", "named"}
    BY <1>1, StageRow
  <1>3. job[r].attempts # <<>>
    BY <1>1, Standing DEF AttemptFails, In
  <1>4. CASE InPipeline(r) /\ Enter(r, "deliver", [sent |-> <<>>, degraded |-> TRUE])
    <2> DEFINE fields == [sent |-> <<>>, degraded |-> TRUE]
    <2>1. /\ DOMAIN fields = {"sent", "degraded"} /\ fields.sent = <<>> /\ fields.degraded = TRUE
          /\ "deliver" \in Stages \ {"finalize", "retry"}
      BY DEF Stages
    <2> HIDE DEF fields
    <2>2. Enter(r, "deliver", fields)
      BY <1>4 DEF fields
    <2>3. InPipeline(r) /\ After(r, fields, "degraded")
      BY <1>4, <2>1 DEF After
    <2>4. QED
      BY <1>1, <1>2, <2>1, <2>2, <2>3, EnterPlain
  <1>5. CASE Raise(r, "models")
    <2>1. "failed" \in Ended \ {"done"}
      BY DEF Ended
    <2>2. QED
      BY <1>1, <1>5, <2>1, RaiseMoves DEF Raise
  <1>6. CASE /\ ~LastAttempt(r)
             /\ Update(r, [pc |-> "agent", at |-> job[r].at + 1, retried |-> FALSE, sent |-> <<>>])
    <2> DEFINE fields == [pc |-> "agent", at |-> job[r].at + 1, retried |-> FALSE, sent |-> <<>>]
    <2>1. /\ DOMAIN fields = {"pc", "at", "retried", "sent"} /\ fields.pc = "agent"
          /\ fields.at = job[r].at + 1 /\ fields.sent = <<>>
      OBVIOUS
    <2> HIDE DEF fields
    <2>2. Update(r, fields)
      BY <1>6 DEF fields
    <2>3. /\ After(r, fields, "pc") = "agent" /\ After(r, fields, "at") = job[r].at + 1
          /\ After(r, fields, "attempts") = job[r].attempts
          /\ After(r, fields, "runtime") = job[r].runtime
          /\ After(r, fields, "spent") = job[r].spent /\ After(r, fields, "sent") = <<>>
      BY <2>1 DEF After
    <2>4. Points(job[r].at + 1, job[r].attempts)
      BY <1>3, <1>6, AttemptOffered
    <2>5. <<>> \in Seq(Messages) /\ Valid(<<>>) /\ "agent" \in Stages
      BY DEF Valid, Stages
    <2>6. QED
      BY <1>1, <1>2, <2>1, <2>2, <2>3, <2>4, <2>5, Standing, UpdateMoves
  <1>7. QED
    BY <1>4, <1>5, <1>6 DEF AttemptFails, Unreviewed

LEMMA EditorMoves ==
    ASSUME Shape, NEW r \in Reviews, Good(r), Editor(r)
    PROVE  Moves(r)
  <1>1. /\ job[r].pc \in Stages /\ job[r].pc = "editor" /\ job[r].attempts # <<>>
        /\ row' = row /\ case' = case /\ pipeline' = pipeline
    BY DEF Editor, In, Keep, Stages
  <1>2. /\ RowAside(r) /\ row'[r].status \in {"queued", "running"}
        /\ DOMAIN row'[r] = {"status", "named"}
    BY <1>1, StageRow
  <1>3. "deliver" \in Stages \ {"finalize", "retry"} /\ "failed" \in Ended \ {"done"}
    BY DEF Stages, Ended
  <1>4. ASSUME NEW left \in BOOLEAN, Enter(r, "deliver", [findings |-> left, spent |-> TRUE])
        PROVE  Moves(r)
    <2> DEFINE fields == [findings |-> left, spent |-> TRUE]
    <2>1. DOMAIN fields = {"findings", "spent"} /\ fields.spent = TRUE
      OBVIOUS
    <2> HIDE DEF fields
    <2>2. Enter(r, "deliver", fields)
      BY <1>4 DEF fields
    <2>3. QED
      BY <1>1, <1>2, <1>3, <2>1, <2>2, EnterPlain
  <1>5. ASSUME NEW cause, Raise(r, cause)
        PROVE  Moves(r)
    BY <1>1, <1>3, <1>5, RaiseMoves DEF Raise
  <1>6. CASE Enter(r, "deliver", <<>>)
    <2>1. DOMAIN <<>> = {}
      OBVIOUS
    <2>2. QED
      BY <1>1, <1>2, <1>3, <1>6, <2>1, EnterPlain
  <1>7. CASE ~LastAttempt(r) /\ Update(r, [at |-> job[r].at + 1])
    <2> DEFINE fields == [at |-> job[r].at + 1]
    <2>1. DOMAIN fields = {"at"} /\ fields.at = job[r].at + 1
      OBVIOUS
    <2> HIDE DEF fields
    <2>2. Update(r, fields)
      BY <1>7 DEF fields
    <2>3. /\ After(r, fields, "pc") = job[r].pc /\ After(r, fields, "at") = job[r].at + 1
          /\ After(r, fields, "attempts") = job[r].attempts
          /\ After(r, fields, "runtime") = job[r].runtime
          /\ After(r, fields, "spent") = job[r].spent /\ After(r, fields, "sent") = job[r].sent
      BY <2>1 DEF After
    <2>4. Points(job[r].at + 1, job[r].attempts)
      BY <1>1, <1>7, AttemptOffered
    <2>5. QED
      BY <1>1, <1>2, <2>1, <2>2, <2>3, <2>4, Standing, UpdateMoves
  <1>8. QED
    BY <1>4, <1>5, <1>6, <1>7 DEF Editor, EditorFails

LEMMA StageDegradesMoves ==
    ASSUME Shape, NEW r \in Reviews, Good(r), StageDegrades(r)
    PROVE  Moves(r)
  <1>1. /\ job[r].pc \in Stages /\ job[r].pc = "editor" /\ InPipeline(r)
        /\ row' = row /\ case' = case /\ pipeline' = pipeline
    BY DEF StageDegrades, In, Keep, Stages
  <1>2. /\ RowAside(r) /\ row'[r].status \in {"queued", "running"}
        /\ DOMAIN row'[r] = {"status", "named"}
    BY <1>1, StageRow
  <1> DEFINE fields == [findings |-> FALSE, degraded |-> TRUE]
  <1>3. /\ DOMAIN fields = {"findings", "degraded"} /\ fields.degraded = TRUE
        /\ "deliver" \in Stages \ {"finalize", "retry"}
    BY DEF Stages
  <1> HIDE DEF fields
  <1>4. Enter(r, "deliver", fields)
    BY DEF StageDegrades, fields
  <1>5. QED
    BY <1>1, <1>2, <1>3, <1>4, EnterPlain

LEMMA DeliverMoves ==
    ASSUME Shape, NEW r \in Reviews, Good(r), Deliver(r)
    PROVE  Moves(r)
  <1>1. /\ job[r].pc \in Stages /\ job[r].pc = "deliver"
        /\ row' = row /\ case' = case /\ pipeline' = pipeline
    BY DEF Deliver, Keep, Stages
  <1>2. /\ RowAside(r) /\ row'[r].status \in {"queued", "running"}
        /\ DOMAIN row'[r] = {"status", "named"}
    BY <1>1, StageRow
  <1>3. HasAnswer(r) \/ (InPipeline(r) /\ job[r].degraded)
    BY <1>1 DEF Good, Answered, HasAnswer, Excused, Chunked
  <1>4. ASSUME NEW status \in Ended, status = "done" => HasAnswer(r), NEW degraded \in BOOLEAN,
               Conclude(r, status, [degraded |-> degraded])
        PROVE  Moves(r)
    <2> DEFINE fields == [degraded |-> degraded]
    <2>1. DOMAIN fields = {"degraded"} /\ fields.degraded = degraded
      OBVIOUS
    <2> HIDE DEF fields
    <2>2. Conclude(r, status, fields)
      BY <1>4 DEF fields
    <2>3. QED
      BY <1>1, <1>2, <1>4, <2>1, <2>2, ConcludeMoves
  <1>5. ASSUME NEW status \in Ended, status = "done" => HasAnswer(r), NEW cause,
               Conclude(r, status, [cause |-> cause])
        PROVE  Moves(r)
    <2> DEFINE fields == [cause |-> cause]
    <2>1. DOMAIN fields = {"cause"}
      OBVIOUS
    <2> HIDE DEF fields
    <2>2. Conclude(r, status, fields)
      BY <1>5 DEF fields
    <2>3. QED
      BY <1>1, <1>2, <1>5, <2>1, <2>2, ConcludeMoves
  <1>6. CASE InPipeline(r)
    <2>1. PICK posted \in {"all", "some", "none"} :
            Conclude(r, IF job[r].degraded \/ posted = "none" THEN "partial" ELSE "done",
                     [degraded |-> job[r].degraded \/ posted = "none"])
      BY <1>6 DEF Deliver
    <2>2. job[r].degraded \in BOOLEAN
      BY DEF Good, Fields
    <2>3. CASE job[r].degraded \/ posted = "none"
      <3>1. Conclude(r, "partial", [degraded |-> job[r].degraded \/ posted = "none"])
        BY <2>1, <2>3
      <3>2. "partial" \in Ended /\ (job[r].degraded \/ posted = "none") \in BOOLEAN
        BY <2>2 DEF Ended
      <3>3. QED
        BY <1>4, <3>1, <3>2
    <2>4. CASE ~(job[r].degraded \/ posted = "none")
      <3>1. Conclude(r, "done", [degraded |-> job[r].degraded \/ posted = "none"])
        BY <2>1, <2>4
      <3>2. "done" \in Ended /\ (job[r].degraded \/ posted = "none") \in BOOLEAN /\ HasAnswer(r)
        BY <1>3, <2>2, <2>4 DEF Ended
      <3>3. QED
        BY <1>4, <3>1, <3>2
    <2>5. QED
      BY <2>3, <2>4
  <1>7. CASE ~InPipeline(r)
    <2>1. HasAnswer(r) /\ "failed" \in Ended \ {"done"}
      BY <1>3, <1>7 DEF Ended
    <2>2. CASE Raise(r, "database")
      BY <1>1, <2>1, <2>2, RaiseMoves DEF Raise
    <2>3. CASE ~Raise(r, "database")
      <3>1. PICK status \in Ended, cause \in {"github", "none"} :
              Conclude(r, status, [cause |-> cause])
        <4>1. PICK posted \in {"all", "some", "none"} :
                Conclude(r, CASE posted = "all"  -> "done"
                             [] posted = "some" -> "partial"
                             [] posted = "none" -> IF job[r].findings THEN "partial" ELSE "failed",
                         [cause |-> IF posted = "none" THEN "github" ELSE "none"])
          BY <1>7, <2>3 DEF Deliver
        <4>2. (CASE posted = "all"  -> "done"
                [] posted = "some" -> "partial"
                [] posted = "none" -> IF job[r].findings THEN "partial" ELSE "failed") \in Ended
          BY DEF Ended
        <4>3. QED
          BY <4>1, <4>2
      <3>2. QED
        BY <1>5, <2>1, <3>1
    <2>4. QED
      BY <2>2, <2>3
  <1>8. QED
    BY <1>6, <1>7

-----------------------------------------------------------------------------
(* The end of a job *)

\* After its charge the job only moves on; the row may end on the way.
LEMMA Settles ==
    ASSUME Shape, NEW r \in Reviews, Good(r),
           job[r].pc \in {"charge", "write"} \union Settled,
           RowAside(r), case' = case, pipeline' = pipeline, DOMAIN row'[r] = {"status", "named"},
           NEW next \in Settled, Update(r, [pc |-> next]),
           next \in {"stamp", "success"} => ~job[r].handler,
           next \in {"stamp", "blame", "trip", "remark"} /\ job[r].spent => job[r].charged > 0,
           \/ row'[r].status = row[r].status
           \/ /\ row'[r].status \in Ended /\ (job[r].spent => job[r].charged > 0)
              /\ row'[r].status = "done" => HasAnswer(r)
    PROVE  Moves(r)
  <1> DEFINE fields == [pc |-> next]
  <1>1. DOMAIN fields = {"pc"} /\ fields.pc = next
    OBVIOUS
  <1> HIDE DEF fields
  <1>2. Update(r, fields)
    BY DEF fields
  <1>3. /\ JobAside(r) /\ DOMAIN job'[r] = FieldNames
        /\ \A f \in FieldNames :
             job'[r][f] = IF f \in DOMAIN fields THEN fields[f] ELSE job[r][f]
    BY <1>1, <1>2, UpdateFields DEF Shape, Good, Fields, FieldNames
  <1>4. /\ job'[r].pc = next /\ job'[r].sent = job[r].sent /\ job'[r].at = job[r].at
        /\ job'[r].attempts = job[r].attempts /\ job'[r].served = job[r].served
        /\ job'[r].charged = job[r].charged /\ job'[r].runtime = job[r].runtime
        /\ job'[r].spent = job[r].spent /\ job'[r].degraded = job[r].degraded
        /\ job'[r].handler = job[r].handler /\ job'[r].outcome = job[r].outcome
    BY <1>1, <1>3 DEF FieldNames
  <1>5. HasAnswer(r)' = HasAnswer(r)
    BY <1>4 DEF HasAnswer
  <1>6. /\ job[r].pc \notin Stages /\ job[r].pc # "idle" /\ next \notin Stages
        /\ next \notin {"idle", "charge", "write", "chunks", "retry", "editor", "deliver", "finalize"}
    BY DEF Stages, Settled
  <1>7. Fields(r)'
    BY <1>3, <1>4, <1>6 DEF Good, Fields
  <1>8. Rows(r)'
    BY <1>4, <1>6 DEF Good, Rows, Ended
  <1>9. Paid(r)'
    BY <1>4, <1>6 DEF Good, Paid
  <1>10. Answered(r)'
    BY <1>4, <1>5, <1>6 DEF Good, Answered
  <1>11. Chained(r)' /\ Talks(r)'
    BY <1>4, <1>6 DEF Good, Chained, Talks
  <1>12. QED
    BY <1>3, <1>7, <1>8, <1>9, <1>10, <1>11 DEF Moves, Good

LEMMA ChargeMoves ==
    ASSUME Shape, NEW r \in Reviews, Good(r), Charge(r)
    PROVE  Moves(r)
  <1>1. /\ job[r].pc = "charge" /\ row' = row /\ case' = case /\ pipeline' = pipeline
    BY DEF Charge, Keep
  <1> DEFINE charged == job[r].charged + (IF job[r].spent THEN 1 ELSE 0)
             fields == [pc |-> "write", charged |-> charged]
  <1>2. Update(r, fields)
    BY DEF Charge
  <1>3. /\ charged \in 0 .. 2 /\ (job[r].spent => charged > 0)
        /\ ~job[r].handler => charged <= 1
    BY <1>1 DEF Good, Fields, Paid
  <1> HIDE DEF charged
  <1>4. DOMAIN fields = {"pc", "charged"} /\ fields.pc = "write" /\ fields.charged = charged
    OBVIOUS
  <1> HIDE DEF fields
  <1>5. /\ JobAside(r) /\ DOMAIN job'[r] = FieldNames
        /\ \A f \in FieldNames :
             job'[r][f] = IF f \in DOMAIN fields THEN fields[f] ELSE job[r][f]
    BY <1>2, <1>4, UpdateFields DEF Shape, Good, Fields, FieldNames
  <1>6. /\ job'[r].pc = "write" /\ job'[r].sent = job[r].sent /\ job'[r].at = job[r].at
        /\ job'[r].attempts = job[r].attempts /\ job'[r].served = job[r].served
        /\ job'[r].charged = charged /\ job'[r].runtime = job[r].runtime
        /\ job'[r].spent = job[r].spent /\ job'[r].degraded = job[r].degraded
        /\ job'[r].handler = job[r].handler /\ job'[r].outcome = job[r].outcome
    BY <1>4, <1>5 DEF FieldNames
  <1>7. RowAside(r) /\ row'[r] = row[r]
    BY <1>1, RowSame
  <1>8. HasAnswer(r)' = HasAnswer(r)
    BY <1>1, <1>6 DEF HasAnswer
  <1>9. Fields(r)' /\ Rows(r)'
    BY <1>1, <1>3, <1>5, <1>6, <1>7 DEF Good, Fields, Rows, Stages
  <1>10. Paid(r)'
    BY <1>3, <1>6 DEF Paid, Stages
  <1>11. Answered(r)'
    BY <1>1, <1>6, <1>7, <1>8 DEF Good, Answered
  <1>12. Chained(r)' /\ Talks(r)'
    BY <1>6 DEF Good, Chained, Talks
  <1>13. QED
    BY <1>1, <1>5, <1>7, <1>9, <1>10, <1>11, <1>12 DEF Moves, Good

LEMMA WriteMoves ==
    ASSUME Shape, NEW r \in Reviews, Good(r), Write(r)
    PROVE  Moves(r)
  <1>1. job[r].pc = "write" /\ case' = case /\ pipeline' = pipeline
    BY DEF Write, Keep
  <1>2. /\ job[r].spent => job[r].charged > 0
        /\ job[r].outcome \in Ended /\ (job[r].outcome = "done" => HasAnswer(r))
    BY <1>1 DEF Good, Fields, Paid, Answered
  <1>3. ASSUME NEW written \in BOOLEAN
        PROVE  AfterHandler(r, written) \in {"blame", "remark", "over"}
    BY DEF AfterHandler
  <1>4. {"blame", "remark", "over", "stamp", "served"} \subseteq Settled
    BY DEF Settled
  <1>5. ASSUME row' = row,
               \/ Isolated(r) /\ Update(r, [pc |-> "served"])
               \/ Update(r, [pc |-> AfterHandler(r, FALSE)])
               \/ ~job[r].handler /\ Raise(r, "database")
        PROVE  Moves(r)
    <2>1. RowAside(r) /\ row'[r] = row[r] /\ DOMAIN row'[r] = {"status", "named"}
      BY <1>5, RowSame DEF Good, Rows
    <2>2. CASE Isolated(r) /\ Update(r, [pc |-> "served"])
      BY <1>1, <1>4, <2>1, <2>2, Settles
    <2>3. CASE Update(r, [pc |-> AfterHandler(r, FALSE)])
      <3>1. PICK next \in {"blame", "remark", "over"} : next = AfterHandler(r, FALSE)
        BY <1>3
      <3>2. next \in Settled /\ Update(r, [pc |-> next])
        BY <1>4, <2>3, <3>1
      <3>3. QED
        BY <1>1, <1>2, <2>1, <3>2, <3>1, Settles
    <2>4. CASE ~job[r].handler /\ Raise(r, "database")
      BY <1>1, <1>5, <2>4, LateRaiseMoves DEF Raise
    <2>5. QED
      BY <1>5, <2>2, <2>3, <2>4
  <1>6. ASSUME NEW named,
               row' = [row EXCEPT ![r] = [status |-> job[r].outcome, named |-> named]],
               Update(r, [pc |-> IF job[r].handler THEN AfterHandler(r, TRUE) ELSE "stamp"])
        PROVE  Moves(r)
    <2>1. /\ RowAside(r) /\ row'[r].status = job[r].outcome
          /\ DOMAIN row'[r] = {"status", "named"}
      BY <1>6 DEF Shape, RowAside
    <2>2. PICK next \in Settled :
            /\ next = IF job[r].handler THEN AfterHandler(r, TRUE) ELSE "stamp"
            /\ next # "success" /\ (next = "stamp" => ~job[r].handler)
      BY <1>3, <1>4
    <2>3. Update(r, [pc |-> next])
      BY <1>6, <2>2
    <2>4. QED
      BY <1>1, <1>2, <2>1, <2>2, <2>3, Settles
  <1>7. QED
    BY <1>5, <1>6 DEF Write

LEMMA StampMoves ==
    ASSUME Shape, NEW r \in Reviews, Good(r), Stamp(r)
    PROVE  Moves(r)
  <1>1. /\ job[r].pc = "stamp" /\ row' = row /\ case' = case /\ pipeline' = pipeline
    BY DEF Stamp, Keep
  <1>2. RowAside(r) /\ row'[r] = row[r] /\ DOMAIN row'[r] = {"status", "named"}
    BY <1>1, RowSame DEF Good, Rows
  <1>3. /\ job[r].pc \in {"charge", "write"} \union Settled
        /\ {"success", "served", "over", "trip", "remark"} \subseteq Settled
    BY <1>1 DEF Settled
  <1>4. ~job[r].handler
    BY <1>1 DEF Good, Paid
  <1>5. ASSUME NEW next \in {"success", "served"}, Update(r, [pc |-> next])
        PROVE  Moves(r)
    BY <1>1, <1>2, <1>3, <1>4, <1>5, Settles
  <1>6. CASE Raise(r, "database")
    BY <1>1, <1>4, <1>6, LateRaiseMoves DEF Raise
  <1>7. QED
    BY <1>5, <1>6 DEF Stamp

LEMMA SuccessMoves ==
    ASSUME Shape, NEW r \in Reviews, Good(r), Success(r)
    PROVE  Moves(r)
  <1>1. /\ job[r].pc = "success" /\ row' = row /\ case' = case /\ pipeline' = pipeline
    BY DEF Success, Keep
  <1>2. RowAside(r) /\ row'[r] = row[r] /\ DOMAIN row'[r] = {"status", "named"}
    BY <1>1, RowSame DEF Good, Rows
  <1>3. /\ job[r].pc \in {"charge", "write"} \union Settled
        /\ {"success", "served", "over", "trip", "remark"} \subseteq Settled
    BY <1>1 DEF Settled
  <1>4. PICK next \in {"served", "over"} : Update(r, [pc |-> next])
    BY DEF Success
  <1>5. QED
    BY <1>1, <1>2, <1>3, <1>4, Settles

LEMMA ServedMoves ==
    ASSUME Shape, NEW r \in Reviews, Good(r), Served(r)
    PROVE  Moves(r)
  <1>1. /\ job[r].pc = "served" /\ row' = row /\ case' = case /\ pipeline' = pipeline
    BY DEF Served, Keep
  <1>2. RowAside(r) /\ row'[r] = row[r] /\ DOMAIN row'[r] = {"status", "named"}
    BY <1>1, RowSame DEF Good, Rows
  <1>3. /\ job[r].pc \in {"charge", "write"} \union Settled
        /\ {"success", "served", "over", "trip", "remark"} \subseteq Settled
    BY <1>1 DEF Settled
  <1>4. Update(r, [pc |-> "over"])
    BY DEF Served
  <1>5. QED
    BY <1>1, <1>2, <1>3, <1>4, Settles

LEMMA BlameMoves ==
    ASSUME Shape, NEW r \in Reviews, Good(r), Blame(r)
    PROVE  Moves(r)
  <1>1. /\ job[r].pc = "blame" /\ row' = row /\ case' = case /\ pipeline' = pipeline
    BY DEF Blame, Keep
  <1>2. RowAside(r) /\ row'[r] = row[r] /\ DOMAIN row'[r] = {"status", "named"}
    BY <1>1, RowSame DEF Good, Rows
  <1>3. /\ job[r].pc \in {"charge", "write"} \union Settled
        /\ {"success", "served", "over", "trip", "remark"} \subseteq Settled
    BY <1>1 DEF Settled
  <1>4. job[r].spent => job[r].charged > 0
    BY <1>1 DEF Good, Paid
  <1>5. PICK next \in {"trip", "remark", "over"} : Update(r, [pc |-> next])
    BY DEF Blame
  <1>6. QED
    BY <1>1, <1>2, <1>3, <1>4, <1>5, Settles

LEMMA TripMoves ==
    ASSUME Shape, NEW r \in Reviews, Good(r), Trip(r)
    PROVE  Moves(r)
  <1>1. /\ job[r].pc = "trip" /\ row' = row /\ case' = case /\ pipeline' = pipeline
    BY DEF Trip, Keep
  <1>2. RowAside(r) /\ row'[r] = row[r] /\ DOMAIN row'[r] = {"status", "named"}
    BY <1>1, RowSame DEF Good, Rows
  <1>3. /\ job[r].pc \in {"charge", "write"} \union Settled
        /\ {"success", "served", "over", "trip", "remark"} \subseteq Settled
    BY <1>1 DEF Settled
  <1>4. job[r].spent => job[r].charged > 0
    BY <1>1 DEF Good, Paid
  <1>5. PICK next \in {"remark", "over"} : Update(r, [pc |-> next])
    BY DEF Trip
  <1>6. QED
    BY <1>1, <1>2, <1>3, <1>4, <1>5, Settles

LEMMA RemarkMoves ==
    ASSUME Shape, NEW r \in Reviews, Good(r), Remark(r)
    PROVE  Moves(r)
  <1>1. /\ job[r].pc = "remark" /\ case' = case /\ pipeline' = pipeline
        /\ Update(r, [pc |-> "over"])
    BY DEF Remark, Keep
  <1>2. /\ job[r].pc \in {"charge", "write"} \union Settled /\ "over" \in Settled
        /\ "failed" \in Ended
    BY <1>1 DEF Settled, Ended
  <1>3. job[r].spent => job[r].charged > 0
    BY <1>1 DEF Good, Paid
  <1>4. CASE WriteRow(r, "failed")
    <2>1. RowAside(r) /\ row'[r].status = "failed" /\ DOMAIN row'[r] = {"status", "named"}
      BY <1>4, RowWritten
    <2>2. QED
      BY <1>1, <1>2, <1>3, <2>1, Settles
  <1>5. CASE row' = row
    <2>1. RowAside(r) /\ row'[r] = row[r] /\ DOMAIN row'[r] = {"status", "named"}
      BY <1>5, RowSame DEF Good, Rows
    <2>2. QED
      BY <1>1, <1>2, <2>1, Settles
  <1>6. QED
    BY <1>4, <1>5 DEF Remark

-----------------------------------------------------------------------------
(* The transcript *)

\* What is accepted stays so in a longer transcript.
LEMMA AcceptedLonger ==
    ASSUME NEW sent \in Seq(Messages), Valid(sent), NEW new, Len(new) > Len(sent),
           \A k \in 1 .. Len(sent) : new[k] = sent[k], NEW k \in 1 .. Len(sent)
    PROVE  Accepted(new, k)
  <1>1. Accepted(sent, k) /\ new[k] = sent[k] /\ Len(sent) \in Nat
    BY DEF Valid
  <1>2. ASSUME sent[k].calls # <<>>
        PROVE  k < Len(new) /\ Len(new[k + 1].results) = Len(new[k].calls)
    <2>1. k < Len(sent) /\ Len(sent[k + 1].results) = Len(sent[k].calls)
      BY <1>1, <1>2 DEF Accepted
    <2>2. k + 1 \in 1 .. Len(sent) /\ k < Len(new)
      BY <1>1, <2>1
    <2>3. new[k + 1] = sent[k + 1]
      BY <2>2
    <2>4. QED
      BY <1>1, <2>1, <2>2, <2>3
  <1>3. ASSUME sent[k].results # <<>>
        PROVE  k > 1 /\ Len(new[k - 1].calls) = Len(new[k].results)
    <2>1. k > 1 /\ Len(sent[k - 1].calls) = Len(sent[k].results)
      BY <1>1, <1>3 DEF Accepted
    <2>2. k - 1 \in 1 .. Len(sent)
      BY <1>1, <2>1
    <2>3. new[k - 1] = sent[k - 1]
      BY <2>2
    <2>4. QED
      BY <1>1, <2>1, <2>3
  <1>4. QED
    BY <1>1, <1>2, <1>3 DEF Accepted

\* A text of the model ends the transcript.
LEMMA AppendValid ==
    ASSUME NEW sent \in Seq(Messages), Valid(sent), NEW said \in Messages,
           said.by = "assistant", said.calls = <<>>, said.results = <<>>
    PROVE  Append(sent, said) \in Seq(Messages) /\ Valid(Append(sent, said))
  <1> DEFINE new == Append(sent, said)
             n == Len(sent)
  <1>1. /\ new \in Seq(Messages) /\ Len(new) = n + 1 /\ n \in Nat
        /\ new[n + 1] = said /\ \A k \in 1 .. n : new[k] = sent[k]
    OBVIOUS
  <1>2. DOMAIN new = 1 .. n + 1
    BY <1>1
  <1> HIDE DEF new
  <1>3. \A k \in 1 .. n : Accepted(new, k)
    BY <1>1, AcceptedLonger
  <1>4. Accepted(new, n + 1)
    BY <1>1 DEF Accepted
  <1> HIDE DEF n
  <1>5. \A k \in DOMAIN new : k \in 1 .. n \/ k = n + 1
    BY <1>1, <1>2
  <1>6. Valid(new)
    BY <1>3, <1>4, <1>5 DEF Valid
  <1>7. QED
    BY <1>1, <1>6 DEF new

\* A turn: what the model said and the results of its calls, one for each.
LEMMA TurnValid ==
    ASSUME NEW sent \in Seq(Messages), Valid(sent), NEW said \in Messages, NEW answer \in Messages,
           said.by = "assistant", said.results = <<>>, answer.calls = <<>>,
           Len(answer.results) = Len(said.calls),
           answer.by = "user" => answer.text \/ answer.results # <<>>
    PROVE  sent \o <<said, answer>> \in Seq(Messages) /\ Valid(sent \o <<said, answer>>)
  <1> DEFINE new == sent \o <<said, answer>>
             n == Len(sent)
  <1>1. /\ new \in Seq(Messages) /\ Len(new) = n + 2 /\ n \in Nat
        /\ new[n + 1] = said /\ new[n + 2] = answer
        /\ \A k \in 1 .. n : new[k] = sent[k]
    OBVIOUS
  <1>2. DOMAIN new = 1 .. n + 2
    BY <1>1
  <1> HIDE DEF new
  <1>3. \A k \in 1 .. n : Accepted(new, k)
    BY <1>1, AcceptedLonger
  <1> HIDE DEF n
  <1>4. /\ (n + 2) - 1 = n + 1 /\ (n + 1) + 1 = n + 2 /\ n + 1 < n + 2 /\ n + 2 > 1
        /\ Len(new) = n + 2 /\ new[n + 1] = said /\ new[n + 2] = answer
    BY <1>1
  <1>5. Accepted(new, n + 1)
    BY <1>4 DEF Accepted
  <1>6. Accepted(new, n + 2)
    <2>1. new[(n + 2) - 1] = said
      BY <1>4
    <2>2. QED
      BY <1>4, <2>1 DEF Accepted
  <1>7. \A k \in DOMAIN new : k \in 1 .. n \/ k = n + 1 \/ k = n + 2
    BY <1>1, <1>2
  <1>8. Valid(new)
    BY <1>3, <1>5, <1>6, <1>7 DEF Valid
  <1>9. QED
    BY <1>1, <1>8 DEF new

\* What a model may say.
LEMMA ReplyFields ==
    ASSUME NEW provider, NEW reply \in Replies(provider)
    PROVE  /\ reply.stop \in {"end", "limit", "tools", "other", "none"} /\ reply.text \in BOOLEAN
           /\ reply.calls \in Seq(ToolCalls)
           /\ reply.stop \in {"end", "other", "none"} => reply.calls = <<>>
           /\ reply.stop = "none" => ~Anthropic(provider)
  <1>1. SetToSeq(ToolCalls) \in Seq(ToolCalls)
    <2>1. Cardinality(ToolCalls) \in Nat /\ ExistsBijection(1 .. Cardinality(ToolCalls), ToolCalls)
      BY FS_CardinalityType, ToolsAssumption
    <2>2. \E f \in [1 .. Cardinality(ToolCalls) -> ToolCalls] : IsInjective(f)
      BY <2>1 DEF ExistsBijection, Bijection, Injection
    <2>3. SetToSeq(ToolCalls) \in [1 .. Cardinality(ToolCalls) -> ToolCalls]
      BY <2>2 DEF SetToSeq
    <2>4. QED
      BY <2>1, <2>3
  <1>2. \A calls \in {<<>>, SetToSeq(ToolCalls)} \cup {<<c>> : c \in ToolCalls} :
          calls \in Seq(ToolCalls)
    <2>1. <<>> \in Seq(ToolCalls) /\ \A c \in ToolCalls : <<c>> \in Seq(ToolCalls)
      OBVIOUS
    <2>2. QED
      BY <1>1, <2>1, Zenon
  <1>3. QED
    BY <1>2 DEF Replies

LEMMA Results ==
    ASSUME NEW calls \in Seq(ToolCalls), NEW github \in BOOLEAN
    PROVE  /\ ResultsOf(calls, github) \in Seq({"content", "failed"})
           /\ Len(ResultsOf(calls, github)) = Len(calls)
           /\ calls # <<>> => ResultsOf(calls, github) # <<>>
  <1>1. \A call : ToolResult(call, github) \in {"content", "failed"}
    BY DEF ToolResult
  <1>2. QED
    BY <1>1 DEF ResultsOf

\* Whatever the model replies, the transcript of its next turn is accepted.
LEMMA AfterReplyValid ==
    ASSUME NEW provider, NEW sent \in Seq(Messages), Valid(sent),
           NEW reply \in Replies(provider), NEW github \in BOOLEAN
    PROVE  /\ AfterReply(provider, sent, reply, github).sent \in Seq(Messages)
           /\ Valid(AfterReply(provider, sent, reply, github).sent)
  <1>1. /\ reply.stop \in {"end", "limit", "tools", "other", "none"} /\ reply.text \in BOOLEAN
        /\ reply.calls \in Seq(ToolCalls)
        /\ reply.stop \in {"end", "other", "none"} => reply.calls = <<>>
        /\ reply.stop = "none" => ~Anthropic(provider)
    BY ReplyFields
  <1>2. /\ ResultsOf(reply.calls, github) \in Seq({"content", "failed"})
        /\ Len(ResultsOf(reply.calls, github)) = Len(reply.calls)
        /\ reply.calls # <<>> => ResultsOf(reply.calls, github) # <<>>
    BY <1>1, Results
  <1>3. <<>> \in Seq(ToolCalls) /\ <<>> \in Seq({"content", "failed"})
    OBVIOUS
  <1> DEFINE said == Message("assistant", reply.text, reply.calls, <<>>)
             kept == Message("assistant", reply.text, <<>>, <<>>)
             user == Message("user", reply.calls = <<>>, <<>>, ResultsOf(reply.calls, github))
             tool == Message("tool", FALSE, <<>>, ResultsOf(reply.calls, github))
  <1>4. said \in Messages /\ said.by = "assistant" /\ said.calls = reply.calls /\ said.results = <<>>
    BY <1>1, <1>3 DEF Message, Messages
  <1>5. kept \in Messages /\ kept.by = "assistant" /\ kept.calls = <<>> /\ kept.results = <<>>
    BY <1>1, <1>3 DEF Message, Messages
  <1>6. /\ user \in Messages /\ user.calls = <<>> /\ user.text = (reply.calls = <<>>)
        /\ user.results = ResultsOf(reply.calls, github)
    <2>1. (reply.calls = <<>>) \in BOOLEAN
      OBVIOUS
    <2>2. QED
      BY <1>2, <1>3, <2>1 DEF Message, Messages
  <1>7. /\ tool \in Messages /\ tool.by = "tool" /\ tool.calls = <<>>
        /\ tool.results = ResultsOf(reply.calls, github)
    BY <1>2, <1>3 DEF Message, Messages
  <1> HIDE DEF said, kept, user, tool
  <1>8. /\ sent \o <<said, user>> \in Seq(Messages) /\ Valid(sent \o <<said, user>>)
    <2>1. user.text \/ user.results # <<>>
      BY <1>2, <1>6
    <2>2. QED
      BY <1>2, <1>4, <1>6, <2>1, TurnValid
  <1>9. /\ sent \o <<said, tool>> \in Seq(Messages) /\ Valid(sent \o <<said, tool>>)
    BY <1>2, <1>4, <1>7, TurnValid
  <1>10. Append(sent, kept) \in Seq(Messages) /\ Valid(Append(sent, kept))
    BY <1>5, AppendValid
  <1>11. reply.calls = <<>> => Append(sent, said) \in Seq(Messages) /\ Valid(Append(sent, said))
    BY <1>4, AppendValid
  <1>12. CASE Anthropic(provider)
    <2>1. AfterReply(provider, sent, reply, github).sent
            \in {sent \o <<said, user>>, Append(sent, kept), sent}
                \union (IF reply.calls = <<>> THEN {Append(sent, said)} ELSE {})
      BY <1>1, <1>12 DEF AfterReply, AnthropicReply, said, kept, user
    <2>2. QED
      BY <1>8, <1>10, <1>11, <2>1
  <1>13. CASE ~Anthropic(provider)
    <2>1. AfterReply(provider, sent, reply, github).sent
            \in {sent \o <<said, tool>>, sent}
                \union (IF reply.calls = <<>> THEN {Append(sent, said)} ELSE {})
      BY <1>1, <1>13 DEF AfterReply, OpenAIReply, said, tool
    <2>2. QED
      BY <1>9, <1>11, <2>1
  <1>14. QED
    BY <1>12, <1>13

LEMMA OpeningValid ==
    ASSUME NEW provider
    PROVE  Opening(provider) \in Seq(Messages) /\ Valid(Opening(provider))
  <1>1. <<>> \in Seq(ToolCalls) /\ <<>> \in Seq({"content", "failed"})
    OBVIOUS
  <1> DEFINE system == Message("system", TRUE, <<>>, <<>>)
  <1>2. /\ Prompt \in Messages /\ Prompt.text = TRUE /\ Prompt.calls = <<>>
        /\ Prompt.results = <<>>
    BY <1>1 DEF Prompt, Message, Messages
  <1>3. /\ system \in Messages /\ system.by = "system" /\ system.calls = <<>>
        /\ system.results = <<>>
    BY <1>1 DEF Message, Messages
  <1> HIDE DEF system
  <1>4. <<Prompt>> \in Seq(Messages) /\ Valid(<<Prompt>>)
    BY <1>2 DEF Valid, Accepted
  <1>5. <<system, Prompt>> \in Seq(Messages) /\ Valid(<<system, Prompt>>)
    BY <1>2, <1>3 DEF Valid, Accepted
  <1>6. QED
    BY <1>4, <1>5 DEF Opening, system

LEMMA ModelCallMoves ==
    ASSUME Shape, NEW r \in Reviews, Good(r), ModelCall(r)
    PROVE  Moves(r)
  <1>1. /\ job[r].pc \in Stages /\ job[r].pc = "agent" /\ job[r].attempts # <<>>
        /\ row' = row /\ case' = case /\ pipeline' = pipeline
    BY DEF ModelCall, In, Keep, Stages
  <1>2. /\ RowAside(r) /\ row'[r].status \in {"queued", "running"}
        /\ DOMAIN row'[r] = {"status", "named"}
    BY <1>1, StageRow
  <1>3. PICK reply \in Replies(Attempt(r).provider), github \in BOOLEAN :
          Update(r, [sent |-> AfterReply(Attempt(r).provider, Transcript(r), reply, github).sent,
                     spent |-> TRUE,
                     pc |-> IF AfterReply(Attempt(r).provider, Transcript(r), reply, github).over
                            THEN "finalize" ELSE "agent"])
    BY DEF ModelCall
  <1> DEFINE loop == AfterReply(Attempt(r).provider, Transcript(r), reply, github)
             next == IF loop.over THEN "finalize" ELSE "agent"
             fields == [sent |-> loop.sent, spent |-> TRUE, pc |-> next]
  <1>4. Transcript(r) \in Seq(Messages) /\ Valid(Transcript(r))
    BY OpeningValid, Standing DEF Transcript
  <1>5. loop.sent \in Seq(Messages) /\ Valid(loop.sent)
    BY <1>4, AfterReplyValid
  <1>6. next \in {"agent", "finalize"}
    OBVIOUS
  <1>7. Update(r, fields)
    BY <1>3
  <1> HIDE DEF loop, next
  <1>8. /\ DOMAIN fields = {"sent", "spent", "pc"} /\ fields.pc = next /\ fields.spent = TRUE
        /\ fields.sent = loop.sent
    OBVIOUS
  <1> HIDE DEF fields
  <1>9. /\ After(r, fields, "pc") = next /\ After(r, fields, "at") = job[r].at
        /\ After(r, fields, "attempts") = job[r].attempts
        /\ After(r, fields, "runtime") = job[r].runtime
        /\ After(r, fields, "spent") \in BOOLEAN /\ After(r, fields, "sent") = loop.sent
    BY <1>8 DEF After
  <1>10. next \in Stages
    BY <1>6 DEF Stages
  <1>11. QED
    BY <1>1, <1>2, <1>5, <1>6, <1>7, <1>8, <1>9, <1>10, Standing, UpdateMoves

-----------------------------------------------------------------------------
(* What was tried before the models are blamed *)

LEMMA SameCase ==
    ASSUME NEW r \in Reviews, case' = case, pipeline' = pipeline
    PROVE  /\ Chunked(r)' = Chunked(r) /\ Primary(r)' = Primary(r)
           /\ InPipeline(r)' = InPipeline(r)
  BY DEF Chunked, Primary, InPipeline, Delegates

LEMMA UpdateTries ==
    ASSUME Shape, NEW r \in Reviews, Good(r), Tries(r), case' = case, pipeline' = pipeline, job[r].pc \in Stages,
           NEW fields, DOMAIN fields \subseteq FieldNames \ {"served", "cause", "findings"},
           After(r, fields, "pc") \in Stages,
           After(r, fields, "pc") # "retry",
           After(r, fields, "pc") \in Unserved => job[r].pc \in Unserved,
           After(r, fields, "pc") \in {"agent", "finalize"} =>
             After(r, fields, "attempts") \in {<<>>, Primary(r)},
           Update(r, fields)
    PROVE  Tries(r)'
  <1>1. \A f \in FieldNames : job'[r][f] = After(r, fields, f)
    BY UpdateFields DEF Shape, Good, Fields, After
  <1>2. /\ job'[r].pc = After(r, fields, "pc") /\ job'[r].attempts = After(r, fields, "attempts")
        /\ job'[r].served = After(r, fields, "served") /\ job'[r].cause = After(r, fields, "cause")
    BY <1>1 DEF FieldNames
  <1>3. /\ job'[r].served = job[r].served /\ job'[r].cause = job[r].cause
        /\ job'[r].findings = job[r].findings
    BY <1>1, <1>2 DEF After, FieldNames
  <1>4. job'[r].cause \notin {"models", "retry"}
    BY <1>3 DEF Tries
  <1>5. QED
    BY <1>2, <1>3, <1>4, SameCase DEF Tries

LEMMA EnterTries ==
    ASSUME Shape, NEW r \in Reviews, Good(r), Tries(r), case' = case, pipeline' = pipeline, job[r].pc \in Stages,
           NEW stage \in Stages \ {"retry"}, NEW fields,
           DOMAIN fields \subseteq FieldNames \ {"pc", "at", "attempts", "cause"},
           "served" \in DOMAIN fields => fields.served # NoProvider,
           "findings" \in DOMAIN fields =>
             fields.findings = FALSE \/ After(r, fields, "served") # NoProvider,
           stage \in Unserved => job[r].pc \in Unserved /\ "served" \notin DOMAIN fields,
           Enter(r, stage, fields)
    PROVE  Tries(r)'
  <1>1. /\ job'[r].pc = stage /\ job'[r].attempts = <<>>
        /\ \A f \in FieldNames \ {"pc", "at", "attempts"} :
             job'[r][f] = IF f \in DOMAIN fields THEN fields[f] ELSE job[r][f]
    BY EnterFields DEF Shape, Good, Fields
  <1>2. /\ job'[r].cause = job[r].cause
        /\ "served" \notin DOMAIN fields => job'[r].served = job[r].served
        /\ job'[r].served = After(r, fields, "served")
        /\ job'[r].findings = After(r, fields, "findings")
    BY <1>1 DEF FieldNames, After
  <1>3. /\ job'[r].cause \notin {"models", "retry"}
        /\ job'[r].findings = FALSE \/ job'[r].served # NoProvider
    BY <1>2 DEF Tries, After
  <1>4. QED
    BY <1>1, <1>2, <1>3, SameCase DEF Tries

\* What a result leaves of the job as it is, except for the fields it names.
Kept == FieldNames \ {"pc", "outcome", "sent", "at", "attempts", "served", "findings"}

LEMMA ConcludeTries ==
    ASSUME Shape, NEW r \in Reviews, Good(r), Tries(r), case' = case, pipeline' = pipeline, NEW status, NEW fields,
           DOMAIN fields \subseteq Kept,
           After(r, fields, "cause") = "retry" => ~InPipeline(r),
           After(r, fields, "cause") = "models" /\ ~Chunked(r) =>
             /\ job[r].served = NoProvider
             /\ job[r].attempts = Primary(r) /\ job[r].at = Len(Primary(r)),
           Conclude(r, status, fields)
    PROVE  Tries(r)'
  <1>1. /\ job'[r].pc = "charge"
        /\ \A f \in FieldNames \ {"pc", "outcome", "sent"} :
             job'[r][f] = IF f \in DOMAIN fields THEN fields[f] ELSE job[r][f]
    BY ConcludeFields DEF Shape, Good, Fields, Kept
  <1>2. /\ job'[r].at = job[r].at /\ job'[r].attempts = job[r].attempts
        /\ job'[r].served = job[r].served /\ job'[r].cause = After(r, fields, "cause")
        /\ job'[r].findings = job[r].findings
    BY <1>1 DEF FieldNames, After, Kept
  <1>3. "charge" \notin Stages \union Unserved \union {"idle"}
    BY DEF Stages, Unserved
  <1>4. QED
    BY <1>1, <1>2, <1>3, SameCase DEF Tries

\* An exception whose cause is not the models.
LEMMA RaiseTries ==
    ASSUME Shape, NEW r \in Reviews, Good(r), Tries(r), case' = case, pipeline' = pipeline, NEW status, NEW cause,
           cause # "models" \/ Chunked(r), cause = "retry" => ~InPipeline(r),
           Conclude(r, status, [cause |-> cause, handler |-> TRUE])
    PROVE  Tries(r)'
  <1> DEFINE fields == [cause |-> cause, handler |-> TRUE]
  <1>1. DOMAIN fields = {"cause", "handler"} /\ fields.cause = cause
    OBVIOUS
  <1> HIDE DEF fields
  <1>2. Conclude(r, status, fields)
    BY DEF fields
  <1>3. DOMAIN fields \subseteq Kept
    BY <1>1 DEF FieldNames, Kept
  <1>4. After(r, fields, "cause") = cause
    BY <1>1 DEF After
  <1>5. QED
    BY <1>2, <1>3, <1>4, ConcludeTries

\* After the stages a job only moves on.
LEMMA SettleTries ==
    ASSUME Shape, NEW r \in Reviews, Good(r), Tries(r), case' = case, pipeline' = pipeline,
           job[r].pc \notin Stages \union {"idle"},
           NEW fields, DOMAIN fields \subseteq {"pc", "charged"}, "pc" \in DOMAIN fields,
           fields.pc \in Settled \union {"write"},
           Update(r, fields)
    PROVE  Tries(r)'
  <1>1. \A f \in FieldNames : job'[r][f] = IF f \in DOMAIN fields THEN fields[f] ELSE job[r][f]
    BY UpdateFields DEF Shape, Good, Fields, FieldNames
  <1>2. /\ job'[r].pc = fields.pc /\ job'[r].at = job[r].at
        /\ job'[r].attempts = job[r].attempts
        /\ job'[r].served = job[r].served /\ job'[r].cause = job[r].cause
        /\ job'[r].findings = job[r].findings
    BY <1>1 DEF FieldNames
  <1>3. job'[r].pc \notin Stages \union Unserved \union {"idle"}
    BY <1>2 DEF Stages, Unserved, Settled
  <1>4. job'[r].pc \notin {"agent", "finalize", "retry"}
    BY <1>3 DEF Unserved, Stages
  <1>5. QED
    BY <1>2, <1>3, <1>4, SameCase DEF Tries

LEMMA NextTries ==
    ASSUME Shape, NEW r \in Reviews, Good(r), Tries(r), case' = case, pipeline' = pipeline,
           job[r].pc \notin Stages \union {"idle"},
           NEW next \in Settled, Update(r, [pc |-> next])
    PROVE  Tries(r)'
  <1> DEFINE fields == [pc |-> next]
  <1>1. DOMAIN fields = {"pc"} /\ fields.pc = next
    OBVIOUS
  <1> HIDE DEF fields
  <1>2. Update(r, fields)
    BY DEF fields
  <1>3. QED
    BY <1>1, <1>2, SettleTries

\* A fresh job.
LEMMA FreshTries ==
    ASSUME NEW r \in Reviews, NEW pc \in {"idle", "adapter", "fetch"}, job'[r].pc = pc,
           job'[r].cause = "none", job'[r].served = NoProvider, job'[r].findings = FALSE
    PROVE  Tries(r)'
  BY DEF Tries

LEMMA EntryTries ==
    ASSUME Shape, NEW r \in Reviews, Good(r), Tries(r), Submit(r) \/ Rerun(r) \/ Start(r)
    PROVE  Tries(r)'
  <1>1. /\ Idle.pc = "idle" /\ Idle.cause = "none" /\ Idle.served = NoProvider
        /\ Idle.findings = FALSE
    BY DEF Idle
  <1>2. CASE Submit(r)
    <2>1. job' = job /\ case' = case /\ pipeline' = pipeline
      BY <1>2 DEF Submit, Keep
    <2>2. QED
      BY <2>1, SameCase DEF Tries
  <1>3. CASE Rerun(r)
    <2>1. job'[r] = Idle
      BY <1>3 DEF Rerun, Shape
    <2>2. QED
      BY <1>1, <2>1, FreshTries
  <1>4. CASE Start(r)
    <2>1. PICK pc \in {"adapter", "fetch"} : Update(r, [Idle EXCEPT !.pc = pc])
      BY <1>4 DEF Start
    <2> DEFINE fields == [Idle EXCEPT !.pc = pc]
    <2>2. /\ DOMAIN fields = FieldNames /\ fields.pc = pc /\ fields.cause = "none"
          /\ fields.served = NoProvider /\ fields.findings = FALSE
      BY DEF Idle, FieldNames
    <2> HIDE DEF fields
    <2>3. Update(r, fields)
      BY <2>1 DEF fields
    <2>4. \A f \in FieldNames : job'[r][f] = fields[f]
      BY <2>2, <2>3, UpdateFields DEF Shape, Good, Fields
    <2>5. /\ job'[r].pc = pc /\ job'[r].cause = "none" /\ job'[r].served = NoProvider
          /\ job'[r].findings = FALSE
      BY <2>2, <2>4 DEF FieldNames
    <2>6. QED
      BY <2>5, FreshTries
  <1>5. QED
    BY <1>2, <1>3, <1>4

LEMMA SetupTries ==
    ASSUME Shape, NEW r \in Reviews, Good(r), Tries(r), AdapterSetup(r) \/ Fetch(r)
    PROVE  Tries(r)'
  <1>1. job[r].pc \in Stages /\ job[r].pc \in Unserved /\ case' = case /\ pipeline' = pipeline
    BY DEF AdapterSetup, Fetch, Keep, Stages, Unserved
  <1>2. ASSUME NEW cause \in {"github", "superseded"}, NEW status,
               Conclude(r, status, [cause |-> cause, handler |-> TRUE])
        PROVE  Tries(r)'
    BY <1>1, <1>2, RaiseTries
  <1>3. ASSUME NEW cause \in {"draft", "too_large"}, NEW status,
               Conclude(r, status, [cause |-> cause, configured |-> TRUE])
        PROVE  Tries(r)'
    <2> DEFINE fields == [cause |-> cause, configured |-> TRUE]
    <2>1. DOMAIN fields = {"cause", "configured"} /\ fields.cause = cause
      OBVIOUS
    <2> HIDE DEF fields
    <2>2. Conclude(r, status, fields)
      BY <1>3 DEF fields
    <2>3. /\ DOMAIN fields \subseteq Kept
          /\ After(r, fields, "cause") \notin {"models", "retry"}
      BY <2>1 DEF FieldNames, Kept, After
    <2>4. QED
      BY <1>1, <2>2, <2>3, ConcludeTries
  <1>4. ASSUME NEW stage \in {"fetch", "fast", "context"}, NEW flag \in {"delegated", "configured"},
               NEW fields, fields.pc = stage, DOMAIN fields = {"pc", flag}, Update(r, fields)
        PROVE  Tries(r)'
    <2>1. After(r, fields, "pc") = stage /\ DOMAIN fields \subseteq FieldNames \ {"served", "cause", "findings"}
      BY <1>4 DEF After, FieldNames
    <2>2. stage \in Stages
      BY DEF Stages
    <2>3. QED
      BY <1>1, <1>4, <2>1, <2>2, UpdateTries
  <1>5. CASE Enter(r, "agent", [configured |-> TRUE])
    <2> DEFINE fields == [configured |-> TRUE]
    <2>1. DOMAIN fields = {"configured"}
      OBVIOUS
    <2> HIDE DEF fields
    <2>2. Enter(r, "agent", fields)
      BY <1>5 DEF fields
    <2>3. "agent" \in Stages /\ DOMAIN fields \subseteq FieldNames \ {"pc", "at", "attempts", "cause"}
      BY <2>1 DEF Stages, FieldNames
    <2>4. QED
      BY <1>1, <2>1, <2>2, <2>3, EnterTries
  <1>6. CASE Raise(r, "github") \/ Supersede(r)
    BY <1>2, <1>6 DEF Raise, Supersede
  <1>7. CASE \E cause \in {"draft", "too_large"}, status \in {"skipped", "done"} :
               Conclude(r, status, [cause |-> cause, configured |-> TRUE])
    BY <1>3, <1>7
  <1>8. CASE Update(r, [pc |-> "fetch", delegated |-> TRUE])
    <2> DEFINE fields == [pc |-> "fetch", delegated |-> TRUE]
    <2>1. DOMAIN fields = {"pc", "delegated"} /\ fields.pc = "fetch"
      OBVIOUS
    <2> HIDE DEF fields
    <2>2. QED
      BY <1>4, <1>8, <2>1 DEF fields
  <1>9. CASE \E stage \in {"fast", "context"} : Update(r, [pc |-> stage, configured |-> TRUE])
    <2>1. PICK stage \in {"fast", "context"} : Update(r, [pc |-> stage, configured |-> TRUE])
      BY <1>9
    <2> DEFINE fields == [pc |-> stage, configured |-> TRUE]
    <2>2. DOMAIN fields = {"pc", "configured"} /\ fields.pc = stage
      OBVIOUS
    <2> HIDE DEF fields
    <2>3. QED
      BY <1>4, <2>1, <2>2 DEF fields
  <1>10. CASE AdapterSetup(r)
    BY <1>5, <1>6, <1>7, <1>8, <1>10 DEF AdapterSetup
  <1>11. CASE Fetch(r)
    <2>1. (IF case[r].config.fastPath THEN "fast" ELSE "context") \in {"fast", "context"}
      OBVIOUS
    <2>2. QED
      BY <1>6, <1>7, <1>9, <1>11, <2>1 DEF Fetch
  <1>12. QED
    BY <1>10, <1>11

\* The primary review resolves its chain before anybody has served.
LEMMA ResolveTries ==
    ASSUME Shape, NEW r \in Reviews, Good(r), Tries(r), Resolve(r)
    PROVE  Tries(r)'
  <1>1. /\ job[r].pc \in {"fast", "chunks", "agent", "editor"} /\ case' = case /\ pipeline' = pipeline
    BY DEF Resolve, Keep, StageRole
  <1> DEFINE chain == AttemptChain(case[r].config, StageRole[job[r].pc], case[r].tokens,
                                   case[r].keys, job[r].served)
             runtime == IF InPipeline(r) /\ job[r].pc = "agent" THEN chain[1].provider
                        ELSE job[r].runtime
             fields == [attempts |-> chain, runtime |-> runtime]
  <1>2. Update(r, fields)
    BY DEF Resolve
  <1>3. job[r].pc = "agent" => chain = Primary(r)
    <2>1. job[r].pc = "agent" => StageRole[job[r].pc] = "primary_review"
      BY DEF StageRole
    <2>2. job[r].pc = "agent" => job[r].served = NoProvider
      BY DEF Tries, Unserved
    <2>3. QED
      BY <2>1, <2>2 DEF Primary
  <1>4. job[r].pc \in Stages
    BY <1>1 DEF Stages
  <1> HIDE DEF chain, runtime
  <1>5. DOMAIN fields = {"attempts", "runtime"} /\ fields.attempts = chain
    OBVIOUS
  <1> HIDE DEF fields
  <1>6. /\ After(r, fields, "pc") = job[r].pc /\ After(r, fields, "attempts") = chain
        /\ DOMAIN fields \subseteq FieldNames \ {"served", "cause", "findings"}
    BY <1>5 DEF After, FieldNames
  <1>7. QED
    BY <1>1, <1>2, <1>3, <1>4, <1>6, UpdateTries

LEMMA FastPathTries ==
    ASSUME Shape, NEW r \in Reviews, Good(r), Tries(r), FastPath(r) \/ Context(r)
    PROVE  Tries(r)'
  <1>1. job[r].pc \in {"fast", "context"} /\ case' = case /\ pipeline' = pipeline
    BY DEF FastPath, Context, In, Keep
  <1>2. job[r].pc \in Stages /\ job[r].pc \in Unserved
    BY <1>1 DEF Stages, Unserved
  <1>3. ASSUME NEW stage \in {"context", "chunks", "agent"}, stage = "chunks" => Chunked(r),
               NEW fields, DOMAIN fields \subseteq {"runtime", "spent"}, Enter(r, stage, fields)
        PROVE  Tries(r)'
    <2>1. stage \in Stages /\ DOMAIN fields \subseteq FieldNames \ {"pc", "at", "attempts", "cause"}
      BY <1>3 DEF Stages, FieldNames
    <2>2. "served" \notin DOMAIN fields
      BY <1>3
    <2>3. QED
      BY <1>1, <1>2, <1>3, <2>1, <2>2, EnterTries
  <1>4. CASE \E p : Enter(r, "context", [runtime |-> p, spent |-> TRUE])
    <2>1. PICK p : Enter(r, "context", [runtime |-> p, spent |-> TRUE])
      BY <1>4
    <2>2. DOMAIN [runtime |-> p, spent |-> TRUE] = {"runtime", "spent"}
      OBVIOUS
    <2>3. QED
      BY <1>3, <2>1, <2>2
  <1>5. CASE \E p : Conclude(r, "skipped", [cause |-> "fast_path", runtime |-> p, spent |-> TRUE])
    <2>1. PICK p : Conclude(r, "skipped", [cause |-> "fast_path", runtime |-> p, spent |-> TRUE])
      BY <1>5
    <2> DEFINE fields == [cause |-> "fast_path", runtime |-> p, spent |-> TRUE]
    <2>2. DOMAIN fields = {"cause", "runtime", "spent"} /\ fields.cause = "fast_path"
      OBVIOUS
    <2> HIDE DEF fields
    <2>3. Conclude(r, "skipped", fields)
      BY <2>1 DEF fields
    <2>4. /\ DOMAIN fields \subseteq Kept
          /\ After(r, fields, "cause") \notin {"models", "retry"}
      BY <2>2 DEF FieldNames, Kept, After
    <2>5. QED
      BY <1>1, <2>3, <2>4, ConcludeTries
  <1>6. CASE \E stage \in {"context", "agent", "chunks"} :
               Enter(r, stage, <<>>) /\ (stage = "chunks" => Chunked(r))
    <2>1. DOMAIN <<>> = {}
      OBVIOUS
    <2>2. QED
      BY <1>3, <1>6, <2>1
  <1>7. CASE job[r].pc = "fast" /\ Update(r, [at |-> job[r].at + 1])
    <2> DEFINE fields == [at |-> job[r].at + 1]
    <2>1. DOMAIN fields = {"at"}
      OBVIOUS
    <2> HIDE DEF fields
    <2>2. Update(r, fields)
      BY <1>7 DEF fields
    <2>3. After(r, fields, "pc") = "fast" /\ DOMAIN fields \subseteq FieldNames \ {"served", "cause", "findings"}
      BY <1>7, <2>1 DEF After, FieldNames
    <2>4. QED
      BY <1>1, <1>2, <1>7, <2>2, <2>3, UpdateTries
  <1>8. CASE Raise(r, "github")
    BY <1>1, <1>8, RaiseTries DEF Raise
  <1>9. CASE FastPath(r)
    BY <1>4, <1>5, <1>6, <1>7, <1>9 DEF FastPath, In
  <1>10. CASE Context(r)
    <2>1. CASE Chunked(r)
      BY <1>6, <1>8, <1>10, <2>1 DEF Context
    <2>2. CASE ~Chunked(r)
      BY <1>6, <1>8, <1>10, <2>2 DEF Context
    <2>3. QED
      BY <2>1, <2>2
  <1>11. QED
    BY <1>9, <1>10

\* A chunked review may blame its one model.
LEMMA ChunksTries ==
    ASSUME Shape, NEW r \in Reviews, Good(r), Tries(r), Chunks(r)
    PROVE  Tries(r)'
  <1>1. job[r].pc = "chunks" /\ job[r].pc \in Stages /\ Chunked(r) /\ case' = case /\ pipeline' = pipeline
    BY DEF Chunks, In, Keep, Good, Answered, Stages
  <1>2. ASSUME NEW p \in Providers, NEW found \in BOOLEAN, NEW stage \in {"editor", "deliver"},
               Enter(r, stage, [findings |-> found, spent |-> TRUE, served |-> p, runtime |-> p])
        PROVE  Tries(r)'
    <2> DEFINE fields == [findings |-> found, spent |-> TRUE, served |-> p, runtime |-> p]
    <2>1. DOMAIN fields = {"findings", "spent", "served", "runtime"} /\ fields.served = p
      OBVIOUS
    <2> HIDE DEF fields
    <2>2. Enter(r, stage, fields)
      BY <1>2 DEF fields
    <2>3. /\ stage \in Stages \ {"retry"} /\ stage \notin Unserved
          /\ DOMAIN fields \subseteq FieldNames \ {"pc", "at", "attempts", "cause"}
          /\ fields.served # NoProvider /\ After(r, fields, "served") # NoProvider
      BY <2>1, JobAssumption DEF Stages, Unserved, FieldNames, After
    <2>4. QED
      BY <1>1, <2>2, <2>3, EnterTries
  <1>3. ASSUME NEW p, Conclude(r, "failed", [cause |-> "models", handler |-> TRUE,
                                             spent |-> TRUE, runtime |-> p])
        PROVE  Tries(r)'
    <2> DEFINE fields == [cause |-> "models", handler |-> TRUE, spent |-> TRUE, runtime |-> p]
    <2>1. DOMAIN fields = {"cause", "handler", "spent", "runtime"} /\ fields.cause = "models"
      OBVIOUS
    <2> HIDE DEF fields
    <2>2. Conclude(r, "failed", fields)
      BY <1>3 DEF fields
    <2>3. DOMAIN fields \subseteq Kept /\ After(r, fields, "cause") = "models"
      BY <2>1 DEF FieldNames, Kept, After
    <2>4. QED
      BY <1>1, <2>2, <2>3, ConcludeTries
  <1>4. PICK p \in Providers : p = Attempt(r).provider
    BY AttemptOffered DEF Chunks, In
  <1>5. CASE \E found \in BOOLEAN :
               Enter(r, IF found THEN "editor" ELSE "deliver",
                     [findings |-> found, spent |-> TRUE, served |-> p, runtime |-> p])
    <2>1. PICK found \in BOOLEAN :
               Enter(r, IF found THEN "editor" ELSE "deliver",
                     [findings |-> found, spent |-> TRUE, served |-> p, runtime |-> p])
      BY <1>5
    <2>2. CASE found
      BY <1>2, <2>1, <2>2
    <2>3. CASE ~found
      BY <1>2, <2>1, <2>3
    <2>4. QED
      BY <2>2, <2>3
  <1>6. ASSUME NEW fields, DOMAIN fields \subseteq {"spent", "runtime", "findings"},
               "findings" \in DOMAIN fields => fields.findings = FALSE,
               Enter(r, "deliver", fields)
        PROVE  Tries(r)'
    <2>1. /\ "deliver" \in Stages \ {"retry"} /\ "deliver" \notin Unserved
          /\ DOMAIN fields \subseteq FieldNames \ {"pc", "at", "attempts", "cause"}
          /\ "served" \notin DOMAIN fields
      BY <1>6 DEF Stages, Unserved, FieldNames
    <2>2. QED
      BY <1>1, <1>6, <2>1, EnterTries
  <1>7. CASE Enter(r, "deliver", [spent |-> TRUE, runtime |-> p])
    <2>1. DOMAIN [spent |-> TRUE, runtime |-> p] = {"spent", "runtime"}
      OBVIOUS
    <2>2. QED
      BY <1>6, <1>7, <2>1
  <1>8. CASE Enter(r, "deliver", [findings |-> FALSE])
    <2> DEFINE fields == [findings |-> FALSE]
    <2>1. DOMAIN fields = {"findings"} /\ fields.findings = FALSE
      OBVIOUS
    <2> HIDE DEF fields
    <2>2. Enter(r, "deliver", fields)
      BY <1>8 DEF fields
    <2>3. QED
      BY <1>6, <2>1, <2>2
  <1>9. QED
    BY <1>3, <1>4, <1>5, <1>7, <1>8 DEF Chunks

\* The agent loop goes on with the chain it has.
LEMMA LoopTries ==
    ASSUME Shape, NEW r \in Reviews, Good(r), Tries(r), job[r].pc \in {"agent", "finalize"},
           case' = case, pipeline' = pipeline, NEW fields,
           DOMAIN fields \subseteq {"pc", "at", "sent", "spent", "retried"},
           "pc" \in DOMAIN fields => fields.pc \in {"agent", "finalize"},
           Update(r, fields)
    PROVE  Tries(r)'
  <1>1. job[r].pc \in Stages /\ job[r].pc \in Unserved /\ {"agent", "finalize"} \subseteq Stages
    BY DEF Stages, Unserved
  <1>2. /\ After(r, fields, "pc") \in {"agent", "finalize"}
        /\ After(r, fields, "attempts") = job[r].attempts
        /\ DOMAIN fields \subseteq FieldNames \ {"served", "cause", "findings"}
    BY DEF After, FieldNames
  <1>3. After(r, fields, "attempts") \in {<<>>, Primary(r)}
    BY <1>2 DEF Tries
  <1>4. QED
    BY <1>1, <1>2, <1>3, UpdateTries

LEMMA AgentTries ==
    ASSUME Shape, NEW r \in Reviews, Good(r), Tries(r), ModelCall(r) \/ LoopStops(r)
    PROVE  Tries(r)'
  <1>1. job[r].pc = "agent" /\ case' = case /\ pipeline' = pipeline
    BY DEF ModelCall, LoopStops, In, Keep
  <1>2. CASE LoopStops(r)
    <2> DEFINE fields == [pc |-> "finalize"]
    <2>1. DOMAIN fields = {"pc"} /\ fields.pc = "finalize"
      OBVIOUS
    <2> HIDE DEF fields
    <2>2. Update(r, fields)
      BY <1>2 DEF LoopStops, fields
    <2>3. QED
      BY <1>1, <2>1, <2>2, LoopTries
  <1>3. CASE ModelCall(r)
    <2>1. PICK reply \in Replies(Attempt(r).provider), github \in BOOLEAN :
            Update(r, [sent |-> AfterReply(Attempt(r).provider, Transcript(r), reply, github).sent,
                       spent |-> TRUE,
                       pc |-> IF AfterReply(Attempt(r).provider, Transcript(r), reply, github).over
                              THEN "finalize" ELSE "agent"])
      BY <1>3 DEF ModelCall
    <2> DEFINE loop == AfterReply(Attempt(r).provider, Transcript(r), reply, github)
               next == IF loop.over THEN "finalize" ELSE "agent"
               fields == [sent |-> loop.sent, spent |-> TRUE, pc |-> next]
    <2>2. next \in {"agent", "finalize"} /\ Update(r, fields)
      BY <2>1
    <2> HIDE DEF loop, next
    <2>3. DOMAIN fields = {"sent", "spent", "pc"} /\ fields.pc = next
      OBVIOUS
    <2> HIDE DEF fields
    <2>4. QED
      BY <1>1, <2>2, <2>3, LoopTries
  <1>4. QED
    BY <1>2, <1>3

LEMMA ReviewedTries ==
    ASSUME Shape, NEW r \in Reviews, Good(r), Tries(r), job[r].pc \in Stages,
           job[r].attempts # <<>>, case' = case, pipeline' = pipeline, NEW found \in BOOLEAN,
           Reviewed(r, found)
    PROVE  Tries(r)'
  <1>1. PICK p \in Providers : p = Attempt(r).provider
    BY AttemptOffered
  <1> DEFINE runtime == IF InPipeline(r) THEN job[r].runtime ELSE p
             stage == IF found THEN "editor" ELSE "deliver"
             fields == [sent |-> <<>>, findings |-> found, served |-> p, spent |-> TRUE,
                        runtime |-> runtime]
  <1>2. Enter(r, stage, fields) /\ stage \in {"editor", "deliver"}
    BY <1>1 DEF Reviewed
  <1> HIDE DEF runtime, stage
  <1>3. /\ DOMAIN fields = {"sent", "findings", "served", "spent", "runtime"}
        /\ fields.served = p
    OBVIOUS
  <1> HIDE DEF fields
  <1>4. /\ stage \in Stages \ {"retry"} /\ stage \notin Unserved
        /\ DOMAIN fields \subseteq FieldNames \ {"pc", "at", "attempts", "cause"}
        /\ fields.served # NoProvider /\ After(r, fields, "served") # NoProvider
    BY <1>2, <1>3, JobAssumption DEF Stages, Unserved, FieldNames, After
  <1>5. QED
    BY <1>2, <1>4, EnterTries

LEMMA FinalizeTries ==
    ASSUME Shape, NEW r \in Reviews, Good(r), Tries(r), Finalize(r)
    PROVE  Tries(r)'
  <1>1. job[r].pc = "finalize" /\ job[r].pc \in Stages /\ case' = case /\ pipeline' = pipeline
    BY DEF Finalize, Keep, Stages
  <1>2. CASE Update(r, [retried |-> TRUE, spent |-> TRUE])
    <2> DEFINE fields == [retried |-> TRUE, spent |-> TRUE]
    <2>1. DOMAIN fields = {"retried", "spent"}
      OBVIOUS
    <2> HIDE DEF fields
    <2>2. Update(r, fields)
      BY <1>2 DEF fields
    <2>3. QED
      BY <1>1, <2>1, <2>2, LoopTries
  <1>3. job[r].attempts # <<>>
    BY <1>1, Standing
  <1>4. CASE \E found \in BOOLEAN : Reviewed(r, found)
    BY <1>1, <1>3, <1>4, ReviewedTries
  <1>5. CASE /\ ~InPipeline(r)
             /\ Update(r, [pc |-> "retry", served |-> Attempt(r).provider, spent |-> TRUE,
                           runtime |-> Attempt(r).provider])
    <2>1. PICK p \in Providers : p = Attempt(r).provider
      BY <1>1, <1>3, AttemptOffered
    <2> DEFINE fields == [pc |-> "retry", served |-> p, spent |-> TRUE, runtime |-> p]
    <2>2. /\ DOMAIN fields = {"pc", "served", "spent", "runtime"} /\ fields.pc = "retry"
          /\ fields.served = p
      OBVIOUS
    <2>3. Update(r, fields)
      BY <1>5, <2>1
    <2> HIDE DEF fields
    <2>4. \A f \in FieldNames : job'[r][f] = IF f \in DOMAIN fields THEN fields[f] ELSE job[r][f]
      BY <2>2, <2>3, UpdateFields DEF Shape, Good, Fields, FieldNames
    <2>5. job'[r].pc = "retry" /\ job'[r].served = p /\ job'[r].cause = job[r].cause
      BY <2>2, <2>4 DEF FieldNames
    <2>6. p # NoProvider /\ job[r].cause = "none" /\ "retry" \notin Unserved
      BY <1>1, JobAssumption DEF Tries, Unserved
    <2>7. QED
      BY <1>1, <1>5, <2>5, <2>6, SameCase DEF Tries
  <1>6. QED
    BY <1>2, <1>4, <1>5 DEF Finalize

LEMMA ValidationRetryTries ==
    ASSUME Shape, NEW r \in Reviews, Good(r), Tries(r), ValidationRetry(r)
    PROVE  Tries(r)'
  <1>1. /\ job[r].pc = "retry" /\ job[r].pc \in Stages /\ case' = case /\ pipeline' = pipeline
    BY DEF ValidationRetry, Keep, Stages
  <1>2. job[r].attempts # <<>> /\ ~InPipeline(r)
    BY <1>1, Standing DEF Tries
  <1>3. CASE \E found \in BOOLEAN : Reviewed(r, found)
    BY <1>1, <1>2, <1>3, ReviewedTries
  <1>4. CASE Raise(r, "retry")
    BY <1>1, <1>2, <1>4, RaiseTries DEF Raise
  <1>5. QED
    BY <1>3, <1>4 DEF ValidationRetry

\* The last attempt of the runner is the only one that blames the models, and then the whole
\* chain was tried.
LEMMA AttemptFailsTries ==
    ASSUME Shape, NEW r \in Reviews, Good(r), Tries(r), AttemptFails(r)
    PROVE  Tries(r)'
  <1>1. /\ job[r].pc \in {"agent", "finalize"} /\ job[r].pc \in Stages /\ job[r].pc \in Unserved
        /\ job[r].attempts # <<>> /\ case' = case /\ pipeline' = pipeline
    BY Standing DEF AttemptFails, In, Keep, Stages, Unserved
  <1>2. CASE Update(r, [pc |-> "agent", at |-> job[r].at + 1, retried |-> FALSE, sent |-> <<>>])
    <2> DEFINE fields == [pc |-> "agent", at |-> job[r].at + 1, retried |-> FALSE, sent |-> <<>>]
    <2>1. DOMAIN fields = {"pc", "at", "retried", "sent"} /\ fields.pc = "agent"
      OBVIOUS
    <2> HIDE DEF fields
    <2>2. Update(r, fields)
      BY <1>2 DEF fields
    <2>3. QED
      BY <1>1, <2>1, <2>2, LoopTries
  <1>3. CASE Enter(r, "deliver", [sent |-> <<>>, degraded |-> TRUE])
    <2> DEFINE fields == [sent |-> <<>>, degraded |-> TRUE]
    <2>1. DOMAIN fields = {"sent", "degraded"}
      OBVIOUS
    <2> HIDE DEF fields
    <2>2. Enter(r, "deliver", fields)
      BY <1>3 DEF fields
    <2>3. /\ "deliver" \in Stages \ {"retry"} /\ "deliver" \notin Unserved
          /\ DOMAIN fields \subseteq FieldNames \ {"pc", "at", "attempts", "cause"}
      BY <2>1 DEF Stages, Unserved, FieldNames
    <2>4. QED
      BY <1>1, <2>1, <2>2, <2>3, EnterTries
  <1>4. CASE LastAttempt(r) /\ Raise(r, "models")
    <2>1. job[r].served = NoProvider /\ job[r].attempts = Primary(r)
      BY <1>1 DEF Tries
    <2>2. job[r].at = Len(Primary(r))
      BY <1>4, <2>1 DEF LastAttempt
    <2> DEFINE fields == [cause |-> "models", handler |-> TRUE]
    <2>3. DOMAIN fields = {"cause", "handler"} /\ fields.cause = "models"
      OBVIOUS
    <2> HIDE DEF fields
    <2>4. Conclude(r, "failed", fields)
      BY <1>4 DEF Raise, fields
    <2>5. DOMAIN fields \subseteq Kept /\ After(r, fields, "cause") = "models"
      BY <2>3 DEF FieldNames, Kept, After
    <2>6. QED
      BY <1>1, <2>1, <2>2, <2>4, <2>5, ConcludeTries
  <1>5. QED
    BY <1>2, <1>3, <1>4 DEF AttemptFails, Unreviewed

\* An editor that fails on every model blames them for a chunked review only.
LEMMA EditorTries ==
    ASSUME Shape, NEW r \in Reviews, Good(r), Tries(r), Editor(r) \/ StageDegrades(r)
    PROVE  Tries(r)'
  <1>1. job[r].pc = "editor" /\ job[r].pc \in Stages /\ case' = case /\ pipeline' = pipeline
    BY DEF Editor, StageDegrades, In, Keep, Stages
  <1>2. ASSUME NEW fields, DOMAIN fields \subseteq {"findings", "spent", "degraded"},
               Enter(r, "deliver", fields)
        PROVE  Tries(r)'
    <2>1. /\ "deliver" \in Stages \ {"retry"} /\ "deliver" \notin Unserved
          /\ DOMAIN fields \subseteq FieldNames \ {"pc", "at", "attempts", "cause"}
      BY <1>2 DEF Stages, Unserved, FieldNames
    <2>2. "served" \notin DOMAIN fields /\ After(r, fields, "served") # NoProvider
      BY <1>1, <1>2 DEF After, Good, Answered
    <2>3. QED
      BY <1>1, <1>2, <2>1, <2>2, EnterTries
  <1>3. CASE \E left \in BOOLEAN : Enter(r, "deliver", [findings |-> left, spent |-> TRUE])
    <2>1. PICK left \in BOOLEAN : Enter(r, "deliver", [findings |-> left, spent |-> TRUE])
      BY <1>3
    <2>2. DOMAIN [findings |-> left, spent |-> TRUE] = {"findings", "spent"}
      OBVIOUS
    <2>3. QED
      BY <1>2, <2>1, <2>2
  <1>4. CASE Enter(r, "deliver", <<>>)
    <2>1. DOMAIN <<>> = {}
      OBVIOUS
    <2>2. QED
      BY <1>2, <1>4, <2>1
  <1>5. CASE Enter(r, "deliver", [findings |-> FALSE, degraded |-> TRUE])
    <2>1. DOMAIN [findings |-> FALSE, degraded |-> TRUE] = {"findings", "degraded"}
      OBVIOUS
    <2>2. QED
      BY <1>2, <1>5, <2>1
  <1>6. CASE Update(r, [at |-> job[r].at + 1])
    <2> DEFINE fields == [at |-> job[r].at + 1]
    <2>1. DOMAIN fields = {"at"}
      OBVIOUS
    <2> HIDE DEF fields
    <2>2. Update(r, fields)
      BY <1>6 DEF fields
    <2>3. After(r, fields, "pc") = "editor" /\ DOMAIN fields \subseteq FieldNames \ {"served", "cause", "findings"}
      BY <1>1, <2>1 DEF After, FieldNames
    <2>4. "editor" \notin Unserved
      BY DEF Unserved
    <2>5. QED
      BY <1>1, <2>2, <2>3, <2>4, UpdateTries
  <1>7. CASE Raise(r, "github")
    BY <1>1, <1>7, RaiseTries DEF Raise
  <1>8. CASE Chunked(r) /\ Raise(r, "models")
    BY <1>1, <1>8, RaiseTries DEF Raise
  <1>9. CASE StageDegrades(r)
    BY <1>5, <1>9 DEF StageDegrades
  <1>10. CASE Editor(r)
    <2>1. ASSUME NEW error \in LlmErrors, EditorFails(r, error)
          PROVE  Tries(r)'
      BY <1>4, <1>6, <1>8, <2>1 DEF EditorFails
    <2>2. QED
      BY <1>3, <1>7, <1>10, <2>1 DEF Editor
  <1>11. QED
    BY <1>9, <1>10

LEMMA DeliverTries ==
    ASSUME Shape, NEW r \in Reviews, Good(r), Tries(r), Deliver(r)
    PROVE  Tries(r)'
  <1>1. job[r].pc = "deliver" /\ job[r].pc \in Stages /\ case' = case /\ pipeline' = pipeline
    BY DEF Deliver, Keep, Stages
  <1>2. ASSUME NEW status, NEW degraded, Conclude(r, status, [degraded |-> degraded])
        PROVE  Tries(r)'
    <2> DEFINE fields == [degraded |-> degraded]
    <2>1. DOMAIN fields = {"degraded"}
      OBVIOUS
    <2> HIDE DEF fields
    <2>2. Conclude(r, status, fields)
      BY <1>2 DEF fields
    <2>3. /\ DOMAIN fields \subseteq Kept
          /\ After(r, fields, "cause") = job[r].cause
      BY <2>1 DEF FieldNames, Kept, After
    <2>4. After(r, fields, "cause") \notin {"models", "retry"}
      BY <1>1, <2>3 DEF Tries
    <2>5. QED
      BY <1>1, <2>2, <2>3, <2>4, ConcludeTries
  <1>3. ASSUME NEW status, NEW cause \in {"github", "none"},
               Conclude(r, status, [cause |-> cause])
        PROVE  Tries(r)'
    <2> DEFINE fields == [cause |-> cause]
    <2>1. DOMAIN fields = {"cause"} /\ fields.cause = cause
      OBVIOUS
    <2> HIDE DEF fields
    <2>2. Conclude(r, status, fields)
      BY <1>3 DEF fields
    <2>3. /\ DOMAIN fields \subseteq Kept
          /\ After(r, fields, "cause") \notin {"models", "retry"}
      BY <2>1 DEF FieldNames, Kept, After
    <2>4. QED
      BY <1>1, <2>2, <2>3, ConcludeTries
  <1>4. CASE Raise(r, "database")
    BY <1>1, <1>4, RaiseTries DEF Raise
  <1>5. CASE InPipeline(r)
    <2>1. PICK status, degraded : Conclude(r, status, [degraded |-> degraded])
      BY <1>5 DEF Deliver
    <2>2. QED
      BY <1>2, <2>1
  <1>6. CASE ~InPipeline(r) /\ ~Raise(r, "database")
    <2>1. PICK cause \in {"github", "none"} : \E status : Conclude(r, status, [cause |-> cause])
      <3>1. PICK posted \in {"all", "some", "none"} :
              Conclude(r, CASE posted = "all"  -> "done"
                            [] posted = "some" -> "partial"
                            [] posted = "none" -> IF job[r].findings THEN "partial" ELSE "failed",
                       [cause |-> IF posted = "none" THEN "github" ELSE "none"])
        BY <1>6 DEF Deliver
      <3>2. (IF posted = "none" THEN "github" ELSE "none") \in {"github", "none"}
        OBVIOUS
      <3>3. QED
        BY <3>1, <3>2
    <2>2. QED
      BY <1>3, <2>1
  <1>7. QED
    BY <1>4, <1>5, <1>6

\* The end of a job names another cause or none.
LEMMA EndingTries ==
    ASSUME Shape, NEW r \in Reviews, Good(r), Tries(r), Ending(r)
    PROVE  Tries(r)'
  <1>1. case' = case /\ pipeline' = pipeline
    BY DEF Ending, Charge, Write, Stamp, Success, Served, Blame, Trip, Remark, Cancel, Keep
  <1>2. ASSUME NEW cause \in {"database", "cancelled"},
               Conclude(r, "failed", [cause |-> cause, handler |-> TRUE])
        PROVE  Tries(r)'
    BY <1>1, <1>2, RaiseTries
  <1>3. {"write", "stamp", "success", "served", "blame", "trip", "remark", "charge"}
          \cap (Stages \union {"idle"}) = {}
    BY DEF Stages
  <1>4. {"stamp", "success", "served", "blame", "trip", "remark", "over"} \subseteq Settled
    BY DEF Settled
  <1>5. ASSUME NEW next \in Settled, Update(r, [pc |-> next]),
               job[r].pc \in {"write", "stamp", "success", "served", "blame", "trip", "remark"}
        PROVE  Tries(r)'
    BY <1>1, <1>3, <1>5, NextTries
  <1>6. CASE Charge(r)
    <2> DEFINE fields == [pc |-> "write", charged |-> job[r].charged + (IF job[r].spent THEN 1 ELSE 0)]
    <2>1. DOMAIN fields = {"pc", "charged"} /\ fields.pc = "write"
      OBVIOUS
    <2>2. Update(r, fields) /\ job[r].pc = "charge"
      BY <1>6 DEF Charge
    <2> HIDE DEF fields
    <2>3. QED
      BY <1>1, <1>3, <2>1, <2>2, SettleTries
  <1>7. CASE Write(r)
    <2>1. \A written \in BOOLEAN : AfterHandler(r, written) \in {"blame", "remark", "over"}
      BY DEF AfterHandler
    <2>2. job[r].pc = "write"
      BY <1>7 DEF Write
    <2>3. \/ \E next \in Settled : Update(r, [pc |-> next])
          \/ Raise(r, "database")
      BY <1>4, <1>7, <2>1 DEF Write
    <2>4. QED
      BY <1>2, <1>5, <2>2, <2>3 DEF Raise
  <1>8. CASE Stamp(r)
    BY <1>2, <1>4, <1>5, <1>8 DEF Stamp, Raise
  <1>9. CASE Success(r) \/ Served(r) \/ Blame(r) \/ Trip(r) \/ Remark(r)
    <2>1. job[r].pc \in {"success", "served", "blame", "trip", "remark"}
      BY <1>9 DEF Success, Served, Blame, Trip, Remark
    <2>2. PICK next \in {"served", "trip", "remark", "over"} : Update(r, [pc |-> next])
      BY <1>9 DEF Success, Served, Blame, Trip, Remark
    <2>3. QED
      BY <1>4, <1>5, <2>1, <2>2
  <1>10. CASE Cancel(r)
    <2>1. CASE Conclude(r, "failed", [cause |-> "cancelled", handler |-> TRUE])
      BY <1>2, <2>1
    <2>2. CASE Update(r, [pc |-> "over", sent |-> <<>>])
      <3> DEFINE fields == [pc |-> "over", sent |-> <<>>]
      <3>1. DOMAIN fields = {"pc", "sent"} /\ fields.pc = "over"
        OBVIOUS
      <3> HIDE DEF fields
      <3>2. Update(r, fields)
        BY <2>2 DEF fields
      <3>3. \A f \in FieldNames : job'[r][f] = IF f \in DOMAIN fields THEN fields[f] ELSE job[r][f]
        BY <3>1, <3>2, UpdateFields DEF Shape, Good, Fields, FieldNames
      <3>4. /\ job'[r].pc = "over" /\ job'[r].at = job[r].at
            /\ job'[r].attempts = job[r].attempts
            /\ job'[r].served = job[r].served /\ job'[r].cause = job[r].cause
            /\ job'[r].findings = job[r].findings
        BY <3>1, <3>3 DEF FieldNames
      <3>5. "over" \notin Stages \union Unserved \union {"idle"}
        BY DEF Stages, Unserved
      <3>6. QED
        BY <1>1, <3>4, <3>5, SameCase DEF Tries
    <2>3. QED
      BY <1>10, <2>1, <2>2 DEF Cancel
  <1>11. QED
    BY <1>6, <1>7, <1>8, <1>9, <1>10 DEF Ending

-----------------------------------------------------------------------------
(* The invariant *)

LEMMA InitInv == Init => JobInv
  <1> SUFFICES ASSUME Init PROVE JobInv
    OBVIOUS
  <1>1. Shape /\ Circuit
    BY DEF Init, Shape, Circuit
  <1>2. ASSUME NEW r \in Reviews PROVE Good(r)
    <2>1. job[r] = Idle /\ row[r].status = "none" /\ DOMAIN row[r] = {"status", "named"}
      BY DEF Init
    <2>2. /\ job[r].pc = "idle" /\ job[r].at = 1 /\ job[r].runtime = NoProvider
          /\ job[r].served = NoProvider /\ job[r].sent = <<>> /\ job[r].degraded = FALSE
          /\ job[r].spent = FALSE /\ job[r].charged = 0 /\ job[r].outcome = "none"
          /\ job[r].attempts = <<>> /\ job[r].handler = FALSE /\ DOMAIN job[r] = FieldNames
      BY <2>1 DEF Idle, FieldNames
    <2>3. Fields(r)
      <3>1. job[r].handler \in BOOLEAN /\ job[r].spent \in BOOLEAN /\ job[r].degraded \in BOOLEAN
        BY <2>2
      <3>2. job[r].charged \in 0 .. 2
        BY <2>2
      <3>3. QED
        BY <2>2, <3>1, <3>2 DEF Fields
    <2>4. Chained(r) /\ Talks(r)
      BY <2>2 DEF Chained, Points, Talks, Valid
    <2>5. Rows(r) /\ Paid(r) /\ Answered(r)
      BY <2>1, <2>2 DEF Rows, Paid, Answered, Stages, Ended
    <2>6. QED
      BY <2>3, <2>4, <2>5 DEF Good
  <1>3. QED
    BY <1>1, <1>2 DEF JobInv

\* The counters of the circuit breaker, whose steps come after the stages.
LEMMA CircuitStep ==
    ASSUME Circuit, [Next]_vars
    PROVE  Circuit'
  <1>1. CASE UNCHANGED circuit
    BY <1>1 DEF Circuit, circuit
  <1>2. ASSUME NEW p, failures' = [failures EXCEPT ![p] = 0], open' = [open EXCEPT ![p] = FALSE]
        PROVE  Circuit'
    BY <1>2 DEF Circuit
  <1>3. ASSUME NEW r \in Reviews, Blame(r) \/ Trip(r)
        PROVE  Circuit'
    <2>1. CASE Blame(r)
      <3>1. PICK p : failures' = [failures EXCEPT ![p] = failures[p] + 1] /\ open' = open
        BY <2>1 DEF Blame, Keep
      <3>2. failures' \in [Providers -> Nat]
        <4>1. CASE p \in Providers
          <5>1. failures[p] + 1 \in Nat
            BY <4>1 DEF Circuit
          <5>2. QED
            BY <3>1, <4>1, <5>1 DEF Circuit
        <4>2. CASE p \notin Providers
          <5>1. DOMAIN failures' = Providers /\ \A q \in Providers : failures'[q] = failures[q]
            BY <3>1, <4>2 DEF Circuit
          <5>2. failures' = [q \in Providers |-> failures'[q]]
            BY <3>1 DEF Circuit
          <5>3. QED
            BY <5>1, <5>2 DEF Circuit
        <4>3. QED
          BY <4>1, <4>2
      <3>3. QED
        BY <3>1, <3>2 DEF Circuit
    <2>2. CASE Trip(r)
      BY <2>2 DEF Trip, Keep, Circuit
    <2>3. QED
      BY <1>3, <2>1, <2>2
  <1>4. ASSUME NEW r \in Reviews, Success(r) \/ Served(r)
        PROVE  Circuit'
    BY <1>1, <1>2, <1>4 DEF Success, Served, CloseCircuit
  <1>5. ASSUME NEW p \in Providers, Expire(p)
        PROVE  Circuit'
    <2>1. CASE failures' = [failures EXCEPT ![p] = 0] /\ open' = open
      BY <2>1 DEF Circuit
    <2>2. CASE open' = [open EXCEPT ![p] = FALSE] /\ failures' = failures
      BY <2>2 DEF Circuit
    <2>3. QED
      BY <1>5, <2>1, <2>2 DEF Expire
  <1>6. ASSUME NEW r \in Reviews,
               Submit(r) \/ Rerun(r) \/ Start(r) \/ AdapterSetup(r) \/ Fetch(r) \/ Stage(r)
               \/ Charge(r) \/ Write(r) \/ Stamp(r) \/ Remark(r) \/ Cancel(r)
        PROVE  UNCHANGED circuit
    <2>1. CASE Submit(r) \/ Rerun(r) \/ Start(r) \/ AdapterSetup(r) \/ Fetch(r)
      BY <2>1 DEF Submit, Rerun, Start, AdapterSetup, Fetch, Keep
    <2>2. CASE Stage(r)
      BY <2>2 DEF Stage, Resolve, FastPath, Context, Chunks, ModelCall, LoopStops, Finalize,
                  ValidationRetry, AttemptFails, Editor, StageDegrades, Deliver, Keep
    <2>3. CASE Charge(r) \/ Write(r) \/ Stamp(r) \/ Remark(r) \/ Cancel(r)
      BY <2>3 DEF Charge, Write, Stamp, Remark, Cancel, Keep
    <2>4. QED
      BY <1>6, <2>1, <2>2, <2>3
  <1>7. QED
    BY <1>1, <1>3, <1>4, <1>5, <1>6 DEF Next, Ending, vars, circuit

LEMMA StepInv == JobInv /\ [Next]_vars => JobInv'
  <1> SUFFICES ASSUME JobInv, [Next]_vars PROVE JobInv'
    OBVIOUS
  <1>1. Shape /\ \A r \in Reviews : Good(r)
    BY DEF JobInv
  <1>2. Circuit'
    BY CircuitStep DEF JobInv
  <1>3. ASSUME NEW r \in Reviews, Moves(r)
        PROVE  Shape' /\ \A s \in Reviews : Good(s)'
    BY <1>1, <1>3, MovesKeep
  <1>4. ASSUME NEW r \in Reviews,
               Submit(r) \/ Rerun(r) \/ Start(r) \/ AdapterSetup(r) \/ Fetch(r)
        PROVE  Moves(r)
    BY <1>1, <1>4, SubmitMoves, RerunMoves, StartMoves, AdapterSetupMoves, FetchMoves
  <1>5. ASSUME NEW r \in Reviews, Stage(r)
        PROVE  Moves(r)
    BY <1>1, <1>5, ResolveMoves, FastPathMoves, ContextMoves, ChunksMoves, ModelCallMoves,
       LoopStopsMoves, FinalizeMoves, ValidationRetryMoves, AttemptFailsMoves, EditorMoves, StageDegradesMoves,
       DeliverMoves DEF Stage
  <1>6. ASSUME NEW r \in Reviews, Ending(r)
        PROVE  Moves(r)
    BY <1>1, <1>6, ChargeMoves, WriteMoves, StampMoves, SuccessMoves, ServedMoves, BlameMoves,
       TripMoves, RemarkMoves, CancelMoves DEF Ending
  <1>7. ASSUME job' = job, row' = row, case' = case, pipeline' = pipeline
        PROVE  Shape' /\ \A s \in Reviews : Good(s)'
    <2>1. ASSUME NEW r \in Reviews PROVE Good(r)'
      <3>1. /\ Good(r) /\ InPipeline(r)' = InPipeline(r) /\ HasAnswer(r)' = HasAnswer(r)
            /\ Chunked(r)' = Chunked(r) /\ Excused(r)' = Excused(r)
        BY <1>1, <1>7 DEF InPipeline, HasAnswer, Delegates, Excused, Chunked
      <3>2. QED
        BY <1>7, <3>1 DEF Good, Fields, Chained, Rows, Paid, Answered, Talks
    <2>2. QED
      BY <1>1, <1>7, <2>1 DEF Shape
  <1>8. ASSUME NEW p \in Providers, Expire(p)
        PROVE  job' = job /\ row' = row /\ case' = case /\ pipeline' = pipeline
    BY <1>8 DEF Expire, Keep
  <1>9. Shape' /\ \A s \in Reviews : Good(s)'
    BY <1>3, <1>4, <1>5, <1>6, <1>7, <1>8 DEF Next, vars
  <1>10. QED
    BY <1>2, <1>9 DEF JobInv

LEMMA JobInvHolds == Spec => []JobInv
  BY InitInv, StepInv, PTL DEF Spec

TriesInv == \A r \in Reviews : Tries(r)

LEMMA InitTries == Init => TriesInv
  <1> SUFFICES ASSUME Init, NEW r \in Reviews PROVE Tries(r)
    BY DEF TriesInv
  <1>1. /\ job[r].pc = "idle" /\ job[r].cause = "none" /\ job[r].served = NoProvider
        /\ job[r].findings = FALSE
    BY DEF Init, Idle
  <1>2. QED
    BY <1>1 DEF Tries

LEMMA StepTries == JobInv /\ TriesInv /\ [Next]_vars => TriesInv'
  <1> SUFFICES ASSUME JobInv, TriesInv, [Next]_vars PROVE TriesInv'
    OBVIOUS
  <1>1. Shape /\ \A r \in Reviews : Good(r) /\ Tries(r)
    BY DEF JobInv, TriesInv
  <1>2. ASSUME NEW r \in Reviews, job'[r] = job[r], case' = case, pipeline' = pipeline
        PROVE  Tries(r)'
    BY <1>1, <1>2, SameCase DEF Tries
  <1>3. ASSUME NEW r \in Reviews,
               Submit(r) \/ Rerun(r) \/ Start(r) \/ AdapterSetup(r) \/ Fetch(r)
        PROVE  Moves(r) /\ Tries(r)'
    <2>1. Moves(r)
      BY <1>1, <1>3, SubmitMoves, RerunMoves, StartMoves, AdapterSetupMoves, FetchMoves
    <2>2. QED
      BY <1>1, <1>3, <2>1, EntryTries, SetupTries
  <1>4. ASSUME NEW r \in Reviews, Stage(r)
        PROVE  Moves(r) /\ Tries(r)'
    <2>1. Moves(r)
      BY <1>1, <1>4, ResolveMoves, FastPathMoves, ContextMoves, ChunksMoves, ModelCallMoves,
         LoopStopsMoves, FinalizeMoves, ValidationRetryMoves, AttemptFailsMoves, EditorMoves, StageDegradesMoves,
         DeliverMoves DEF Stage
    <2>2. Tries(r)'
      BY <1>1, <1>4, ResolveTries, FastPathTries, ChunksTries, AgentTries, FinalizeTries,
         ValidationRetryTries, AttemptFailsTries, EditorTries, DeliverTries DEF Stage
    <2>3. QED
      BY <2>1, <2>2
  <1>5. ASSUME NEW r \in Reviews, Ending(r)
        PROVE  Moves(r) /\ Tries(r)'
    <2>1. Moves(r)
      BY <1>1, <1>5, ChargeMoves, WriteMoves, StampMoves, SuccessMoves, ServedMoves, BlameMoves,
         TripMoves, RemarkMoves, CancelMoves DEF Ending
    <2>2. QED
      BY <1>1, <1>5, <2>1, EndingTries
  <1>6. ASSUME NEW r \in Reviews, Moves(r) /\ Tries(r)'
        PROVE  TriesInv'
    <2>1. ASSUME NEW s \in Reviews \ {r} PROVE Tries(s)'
      BY <1>2, <1>6, <2>1 DEF Moves, JobAside
    <2>2. QED
      BY <1>6, <2>1 DEF TriesInv
  <1>7. CASE job' = job /\ case' = case /\ pipeline' = pipeline
    BY <1>2, <1>7 DEF TriesInv
  <1>8. ASSUME NEW p \in Providers, Expire(p)
        PROVE  job' = job /\ case' = case /\ pipeline' = pipeline
    BY <1>8 DEF Expire, Keep
  <1>9. QED
    BY <1>3, <1>4, <1>5, <1>6, <1>7, <1>8 DEF Next, vars

LEMMA TriesInvHolds == Spec => []TriesInv
  BY InitTries, StepTries, JobInvHolds, PTL DEF Spec

-----------------------------------------------------------------------------
(* The theorems *)

\* The tokens of a run are presented to the daily budget before its review ends, by every
\* path to an ended row: the job's own result, an exception at any point, one that the write
\* of the row itself raised, a cancellation, the adapter's second verdict (_mark_review_done,
\* run_review, run_review_via_pipeline).
THEOREM NothingFree == Spec => []NoFreeReviews
  <1>1. JobInv => NoFreeReviews
    BY DEF JobInv, Good, Paid, NoFreeReviews, Stages
  <1>2. QED
    BY <1>1, JobInvHolds, PTL

\* A row says "done" only if a model answered the primary review; the two kinds of review
\* that are done without one, refused as too large or chunked with no chunk that answered, are
\* of huge pull requests and have no finding.  In the runner and in the pipeline, for any
\* chain of models that fail (run_review, _run_chunked_review, review_pipeline).
THEOREM DoneIsAnswered == Spec => []DoneMeansAnswered
  <1>1. ASSUME JobInv, TriesInv PROVE DoneMeansAnswered
    <2> SUFFICES ASSUME NEW r \in Reviews, job[r].pc = "over", row[r].status = "done",
                        job[r].served = NoProvider
                 PROVE  /\ ~job[r].findings
                        /\ Chunked(r) \/ (case[r].huge /\ ~case[r].chunking)
      BY DEF DoneMeansAnswered
    <2>1. HasAnswer(r)
      BY <1>1 DEF JobInv, Good, Answered
    <2>2. job[r].findings = FALSE
      BY <1>1 DEF TriesInv, Tries
    <2>3. QED
      BY <2>1, <2>2 DEF HasAnswer, Chunked
  <1>2. QED
    BY <1>1, JobInvHolds, TriesInvHolds, PTL

\* What the agent loop sends next is a transcript the providers accept, for any number of
\* turns and any tool calls: every call has its result right after it
\* (_run_agent_anthropic, _run_agent_openai_compatible).
THEOREM TranscriptsValid == Spec => []TranscriptValid
  <1>1. JobInv => TranscriptValid
    BY DEF JobInv, Good, Talks, Valid, Accepted, TranscriptValid
  <1>2. QED
    BY <1>1, JobInvHolds, PTL

\* The models fail a review only when all of them did: unless a model is pinned without a
\* fallback, every provider with a key that is in the policy's order and has a usable model
\* was tried and failed, and no answer of the primary review was discarded, whatever the
\* catalog, the order and the requirements are (resolve_model_attempt_chain, run_review).  A
\* validation retry that failed, which does discard an answer, is never one of the pipeline.
THEOREM ModelFailuresAreTotal == Spec => []ModelFailureIsTotal
  <1>1. ASSUME JobInv, TriesInv PROVE ModelFailureIsTotal
    <2> SUFFICES ASSUME NEW r \in Reviews, job[r].cause = "models", ~Chunked(r),
                        ~Pinned(case[r].config, "primary_review"),
                        NEW p \in case[r].keys, CanServe(r, p),
                        p \in ToSet(case[r].config.order)
                 PROVE  p \in {job[r].attempts[k].provider : k \in 1 .. job[r].at}
      BY <1>1 DEF TriesInv, Tries, ModelFailureIsTotal
    <2>1. job[r].attempts = Primary(r) /\ job[r].at = Len(Primary(r))
      BY <1>1 DEF TriesInv, Tries
    <2>2. case[r] \in Cases
      BY <1>1 DEF JobInv, Shape
    <2> DEFINE asked == RoleConfig(case[r].config, "primary_review")
               tiers == FallbackTiers(asked.tier)
    <2>3. PICK t \in DOMAIN tiers : CanOffer(tiers[t], asked.needs, case[r].tokens, p)
      BY DEF CanServe, CanOffer
    <2>4. "agent" \in DOMAIN StageRole /\ StageRole["agent"] = "primary_review"
      BY DEF StageRole
    <2> DEFINE c == case[r]
               role == StageRole["agent"]
               chain == AttemptChain(c.config, role, c.tokens, c.keys, NoProvider)
    <2>5. /\ IsChain(Primary(r))
          /\ \E m \in ToSet(Primary(r)) : m.provider = p
      <3>1. NoProvider \in Providers \cup {NoProvider}
        OBVIOUS
      <3>2. IsChain(chain) /\ (~Pinned(c.config, role) => EveryoneIn(chain, c, role))
        BY <2>2, <2>4, <3>1, ChainOffers, Zenon
      <3>3. chain = Primary(r) /\ role = "primary_review"
        BY <2>4 DEF Primary
      <3>4. EveryoneIn(chain, c, role)
        BY <3>2, <3>3
      <3>5. \E m \in ToSet(chain) : m.provider = p
        BY <2>3, <3>3, <3>4 DEF EveryoneIn
      <3> HIDE DEF chain
      <3>6. QED
        BY <3>2, <3>3, <3>5
    <2>6. PICK k \in DOMAIN Primary(r) : Primary(r)[k].provider = p
      BY <2>5 DEF ToSet
    <2>7. k \in 1 .. Len(Primary(r))
      BY <2>5, <2>6 DEF IsChain
    <2>8. QED
      BY <2>1, <2>6, <2>7
  <1>2. QED
    BY <1>1, JobInvHolds, TriesInvHolds, PTL

\* Every stage points into its chain and a run is charged at most twice
\* (resolve_model_attempt_chain, _mark_review_done).
THEOREM TypeCorrect == Spec => []TypeOK
  <1>1. JobInv => TypeOK
    BY DEF JobInv, Circuit, Good, Fields, Chained, Points, Rows, TypeOK
  <1>2. QED
    BY <1>1, JobInvHolds, PTL

====
