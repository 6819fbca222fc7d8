--------------------------- MODULE ReviewLifecycle ---------------------------
(***************************************************************************)
(* The life of the review jobs of one pull request: webhook and dashboard  *)
(* handlers that submit a review of a head commit, the Redis submission    *)
(* lock they take, the Review row they write, the ARQ job they enqueue,    *)
(* the worker that runs it, and the recovery cron that cleans up.          *)
(*                                                                         *)
(* Locks, rows and jobs are keyed by the head commit (the lock key and the *)
(* unique constraint of table reviews both are), so the heads of one pull  *)
(* request are all the keys there are.  What a review says, check runs and *)
(* token accounting are left out; time is left out except for the orders   *)
(* the constants of the source impose, each stated where it is used.       *)
(*                                                                         *)
(* The sessions run READ COMMITTED and lock no row they read, so a         *)
(* transaction that decides by what it read is two actions, a read and a   *)
(* commit that writes whatever the rows hold by then.  The ORM writes a    *)
(* column only if the value set differs from the value read.               *)
(***************************************************************************)
EXTENDS Naturals, FiniteSets

CONSTANTS
    Heads,      \* the commits that can be the head of the pull request
    NoHead,     \* the head of an empty slot
    Handlers,   \* slots for API handlers running at the same time
    Jobs,       \* slots for ARQ jobs queued or running at the same time
    MaxTries,   \* max_tries of the worker
    MaxEvents,  \* bound on the environment's events: pushes, redeliveries,
                \* dashboard requests, crashes, cancellations, calls that raise
    Faults      \* the faults this instance allows, a subset of FaultKinds

FaultKinds == {"crash",        \* a worker process dies
               "api_crash",    \* an API process dies, or its handler raises
               "shutdown",     \* a worker stop cancels the job, ARQ runs it again
               "database",     \* the job's terminal write raises
               "enqueue",      \* enqueue_job raises or returns None
               "lost_reply",   \* enqueue_job raises although the job was stored
               "early_expiry", \* the lock's TTL ends before its job does
               "unkeyed",      \* reviews are off, or no model key is configured
               "blank_head"}   \* GitHub's answer to the job names no head

ASSUME ConstantsAssumption ==
    /\ Heads # {} /\ NoHead \notin Heads
    /\ MaxTries \in Nat \ {0}
    /\ MaxEvents \in Nat
    /\ Faults \subseteq FaultKinds

VARIABLES
    liveHead,  \* GitHub: the head commit of the pull request
    events,    \* GitHub: heads with a pull_request event not yet delivered
    posted,    \* GitHub: heads a review was posted for
    budget,    \* environment events left
    hook,      \* the handlers of the API process
    lock,      \* Redis: is the submission lock of this head held?
    row,       \* Postgres: status of the Review row of this head
    started,   \* Postgres: heads whose row has a started_at
    stale,     \* recovery cron: heads whose rows it has read as stale
    job        \* Redis and worker: the ARQ jobs

vars == <<liveHead, events, posted, budget, hook, lock, row, started, stale, job>>

-----------------------------------------------------------------------------
(* Values *)

SkipStatuses == {"skipped"}  \* also rate_limited and budget_exhausted, which nothing tells apart
Active       == {"queued", "running"}
Outcomes     == {"done", "partial", "failed", "skipped", "superseded"}
Statuses     == {"none"} \cup Active \cup Outcomes \cup SkipStatuses

\* What a handler serves: a pull request event, or a request of the dashboard,
\* which may be to force a row that is already queued.
Kinds   == {"webhook", "api", "api_queued"}
\* Between acquiring the lock and handing it to a job.
Holding == {"select", "insert", "requeue", "commit",
            "enqueue_new", "enqueue", "unlock"}
IdleHandler == [pc |-> "idle", kind |-> "webhook", head |-> NoHead,
                saw |-> FALSE, others |-> {}]
BusyHandler ==
    [pc : {"gate"} \cup Holding, kind : Kinds, head : Heads,
     saw : BOOLEAN,          \* had its row a started_at when it was read?
     others : SUBSET Heads]  \* the reviews its transaction will supersede
Handler == {IdleHandler} \cup BusyHandler

\* The stages of run_review in which the job has the row marked running.
InTry  == {"fetch", "review", "deliver"}
Trying == {"started"} \cup InTry
Stages == {"queued", "started", "finish", "write", "conclude", "release"}
             \cup InTry
NoJob == [stage |-> "absent", head |-> NoHead, tries |-> 0, outcome |-> "failed",
          again |-> FALSE, read |-> "none", wasLive |-> FALSE]
QueuedJob(h, tries) == [NoJob EXCEPT !.stage = "queued", !.head = h, !.tries = tries]
JobRecord ==
    [stage : Stages, head : Heads, tries : 0 .. MaxTries,
     outcome : Outcomes,   \* the status _mark_review_done will be given
     again : BOOLEAN,      \* cancelled by a shutdown: ARQ runs it again
     read : Statuses,      \* the row's status as _mark_review_done read it
     wasLive : BOOLEAN]    \* history, until it concludes: has its head been
                           \* live in this attempt?
\* A job waits in the queue only while it has a try left.
Job == {NoJob} \cup {r \in JobRecord : r.stage = "queued" => r.tries < MaxTries}

Live(j)   == job[j].stage # "absent"
JobsOf(h) == {j \in Jobs : Live(j) /\ job[j].head = h}
Holds(p)  == hook[p].pc \in Holding
HoldersOf(h) == {p \in Handlers : Holds(p) /\ hook[p].head = h}

Idle(p) == [hook EXCEPT ![p] = IdleHandler]
Goto(p, pc) == [hook EXCEPT ![p].pc = pc]
Enqueuing(p, pc) == [hook EXCEPT ![p].pc = pc, ![p].saw = FALSE, ![p].others = {}]
\* A requeue sets started_at to None: the ORM writes that only if it read a time.
Unstarted(p) == IF hook[p].saw THEN started \ {hook[p].head} ELSE started

Init ==
    /\ liveHead \in Heads
    /\ events = {liveHead}
    /\ posted = {}
    /\ budget = MaxEvents
    /\ hook = [p \in Handlers |-> IdleHandler]
    /\ lock = [h \in Heads |-> FALSE]
    /\ row = [h \in Heads |-> "none"]
    /\ started = {}
    /\ stale = {}
    /\ job = [j \in Jobs |-> NoJob]

-----------------------------------------------------------------------------
(* GitHub *)

Spend == budget > 0 /\ budget' = budget - 1

\* A push, forced or not, moves the head; the events of one pull request are
\* delivered in any order.
Push(h) ==
    /\ Spend
    /\ h # liveHead
    /\ liveHead' = h
    /\ events' = events \cup {h}
    /\ job' = [j \in Jobs |->
                 IF job[j].stage \in Trying
                 THEN [job[j] EXCEPT !.wasLive = @ \/ job[j].head = h] ELSE job[j]]
    /\ UNCHANGED <<posted, hook, lock, row, started, stale>>

\* The pull request is reopened, or somebody redelivers an event.
Redeliver(h) ==
    /\ Spend
    /\ events' = events \cup {h}
    /\ UNCHANGED <<liveHead, posted, hook, lock, row, started, stale, job>>

-----------------------------------------------------------------------------
(* Handlers: queue_pull_request_review, rerun_review, force_recover_review. *)
(* What a handler that raises has not yet done stays undone, as in a crash.  *)

HookReceive(p) ==
    /\ hook[p].pc = "idle"
    /\ \E h \in events :
         /\ hook' = [hook EXCEPT ![p] = [IdleHandler EXCEPT !.pc = "gate", !.head = h]]
         /\ events' = events \ {h}
    /\ UNCHANGED <<liveHead, posted, budget, lock, row, started, stale, job>>

\* With reviews off, or without a language model key, the handler returns at once:
\* the event leaves no trace.
HookDrop ==
    /\ "unkeyed" \in Faults
    /\ \E h \in events : events' = events \ {h}
    /\ UNCHANGED <<liveHead, posted, budget, hook, lock, row, started, stale, job>>

\* _persist_skipped_review: a terminal row is inserted.  The unique constraint
\* makes the insert of a second row for the head raise.
PersistSkippedReview(h) ==
    IF row[h] = "none" THEN {[row EXCEPT ![h] = s] : s \in SkipStatuses} ELSE {row}

\* A skip tag, an open circuit, a rate limit or a spent budget.  When the
\* insert raises the handler answers 500.
HookSkip(p) ==
    /\ hook[p].pc = "gate" /\ hook[p].kind = "webhook"
    /\ row' \in PersistSkippedReview(hook[p].head)
    /\ hook' = Idle(p)
    /\ UNCHANGED <<liveHead, events, posted, budget, lock, started, stale, job>>

\* The dashboard's handlers read the row before anything else: a rerun is
\* refused while the row is queued or running, a force requeue never is.
ApiRead(p, h) ==
    /\ Spend
    /\ hook[p].pc = "idle"
    /\ row[h] # "none"
    /\ hook' = [hook EXCEPT ![p] =
                  [IdleHandler EXCEPT !.pc = "gate", !.head = h, !.saw = h \in started,
                     !.kind = IF row[h] = "queued" THEN "api_queued" ELSE "api"]]
    /\ UNCHANGED <<liveHead, events, posted, lock, row, started, stale, job>>

Locked(p) == IF hook[p].kind = "webhook" THEN "select" ELSE "commit"

\* Mutant: the lock is set without NX.
HookLockWithoutNX(p) ==
    /\ hook[p].pc = "gate"
    /\ hook' = Goto(p, Locked(p))
    /\ lock' = [lock EXCEPT ![hook[p].head] = TRUE]
    /\ UNCHANGED <<liveHead, events, posted, budget, row, started, stale, job>>

\* acquire_review_submission_lock: SET NX.  A handler that loses gives up.
HookLock(p) ==
    /\ hook[p].pc = "gate"
    /\ IF lock[hook[p].head]
       THEN hook' = Idle(p) /\ UNCHANGED lock
       ELSE hook' = Goto(p, Locked(p)) /\ lock' = [lock EXCEPT ![hook[p].head] = TRUE]
    /\ UNCHANGED <<liveHead, events, posted, budget, row, started, stale, job>>

\* The reviews supersede_older_reviews selects: every other head of the pull
\* request whose review is queued or running, whether older or newer than h.
OlderReviews(h) == {g \in Heads \ {h} : row[g] \in Active}

\* Mutant: the duplicate check looks at the pull request, not at the head.
HookSelectPerPullRequest(p) ==
    LET h == hook[p].head IN
    /\ hook[p].pc = "select"
    /\ hook' = IF row[h] \in {"none", "failed"} /\ OlderReviews(h) = {}
               THEN [hook EXCEPT ![p].pc = IF row[h] = "none" THEN "insert" ELSE "requeue"]
               ELSE Idle(p)
    /\ UNCHANGED <<liveHead, events, posted, budget, lock, row, started, stale, job>>

\* The webhook's transaction reads: it will insert a row, or queue a failed one
\* again, or it returns because the head already has a review; that return
\* leaves the lock to its TTL.
HookSelect(p) ==
    LET h == hook[p].head IN
    /\ hook[p].pc = "select"
    /\ hook' = IF row[h] \in {"none", "failed"}
               THEN [hook EXCEPT ![p].pc = IF row[h] = "none" THEN "insert" ELSE "requeue",
                                 ![p].saw = h \in started, ![p].others = OlderReviews(h)]
               ELSE Idle(p)
    /\ UNCHANGED <<liveHead, events, posted, budget, lock, row, started, stale, job>>

\* The rows of the reviews it selected are superseded, whatever they hold now.
SupersedeOlderReviews(p) ==
    [g \in Heads |-> IF g = hook[p].head THEN "queued"
                     ELSE IF g \in hook[p].others THEN "superseded"
                     ELSE row[g]]

\* The insert raises if a handler that holds no lock has inserted a skipped row.
HookInsert(p) ==
    /\ hook[p].pc = "insert"
    /\ IF row[hook[p].head] = "none"
       THEN row' = SupersedeOlderReviews(p) /\ hook' = Enqueuing(p, "enqueue_new")
       ELSE hook' = Idle(p) /\ UNCHANGED row
    /\ UNCHANGED <<liveHead, events, posted, budget, lock, started, stale, job>>

HookRequeue(p) ==
    /\ hook[p].pc = "requeue"
    /\ row' = SupersedeOlderReviews(p)
    /\ hook' = Enqueuing(p, "enqueue")
    /\ started' = Unstarted(p)
    /\ UNCHANGED <<liveHead, events, posted, budget, lock, stale, job>>

\* rerun_review and force_requeue: the row is queued again whatever became of
\* it since ApiRead, except that a row read as queued is not written.
ApiCommit(p) ==
    /\ hook[p].pc = "commit"
    /\ row' = IF hook[p].kind = "api_queued" THEN row
              ELSE [row EXCEPT ![hook[p].head] = "queued"]
    /\ hook' = Enqueuing(p, "enqueue")
    /\ started' = Unstarted(p)
    /\ UNCHANGED <<liveHead, events, posted, budget, lock, stale, job>>

\* enqueue_job stores the job in a free slot.
Enqueued(j, h) ==
    /\ ~Live(j)
    /\ job' = [job EXCEPT ![j] = QueuedJob(h, 0)]

EnqueueOk(p) ==
    /\ hook[p].pc \in {"enqueue_new", "enqueue"}
    /\ \E j \in Jobs : Enqueued(j, hook[p].head)
    /\ hook' = Idle(p)
    /\ UNCHANGED <<liveHead, events, posted, budget, lock, row, started, stale>>

\* enqueue_job raises.  The webhook releases the lock and raises; the dashboard
\* answers 500 with the lock still held.  The row stays queued.
EnqueueRaises(p) ==
    /\ Spend
    /\ hook[p].pc \in {"enqueue_new", "enqueue"}
    /\ \/ "enqueue" \in Faults /\ UNCHANGED job
       \/ "lost_reply" \in Faults /\ \E j \in Jobs : Enqueued(j, hook[p].head)
    /\ hook' = IF hook[p].kind = "webhook" THEN Goto(p, "unlock") ELSE Idle(p)
    /\ UNCHANGED <<liveHead, events, posted, lock, row, started, stale>>

\* enqueue_job returns None: the row is failed; only the webhook releases.
EnqueueReturnsNone(p) ==
    /\ "enqueue" \in Faults
    /\ Spend
    /\ hook[p].pc \in {"enqueue_new", "enqueue"}
    /\ row' = [row EXCEPT ![hook[p].head] = "failed"]
    /\ hook' = IF hook[p].kind = "webhook" THEN Goto(p, "unlock") ELSE Idle(p)
    /\ UNCHANGED <<liveHead, events, posted, lock, started, stale, job>>

\* release_review_submission_lock after a failed enqueue: an unconditional
\* DEL, which may itself fail.
HookUnlock(p) ==
    /\ hook[p].pc = "unlock"
    /\ \/ lock' = [lock EXCEPT ![hook[p].head] = FALSE]
       \/ UNCHANGED lock
    /\ hook' = Idle(p)
    /\ UNCHANGED <<liveHead, events, posted, budget, row, started, stale, job>>

HandlerCrash(p) ==
    /\ "api_crash" \in Faults
    /\ Spend
    /\ hook[p].pc # "idle"
    /\ hook' = Idle(p)
    /\ UNCHANGED <<liveHead, events, posted, lock, row, started, stale, job>>

\* force_recover_review?action=mark_failed, on a row of any status.
MarkFailed(h) ==
    /\ Spend
    /\ row[h] # "none"
    /\ row' = [row EXCEPT ![h] = "failed"]
    /\ UNCHANGED <<liveHead, events, posted, hook, lock, started, stale, job>>

-----------------------------------------------------------------------------
(* The worker: run_review *)

Step(j, stage) == [job EXCEPT ![j].stage = stage]
Conclude(j, outcome) ==
    [job EXCEPT ![j].stage = "finish", ![j].outcome = outcome,
                ![j].read = "none", ![j].wasLive = FALSE]
Releasing(j) == [job EXCEPT ![j].stage = "release", ![j].outcome = "failed",
                            ![j].read = "none"]

Ended(j) == [job EXCEPT ![j] = NoJob]

\* _mark_review_running, whatever the row's status is by now.
JobStart(j) ==
    /\ job[j].stage = "queued"
    /\ job' = [job EXCEPT ![j].stage = "started", ![j].tries = @ + 1,
                          ![j].wasLive = (liveHead = job[j].head)]
    /\ row' = [row EXCEPT ![job[j].head] = "running"]
    /\ started' = started \cup {job[j].head}
    /\ UNCHANGED <<liveHead, events, posted, budget, hook, lock, stale>>

\* The rest of the preamble: provider keys, trace.  It runs before the try,
\* so an exception there ends the job with its row running and its lock held.
JobPreamble(j) ==
    /\ job[j].stage = "started"
    /\ job' \in {Step(j, "fetch"), Ended(j)}
    /\ UNCHANGED <<liveHead, events, posted, budget, hook, lock, row, started, stale>>

\* Mutant: the live head is not compared.
JobFetchUnchecked(j) ==
    /\ job[j].stage = "fetch"
    /\ job' \in {Step(j, "review"), Conclude(j, "skipped"), Conclude(j, "failed")}
    /\ UNCHANGED <<liveHead, events, posted, budget, hook, lock, row, started, stale>>

\* _fetch_pr_inputs asks GitHub for the head: the only time the job does.
\* Drafts and low-risk changes end here as skipped, errors as failed.  An answer
\* that names no head passes.
JobFetch(j) ==
    /\ job[j].stage = "fetch"
    /\ \/ /\ liveHead # job[j].head
          /\ job' = Conclude(j, "superseded")
       \/ /\ liveHead = job[j].head \/ "blank_head" \in Faults
          /\ job' \in {Step(j, "review"), Conclude(j, "skipped")}
       \/ job' = Conclude(j, "failed")
    /\ UNCHANGED <<liveHead, events, posted, budget, hook, lock, row, started, stale>>

\* Model calls, validation, debate and editing: minutes of work.
JobReview(j) ==
    /\ job[j].stage = "review"
    /\ job' \in {Step(j, "deliver"), Conclude(j, "failed")}
    /\ UNCHANGED <<liveHead, events, posted, budget, hook, lock, row, started, stale>>

\* post_review.  When every finding already has a comment of an earlier review
\* nothing is posted and the status is done; after an exception or a rejected
\* comment it is partial or failed, and the review may have reached GitHub.
JobDeliver(j) ==
    /\ job[j].stage = "deliver"
    /\ \/ /\ posted' = posted \cup {job[j].head}
          /\ job' \in {Conclude(j, o) : o \in {"done", "partial", "failed"}}
       \/ /\ UNCHANGED posted
          /\ \/ posted # {} /\ job' = Conclude(j, "done")
             \/ job' \in {Conclude(j, o) : o \in {"partial", "failed"}}
    /\ UNCHANGED <<liveHead, events, budget, hook, lock, row, started, stale>>

\* _mark_review_done reads the row.
JobFinish(j) ==
    /\ job[j].stage = "finish"
    /\ job' = [job EXCEPT ![j].stage = "write", ![j].read = row[job[j].head]]
    /\ UNCHANGED <<liveHead, events, posted, budget, hook, lock, row, started, stale>>

\* Mutant: the status is written whatever was read.
JobWriteOverwrites(j) ==
    /\ job[j].stage = "write"
    /\ row' = [row EXCEPT ![job[j].head] = job[j].outcome]
    /\ job' = [job EXCEPT ![j].stage = "conclude", ![j].read = "none"]
    /\ UNCHANGED <<liveHead, events, posted, budget, hook, lock, started, stale>>

\* _mark_review_done commits: a row it read as superseded keeps its status, and
\* so does one it read with the status it was given.
JobWrite(j) ==
    /\ job[j].stage = "write"
    /\ row' = IF job[j].read \in {"superseded", job[j].outcome}
              THEN row ELSE [row EXCEPT ![job[j].head] = job[j].outcome]
    /\ job' = [job EXCEPT ![j].stage = "conclude", ![j].read = "none"]
    /\ UNCHANGED <<liveHead, events, posted, budget, hook, lock, started, stale>>

\* The write raises: inside the try the job is marked failed instead, in an
\* except clause it ends with the row as it is.
JobFinishRaises(j) ==
    /\ "database" \in Faults
    /\ Spend
    /\ job[j].stage \in {"finish", "write"}
    /\ \/ job[j].outcome # "superseded" /\ job' = Conclude(j, "failed")
       \/ job[j].outcome \in {"superseded", "failed"} /\ job' = Releasing(j)
    /\ UNCHANGED <<liveHead, events, posted, hook, lock, row, started, stale>>

\* The check run, key stamps and circuit breaker that follow the commit.
JobConclude(j) ==
    /\ job[j].stage = "conclude"
    /\ job' = Releasing(j)
    /\ UNCHANGED <<liveHead, events, posted, budget, hook, lock, row, started, stale>>

\* Mutant: one try too many.
InterruptedOnceMore(j) ==
    IF job[j].tries <= MaxTries
    THEN [job EXCEPT ![j] = QueuedJob(job[j].head, job[j].tries)] ELSE Ended(j)

\* What ARQ does with a job that was interrupted.
Interrupted(j) ==
    IF job[j].tries < MaxTries
    THEN [job EXCEPT ![j] = QueuedJob(job[j].head, job[j].tries)] ELSE Ended(j)

\* finally: the lock is deleted, whoever holds it by now.
JobRelease(j) ==
    /\ job[j].stage = "release"
    /\ \/ lock' = [lock EXCEPT ![job[j].head] = FALSE]
       \/ UNCHANGED lock
    /\ job' = IF job[j].again THEN Interrupted(j) ELSE Ended(j)
    /\ UNCHANGED <<liveHead, events, posted, budget, hook, row, started, stale>>

\* job_timeout or a worker stop raises CancelledError at the await the job is
\* in.  Inside the try the job is marked failed; in an except clause (outcome
\* superseded or failed) only finally runs; before the try, and in finally,
\* nothing does.  ARQ runs a job again after a stop, never after a timeout.
Cancel(j, again) ==
    /\ Spend
    /\ again => "shutdown" \in Faults
    /\ \/ /\ job[j].stage \in {"started", "release"}
          /\ job' = IF again THEN Interrupted(j) ELSE Ended(j)
       \/ /\ \/ job[j].stage \in InTry
             \/ job[j].stage \in {"finish", "write", "conclude"} /\ job[j].outcome # "superseded"
          /\ job' = [Conclude(j, "failed") EXCEPT ![j].again = again]
       \/ /\ job[j].stage \in {"finish", "write", "conclude"}
          /\ job[j].outcome \in {"superseded", "failed"}
          /\ job' = [Releasing(j) EXCEPT ![j].again = again]
    /\ UNCHANGED <<liveHead, events, posted, hook, lock, row, started, stale>>

WorkerCrash(j) ==
    /\ "crash" \in Faults
    /\ Spend
    /\ job[j].stage \notin {"absent", "queued"}
    /\ job' = Interrupted(j)
    /\ UNCHANGED <<liveHead, events, posted, hook, lock, row, started, stale>>

-----------------------------------------------------------------------------
(* Time: the recovery cron and the TTL of the lock *)

\* recover_stale_reviews selects a row running for longer than the recovery
\* age.  The age is the job timeout and runs from started_at, which is later than
\* the attempt's start, so no attempt at this head is still before its terminal
\* write; without a started_at it runs from created_at.
RecoverRunning(h) ==
    /\ row[h] = "running" /\ h \notin stale
    /\ h \in started => \A j \in JobsOf(h) : job[j].stage \notin Trying
    /\ stale' = stale \cup {h}
    /\ UNCHANGED <<liveHead, events, posted, budget, hook, lock, row, started, job>>

\* Mutant: recover_queued is left at its default, False.
RecoverQueuedOff(h) ==
    FALSE /\ UNCHANGED vars

\* recover_stale_reviews selects a queued row without a started_at.  Its age runs
\* from created_at, which a requeue does not renew: only a row just inserted is
\* known to be young.
RecoverQueued(h) ==
    /\ row[h] = "queued" /\ h \notin started /\ h \notin stale
    /\ \A p \in HoldersOf(h) : hook[p].pc # "enqueue_new"
    /\ stale' = stale \cup {h}
    /\ UNCHANGED <<liveHead, events, posted, budget, hook, lock, row, started, job>>

\* Its commit fails the rows selected, whatever they hold by now.
RecoverCommit ==
    /\ stale # {}
    /\ row' = [h \in Heads |-> IF h \in stale THEN "failed" ELSE row[h]]
    /\ stale' = {}
    /\ UNCHANGED <<liveHead, events, posted, budget, hook, lock, started, job>>

Expired(h) ==
    /\ lock[h]
    /\ HoldersOf(h) = {}
    /\ lock' = [lock EXCEPT ![h] = FALSE]
    /\ UNCHANGED <<liveHead, events, posted, hook, row, started, stale, job>>

\* Mutant: a TTL shorter than the job.
LockExpireEarly(h) == Expired(h) /\ UNCHANGED budget

\* The lock's TTL.  A handler is far quicker than the TTL.
LockExpire(h) == Expired(h) /\ JobsOf(h) = {} /\ UNCHANGED budget

\* A job that waits in the queue may not be.
LockExpireUnderJob(h) == "early_expiry" \in Faults /\ Expired(h) /\ JobsOf(h) # {} /\ Spend

-----------------------------------------------------------------------------
GitHubNext == \E h \in Heads : Push(h) \/ Redeliver(h)

HandlerStep(p) ==
    \/ HookReceive(p) \/ HookLock(p) \/ HookSelect(p) \/ HookInsert(p)
    \/ HookRequeue(p) \/ ApiCommit(p)
    \/ EnqueueOk(p) \/ EnqueueRaises(p) \/ EnqueueReturnsNone(p) \/ HookUnlock(p)

HandlerNext ==
    \/ HookDrop
    \/ \E p \in Handlers : HandlerStep(p) \/ HookSkip(p) \/ HandlerCrash(p)
    \/ \E p \in Handlers, h \in Heads : ApiRead(p, h)
    \/ \E h \in Heads : MarkFailed(h)

JobStep(j) ==
    \/ JobStart(j) \/ JobPreamble(j) \/ JobFetch(j) \/ JobReview(j)
    \/ JobDeliver(j) \/ JobFinish(j) \/ JobWrite(j) \/ JobConclude(j) \/ JobRelease(j)

WorkerNext ==
    \E j \in Jobs :
        \/ JobStep(j) \/ JobFinishRaises(j) \/ WorkerCrash(j)
        \/ \E again \in BOOLEAN : Cancel(j, again)

TimeNext ==
    \/ RecoverCommit
    \/ \E h \in Heads : RecoverRunning(h) \/ RecoverQueued(h)
    \/ \E h \in Heads : LockExpire(h) \/ LockExpireUnderJob(h)

Next == GitHubNext \/ HandlerNext \/ WorkerNext \/ TimeNext

Spec == Init /\ [][Next]_vars

\* Handlers and jobs run to their end, the cron keeps running, keys expire.
\* Nothing is assumed of GitHub, of the dashboard's users or of the faults.
Fairness ==
    /\ \A p \in Handlers : WF_vars(HandlerStep(p))
    /\ \A j \in Jobs : WF_vars(JobStep(j))
    /\ \A h \in Heads : /\ WF_vars(RecoverRunning(h)) /\ WF_vars(RecoverQueued(h))
                        /\ WF_vars(LockExpire(h))
    /\ WF_vars(RecoverCommit)

FairSpec == Spec /\ Fairness

-----------------------------------------------------------------------------
TypeOK ==
    /\ liveHead \in Heads
    /\ events \subseteq Heads
    /\ posted \subseteq Heads
    /\ budget \in Nat
    /\ hook \in [Handlers -> Handler]
    /\ lock \in [Heads -> BOOLEAN]
    /\ row \in [Heads -> Statuses]
    /\ started \subseteq Heads
    /\ stale \subseteq Heads
    /\ job \in [Jobs -> Job]

\* At most one job per head is queued or running: the submission lock, taken
\* by the handler and deleted by the job it enqueued, hands a head over from
\* one review to the next.  Needs a TTL that outlives the job, a worker that
\* does not cancel and re-run, and no job stored by an enqueue that raised.
OneJobPerHead ==
    \A j, k \in Jobs : Live(j) /\ Live(k) /\ job[j].head = job[k].head => j = k

\* The relation that keeps OneJobPerHead: a head's lock is held from the
\* handler that takes it to the job that deletes it, by one of them at a time.
LockHandover ==
    /\ \A j \in Jobs : Live(j) => lock[job[j].head] /\ ~job[j].again
    /\ \A p \in Handlers : Holds(p) => lock[hook[p].head]
    /\ \A p \in Handlers, j \in Jobs : Holds(p) /\ Live(j) => hook[p].head # job[j].head
    /\ \A p, q \in Handlers : Holds(p) /\ Holds(q) /\ hook[p].head = hook[q].head => p = q

\* The faults under which the lock no longer keeps a second job out.
Overtaking == {"shutdown", "lost_reply", "early_expiry"}

\* As long as GitHub's answers name the head, no attempt gets past the head check
\* unless its commit was the head of the pull request at some moment since the
\* attempt began, so a retry after a crash re-checks.
ReviewedHeadWasLive ==
    \A j \in Jobs :
        job[j].stage \in {"review", "deliver"} => job[j].wasLive

\* The history it rests on.
AttemptSawLiveHead ==
    \A j \in Jobs :
        job[j].stage \in Trying /\ job[j].head = liveHead => job[j].wasLive

\* A job's terminal write undoes a supersession only in a race: the job read the
\* row before it was superseded.  Otherwise a superseded row moves only when a
\* review of its head is submitted or starts anew, or to failed, by a handler or
\* the cron, which act on the row and on no job.
SupersededLostOnlyInRace ==
    [][\A h \in Heads :
         row[h] = "superseded" /\ row'[h] \notin {"superseded", "queued", "running"} =>
            \/ row'[h] = "failed" /\ UNCHANGED job
            \/ \E j \in JobsOf(h) : job[j].stage = "write" /\ job[j].read # "superseded"]_vars

\* Queued with the start of an earlier attempt: the recovery never selects it.
Stranded(h) == row[h] = "queued" /\ h \in started

\* Every review that is queued or running is settled, whatever crashes,
\* cancellations, lost enqueues and expired locks do to its job, unless it rests
\* where the recovery cannot see it.
EveryReviewSettles ==
    \A h \in Heads : row[h] \in Active ~> row[h] \notin Active \/ []Stranded(h)

\* Unless reviews are off, no model key is configured or its handler crashes, every
\* event delivered for a head ends in a settled row for it, or in one at rest where
\* the recovery cannot see it: no order of handlers, jobs and heads, and no fault of
\* a job, loses a review.
EveryEventIsAnswered ==
    \A h \in Heads : h \in events ~> row[h] \notin Active \cup {"none"} \/ []Stranded(h)

=============================================================================
