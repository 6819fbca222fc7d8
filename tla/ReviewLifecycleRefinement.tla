---------------------- MODULE ReviewLifecycleRefinement ----------------------
(***************************************************************************)
(* ReviewLifecycle implements ReviewLease, while no fault lets a job       *)
(* overtake the submission lock.                                           *)
(***************************************************************************)
EXTENDS ReviewLifecycle

\* Who acts for a head: a handler between acquiring the lock and enqueuing the job, or
\* a job, queued or running.  Two of them are no state of the lease.
LeaseOf(h) ==
    LET jobs == JobsOf(h)
        holders == HoldersOf(h)
    IN  CASE jobs = {} /\ holders = {} -> IF lock[h] THEN "orphan" ELSE "free"
          [] holders = {} /\ (\E j \in jobs : jobs = {j}) -> "job"
          [] jobs = {} /\ (\E p \in holders : holders = {p}) -> "handler"
          [] OTHER -> "shared"
TriesOf(h) ==
    LET jobs == JobsOf(h)
    IN  IF jobs = {} THEN 0 ELSE job[CHOOSE j \in jobs : TRUE].tries

Lease == INSTANCE ReviewLease
           WITH lease  <- [h \in Heads |-> LeaseOf(h)],
                tries  <- [h \in Heads |-> TriesOf(h)],
                status <- row

\* Through all interleavings of webhooks, dashboard requests, jobs, their retries and
\* the recovery, the lock's key in Redis, the handlers and the ARQ jobs behave as one
\* lease per head (acquire_review_submission_lock and its release in run_review).
ImplementsReviewLease == Lease!Spec
=============================================================================
