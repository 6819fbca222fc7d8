---- MODULE ReviewDelivery ----
(***************************************************************************)
(* From the final findings of a review to GitHub's threads and to the      *)
(* outcome rows (delivery/, github/client.py, the end of run_review, and   *)
(* telemetry/finding_outcomes.py): the reviews of one pull request post    *)
(* their findings as inline comments, resolve the threads of findings they *)
(* no longer raise, seed one outcome row per finding, and jobs classify    *)
(* those rows when the pull request closes, or at night.                   *)
(* A finding is its content-derived id (delivery/ids.py).                  *)
(***************************************************************************)
EXTENDS Integers, Sequences, FiniteSets, SequencesExt

CONSTANTS
  Reviews,      \* reviews of one pull request, at different heads
  Results,      \* review -> what it may find: sequences of finding ids
  BatchSize,    \* GITHUB_COMMENT_BATCH
  Signals,      \* what GitHub may tell of a finding: see ClassifyFinding
  MaxFaults,    \* bound on failed listings, batches and jobs, and on what breaks a job
  Again         \* reviews that may be run again, once each

ASSUME DeliveryAssumption ==
  /\ BatchSize \in Nat \ {0} /\ MaxFaults \in Nat /\ Again \subseteq Reviews
  /\ \A r \in Reviews : \A findings \in Results[r] : findings \in Seq(ToSet(findings))

VARIABLES
  comments,  \* the bot's threads: [issue, review, resolved]
  rv,        \* review -> its delivery
  rows,      \* review -> finding_outcomes, by finding_index from 1
  pull,      \* "open", "merged" or "closed"
  closing,   \* a classify_pr_outcomes job is queued
  age,       \* 0: young; 1: max_open_days since created_at; 2: and since completed_at
  broken,    \* a pull request that the nightly pass comes to raises, tonight as every night
  faults,
  reruns     \* the reviews that were run again

postingVars == <<comments, rv, rows, pull, closing, age, broken, faults, reruns>>

Fresh == [pc |-> "analysing", findings |-> <<>>, since |-> 0, todo |-> <<>>, single |-> <<>>,
          response |-> <<>>, answered |-> FALSE, rejected |-> FALSE,
          status |-> "running", stored |-> <<>>]

PostingInit ==
  /\ comments = <<>> /\ rv = [r \in Reviews |-> Fresh] /\ rows = [r \in Reviews |-> <<>>]
  /\ pull = "open" /\ closing = FALSE /\ age = 0 /\ broken = FALSE /\ faults = 0 /\ reruns = {}

Set(r, fields) == rv' = [rv EXCEPT ![r] = [f \in DOMAIN @ |-> IF f \in DOMAIN fields
                                                               THEN fields[f] ELSE @[f]]]
Fault == faults < MaxFaults /\ faults' = faults + 1
Posted == {comments[c].issue : c \in DOMAIN comments}
Unchanged(r) == UNCHANGED <<rows, pull, closing, age, broken, reruns>>

\* ---- posting ---------------------------------------------------------------------

\* Mutant: the listing is only counted, not filtered by.
PostableAll(findings, listed) == findings

\* filter_new_findings, in the order of the findings: every finding has an id, so only the
\* ids decide.
Postable(findings, listed) ==
  LET new == {i \in DOMAIN findings : findings[i] \notin listed}
      Place(i) == Cardinality({j \in new : j <= i})
  IN [k \in 1 .. Cardinality(new) |-> findings[CHOOSE i \in new : Place(i) = k]]

\* The findings are final; the bot's comments are listed, or the listing fails.  A review
\* without findings, or all of whose findings were posted before, posts nothing.
Analysed(r) ==
  /\ rv[r].pc = "analysing"
  /\ \E findings \in Results[r] :
       \/ /\ Set(r, [pc |-> "posting", findings |-> findings, since |-> Len(comments),
                     todo |-> Postable(findings, Posted)])
          /\ UNCHANGED faults
       \/ /\ Fault
          /\ Set(r, [pc |-> "posting", findings |-> findings, since |-> 0, todo |-> findings])
  /\ UNCHANGED comments /\ Unchanged(r)

Thread(r, f) == [issue |-> f, review |-> r, resolved |-> FALSE]
Ids(n) == [i \in 1 .. n |-> Len(comments) + i]

\* _request_with_retry retries what GitHub says it did not do (403, 429); any other failure
\* of a create-review call reaches the caller, also one after the review was created.
AfterFailure(created) == {comments, created}

\* One create-review call for the next batch; a failure is followed by one call per comment.
PostBatch(r) ==
  /\ rv[r].pc = "posting" /\ rv[r].single = <<>> /\ rv[r].todo # <<>>
  /\ LET n == IF Len(rv[r].todo) < BatchSize THEN Len(rv[r].todo) ELSE BatchSize
         batch == SubSeq(rv[r].todo, 1, n)
         rest == SubSeq(rv[r].todo, n + 1, Len(rv[r].todo))
         created == comments \o [i \in 1 .. n |-> Thread(r, batch[i])]
     IN \/ /\ comments' = created
           /\ Set(r, [todo |-> rest, answered |-> TRUE,
                      response |-> IF rv[r].answered THEN rv[r].response ELSE Ids(n)])
           /\ UNCHANGED faults
        \/ /\ Fault
           /\ comments' \in AfterFailure(created)
           /\ Set(r, [todo |-> rest, single |-> batch])
  /\ Unchanged(r)

\* Mutant: a comment GitHub refuses is only logged.
PostSingleLogged(r) ==
  /\ rv[r].pc = "posting" /\ rv[r].single # <<>>
  /\ comments' \in AfterFailure(Append(comments, Thread(r, Head(rv[r].single))))
  /\ Set(r, [single |-> Tail(rv[r].single)])
  /\ UNCHANGED faults /\ Unchanged(r)

\* The fallback posts one comment; a failure rejects the finding, whatever it left behind.
PostSingle(r) ==
  /\ rv[r].pc = "posting" /\ rv[r].single # <<>>
  /\ LET created == Append(comments, Thread(r, Head(rv[r].single)))
         rest == Tail(rv[r].single)
     IN \/ /\ comments' = created
           /\ Set(r, [single |-> rest, answered |-> TRUE,
                      response |-> IF rv[r].answered THEN rv[r].response ELSE Ids(1)])
        \/ /\ comments' \in AfterFailure(created)
           /\ Set(r, [single |-> rest, rejected |-> TRUE])
  /\ UNCHANGED faults /\ Unchanged(r)

\* resolve_outdated_threads, best effort, if the listing had found comments: every open
\* thread of the bot whose finding this review does not raise.
ResolveOutdated(r) ==
  /\ rv[r].pc = "posting" /\ rv[r].single = <<>> /\ rv[r].todo = <<>>
  /\ LET outdated == {c \in DOMAIN comments : ~comments[c].resolved
                                              /\ comments[c].issue \notin ToSet(rv[r].findings)}
     IN \E failed \in {{}, outdated} :
          comments' = [c \in DOMAIN comments |->
                         IF rv[r].since > 0 /\ c \in outdated \ failed
                         THEN [comments[c] EXCEPT !.resolved = TRUE] ELSE comments[c]]
  /\ Set(r, [pc |-> "seeding"])
  /\ UNCHANGED faults /\ Unchanged(r)

\* ---- the outcome rows ------------------------------------------------------------------

Pending(c) == [comment |-> c, outcome |-> "pending"]

\* Mutant: a row per comment of the response.
SeedPosted(r) ==
  /\ rv[r].pc = "seeding"
  /\ rows' = [rows EXCEPT ![r] = [i \in DOMAIN rv[r].response |-> Pending(rv[r].response[i])]]
  /\ Set(r, [pc |-> "marking"])
  /\ UNCHANGED <<comments, pull, closing, age, broken, faults, reruns>>

\* seed_pending_finding_outcomes: the i-th row gets the i-th comment id of the first
\* response; a row of an earlier attempt stays, and only gets an id if it has none.
Seed(r) ==
  /\ rv[r].pc = "seeding"
  /\ LET id(i) == IF i \in DOMAIN rv[r].response THEN rv[r].response[i] ELSE 0
         n == Len(rv[r].findings)
         old == rows[r]
     IN rows' = [rows EXCEPT ![r] =
          [i \in 1 .. (IF Len(old) > n THEN Len(old) ELSE n) |->
             IF i \notin DOMAIN old THEN Pending(id(i))
             ELSE IF i <= n /\ old[i].comment = 0 THEN [old[i] EXCEPT !.comment = id(i)]
             ELSE old[i]]]
  /\ Set(r, [pc |-> "marking"])
  /\ UNCHANGED <<comments, pull, closing, age, broken, faults, reruns>>

\* What is left of a review when its job has ended.
Ended(status, stored) ==
  [Fresh EXCEPT !.pc = "ended", !.status = status, !.stored = stored]

\* _mark_review_done: "partial" if GitHub rejected a comment.
Mark(r) ==
  /\ rv[r].pc = "marking"
  /\ rv' = [rv EXCEPT ![r] = Ended(IF rv[r].rejected THEN "partial" ELSE "done", rv[r].findings)]
  /\ UNCHANGED <<comments, rows, pull, closing, age, broken, faults, reruns>>

\* A timeout of the job, or an exception after the posting, marks the review failed without
\* findings, whatever was posted.
Interrupt(r) ==
  /\ rv[r].pc \in {"posting", "seeding", "marking"}
  /\ Fault
  /\ rv' = [rv EXCEPT ![r] = Ended("failed", <<>>)]
  /\ UNCHANGED <<comments, rows, pull, closing, age, broken, reruns>>

Rerun(r) ==
  /\ rv[r].pc = "ended" /\ r \in Again \ reruns
  /\ reruns' = reruns \union {r}
  /\ Set(r, [f \in DOMAIN Fresh \ {"stored"} |-> Fresh[f]])
  /\ UNCHANGED <<comments, rows, pull, closing, age, broken, faults>>

\* ---- classification --------------------------------------------------------------------

\* A commit since the review that touches the file: how much of the suggestion it adds,
\* whether it touches only that file, and whether the bot co-authored it.  The first commit
\* that adds some of the suggestion decides.
ApplyMatch(commits) ==
  LET adds == SelectSeq(commits, LAMBDA c : c.adds # "none")
  IN IF adds = <<>> THEN "none"
     ELSE IF adds[1].adds = "half" THEN "modified"
     ELSE IF adds[1].bot THEN "exact" ELSE "near"

Narrow(commits) == commits # <<>> /\ \A c \in ToSet(commits) : c.only

\* classify_finding_outcome; s holds those commits, whether the line is still there, and
\* how people reacted, replied and resolved the thread.
ClassifyFinding(s, resolved) ==
  LET match == ApplyMatch(s.commits)
      direct == match = "exact" \/ \E c \in ToSet(s.commits) : c.bot
  IN
  CASE pull = "closed" -> "abandoned"
    [] pull # "closed" /\ direct -> "applied_directly"
    [] pull # "closed" /\ ~direct ->
         IF match # "none" \/ (~s.line /\ Narrow(s.commits)) THEN "applied_modified"
         ELSE IF ~s.line THEN "superseded"
         ELSE IF s.reaction = "negative" THEN "dismissed"
         ELSE IF resolved THEN
           (IF s.reply # "negative" /\ (s.reaction = "positive" \/ s.reply = "plain")
            THEN "acknowledged" ELSE "dismissed")
         ELSE IF pull = "merged"
              THEN (IF s.reaction = "positive" THEN "acknowledged" ELSE "ignored")
         ELSE IF age < 2 THEN "pending" ELSE "ignored"

Silent(s) == [s EXCEPT !.reaction = "none", !.reply = "none", !.resolved = FALSE]

\* By a person, or by ResolveOutdated: GitHub does not tell.
ThreadResolved(s, c) == s.resolved \/ comments[c].resolved

\* classify_review_outcomes: the stored findings of a review, each with its row, which is
\* created when it is missing.  Without a comment id nobody reacted.
Classified(r, s) ==
  [i \in 1 .. (IF Len(rows[r]) > Len(rv[r].stored) THEN Len(rows[r]) ELSE Len(rv[r].stored)) |->
     LET row == IF i \in DOMAIN rows[r] THEN rows[r][i] ELSE Pending(0)
         c == row.comment
     IN IF i \notin DOMAIN rv[r].stored THEN row
        ELSE [row EXCEPT !.outcome = IF c = 0 THEN ClassifyFinding(Silent(s), FALSE)
                                     ELSE ClassifyFinding(s, ThreadResolved(s, c))]]

\* The reviews are classified one after the other, each in a transaction; nothing is caught.
Classify(handled) ==
  \E s \in Signals :
    rows' = [r \in Reviews |-> IF r \in handled THEN Classified(r, s) ELSE rows[r]]

\* classify_pr_outcomes_for_closed_pr: every review with findings; the job, or the
\* webhook that enqueues it, may fail.
ClassifyClosed ==
  /\ closing /\ closing' = FALSE
  /\ LET due == {r \in Reviews : rv[r].stored # <<>>}
     IN \/ Classify(due) /\ UNCHANGED faults
        \/ Fault /\ \E handled \in (SUBSET due) \ {due} : Classify(handled)
  /\ UNCHANGED <<comments, rv, pull, age, broken, reruns>>

HasPending(r) == \E i \in DOMAIN rows[r] : rows[r][i].outcome = "pending"

\* classify_pending_outcomes_nightly: the reviews with a pending row that are old enough.
\* One pass takes the pull requests of all installations in turn, and the first that raises,
\* this one or one before it, ends it.
Nightly ==
  /\ age > 0
  /\ LET due == {r \in Reviews : HasPending(r) /\ rv[r].stored # <<>>}
     IN /\ due # {}
        /\ \/ ~broken /\ Classify(due) /\ UNCHANGED faults
           \/ /\ (broken /\ UNCHANGED faults) \/ Fault
              /\ \E handled \in (SUBSET due) \ {due} : Classify(handled)
  /\ UNCHANGED <<comments, rv, pull, closing, age, broken, reruns>>

\* record_review_comment_feedback: a reply that says "won't fix" to a comment of a row.
Reply(r, i) ==
  /\ rows[r][i].comment # 0
  /\ rows[r][i].outcome \in {"pending", "ignored", "abandoned"}
  /\ rows' = [rows EXCEPT ![r][i].outcome = "dismissed"]
  /\ UNCHANGED <<comments, rv, pull, closing, age, broken, faults, reruns>>

\* ---- the people and the clock --------------------------------------------------------------

\* The webhook of the close enqueues the classification.
PullCloses ==
  /\ pull = "open"
  /\ pull' \in {"merged", "closed"}
  /\ closing' = TRUE
  /\ UNCHANGED <<comments, rv, rows, age, broken, faults, reruns>>

Ages ==
  /\ age < 2 /\ age' = age + 1
  /\ UNCHANGED <<comments, rv, rows, pull, closing, broken, faults, reruns>>

\* A repository is deleted, or the app loses its access; it may be given back.
Breaks ==
  /\ \/ ~broken /\ Fault
     \/ broken /\ UNCHANGED faults
  /\ broken' = ~broken
  /\ UNCHANGED <<comments, rv, rows, pull, closing, age, reruns>>

DeliverReview(r) ==
  Analysed(r) \/ PostBatch(r) \/ PostSingle(r) \/ ResolveOutdated(r) \/ Seed(r) \/ Mark(r)

PostingNext ==
  \/ \E r \in Reviews :
       \/ DeliverReview(r) \/ Interrupt(r) \/ Rerun(r)
       \/ \E i \in DOMAIN rows[r] : Reply(r, i)
  \/ ClassifyClosed \/ Nightly \/ PullCloses \/ Ages \/ Breaks

\* Days pass, and the nightly job runs every night.  A review need not go on.
PostingSpec == PostingInit /\ [][PostingNext]_postingVars /\ WF_postingVars(Ages) /\ WF_postingVars(Nightly)

-----------------------------------------------------------------------------
Outcomes == {"pending", "applied_directly", "applied_modified", "acknowledged", "dismissed",
             "ignored", "abandoned", "superseded"}

\* A row belongs to a finding its review could have and to a comment that exists.
PostingTypeOK ==
  \A r \in Reviews :
    /\ DOMAIN rows[r] = 1 .. Cardinality(DOMAIN rows[r])
    /\ \A i \in DOMAIN rows[r] :
         rows[r][i] \in [comment : 0 .. Len(comments), outcome : Outcomes]
    /\ rv[r].since <= Len(comments)
    /\ rv[r].status = "running" <=> rv[r].pc # "ended"

\* A review that the runner ends as "done" has a thread for each of its findings, posted by
\* it or before it, whatever failed and was retried on the way; a finding that has none makes
\* the review "partial" or "failed" (runner.py:1184-1226, 1850-1887;
\* delivery/comments.py:140-200).  The pipeline's worker makes no such promise: a rejected
\* comment does not change its status (pipeline/worker_adapter.py:12-13).
DoneMeansDelivered ==
  \A r \in Reviews : rv[r].status = "done" => ToSet(rv[r].stored) \subseteq Posted

\* No review raises in a second thread what the listing it filters by already held
\* (delivery/synchronize.py:50-79); only findings that share an id, a failed listing, or a
\* review that posts at the same time can do that.
NoRepost ==
  [][ \A c \in Len(comments) + 1 .. Len(comments') :
        \A d \in 1 .. rv[comments'[c].review].since : comments[d].issue # comments'[c].issue ]_postingVars

Settled(r) ==
  rv[r].status \in {"done", "partial"} =>
    \A i \in DOMAIN rv[r].stored : i \in DOMAIN rows[r] /\ rows[r][i].outcome # "pending"

\* Again and again every finding of every delivered review has an outcome, whether its
\* comment was posted, skipped as a duplicate or rejected, whether the classification at
\* the close was lost or not, and even if the pull request stays open; unless from some
\* night on the pass always ends at a pull request that raises (finding_outcomes.py:96-133,
\* 401-432).
OutcomesSettle == []<>(~broken) => []<>(\A r \in Reviews : Settled(r))
====
