----------------------------- MODULE ReviewLease -----------------------------
(***************************************************************************)
(* What the submission lock promises, without its keys, rows and queues:   *)
(* the right to change the review of a head is a lease.  A handler takes   *)
(* it, submits the review and hands the lease to a job; the job starts the *)
(* review, at most MaxTries times, settles it and gives the lease up.      *)
(* Only the job starts or settles a review, only the handler queues one.   *)
(* A lease whose holder vanished is an orphan until it expires.  Beside    *)
(* the lease a review may be superseded by one of another head, and failed *)
(* by an administrator or the recovery.                                    *)
(***************************************************************************)
EXTENDS Naturals

CONSTANTS Heads,         \* the commits of a pull request
          MaxTries,      \* how often one job may start its review
          SkipStatuses,  \* what a review that is refused at the door becomes
          Outcomes       \* what a job may settle a review to

VARIABLES lease,   \* who has the lease of this head
          tries,   \* how often the job that has it started the review
          status   \* the review's status

vars == <<lease, tries, status>>

Init ==
    /\ lease = [h \in Heads |-> "free"]
    /\ tries = [h \in Heads |-> 0]
    /\ status = [h \in Heads |-> "none"]

Passes(h, from, to) == lease[h] = from /\ lease' = [lease EXCEPT ![h] = to]
Reviewed == {h \in Heads : status[h] # "none"}
Failed(hs) == [h \in Heads |-> IF h \in hs THEN "failed" ELSE status[h]]

Take(h) == Passes(h, "free", "handler") /\ UNCHANGED <<tries, status>>

\* The review is queued, and those of some other heads are superseded.
Submit(h) ==
    /\ lease[h] = "handler"
    /\ \E others \in SUBSET (Reviewed \ {h}) :
         status' = [g \in Heads |-> IF g = h THEN "queued"
                                    ELSE IF g \in others THEN "superseded" ELSE status[g]]
    /\ UNCHANGED <<lease, tries>>

HandOver(h) ==
    /\ Passes(h, "handler", "job")
    /\ status[h] # "none"
    /\ UNCHANGED <<tries, status>>

\* The handler ends without a job; it may fail the review.
Withdraw(h) ==
    /\ Passes(h, "handler", "free") \/ Passes(h, "handler", "orphan")
    /\ status' \in {status, Failed(Reviewed \cap {h})}
    /\ UNCHANGED tries

Start(h) ==
    /\ lease[h] = "job" /\ tries[h] < MaxTries
    /\ tries' = [tries EXCEPT ![h] = @ + 1]
    /\ status' = [status EXCEPT ![h] = "running"]
    /\ UNCHANGED lease

Settle(h) ==
    /\ lease[h] = "job" /\ tries[h] > 0
    /\ \E outcome \in Outcomes : status' = [status EXCEPT ![h] = outcome]
    /\ UNCHANGED <<lease, tries>>

Leave(h) ==
    /\ Passes(h, "job", "free") \/ Passes(h, "job", "orphan")
    /\ tries' = [tries EXCEPT ![h] = 0]
    /\ UNCHANGED status

Expire(h) == Passes(h, "orphan", "free") /\ UNCHANGED <<tries, status>>

Skip(h) ==
    /\ status[h] = "none"
    /\ \E s \in SkipStatuses : status' = [status EXCEPT ![h] = s]
    /\ UNCHANGED <<lease, tries>>

Fail(hs) == status' = Failed(hs) /\ UNCHANGED <<lease, tries>>

Next ==
    \/ \E h \in Heads :
         \/ Take(h) \/ Submit(h) \/ HandOver(h) \/ Withdraw(h)
         \/ Start(h) \/ Settle(h) \/ Leave(h) \/ Expire(h) \/ Skip(h)
    \/ \E hs \in SUBSET Reviewed : Fail(hs)

Spec == Init /\ [][Next]_vars
=============================================================================
