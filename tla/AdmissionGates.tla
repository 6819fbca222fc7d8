---------------------------- MODULE AdmissionGates ----------------------------
(***************************************************************************)
(* What limits the reviews of one installation: a sliding window of        *)
(* requests for the installation and one for each user of the dashboard,   *)
(* and a daily budget of tokens.  A webhook passes the installation's      *)
(* window and the budget, a request of the dashboard the user's window     *)
(* between the two.  A review charges its tokens when it finishes.         *)
(*                                                                         *)
(* Windows are sorted sets in Redis with one entry for each request, whose *)
(* score is the time the API process read; no two processes read the same  *)
(* microsecond.  A key's expiry deletes only entries that the next check   *)
(* would remove and is left out.  The gates and the submission itself fail *)
(* independently; ReviewLifecycle models what follows them.                *)
(***************************************************************************)
EXTENDS Naturals, Sequences, FiniteSets

CONSTANTS
    Users,         \* users of the dashboard
    Installation,  \* the installation, as the key of its window
    Reviews,       \* slots for requests and reviews under way at the same time
    WindowLimit,   \* reviews_per_hour_limit, and the limit of each user
    WindowLength,  \* window_seconds
    DayLength,     \* a UTC day
    DailyLimit,    \* daily_token_budget_per_installation
    MaxTokens,     \* bound on the tokens one review uses
    MaxTime,       \* bound on the clock
    Faults         \* the faults of this instance, a subset of FaultKinds

FaultKinds == {"redis",     \* the command that records tokens raises
               "database"}  \* the terminal write of a review raises

Keys == Users \cup {Installation}

ASSUME ConstantsAssumption ==
    /\ Installation \notin Users
    /\ IsFiniteSet(Reviews) /\ Reviews # {}
    /\ WindowLimit \in Nat \ {0} /\ WindowLength \in Nat \ {0}
    /\ DayLength \in Nat \ {0}
    /\ DailyLimit \in Nat /\ MaxTokens \in Nat
    /\ MaxTime \in Nat
    /\ Faults \subseteq FaultKinds

VARIABLES
    now,      \* the clock
    window,   \* Redis: the entries of each window
    used,     \* Redis: the tokens recorded under today's key
    review,   \* the requests and the reviews they became
    granted,  \* history: the entries whose request passed that window
    spent,    \* history: the tokens of the reviews that finished today
    skewed    \* history: why used is not spent today

vars == <<now, window, used, review, granted, spent, skewed>>

Skews == {"refused",  \* the record did not fit the limit
          "redis",    \* the record raised
          "twice"}    \* the review recorded its tokens a second time

\* The windows a webhook and a user's request pass.
Paths == {<<Installation>>} \cup {<<Installation, u>> : u \in Users}

Idle == [pc |-> "idle"]
Request == [pc : {"clock"}, todo : Paths \cup {<<u>> : u \in Users}]
             \cup [pc : {"window"}, todo : Paths \cup {<<u>> : u \in Users}, stamp : 0 .. MaxTime]
             \cup [pc : {"budget", "running"}]
             \cup [pc : {"record", "write"}, tokens : 0 .. MaxTokens, again : BOOLEAN]

Goto(r, pc) == [review EXCEPT ![r].pc = pc]
Become(r, request) == [review EXCEPT ![r] = request]
End(r) == Become(r, Idle)

Init ==
    /\ now = 0
    /\ window = [k \in Keys |-> {}]
    /\ used = 0
    /\ review = [r \in Reviews |-> Idle]
    /\ granted = [k \in Keys |-> {}]
    /\ spent = 0
    /\ skewed = {}

-----------------------------------------------------------------------------
\* At midnight UTC the tokens are counted under a new key.
Tick ==
    /\ now < MaxTime
    /\ now' = now + 1
    /\ IF now' % DayLength = 0
       THEN used' = 0 /\ spent' = 0 /\ skewed' = {}
       ELSE UNCHANGED <<used, spent, skewed>>

Pass == Tick /\ UNCHANGED <<window, review, granted>>

-----------------------------------------------------------------------------
(* The gates *)

Submit(r) ==
    /\ review[r].pc = "idle"
    /\ \E path \in Paths : review' = Become(r, [pc |-> "clock", todo |-> path])
    /\ UNCHANGED <<now, window, used, granted, spent, skewed>>

\* The time is read before the commands are sent.
ReadTime(r) ==
    /\ review[r].pc = "clock"
    /\ review' = Become(r, [pc |-> "window", todo |-> review[r].todo, stamp |-> now])
    /\ Tick
    /\ UNCHANGED <<window, granted>>

InWindow(k, t) == {s \in window[k] : s + WindowLength > t}

\* Where a request goes on when it has passed a window.
NextGate(r) ==
    LET rest == Tail(review[r].todo)
    IN  IF rest = <<>> THEN [pc |-> "budget"] ELSE [pc |-> "clock", todo |-> rest]

\* Mutant: the limit may be reached before the request.
CheckWindowOffByOne(r) ==
    LET k == Head(review[r].todo)
        t == review[r].stamp
    IN
    /\ review[r].pc = "window"
    /\ window' = [window EXCEPT ![k] = InWindow(k, t) \cup {t}]
    /\ IF Cardinality(InWindow(k, t)) <= WindowLimit
       THEN /\ granted' = [granted EXCEPT ![k] = @ \cup {t}]
            /\ review' = Become(r, NextGate(r))
       ELSE review' = End(r) /\ UNCHANGED granted
    /\ UNCHANGED <<now, used, spent, skewed>>

\* _check_sliding_window_rate_limit: one transaction removes what left the
\* window, counts, and adds the request, also one that is refused.
CheckWindow(r) ==
    LET k == Head(review[r].todo)
        t == review[r].stamp
    IN
    /\ review[r].pc = "window"
    /\ window' = [window EXCEPT ![k] = InWindow(k, t) \cup {t}]
    /\ IF Cardinality(InWindow(k, t)) < WindowLimit
       THEN /\ granted' = [granted EXCEPT ![k] = @ \cup {t}]
            /\ review' = Become(r, NextGate(r))
       ELSE review' = End(r) /\ UNCHANGED granted
    /\ UNCHANGED <<now, used, spent, skewed>>

\* Mutant: the gate reserves a token that nobody gives back.
CheckBudgetReserves(r) ==
    /\ review[r].pc = "budget"
    /\ IF used < DailyLimit
       THEN review' = Goto(r, "running") /\ used' = used + 1
       ELSE review' = End(r) /\ UNCHANGED used
    /\ UNCHANGED <<now, window, granted, spent, skewed>>

\* The gate compares what was recorded; it reserves nothing.
CheckBudget(r) ==
    /\ review[r].pc = "budget"
    /\ review' = IF used < DailyLimit THEN Goto(r, "running") ELSE End(r)
    /\ UNCHANGED <<now, window, used, granted, spent, skewed>>

-----------------------------------------------------------------------------
(* The review *)

\* It ends in any outcome, having used some tokens; or it was not submitted after
\* all, or its worker dies, and nothing is recorded.
Finish(r) ==
    /\ review[r].pc = "running"
    /\ \/ \E t \in 0 .. MaxTokens :
            review' = Become(r, [pc |-> "record", tokens |-> t, again |-> FALSE])
       \/ review' = End(r)
    /\ UNCHANGED <<now, window, used, granted, spent, skewed>>

\* Mutant: the script increments without the check.
RecordUnchecked(r) ==
    /\ review[r].pc = "record"
    /\ used' = used + review[r].tokens
    /\ spent' = IF review[r].again THEN spent ELSE spent + review[r].tokens
    /\ review' = Goto(r, "write")
    /\ UNCHANGED <<now, window, granted, skewed>>

\* _record_token_budget_usage: the script adds the tokens if they fit the limit
\* and otherwise nothing.
Record(r) ==
    LET t == review[r].tokens
        Skew(why) == skewed' = IF t > 0 THEN skewed \cup {why} ELSE skewed
    IN
    /\ review[r].pc = "record"
    /\ \/ /\ used + t <= DailyLimit
          /\ used' = used + t
          /\ IF review[r].again THEN Skew("twice") ELSE UNCHANGED skewed
       \/ used + t > DailyLimit /\ Skew("refused") /\ UNCHANGED used
       \/ "redis" \in Faults /\ t > 0 /\ Skew("redis") /\ UNCHANGED used
    /\ spent' = IF review[r].again THEN spent ELSE spent + t
    /\ review' = Goto(r, "write")
    /\ UNCHANGED <<now, window, granted>>

\* _mark_review_done writes the row after it has recorded the tokens.  When the
\* write raises, run_review's except clause calls it once more.
Write(r) ==
    /\ review[r].pc = "write"
    /\ \/ review' = End(r)
       \/ /\ "database" \in Faults /\ ~review[r].again
          /\ review' = [review EXCEPT ![r].pc = "record", ![r].again = TRUE]
    /\ UNCHANGED <<now, window, used, granted, spent, skewed>>

Step(r) ==
    \/ Submit(r) \/ ReadTime(r) \/ CheckWindow(r) \/ CheckBudget(r)
    \/ Finish(r) \/ Record(r) \/ Write(r)

Next == Pass \/ \E r \in Reviews : Step(r)

Spec == Init /\ [][Next]_vars

-----------------------------------------------------------------------------
TypeOK ==
    /\ now \in 0 .. MaxTime
    /\ window \in [Keys -> SUBSET (0 .. MaxTime)]
    /\ used \in Nat
    /\ review \in [Reviews -> {Idle} \cup Request]
    /\ granted \in [Keys -> SUBSET (0 .. MaxTime)]
    /\ spent \in Nat
    /\ skewed \subseteq Skews

\* However many reviews record at once, the tokens recorded for a day stay within
\* the budget.
UsedWithinLimit == used <= DailyLimit

\* The requests that passed the window of k that ends at t.
Recent(k, t) == {s \in granted[k] : s <= t /\ s + WindowLength > t}

\* No window of time holds more requests that passed than the limit and one for
\* each other request under way: a request that read its time before another one
\* removed old entries does not count them.
GrantsWithinLimit ==
    \A k \in Keys, t \in 0 .. MaxTime :
        Cardinality(Recent(k, t)) <= WindowLimit + Cardinality(Reviews) - 1

\* The tokens recorded are those spent, except for records that raised, did not
\* fit or were made twice; one that does not fit is refused only within one
\* review of the limit.
UsageExplained ==
    /\ skewed = {} => used = spent
    /\ skewed \subseteq {"refused", "redis"} => used <= spent
    /\ "refused" \in skewed => used + MaxTokens > DailyLimit

=============================================================================
