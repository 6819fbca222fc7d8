---- MODULE ThresholdTuner ----
(***************************************************************************)
(* The adaptive skip threshold of one installation (threshold_tuner.py):   *)
(* the database row, its history, the Redis entry the reviews read, the    *)
(* hourly tuner with the judge's gate, the operator's rollback, and the    *)
(* reviews of the installation's other repositories, which look the        *)
(* threshold up under the same key.  Rates are percentages.                *)
(***************************************************************************)
EXTENDS Integers, Sequences, FiniteSets

CONSTANTS
  Initial, Minimum, StepDown,    \* the tuner's initial_threshold, minimum_threshold, step_down
  OtherInitials,                 \* initial_threshold of the installation's other repositories
  Low, High,                     \* target_disagreement_low, target_disagreement_high
  MaxFalseAccept, MaxDismiss, MinSamples,
  JudgeOn,                       \* judge_feedback_enabled and not judge_collect_only
  MinJudgeSamples, MaxJudgeError, MinReliability,
  Metrics,                       \* what a run of the tuner may measure
  JudgeWindows,                  \* what the judge's aggregate may say
  NoRow, NoEntry,                \* no database row; no Redis entry
  MaxTunes, MaxRollbacks         \* bounds on runs of the tuner and on rollbacks

ASSUME ThresholdAssumption ==
  /\ Initial \in 0 .. 100 /\ Minimum \in 0 .. 100 /\ StepDown \in 1 .. 50
  /\ Minimum <= Initial /\ OtherInitials \subseteq 0 .. 100
  /\ {Low, High, MaxFalseAccept, MaxDismiss, MinSamples} \subseteq Nat
  /\ \A m \in Metrics : {m.samples, m.disagree, m.ignore, m.dismiss} \subseteq Nat
  /\ MaxTunes \in Nat /\ MaxRollbacks \in Nat
  /\ NoRow \notin Int /\ NoEntry \notin Int

VARIABLES
  row,         \* current_threshold of the installation
  history,     \* rows of fast_path_threshold_history, oldest first
  entry,       \* fast-path-threshold:<installation> in Redis
  judgeWindow, \* judge-feedback-window:<installation> in Redis
  tuner,       \* the tuner's run: [pc, prev, new, why, m: what it measured, judge: what it read]
  rollback,    \* the rollback's run: [pc, value]
  tunes,       \* history: runs of the tuner started
  rollbacks    \* history: rollbacks done

tunerVars == <<row, history, entry, judgeWindow, tuner, rollback, tunes, rollbacks>>

NoJudge == [available |-> FALSE, independent |-> FALSE, samples |-> 0, error |-> 0,
            reliability |-> 0]
Lesser(a, b) == IF a < b THEN a ELSE b
Greater(a, b) == IF a > b THEN a ELSE b

\* authorize_threshold_lowering; without judge metrics there is no gate.
JudgeAllows(j) ==
  ~JudgeOn \/ (/\ j.available /\ j.independent
               /\ j.samples >= MinJudgeSamples
               /\ j.error <= MaxJudgeError
               /\ j.reliability >= MinReliability)

Guardrail(m) ==
  m.disagree >= 40 \/ m.dismiss + m.ignore > MaxFalseAccept \/ m.dismiss > MaxDismiss

\* Mutant: the guardrails are asked after the lowering.
DecideNextThresholdLate(prev, m, j) ==
  CASE m.samples < MinSamples -> [new |-> prev, why |-> "hold_low_sample"]
    [] m.samples >= MinSamples /\ m.disagree < Low /\ JudgeAllows(j)
         -> [new |-> Greater(Minimum, prev - StepDown), why |-> "lower"]
    [] OTHER -> [new |-> Lesser(100, prev + StepDown), why |-> "raise"]

\* decide_next_threshold: the new threshold and the reason.
DecideNextThreshold(prev, m, j) ==
  IF m.samples < MinSamples THEN [new |-> prev, why |-> "hold_low_sample"]
  ELSE IF Guardrail(m) THEN [new |-> Lesser(100, prev + StepDown), why |-> "guardrail"]
  ELSE IF m.disagree < Low THEN
    IF JudgeAllows(j) THEN [new |-> Greater(Minimum, prev - StepDown), why |-> "lower"]
    ELSE [new |-> prev, why |-> "hold_judge_gate"]
  ELSE IF m.disagree > High THEN [new |-> Lesser(100, prev + StepDown), why |-> "raise"]
  ELSE [new |-> prev, why |-> "hold_healthy_range"]

AtRest == [pc |-> "idle"]

TunerInit ==
  /\ row = NoRow /\ history = <<>> /\ entry = NoEntry /\ judgeWindow = NoEntry
  /\ tuner = AtRest /\ rollback = AtRest
  /\ tunes = 0 /\ rollbacks = 0

\* refresh_judge_gate_windows publishes the aggregate of the stored assessments.
RefreshWindow ==
  /\ JudgeOn /\ tuner.pc = "idle"
  /\ judgeWindow' \in JudgeWindows
  /\ UNCHANGED <<row, history, entry, tuner, rollback, tunes, rollbacks>>

\* What _load_judge_gate_metrics may return: the published window; without one, the newest
\* window of the audit table, if it has any.
JudgeRead ==
  IF ~JudgeOn THEN {NoJudge}
  ELSE IF judgeWindow # NoEntry THEN {judgeWindow}
  ELSE {NoJudge} \union JudgeWindows

\* The first part of tune_fast_path_threshold: the row is created or read, the metrics and
\* the judge window are read, the decision is made.  It publishes the window it read, so
\* a window that is never refreshed does not expire either.
TunerDecides ==
  /\ tuner.pc = "idle" /\ tunes < MaxTunes
  /\ \E m \in Metrics, judge \in JudgeRead :
       LET prev == IF row = NoRow THEN Initial ELSE row
           next == DecideNextThreshold(prev, m, judge)
       IN /\ tuner' = [pc |-> "commit", prev |-> prev, new |-> next.new, why |-> next.why,
                       m |-> m, judge |-> judge]
          /\ judgeWindow' \in {judge, judgeWindow}
  /\ tunes' = tunes + 1
  /\ UNCHANGED <<row, history, entry, rollback, rollbacks>>

\* Mutant: the reviews are told of the new threshold before it is committed.
TunerCommitsCached ==
  /\ tuner.pc = "commit"
  /\ entry' = tuner.new
  /\ \/ /\ row' = tuner.new
        /\ history' = Append(history, [prev |-> tuner.prev, new |-> tuner.new])
     \/ UNCHANGED <<row, history>>
  /\ tuner' = AtRest
  /\ UNCHANGED <<judgeWindow, rollback, tunes, rollbacks>>

\* The commit writes the threshold only if the decision changed it, and always a history row.
TunerCommits ==
  /\ tuner.pc = "commit"
  /\ row' = IF row = NoRow \/ tuner.new # tuner.prev THEN tuner.new ELSE row
  /\ history' = Append(history, [prev |-> tuner.prev, new |-> tuner.new])
  /\ tuner' = [pc |-> "cache", new |-> tuner.new]
  /\ UNCHANGED <<entry, judgeWindow, rollback, tunes, rollbacks>>

\* A failure of the transaction leaves nothing behind; the installation is skipped.
TunerFails ==
  /\ tuner.pc = "commit"
  /\ tuner' = AtRest
  /\ UNCHANGED <<row, history, entry, judgeWindow, rollback, tunes, rollbacks>>

\* The cache write may be lost to a Redis error.
TunerCaches ==
  /\ tuner.pc = "cache"
  /\ entry' \in {tuner.new, entry}
  /\ tuner' = AtRest
  /\ UNCHANGED <<row, history, judgeWindow, rollback, tunes, rollbacks>>

\* rollback_fast_path_threshold: back to what the latest history row came from.
RollbackCommits ==
  /\ rollback.pc = "idle" /\ rollbacks < MaxRollbacks
  /\ history # <<>> /\ row # NoRow
  /\ row' = history[Len(history)].prev
  /\ rollback' = [pc |-> "cache", value |-> row']
  /\ rollbacks' = rollbacks + 1
  /\ UNCHANGED <<history, entry, judgeWindow, tuner, tunes>>

RollbackCaches ==
  /\ rollback.pc = "cache"
  /\ entry' \in {rollback.value, entry}
  /\ rollback' = AtRest
  /\ UNCHANGED <<row, history, judgeWindow, tuner, tunes, rollbacks>>

\* The values the row has had.
Committed ==
  {Initial} \union {history[i].new : i \in DOMAIN history}
            \union {history[i].prev : i \in DOMAIN history}

\* Reviews of the other repositories, any number at once, fill the same key: each with what
\* it read before, the row as it was then or, without one, its own initial threshold.
OthersFill ==
  /\ entry' \in Committed \union OtherInitials
  /\ UNCHANGED <<row, history, judgeWindow, tuner, rollback, tunes, rollbacks>>

\* THRESHOLD_CACHE_TTL_SECONDS and JUDGE_WINDOW_CACHE_TTL_SECONDS pass.
EntryExpires ==
  /\ entry # NoEntry
  /\ entry' = NoEntry
  /\ UNCHANGED <<row, history, judgeWindow, tuner, rollback, tunes, rollbacks>>

WindowExpires ==
  /\ judgeWindow # NoEntry
  /\ judgeWindow' = NoEntry
  /\ UNCHANGED <<row, history, entry, tuner, rollback, tunes, rollbacks>>

TunerNext ==
  \/ RefreshWindow \/ TunerDecides \/ TunerCommits \/ TunerFails \/ TunerCaches
  \/ RollbackCommits \/ RollbackCaches \/ OthersFill
  \/ EntryExpires \/ WindowExpires
====
