---- MODULE AuditTrail ----
(***************************************************************************)
(* What is left on record of a review: observability/observer.py and       *)
(* sinks.py, and the audit rows of agent/runner.py.                        *)
(*                                                                         *)
(* A review is attempted in one or more runs, by the legacy runner or by   *)
(* the pipeline.  A run opens spans and emits events; the observer counts  *)
(* them per review, drops what exceeds its cap, samples the rest and hands *)
(* it to its sinks.  The database sink persists each event in a task of its own that *)
(* reads a row of review_model_audits and commits it later; the Langfuse   *)
(* sink keeps a handle for each open trace and span.  The runner inserts   *)
(* audit rows of its own.  A model call costs one token.                   *)
(***************************************************************************)
EXTENDS Integers, Sequences, FiniteSets

CONSTANTS
  Settings,   \* records [engine, db, cap, runs, unsampled]: who reviews, the db sink is
              \* on, the events allowed per review, (a bound) the attempts at it, and
              \* the draws of the sampler: <<run, n>> when it leaves out the n-th event
              \* counted in that run, none when the sample rate is 1
  MaxCalls,   \* bound: model calls of a run
  MaxBacklog, \* bound: unfinished sink tasks when a run goes on
  MaxFaults,  \* bound: sessions and providers that fail
  MaxOutcomes, \* bound: outcomes told when the counter was reset
  MaxItems,   \* _MAX_AUDIT_LIST_ITEMS
  Absent      \* no counter, no span

ASSUME TrailAssumption ==
  /\ \A s \in Settings : /\ s.engine \in {"runner", "pipeline"} /\ s.db \in BOOLEAN
                         /\ s.cap \in Nat \ {0} /\ s.runs \in Nat \ {0}
                         /\ s.unsampled \subseteq Nat \X Nat
  /\ {MaxCalls, MaxBacklog, MaxFaults, MaxOutcomes, MaxItems} \subseteq Nat
  /\ Absent \notin Nat \union {"fast_path", "primary_review", "editor"}

VARIABLES
  cfg, pc,
  run,       \* attempts begun
  spent,     \* run -> tokens its calls cost
  snapshot,  \* token_before of the runner's next audit row
  span,      \* _observation_stage_span: the stage model calls are recorded in
  obs,       \* the observer and its sinks, see Quiet
  rows,      \* review_model_audits
  told,      \* diagnostics handed to the database sink (history)
  disturbed, \* keys of rows a task overwrote unread, or failed to write (history)
  ending,    \* run -> how it ended (history)
  faults

job == <<cfg, pc, run, spent, snapshot, span>>
vars == <<job, obs, rows, told, disturbed, ending, faults>>

Diagnostics == {"validations", "dropped_findings", "delivery_rejections"}
Key(e) == <<e.run, e.stage>>
EmptyMeta == [lists |-> [k \in Diagnostics |-> {}], truncated |-> {}, errors |-> {}]

-----------------------------------------------------------------------------
(* The observer *)

\* count: events of this review so far; handles: open traces and spans of Langfuse;
\* tasks: unfinished tasks of the database sink; ids: tasks scheduled; cut: runs that
\* lost an event after their start, to the cap or to the sampler.
Quiet == [count |-> Absent, handles |-> {}, tasks |-> {}, ids |-> 0, cut |-> {}]
Counted(o) == IF o.count = Absent THEN 0 ELSE o.count

Event(kind, stage) == [kind |-> kind, run |-> run, stage |-> stage]
Unattributed(kind, stage) == [kind |-> kind, run |-> 0, stage |-> stage]

HandlesAfter(handles, e) ==
  CASE e.kind = "review_start" -> handles \union {<<e.run, "trace">>}
    [] e.kind = "review_end" -> handles \ {<<e.run, "trace">>}
    [] e.kind = "stage_start" -> handles \union {Key(e)}
    [] e.kind = "stage_end" -> handles \ {Key(e)}
    [] OTHER -> handles

Persisted == Diagnostics \union {"stage_end", "generation", "error"}

Schedule(o, e) ==
  IF cfg.db /\ e.kind \in Persisted
  THEN [o EXCEPT !.ids = @ + 1, !.tasks = @ \union {[id |-> o.ids + 1, event |-> e, copy |-> <<>>]}]
  ELSE o

Starts(e) == e.kind = "review_start"
Lose(o, e) == [o EXCEPT !.cut = IF Starts(e) THEN @ ELSE @ \union {run}]
LeftOut(e, n) == <<IF Starts(e) THEN e.run ELSE run, n>> \in cfg.unsampled

\* _dispatch: the cap is applied before any sink sees the event, and an event the
\* sampler leaves out has been counted.
Dispatch(o, e) ==
  LET n == Counted(o) + 1 IN
  IF n > cfg.cap THEN Lose(o, e)
  ELSE IF LeftOut(e, n) THEN Lose([o EXCEPT !.count = n], e)
  ELSE Schedule([o EXCEPT !.count = n, !.handles = HandlesAfter(@, e)], e)

DispatchAll(o, events) ==
  LET after[n \in 0..Len(events)] == IF n = 0 THEN o ELSE Dispatch(after[n - 1], events[n])
  IN after[Len(events)]

\* Mutant: the counter of an earlier run is kept.
StartTraceKeepsCount(o, r) ==
  Dispatch(o, [kind |-> "review_start", run |-> r, stage |-> "trace"])

\* start_review_trace
StartTrace(o, r) ==
  Dispatch([o EXCEPT !.count = 0], [kind |-> "review_start", run |-> r, stage |-> "trace"])

FinishTrace(o) == [Dispatch(o, Event("review_end", "trace")) EXCEPT !.count = Absent]

\* The diagnostics among the tasks scheduled since the observer was o.
NewlyTold(o, p) ==
  {[id |-> t.id, key |-> t.event.kind, row |-> Key(t.event)] :
     t \in {u \in p.tasks : u.id > o.ids /\ u.event.kind \in Diagnostics}}

\* A step of the job emits events; it waits while the sink is far behind (a bound).
Observe(p) ==
  /\ Cardinality(obs.tasks) <= MaxBacklog
  /\ obs' = p
  /\ told' = told \union NewlyTold(obs, p)
Emit(events) == Observe(DispatchAll(obs, events))

-----------------------------------------------------------------------------
(* A run *)

Init ==
  /\ cfg \in Settings
  /\ pc = "idle" /\ run = 0
  /\ spent = [r \in 1..cfg.runs |-> 0] /\ snapshot = 0 /\ span = Absent
  /\ obs = Quiet /\ rows = <<>> /\ told = {} /\ disturbed = {} /\ faults = 0
  /\ ending = [r \in 1..cfg.runs |-> "none"]

Goto(label) == pc' = label
Database == <<rows, disturbed, faults>>
Spending == <<run, spent, snapshot>>

Begin ==
  /\ pc = "idle" /\ run < cfg.runs
  /\ run' = run + 1
  /\ Observe(StartTrace(obs, run + 1))
  /\ ending' = [ending EXCEPT ![run + 1] = "running"]
  /\ snapshot' = 0 /\ span' = Absent
  /\ Goto(IF cfg.engine = "runner" THEN "context" ELSE "primary")
  /\ UNCHANGED <<cfg, spent, Database>>

ContextBuilt ==
  /\ pc = "context"
  /\ Emit(<<Event("stage_start", "context_build"), Event("context_build", "context_build"),
            Event("stage_end", "context_build")>>)
  /\ Goto("fast_path")
  /\ UNCHANGED <<cfg, Spending, span, ending, Database>>

FastPathDisabled ==
  /\ pc = "fast_path"
  /\ Emit(<<Event("stage_start", "fast_path"), Event("stage_end", "fast_path")>>)
  /\ Goto("primary")
  /\ UNCHANGED <<cfg, Spending, span, ending, Database>>

OpenStage(stage) ==
  /\ Emit(<<Event("stage_start", stage)>>)
  /\ span' = stage /\ snapshot' = spent[run]
  /\ UNCHANGED <<cfg, run, spent, ending, Database>>

OpenFastPath == pc = "fast_path" /\ OpenStage("fast_path") /\ Goto("calls")
OpenPrimary == pc = "primary" /\ OpenStage("primary_review") /\ Goto("calls")

\* A model call inside an open span is a generation event of its stage.
Generate ==
  /\ pc \in {"calls", "validated", "editing"} /\ spent[run] < MaxCalls
  /\ spent' = [spent EXCEPT ![run] = @ + 1]
  /\ Emit(<<Event("generation", span)>>)
  /\ UNCHANGED <<cfg, pc, run, snapshot, span, ending, Database>>

\* Mutant: the tokens spent so far, as the context holds them.
AuditRowOfTotal(stage) ==
  [run |-> run, stage |-> stage, tokens |-> spent[run], meta |-> EmptyMeta]

\* _record_model_audit: the runner's row holds what was spent since the snapshot.
AuditRow(stage) ==
  [run |-> run, stage |-> stage, tokens |-> spent[run] - snapshot, meta |-> EmptyMeta]

\* Runner: the stage's row is stored before its span is closed, and the primary one
\* before its findings are validated.
Audited ==
  /\ pc = "calls" /\ cfg.engine = "runner"
  /\ rows' = Append(rows, AuditRow(IF span = "fast_path" THEN span ELSE "primary"))
  /\ Goto(IF span = "fast_path" THEN "fast_audited" ELSE "validate")
  /\ UNCHANGED <<cfg, Spending, span, obs, told, ending, disturbed, faults>>

FastPathDone ==
  /\ pc = "fast_audited"
  /\ Emit(<<Event("stage_end", "fast_path")>>)
  /\ span' = Absent /\ Goto("primary")
  /\ UNCHANGED <<cfg, Spending, ending, Database>>

\* Pipeline: a failed attempt is an error of the stage, and the next provider is tried.
ProviderFallback ==
  /\ pc = "calls" /\ cfg.engine = "pipeline" /\ faults < MaxFaults
  /\ faults' = faults + 1
  /\ Emit(<<Event("error", span)>>)
  /\ UNCHANGED <<job, ending, rows, disturbed>>

PrimaryDone ==
  /\ pc = "calls" /\ cfg.engine = "pipeline"
  /\ Emit(<<Event("stage_end", span)>>)
  /\ span' = Absent /\ Goto("validate")
  /\ UNCHANGED <<cfg, Spending, ending, Database>>

Drops(stage, n) == [i \in 1..n |-> Event("dropped_findings", stage)]

\* Runner: inside the open primary span.  Pipeline: after the validation span was closed.
ValidatedByRunner ==
  /\ pc = "validate" /\ cfg.engine = "runner"
  /\ \E n \in {0, MaxItems + 1} :
       Emit(Append(Drops("primary_review", n), Event("validations", "primary_review")))
  /\ Goto("validated")
  /\ UNCHANGED <<cfg, Spending, span, ending, Database>>

ValidatedByPipeline ==
  /\ pc = "validate" /\ cfg.engine = "pipeline"
  /\ \E n \in {0, MaxItems + 1} :
       Emit(<<Event("stage_start", "validation"), Event("stage_end", "validation")>>
            \o Drops("validation", n) \o <<Event("validations", "validation")>>)
  /\ Goto("edit")
  /\ UNCHANGED <<cfg, Spending, span, ending, Database>>

PrimaryClosed ==
  /\ pc = "validated"
  /\ Emit(<<Event("stage_end", "primary_review")>>)
  /\ span' = Absent /\ Goto("edit")
  /\ UNCHANGED <<cfg, Spending, ending, Database>>

\* The runner's editor has an audit row and no span, the pipeline's a span and no row.
\* What the runner drops after its editor is reported without a run.
EditedByRunner ==
  /\ pc = "edit" /\ cfg.engine = "runner"
  /\ snapshot' = spent[run]
  /\ \E n \in 0..(MaxCalls - spent[run]) :
       /\ spent' = [spent EXCEPT ![run] = @ + n]
       /\ rows' = Append(rows, [AuditRow("editor") EXCEPT !.tokens = n])
  /\ \E n \in 0..1 : Emit([i \in 1..n |-> Unattributed("dropped_findings", "validation")])
  /\ Goto("deliver")
  /\ UNCHANGED <<cfg, run, span, ending, disturbed, faults>>

OpenEditor == pc = "edit" /\ cfg.engine = "pipeline" /\ OpenStage("editor") /\ Goto("editing")

EditorDone ==
  /\ pc = "editing"
  /\ Emit(<<Event("stage_end", "editor")>>)
  /\ span' = Absent /\ Goto("deliver")
  /\ UNCHANGED <<cfg, Spending, ending, Database>>

EditorSkipped ==
  /\ pc = "edit" /\ cfg.engine = "pipeline"
  /\ Goto("deliver")
  /\ UNCHANGED <<cfg, Spending, span, obs, told, ending, Database>>

\* comments.py reports a refused comment without run or stage.
Deliver ==
  /\ pc = "deliver"
  /\ \E n \in 0..1 :
       LET refused == [i \in 1..n |-> Unattributed("delivery_rejections", "")]
       IN Emit(IF cfg.engine = "runner" THEN refused
               ELSE <<Event("stage_start", "delivery")>> \o refused
                    \o <<Event("stage_end", "delivery")>>)
  /\ Goto("finish")
  /\ UNCHANGED <<cfg, Spending, span, ending, Database>>

EndRun(how) ==
  /\ ending' = [ending EXCEPT ![run] = how]
  /\ span' = Absent /\ Goto("idle")
  /\ UNCHANGED <<cfg, Spending, Database>>

Finish == pc = "finish" /\ Observe(FinishTrace(obs)) /\ EndRun("finished")

\* Every provider failed: the runner closes the primary span and raises.
PrimaryFailed ==
  /\ pc = "calls" /\ span = "primary_review" /\ cfg.engine = "runner"
  /\ Observe(FinishTrace(DispatchAll(obs, <<Event("stage_end", span),
                                            Unattributed("error", "_review")>>)))
  /\ EndRun("finished")

\* An exception or the job's timeout: the runner reports it and ends the trace,
\* the pipeline leaves both behind.
Abort ==
  /\ pc # "idle"
  /\ Observe(IF cfg.engine = "runner"
             THEN FinishTrace(Dispatch(obs, Unattributed("error", "_review")))
             ELSE obs)
  /\ EndRun(IF cfg.engine = "runner" THEN "raised" ELSE "abandoned")

\* finding_outcomes.py: what became of a finding is told when no run is under way.
Classify ==
  /\ pc = "idle" /\ run > 0 /\ Counted(obs) < MaxOutcomes
  /\ Emit(<<Unattributed("outcome", "")>>)
  /\ UNCHANGED <<job, ending, Database>>

-----------------------------------------------------------------------------
(* The database sink *)

RowsOf(e) == {i \in DOMAIN rows : rows[i].run = e.run /\ rows[i].stage = e.stage}

\* scalars().first() of a query without order: any row of the key, or none.
Read(t) ==
  /\ t.copy = <<>>
  /\ \E found \in IF RowsOf(t.event) = {} THEN {<<"none">>}
                  ELSE {<<i, rows[i]>> : i \in RowsOf(t.event)} :
       obs' = [obs EXCEPT !.tasks = (@ \ {t}) \union {[t EXCEPT !.copy = found]}]
  /\ UNCHANGED <<job, rows, told, disturbed, ending, faults>>

\* _persist_audit_event: appended to its list, or the list is marked truncated.
AppendItem(meta, t) ==
  IF Cardinality(meta.lists[t.event.kind]) < MaxItems
  THEN [meta EXCEPT !.lists[t.event.kind] = @ \union {t.id}]
  ELSE [meta EXCEPT !.truncated = @ \union {t.event.kind}]

\* _persist_error: the list of a row that has errors is changed in place, so the row
\* equals what was read and nothing is written.
Edited(row, t) ==
  CASE t.event.kind = "generation" -> [row EXCEPT !.tokens = @ + 1]
    [] t.event.kind \in Diagnostics -> [row EXCEPT !.meta = AppendItem(@, t)]
    [] t.event.kind = "error" ->
         IF row.meta.errors = {} THEN [row EXCEPT !.meta.errors = {t.id}] ELSE row
    [] t.event.kind = "stage_end" -> row

\* Mutant: a stage without a model call has no row.
CreatesOnlyWithCall == {"generation"}

\* Kinds that create the row of their key when there is none.
Creates == Diagnostics \union {"generation"}

Insert(t) ==
  Append(rows, Edited([run |-> t.event.run, stage |-> t.event.stage, tokens |-> 0,
                       meta |-> EmptyMeta], t))

\* The columns that changed are written over whatever the row holds by now.
Update(t) ==
  LET row == rows[t.copy[1]]
      new == Edited(t.copy[2], t)
  IN [rows EXCEPT ![t.copy[1]] =
        [row EXCEPT !.tokens = IF new.tokens = t.copy[2].tokens THEN @ ELSE new.tokens,
                    !.meta = IF t.event.kind = "error" /\ new = t.copy[2] THEN @ ELSE new.meta]]

Commit(t) ==
  /\ t.copy # <<>>
  /\ rows' = IF t.copy # <<"none">> THEN Update(t)
             ELSE IF t.event.kind \in Creates THEN Insert(t) ELSE rows
  /\ disturbed' = IF t.copy # <<"none">> /\ rows[t.copy[1]] # t.copy[2]
                  THEN disturbed \union {Key(t.event)} ELSE disturbed
  /\ obs' = [obs EXCEPT !.tasks = @ \ {t}]
  /\ UNCHANGED <<job, told, ending, faults>>

\* The session fails: logged, never retried.
Fail(t) ==
  /\ faults < MaxFaults /\ faults' = faults + 1
  /\ disturbed' = disturbed \union {Key(t.event)}
  /\ obs' = [obs EXCEPT !.tasks = @ \ {t}]
  /\ UNCHANGED <<job, rows, told, ending>>

RunStep ==
  \/ Begin \/ ContextBuilt \/ FastPathDisabled \/ OpenFastPath \/ OpenPrimary \/ Generate
  \/ FastPathDone \/ Audited \/ ProviderFallback \/ PrimaryDone
  \/ ValidatedByRunner \/ ValidatedByPipeline \/ PrimaryClosed
  \/ EditedByRunner \/ OpenEditor \/ EditorDone \/ EditorSkipped \/ Deliver
  \/ Finish \/ PrimaryFailed \/ Abort \/ Classify
SinkStep == \E t \in obs.tasks : Read(t) \/ Commit(t) \/ Fail(t)

Next == RunStep \/ SinkStep
Spec == Init /\ [][Next]_vars

-----------------------------------------------------------------------------

TypeOK ==
  /\ cfg \in Settings /\ run \in 0..cfg.runs
  /\ pc \in {"idle", "context", "fast_path", "fast_audited", "primary", "calls", "validate",
             "validated", "edit", "editing", "deliver", "finish"}
  /\ spent \in [1..cfg.runs -> 0..MaxCalls] /\ snapshot \in 0..MaxCalls
  /\ (pc \in {"calls", "validated", "editing"}) => span # Absent
  /\ obs.count \in 0..cfg.cap \union {Absent}
  /\ \A i \in DOMAIN rows :
       /\ rows[i].run \in 0..run /\ rows[i].tokens \in Nat
       /\ \A k \in Diagnostics : Cardinality(rows[i].meta.lists[k]) <= MaxItems

\* The usage pages sum the audit rows.  Whatever the tasks overwrite, the rows of a run
\* never account for more than what its calls cost: once in the runner's rows, and once
\* more in those of the database sink when it is on.  The sum is the number of their tokens.
TokensOf(r) ==
  Cardinality(UNION {{i} \X (1..rows[i].tokens) : i \in {j \in DOMAIN rows : rows[j].run = r}})
AuditNeverOvercounts ==
  \A r \in 1..run : TokensOf(r) <= spent[r] * (IF cfg.engine = "runner" /\ cfg.db THEN 2 ELSE 1)

\* sinks.py promises that validation, drop and delivery diagnostics are never lost for
\* stages without a model call: once its task is done a diagnostic is in a row of its
\* stage or the row says the list was cut, unless a session failed or two tasks of the
\* stage overlapped.
DiagnosticsReachARow ==
  \A d \in told :
    d.row \notin disturbed /\ (\A t \in obs.tasks : t.id # d.id) =>
      \E i \in DOMAIN rows :
        /\ <<rows[i].run, rows[i].stage>> = d.row
        /\ d.id \in rows[i].meta.lists[d.key] \/ d.key \in rows[i].meta.truncated

\* A retry of a review is observed from its start whatever an abandoned run or a late
\* outcome left in the counter, unless the sampler leaves its start out; and a run that
\* ended by itself leaves no trace or span of it open, unless an event of it met the cap
\* or was left out.
ObservedFromStartToEnd ==
  \A r \in 1..run :
    /\ ending[r] = "running" /\ <<r, 1>> \notin cfg.unsampled => <<r, "trace">> \in obs.handles
    /\ ending[r] = "finished" /\ r \notin obs.cut => \A h \in obs.handles : h[1] # r
====
