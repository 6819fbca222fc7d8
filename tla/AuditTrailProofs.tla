---- MODULE AuditTrailProofs ----
(***************************************************************************)
(* Proofs about AuditTrail: its type invariant, and its three safety       *)
(* invariants for every cap, every bound and every number of runs, sink    *)
(* tasks and lost updates.                                                 *)
(*                                                                         *)
(* A step of a run emits a list of events of some length, and the counter  *)
(* may cut the list anywhere: what a list does is proved event by event,   *)
(* for every list, and each action is then the list it emits.              *)
(***************************************************************************)
EXTENDS AuditTrail, FiniteSetTheorems, SequenceTheorems, WellFoundedInduction, TLAPS

-----------------------------------------------------------------------------
(* The shape of the state *)

Kinds == Persisted \union {"review_start", "review_end", "stage_start", "context_build", "outcome"}
Names == {"trace", "context_build", "fast_path", "primary_review", "primary", "validation", "editor",
          "delivery", "_review", ""}
EventType == [kind : Kinds, run : Nat, stage : Names]
Metas == [lists : [Diagnostics -> SUBSET Nat], truncated : SUBSET Diagnostics,
          errors : SUBSET Nat]
ShortLists(m) ==
  \A k \in Diagnostics : IsFiniteSet(m.lists[k]) /\ Cardinality(m.lists[k]) <= MaxItems
Row == [run : Nat, stage : Names, tokens : Nat, meta : {m \in Metas : ShortLists(m)}]
Unread == {<<>>, <<"none">>}
Task == [id : Nat, event : [kind : Persisted, run : Nat, stage : Names],
         copy : Unread \union (Nat \X Row)]
Observer == [count : Nat \union {Absent}, handles : SUBSET (Nat \X Names),
             tasks : SUBSET Task, ids : Nat, cut : SUBSET Nat]

Labels == {"idle", "context", "fast_path", "fast_audited", "primary", "calls", "validate",
           "validated", "edit", "editing", "deliver", "finish"}
SpanStages == {"fast_path", "primary_review", "editor"}

TypeInv ==
  /\ cfg \in Settings /\ run \in 0..cfg.runs /\ pc \in Labels
  /\ spent \in [1..cfg.runs -> 0..MaxCalls] /\ snapshot \in 0..MaxCalls
  /\ span \in SpanStages \union {Absent}
  /\ obs \in Observer /\ IsFiniteSet(obs.tasks) /\ obs.count \in 0..cfg.cap \union {Absent}
  /\ rows \in Seq(Row) /\ \A i \in DOMAIN rows : rows[i].run <= run
  /\ told \subseteq [id : Nat, key : Diagnostics, row : Nat \X Names]
  /\ ending \in [1..cfg.runs -> {"none", "running", "finished", "raised", "abandoned"}]

-----------------------------------------------------------------------------
(* The inductive invariant *)

\* A run is under way in every place but "idle", and its span is open where calls are made.
ControlInv ==
  /\ pc # "idle" => run > 0
  /\ \A r \in 1..cfg.runs : ending[r] = "running" <=> r = run /\ pc # "idle"
  /\ pc = "calls" => span \in {"fast_path", "primary_review"} /\ snapshot <= spent[run]
  /\ pc = "fast_audited" => span = "fast_path"
  /\ pc = "validated" \/ (pc = "validate" /\ cfg.engine = "runner") => span = "primary_review"
  /\ pc = "editing" => span = "editor"
  /\ pc \in {"idle", "context", "fast_path", "primary", "edit", "deliver", "finish"}
       \/ (pc = "validate" /\ cfg.engine = "pipeline") => span = Absent

\* What Langfuse holds open of the current run is its trace and its span.
Allowed == {<<run, "trace">>} \union IF span = Absent THEN {} ELSE {<<run, span>>}
HandlesInv ==
  /\ \A h \in obs.handles : h[1] <= run
  /\ pc # "idle" /\ <<run, 1>> \notin cfg.unsampled => <<run, "trace">> \in obs.handles
  /\ pc # "idle" /\ run \notin obs.cut => \A h \in obs.handles : h[1] = run => h \in Allowed
  /\ \A r \in 1..run : ending[r] = "finished" /\ r \notin obs.cut => \A h \in obs.handles : h[1] # r

\* What a task read is a row of its key.
CopyInv ==
  \A t \in obs.tasks :
    /\ t.event.run <= run
    /\ t.copy \notin Unread =>
         /\ t.copy[1] \in DOMAIN rows
         /\ rows[t.copy[1]].run = t.event.run /\ rows[t.copy[1]].stage = t.event.stage

\* The tokens the rows of a run hold, and the tokens a task may still write there.
Held(r) == UNION {{i} \X (1..rows[i].tokens) : i \in {j \in DOMAIN rows : rows[j].run = r}}
Copied(r) == UNION {{t.copy[1]} \X (1..t.copy[2].tokens) :
                      t \in {u \in obs.tasks : u.copy \notin Unread /\ u.event.run = r}}
Units(r) == Held(r) \union Copied(r)
Pending(r) == {t \in obs.tasks : t.event.kind = "generation" /\ t.event.run = r}

\* What the runner has put into its own rows by now, at most.
Booked(r) == IF r = run /\ pc = "calls" THEN snapshot ELSE spent[r]
Budget(r) == (IF cfg.db THEN spent[r] ELSE 0) + (IF cfg.engine = "runner" THEN Booked(r) ELSE 0)

AccountInv ==
  \A r \in 1..cfg.runs :
    /\ IsFiniteSet(Units(r))
    /\ Cardinality(Units(r)) + Cardinality(Pending(r)) <= Budget(r)

\* A diagnostic told is still with its task or in a row of its key.
InRow(d) ==
  \E i \in DOMAIN rows :
    /\ <<rows[i].run, rows[i].stage>> = d.row
    /\ d.id \in rows[i].meta.lists[d.key] \/ d.key \in rows[i].meta.truncated
InTask(d) == \E t \in obs.tasks : t.id = d.id /\ t.event.kind = d.key /\ Key(t.event) = d.row
DiagnosticsInv == \A d \in told : d.row \notin disturbed => InTask(d) \/ InRow(d)

IInv == TypeInv /\ ControlInv /\ HandlesInv /\ CopyInv /\ AccountInv /\ DiagnosticsInv

-----------------------------------------------------------------------------
(* Induction over an initial segment, for a set of numbers *)

\* A set that holds 0 and is closed under +1 below N holds every number up to N.
LEMMA UpTo ==
  ASSUME NEW N \in Nat, NEW S, 0 \in S, \A n \in 0..(N - 1) : n \in S => n + 1 \in S
  PROVE  \A n \in 0..N : n \in S
PROOF
<1> DEFINE Bad == {n \in 0..N : n \notin S}
<1> SUFFICES ASSUME Bad # {} PROVE FALSE
  OBVIOUS
<1>1. PICK m \in Bad : \A n \in Bad : m <= n
  <2>1. Bad \in SUBSET Nat
    OBVIOUS
  <2> HIDE DEF Bad
  <2> DEFINE R == {ss \in Nat \X Nat : ss[1] < ss[2]}
  <2>2. IsWellFoundedOn(R, Nat)
    BY NatLessThanWellFounded, Zenon DEF OpToRel
  <2>3. \E m \in Bad : \A n \in Bad : <<n, m>> \notin R
    <3> HIDE DEF R
    <3> QED
      BY <2>1, <2>2, WFMin
  <2>4. \A m, n \in Bad : <<n, m>> \notin R => m <= n
    BY <2>1
  <2> HIDE DEF R, Bad
  <2> QED
    BY <2>3, <2>4
<1>2. m \in 0..N /\ m \notin S /\ m # 0
  BY <1>1
<1>3. m - 1 \in 0..(N - 1) /\ m - 1 \in 0..N /\ ~(m <= m - 1)
  BY <1>2
<1>4. m - 1 \in S
  BY <1>1, <1>3
<1>5. (m - 1) + 1 \in S /\ (m - 1) + 1 = m
  BY <1>2, <1>3, <1>4
<1> QED
  BY <1>2, <1>5

-----------------------------------------------------------------------------
(* What the observer does with a list of events *)

StepsOf(o, events) ==
  CHOOSE g : g = [n \in 0..Len(events) |-> IF n = 0 THEN o ELSE Dispatch(g[n - 1], events[n])]

\* DispatchAll is Dispatch applied to the events one after the other.
LEMMA StepsOfUnfolds ==
  ASSUME NEW o, NEW events, Len(events) \in Nat
  PROVE  /\ StepsOf(o, events)[0] = o
         /\ \A n \in 0..(Len(events) - 1) :
              StepsOf(o, events)[n + 1] = Dispatch(StepsOf(o, events)[n], events[n + 1])
         /\ DispatchAll(o, events) = StepsOf(o, events)[Len(events)]
PROOF
<1> DEFINE N == Len(events)
           Is(g, m) == g = [n \in 0..m |-> IF n = 0 THEN o ELSE Dispatch(g[n - 1], events[n])]
           S == {m \in 0..N : \E g : Is(g, m)}
<1>1. 0 \in S
  <2> DEFINE g == [n \in 0..0 |-> o]
  <2>1. \E f : Is(f, 0)
    <3>1. Is(g, 0)
      OBVIOUS
    <3> HIDE DEF Is, g
    <3> QED
      BY <3>1
  <2>2. 0 \in 0..N
    OBVIOUS
  <2> HIDE DEF Is, g
  <2> QED
    BY <2>1, <2>2
<1>2. ASSUME NEW m \in 0..(N - 1), m \in S PROVE m + 1 \in S
  <2>1. PICK g : Is(g, m)
    BY <1>2
  <2> DEFINE h == [n \in 0..(m + 1) |-> IF n = 0 THEN o ELSE Dispatch(g[n - 1], events[n])]
  <2>2. \A n \in 0..m : h[n] = g[n]
    BY <2>1
  <2>3. \A n \in 0..(m + 1) : n # 0 => h[n - 1] = g[n - 1]
    <3>1. \A n \in 0..(m + 1) : n # 0 => n - 1 \in 0..m
      BY <1>2
    <3> HIDE DEF h
    <3> QED
      BY <2>2, <3>1
  <2>4. h = [n \in 0..(m + 1) |-> IF n = 0 THEN o ELSE Dispatch(h[n - 1], events[n])]
    BY <2>3
  <2>5. m + 1 \in 0..N
    BY <1>2
  <2> QED
    BY <2>4, <2>5
<1>3. \E g : Is(g, N)
  <2>1. \A n \in 0..N : n \in S
    <3> HIDE DEF S
    <3> QED
      BY <1>1, <1>2, UpTo
  <2> QED
    BY <2>1
<1>4. Is(StepsOf(o, events), N)
  BY <1>3 DEF StepsOf
<1>5. DispatchAll(o, events) = StepsOf(o, events)[N]
  BY DEF DispatchAll, StepsOf
<1> HIDE DEF N
<1>6. \A n \in 0..N :
        StepsOf(o, events)[n] = IF n = 0 THEN o ELSE Dispatch(StepsOf(o, events)[n - 1], events[n])
  BY <1>4
<1>7. N \in Nat
  BY DEF N
<1>8. StepsOf(o, events)[0] = o
  BY <1>6, <1>7
<1>9. ASSUME NEW n \in 0..(N - 1)
      PROVE  StepsOf(o, events)[n + 1] = Dispatch(StepsOf(o, events)[n], events[n + 1])
  <2>1. n + 1 \in 0..N /\ n + 1 # 0 /\ (n + 1) - 1 = n
    BY <1>7
  <2> QED
    BY <2>1, <1>6
<1> QED
  BY <1>5, <1>8, <1>9 DEF N

\* What an event opens and closes.
Opened(e) == CASE e.kind = "review_start" -> {<<e.run, "trace">>}
               [] e.kind = "stage_start" -> {Key(e)}
               [] OTHER -> {}
Closed(e) == CASE e.kind = "review_end" -> {<<e.run, "trace">>}
               [] e.kind = "stage_end" -> {Key(e)}
               [] OTHER -> {}

\* An observer without the counter, which a trace resets.
Watching(o) == o \in Observer /\ IsFiniteSet(o.tasks)
Capped(o) == o.count \in 0..cfg.cap \union {Absent}

\* p is what became of the observer o under the first n events.
Grown(o, p, events, n) ==
  /\ Watching(p)
  /\ o.tasks \subseteq p.tasks
  /\ \A t \in p.tasks \ o.tasks : t.copy = <<>> /\ cfg.db /\ \E k \in 1..n : t.event = events[k]
  /\ o.cut \subseteq p.cut
  /\ \A h \in p.handles : h \in o.handles \/ \E k \in 1..n : h \in Opened(events[k])
  /\ \A h \in o.handles : (\A k \in 1..n : h \notin Closed(events[k])) => h \in p.handles
  /\ run \notin p.cut => \A h \in p.handles :
       \/ h \in o.handles /\ \A k \in 1..n : h \notin Closed(events[k])
       \/ \E j \in 1..n : h \in Opened(events[j]) /\ \A k \in (j + 1)..n : h \notin Closed(events[k])

\* Every event opens Opened(e) and closes Closed(e).
LEMMA HandlesOfEvent ==
  ASSUME NEW handles, NEW e \in EventType
  PROVE  /\ HandlesAfter(handles, e) = (handles \union Opened(e)) \ Closed(e)
         /\ Opened(e) \subseteq Nat \X Names
PROOF
<1>1. e.run \in Nat /\ e.stage \in Names
  BY DEF EventType
<1>0. "trace" \in Names
  BY DEF Names
<1>2. CASE e.kind = "review_start"
  <2>1. Closed(e) = {} /\ Opened(e) = {<<e.run, "trace">>}
    BY <1>2 DEF Opened, Closed
  <2>2. HandlesAfter(handles, e) = handles \union {<<e.run, "trace">>}
    BY <1>2 DEF HandlesAfter
  <2>3. <<e.run, "trace">> \in Nat \X Names
    BY <1>0, <1>1
  <2> QED
    BY <2>1, <2>2, <2>3
<1>3. CASE e.kind = "stage_start"
  <2>1. Closed(e) = {} /\ Opened(e) = {Key(e)}
    BY <1>3 DEF Opened, Closed
  <2>2. HandlesAfter(handles, e) = handles \union {Key(e)}
    BY <1>3 DEF HandlesAfter
  <2> QED
    BY <1>1, <2>1, <2>2 DEF Key
<1>4. CASE e.kind \notin {"review_start", "stage_start"}
  <2>1. Opened(e) = {}
    BY <1>4 DEF Opened
  <2>2. HandlesAfter(handles, e) = handles \ Closed(e)
    BY <1>4 DEF HandlesAfter, Closed
  <2> QED
    BY <2>1, <2>2
<1> QED
  BY <1>2, <1>3, <1>4

\* One event: at most one task more, and its handles unless the cap or the sampler cut it off.
LEMMA DispatchType ==
  ASSUME cfg \in Settings, run \in Nat, NEW o, Watching(o), Capped(o),
         NEW e \in EventType, NEW p, p = Dispatch(o, e)
  PROVE  /\ Watching(p) /\ Capped(p)
         /\ o.tasks \subseteq p.tasks
         /\ \A t \in p.tasks \ o.tasks : t.copy = <<>> /\ t.event = e /\ cfg.db
         /\ o.cut \subseteq p.cut
         /\ o.handles \ Closed(e) \subseteq p.handles
         /\ p.handles \subseteq o.handles \union Opened(e)
         /\ run \notin p.cut => p.handles \subseteq (o.handles \union Opened(e)) \ Closed(e)
         /\ Counted(o) < cfg.cap /\ ~LeftOut(e, Counted(o) + 1) =>
              p.handles = (o.handles \union Opened(e)) \ Closed(e)
         /\ \A t, u \in p.tasks \ o.tasks : t = u
PROOF
<1>0. /\ cfg.cap \in Nat \ {0} /\ Absent \notin Nat /\ o \in Observer
      /\ Counted(o) \in 0..cfg.cap
  BY TrailAssumption DEF Watching, Capped, Counted, Observer
<1> DEFINE n == Counted(o) + 1
<1>1. CASE n > cfg.cap \/ LeftOut(e, n)
  <2>1. PICK c \in 0..cfg.cap \union {Absent} : p = Lose([o EXCEPT !.count = c], e)
    <3>1. CASE n > cfg.cap
      <4>1. p = Lose(o, e) /\ o = [o EXCEPT !.count = o.count]
        BY <3>1, <1>0 DEF Dispatch, Observer
      <4> QED
        BY <4>1 DEF Capped
    <3>2. CASE ~(n > cfg.cap)
      <4>1. p = Lose([o EXCEPT !.count = n], e) /\ n \in 0..cfg.cap
        BY <1>0, <1>1, <3>2 DEF Dispatch
      <4> QED
        BY <4>1
    <3> QED
      BY <3>1, <3>2
  <2> DEFINE cut == IF Starts(e) THEN o.cut ELSE o.cut \union {run}
  <2>2. p = [count |-> c, handles |-> o.handles, tasks |-> o.tasks, ids |-> o.ids, cut |-> cut]
    BY <2>1, <1>0 DEF Lose, Observer
  <2>3. Starts(e) => Closed(e) = {}
    BY DEF Starts, Closed
  <2>4. /\ cut \in SUBSET Nat /\ o.cut \subseteq cut /\ c \in Nat \union {Absent}
        /\ ~Starts(e) => run \in cut
    BY <1>0 DEF Observer
  <2> HIDE DEF cut
  <2>5. /\ p \in Observer /\ p.tasks = o.tasks /\ p.handles = o.handles /\ p.count = c
        /\ p.cut = cut
    BY <2>2, <2>4, <1>0 DEF Observer
  <2>6. Watching(p) /\ Capped(p)
    BY <2>1, <2>5 DEF Watching, Capped
  <2>7. Counted(o) < cfg.cap => LeftOut(e, n)
    BY <1>0, <1>1
  <2> QED
    BY <2>3, <2>4, <2>5, <2>6, <2>7
<1>2. CASE ~(n > cfg.cap \/ LeftOut(e, n))
  <2> DEFINE q == [o EXCEPT !.count = Counted(o) + 1, !.handles = HandlesAfter(@, e)]
  <2>2. p = Schedule(q, e)
    BY <1>2 DEF Dispatch
  <2>3. /\ q \in Observer /\ q.tasks = o.tasks /\ q.ids = o.ids /\ q.cut = o.cut
        /\ q.handles = (o.handles \union Opened(e)) \ Closed(e)
        /\ q.count = Counted(o) + 1 /\ q.count \in 0..cfg.cap
    <3> DEFINE H == HandlesAfter(o.handles, e)
    <3>1. H = (o.handles \union Opened(e)) \ Closed(e) /\ Opened(e) \subseteq Nat \X Names
      BY HandlesOfEvent
    <3>2. H \in SUBSET (Nat \X Names)
      BY <3>1, <1>0 DEF Observer
    <3>3. Counted(o) + 1 \in 0..cfg.cap
      BY <1>0, <1>2
    <3> DEFINE c == Counted(o) + 1
    <3>4. q = [o EXCEPT !.count = c, !.handles = H] /\ c \in Nat
      BY <3>3, <1>0
    <3> HIDE DEF H, c, q
    <3>5. /\ q.tasks = o.tasks /\ q.ids = o.ids /\ q.cut = o.cut /\ q.handles = H /\ q.count = c
          /\ q = [count |-> c, handles |-> H, tasks |-> o.tasks, ids |-> o.ids, cut |-> o.cut]
      BY <3>4, <1>0 DEF Observer
    <3>6. q \in Observer
      BY <3>2, <3>4, <3>5, <1>0 DEF Observer
    <3> QED
      BY <3>1, <3>3, <3>5, <3>6 DEF c
  <2> HIDE DEF q
  <2>4. CASE cfg.db /\ e.kind \in Persisted
    <3> DEFINE t == [id |-> o.ids + 1, event |-> e, copy |-> <<>>]
    <3>1. p = [q EXCEPT !.ids = q.ids + 1, !.tasks = q.tasks \union {t}]
      BY <2>2, <2>3, <2>4 DEF Schedule
    <3>2. t \in Task /\ t.copy = <<>> /\ t.event = e
      BY <2>4, <1>0 DEF Task, EventType, Unread, Observer
    <3> HIDE DEF t
    <3>3. /\ p \in Observer /\ p.tasks = o.tasks \union {t} /\ p.handles = q.handles
          /\ p.cut = o.cut /\ p.count = q.count
      <4>1. q.ids + 1 \in Nat /\ q.tasks \union {t} \in SUBSET Task
        BY <3>2, <2>3 DEF Observer
      <4>2. p = [count |-> q.count, handles |-> q.handles, tasks |-> q.tasks \union {t},
                 ids |-> q.ids + 1, cut |-> q.cut]
        BY <3>1, <2>3 DEF Observer
      <4> QED
        BY <4>1, <4>2, <2>3 DEF Observer
    <3>4. IsFiniteSet(o.tasks \union {t})
      BY FS_AddElement DEF Watching
    <3>5. Watching(p) /\ Capped(p)
      BY <3>3, <3>4, <2>3 DEF Watching, Capped
    <3> QED
      BY <3>2, <3>3, <3>5, <2>3, <2>4
  <2>5. CASE ~(cfg.db /\ e.kind \in Persisted)
    <3>1. p = q
      BY <2>2, <2>5 DEF Schedule
    <3>2. Watching(p) /\ Capped(p)
      BY <3>1, <2>3 DEF Watching, Capped
    <3> QED
      BY <3>1, <3>2, <2>3
  <2> QED
    BY <2>4, <2>5
<1> QED
  BY <1>1, <1>2

\* One event more.
LEMMA GrownStep ==
  ASSUME cfg \in Settings, run \in Nat,
         NEW o, NEW p, NEW events, NEW n \in Nat, Grown(o, p, events, n), Capped(p),
         events[n + 1] \in EventType
  PROVE  Grown(o, Dispatch(p, events[n + 1]), events, n + 1) /\ Capped(Dispatch(p, events[n + 1]))
PROOF
<1> DEFINE e == events[n + 1]
           q == Dispatch(p, e)
<1>1. /\ Watching(q) /\ Capped(q) /\ p.tasks \subseteq q.tasks
      /\ \A t \in q.tasks \ p.tasks : t.copy = <<>> /\ t.event = e /\ cfg.db
      /\ p.cut \subseteq q.cut
      /\ p.handles \ Closed(e) \subseteq q.handles
      /\ q.handles \subseteq p.handles \union Opened(e)
      /\ run \notin q.cut => q.handles \subseteq (p.handles \union Opened(e)) \ Closed(e)
  BY DispatchType DEF Grown
<1> HIDE DEF q
<1>2. \A k \in 1..(n + 1) : k \in 1..n \/ k = n + 1
  OBVIOUS
<1>3. n + 1 \in 1..(n + 1) /\ 1..n \subseteq 1..(n + 1)
  OBVIOUS
<1>4. \A t \in q.tasks \ o.tasks : t.copy = <<>> /\ cfg.db /\ \E k \in 1..(n + 1) : t.event = events[k]
  BY <1>1, <1>3 DEF Grown
<1>5. \A h \in q.handles : h \in o.handles \/ \E k \in 1..(n + 1) : h \in Opened(events[k])
  BY <1>1, <1>3 DEF Grown
<1>6. \A h \in o.handles : (\A k \in 1..(n + 1) : h \notin Closed(events[k])) => h \in q.handles
  BY <1>1, <1>3 DEF Grown
<1>7. ASSUME run \notin q.cut, NEW h \in q.handles
      PROVE  \/ h \in o.handles /\ \A k \in 1..(n + 1) : h \notin Closed(events[k])
             \/ \E j \in 1..(n + 1) :
                  h \in Opened(events[j]) /\ \A k \in (j + 1)..(n + 1) : h \notin Closed(events[k])
  <2>1. h \notin Closed(e) /\ run \notin p.cut
    BY <1>1, <1>7
  <2>2. CASE h \in Opened(e)
    <3>1. (n + 1) + 1..(n + 1) = {}
      OBVIOUS
    <3> QED
      BY <2>2, <3>1, <1>3
  <2>3. CASE h \notin Opened(e)
    <3>1. h \in p.handles
      BY <1>1, <2>3
    <3>2. CASE h \in o.handles /\ \A k \in 1..n : h \notin Closed(events[k])
      BY <3>2, <2>1, <1>2
    <3>3. CASE \E j \in 1..n : h \in Opened(events[j]) /\ \A k \in (j + 1)..n : h \notin Closed(events[k])
      <4>1. PICK j \in 1..n : h \in Opened(events[j]) /\ \A k \in (j + 1)..n : h \notin Closed(events[k])
        BY <3>3
      <4>2. \A k \in (j + 1)..(n + 1) : k \in (j + 1)..n \/ k = n + 1
        OBVIOUS
      <4> QED
        BY <4>1, <4>2, <2>1, <1>3
    <3> QED
      BY <3>1, <3>2, <3>3, <2>1 DEF Grown
  <2> QED
    BY <2>2, <2>3
<1>8. o.tasks \subseteq q.tasks /\ o.cut \subseteq q.cut /\ Watching(q) /\ Capped(q)
  BY <1>1 DEF Grown
<1>9. Grown(o, q, events, n + 1)
  BY <1>4, <1>5, <1>6, <1>7, <1>8 DEF Grown
<1> QED
  BY <1>8, <1>9 DEF q

\* All the events of a list.
LEMMA GrownAll ==
  ASSUME cfg \in Settings, run \in Nat, NEW o, Watching(o), Capped(o),
         NEW events, Len(events) \in Nat, \A k \in 1..Len(events) : events[k] \in EventType
  PROVE  Grown(o, DispatchAll(o, events), events, Len(events)) /\ Capped(DispatchAll(o, events))
PROOF
<1> DEFINE N == Len(events)
           g == StepsOf(o, events)
           S == {n \in 0..N : Grown(o, g[n], events, n) /\ Capped(g[n])}
<1>1. 0 \in S
  <2>1. g[0] = o /\ 1..0 = {}
    BY StepsOfUnfolds
  <2> HIDE DEF g
  <2> QED
    BY <2>1 DEF Grown
<1>2. ASSUME NEW n \in 0..(N - 1), n \in S PROVE n + 1 \in S
  <2>1. g[n + 1] = Dispatch(g[n], events[n + 1])
    BY StepsOfUnfolds
  <2>2. n + 1 \in 1..N /\ n + 1 \in 0..N /\ n \in Nat
    OBVIOUS
  <2> HIDE DEF g
  <2> QED
    BY <1>2, <2>1, <2>2, GrownStep
<1>3. N \in S
  <2>1. N \in Nat /\ N \in 0..N
    OBVIOUS
  <2> HIDE DEF S, N
  <2> QED
    BY <1>1, <1>2, <2>1, UpTo
<1> QED
  BY <1>3, StepsOfUnfolds

-----------------------------------------------------------------------------
(* What a step of a run does to the observer *)

\* It may open O, closes nothing outside C and, if nothing was cut, leaves nothing of L open;
\* the tasks it adds have read nothing, and none is about a model call unless calls.
Effect(O, C, L, calls) ==
  /\ Watching(obs') /\ obs'.count \in 0..cfg.cap \union {Absent}
  /\ obs.tasks \subseteq obs'.tasks
  /\ \A t \in obs'.tasks \ obs.tasks :
       /\ t.copy = <<>> /\ cfg.db /\ t.event.run <= run'
       /\ t.event.kind = "generation" => calls
  /\ obs.cut \subseteq obs'.cut
  /\ obs'.handles \subseteq obs.handles \union O
  /\ obs.handles \ C \subseteq obs'.handles
  /\ run \notin obs'.cut => obs'.handles \cap L = {}
  /\ told' \subseteq told \union NewlyTold(obs, obs')

\* A list of events that opens O, closes C, and closes L last.
Lists(events, O, C, L, calls) ==
  /\ Len(events) \in Nat
  /\ \A k \in 1..Len(events) :
       /\ events[k] \in EventType /\ events[k].run <= run'
       /\ events[k].kind = "generation" => calls
       /\ Opened(events[k]) \subseteq O /\ Closed(events[k]) \subseteq C
  /\ \A h \in L : \E k \in 1..Len(events) :
       /\ h \in Closed(events[k])
       /\ \A j \in 1..Len(events) : h \in Opened(events[j]) => j < k

\* From the list to its effect.
LEMMA GrownEffect ==
  ASSUME NEW events, NEW O, NEW C, NEW L, NEW calls, Lists(events, O, C, L, calls),
         Grown(obs, obs', events, Len(events)), obs'.count \in 0..cfg.cap \union {Absent},
         told' = told \union NewlyTold(obs, obs')
  PROVE  Effect(O, C, L, calls)
PROOF
<1> DEFINE N == Len(events)
<1>1. \A t \in obs'.tasks \ obs.tasks :
        /\ t.copy = <<>> /\ cfg.db /\ t.event.run <= run'
        /\ t.event.kind = "generation" => calls
  BY DEF Grown, Lists
<1>2. obs'.handles \subseteq obs.handles \union O /\ obs.handles \ C \subseteq obs'.handles
  BY DEF Grown, Lists
<1>3. ASSUME run \notin obs'.cut, NEW h \in obs'.handles, h \in L PROVE FALSE
  <2>1. PICK k \in 1..N :
          h \in Closed(events[k]) /\ \A j \in 1..N : h \in Opened(events[j]) => j < k
    BY <1>3 DEF Lists
  <2>2. PICK j \in 1..N : h \in Opened(events[j]) /\ \A i \in (j + 1)..N : h \notin Closed(events[i])
    BY <1>3, <2>1 DEF Grown
  <2>3. k \in (j + 1)..N
    BY <2>1, <2>2 DEF Lists
  <2> QED
    BY <2>1, <2>2, <2>3
<1> QED
  BY <1>1, <1>2, <1>3 DEF Effect, Grown

\* A step that emits a list has the effect of the list.
LEMMA EmitEffect ==
  ASSUME TypeInv, NEW events, Emit(events), NEW O, NEW C, NEW L, NEW calls,
         Lists(events, O, C, L, calls)
  PROVE  Effect(O, C, L, calls)
PROOF
<1>1. Watching(obs) /\ Capped(obs) /\ run \in Nat
  BY TrailAssumption DEF TypeInv, Watching, Capped
<1>2. obs' = DispatchAll(obs, events) /\ told' = told \union NewlyTold(obs, obs')
  BY DEF Emit, Observe
<1>3. Grown(obs, obs', events, Len(events)) /\ Capped(obs')
  BY <1>1, <1>2, GrownAll DEF TypeInv, Lists
<1> QED
  BY <1>2, <1>3, GrownEffect DEF Capped

\* The stages and kinds of the actions are among those of the type.
LEMMA Known ==
  /\ SpanStages \subseteq Names
  /\ {"context_build", "fast_path", "primary_review", "validation", "editor", "delivery", "trace",
      "_review", ""} \subseteq Names
  /\ {"stage_start", "stage_end", "review_start", "review_end", "context_build", "outcome", "error",
      "generation"} \subseteq Kinds
  /\ Diagnostics \subseteq Kinds
  /\ Diagnostics \cap {"stage_start", "stage_end", "review_start", "review_end", "generation"} = {}
PROOF
  BY DEF SpanStages, Names, Kinds, Persisted, Diagnostics

\* The attempts are numbers.
LEMMA RunIsNat ==
  ASSUME TypeInv
  PROVE  run \in Nat /\ cfg.runs \in Nat
PROOF
  BY TrailAssumption DEF TypeInv

\* The events of one stage and of one event.
LEMMA EventsOf ==
  ASSUME TypeInv, NEW stage \in Names, NEW kind \in Kinds
  PROVE  /\ Event(kind, stage) \in EventType /\ Unattributed(kind, stage) \in EventType
         /\ Event(kind, stage).run = run /\ Unattributed(kind, stage).run = 0
         /\ Event(kind, stage).kind = kind /\ Unattributed(kind, stage).kind = kind
         /\ kind = "stage_start" => Opened(Event(kind, stage)) = {<<run, stage>>}
         /\ kind = "stage_end" => Closed(Event(kind, stage)) = {<<run, stage>>}
         /\ kind = "review_end" => Closed(Event(kind, stage)) = {<<run, "trace">>}
         /\ kind \notin {"stage_start", "review_start"} =>
              Opened(Event(kind, stage)) = {} /\ Opened(Unattributed(kind, stage)) = {}
         /\ kind \notin {"stage_end", "review_end"} =>
              Closed(Event(kind, stage)) = {} /\ Closed(Unattributed(kind, stage)) = {}
PROOF
<1>1. run \in Nat
  BY TrailAssumption DEF TypeInv
<1> QED
  BY <1>1 DEF Event, Unattributed, EventType, Opened, Closed, Key

\* A step of one event, of events that touch no stage, and of a stage opened and closed around
\* such events.
LEMMA OneEventEffect ==
  ASSUME TypeInv, NEW e \in EventType, e.run <= run', Emit(<<e>>), NEW calls,
         e.kind = "generation" => calls, Opened(e) = {} \/ Closed(e) = {}
  PROVE  Effect(Opened(e), Closed(e), Closed(e), calls)
PROOF
<1>1. Lists(<<e>>, Opened(e), Closed(e), Closed(e), calls)
  BY DEF Lists
<1> QED
  BY <1>1, EmitEffect

Plain(e) == e \in EventType /\ e.run <= run' /\ e.kind # "generation" /\ Opened(e) = {} /\ Closed(e) = {}

LEMMA PlainEffect ==
  ASSUME TypeInv, NEW events, Emit(events), Len(events) \in Nat,
         \A k \in 1..Len(events) : Plain(events[k])
  PROVE  Effect({}, {}, {}, FALSE)
PROOF
<1>1. Lists(events, {}, {}, {}, FALSE)
  BY DEF Lists, Plain
<1> QED
  BY <1>1, EmitEffect

LEMMA StageEffect ==
  ASSUME TypeInv, NEW events, Emit(events), NEW stage \in Names, run' = run,
         Len(events) \in Nat,
         NEW j \in 1..Len(events), NEW k \in 1..Len(events), j < k,
         events[j] = Event("stage_start", stage), events[k] = Event("stage_end", stage),
         \A i \in 1..Len(events) : i \notin {j, k} => Plain(events[i])
  PROVE  Effect({<<run, stage>>}, {<<run, stage>>}, {<<run, stage>>}, FALSE)
PROOF
<1>1. /\ events[j] \in EventType /\ events[j].run = run /\ events[j].kind = "stage_start"
      /\ Opened(events[j]) = {<<run, stage>>} /\ Closed(events[j]) = {}
  BY EventsOf DEF Kinds
<1>2. /\ events[k] \in EventType /\ events[k].run = run /\ events[k].kind = "stage_end"
      /\ Closed(events[k]) = {<<run, stage>>} /\ Opened(events[k]) = {}
  BY EventsOf DEF Kinds, Persisted
<1>3. run \in Nat /\ run <= run'
  BY TrailAssumption DEF TypeInv
<1>4. Lists(events, {<<run, stage>>}, {<<run, stage>>}, {<<run, stage>>}, FALSE)
  BY <1>1, <1>2, <1>3 DEF Lists, Plain
<1> QED
  BY <1>4, EmitEffect

-----------------------------------------------------------------------------
(* The effect of each step of a run *)

\* Begin resets the counter, so the cap never cuts the start of its trace.
LEMMA BeginEffect ==
  ASSUME TypeInv, Begin
  PROVE  /\ Effect({<<run', "trace">>}, {}, {}, FALSE)
         /\ <<run', 1>> \notin cfg.unsampled => <<run', "trace">> \in obs'.handles
PROOF
<1> DEFINE o == [obs EXCEPT !.count = 0]
           e == [kind |-> "review_start", run |-> run + 1, stage |-> "trace"]
           events == <<e>>
<1>1. run \in Nat /\ run' = run + 1 /\ obs' = Dispatch(o, e) /\ told' = told \union NewlyTold(obs, obs')
  BY TrailAssumption DEF TypeInv, Begin, Observe, StartTrace
<1>2. /\ o \in Observer /\ o.tasks = obs.tasks /\ o.handles = obs.handles /\ o.cut = obs.cut
      /\ o.count = 0
  BY DEF TypeInv, Observer
<1>3. /\ e \in EventType /\ e.run = run' /\ e.kind # "generation"
      /\ Opened(e) = {<<run', "trace">>} /\ Closed(e) = {}
  BY <1>1 DEF EventType, Kinds, Names, Opened, Closed
<1>4. Watching(o) /\ Capped(o) /\ Counted(o) < cfg.cap
  BY <1>2, TrailAssumption DEF TypeInv, Watching, Capped, Counted
<1>5. events[1] = e /\ Len(events) = 1
  OBVIOUS
<1> HIDE DEF o, e, events
<1>6. Grown(obs, o, events, 0)
  <2>1. 1..0 = {}
    OBVIOUS
  <2> QED
    BY <1>2, <1>4, <2>1 DEF Grown
<1>7. Grown(obs, obs', events, 1) /\ Capped(obs')
  <2>1. events[0 + 1] = e /\ 0 + 1 = 1 /\ 0 \in Nat
    BY <1>5
  <2>2. Grown(obs, Dispatch(o, events[0 + 1]), events, 0 + 1) /\ Capped(Dispatch(o, events[0 + 1]))
    BY <2>1, <1>1, <1>3, <1>4, <1>6, GrownStep DEF TypeInv
  <2> QED
    BY <2>1, <2>2, <1>1
<1>8. Lists(events, {<<run', "trace">>}, {}, {}, FALSE)
  BY <1>1, <1>3, <1>5 DEF Lists
<1>9. Effect({<<run', "trace">>}, {}, {}, FALSE)
  BY <1>1, <1>5, <1>7, <1>8, GrownEffect DEF Capped
<1>10. <<run', 1>> \notin cfg.unsampled =>
         obs'.handles = (o.handles \union Opened(e)) \ Closed(e)
  <2>1. Counted(o) + 1 = 1 /\ Starts(e)
    BY <1>2, TrailAssumption DEF Counted, Starts, e, TypeInv
  <2>2. <<run', 1>> \notin cfg.unsampled => ~LeftOut(e, Counted(o) + 1)
    BY <1>3, <2>1 DEF LeftOut
  <2> QED
    BY <1>1, <1>3, <1>4, <2>2, DispatchType DEF TypeInv
<1> QED
  BY <1>3, <1>9, <1>10

LEMMA ContextBuiltEffect ==
  ASSUME TypeInv, ContextBuilt
  PROVE  Effect({<<run, "context_build">>}, {<<run, "context_build">>}, {<<run, "context_build">>}, FALSE)
PROOF
<1> DEFINE a == Event("stage_start", "context_build")
           b == Event("context_build", "context_build")
           c == Event("stage_end", "context_build")
           events == <<a, b, c>>
<1>1. run' = run /\ Emit(events)
  BY DEF ContextBuilt, Spending
<1>2. run \in Nat /\ "context_build" \in Names /\ "context_build" \in Kinds
  BY RunIsNat, Known
<1>3. Plain(b)
  BY <1>1, <1>2, EventsOf DEF Plain
<1>4. /\ events[1] = a /\ events[3] = c /\ Len(events) = 3
      /\ \A i \in 1..3 : i \notin {1, 3} => events[i] = b
  BY DEF events
<1> HIDE DEF b, events
<1>5. /\ Len(events) \in Nat /\ 1 \in 1..Len(events) /\ 3 \in 1..Len(events) /\ 1 < 3
      /\ \A i \in 1..Len(events) : i \notin {1, 3} => Plain(events[i])
  BY <1>3, <1>4
<1> QED
  BY <1>1, <1>2, <1>4, <1>5, StageEffect

LEMMA FastPathDisabledEffect ==
  ASSUME TypeInv, FastPathDisabled
  PROVE  Effect({<<run, "fast_path">>}, {<<run, "fast_path">>}, {<<run, "fast_path">>}, FALSE)
PROOF
<1> DEFINE a == Event("stage_start", "fast_path")
           c == Event("stage_end", "fast_path")
           events == <<a, c>>
<1>1. run' = run /\ Emit(events)
  BY DEF FastPathDisabled, Spending
<1>2. "fast_path" \in Names
  BY Known
<1>3. events[1] = a /\ events[2] = c /\ Len(events) = 2 /\ \A i \in 1..2 : i \in {1, 2}
  BY DEF events
<1> HIDE DEF events
<1>4. /\ Len(events) \in Nat /\ 1 \in 1..Len(events) /\ 2 \in 1..Len(events) /\ 1 < 2
      /\ \A i \in 1..Len(events) : i \notin {1, 2} => Plain(events[i])
  BY <1>3
<1> QED
  BY <1>1, <1>2, <1>3, <1>4, StageEffect

\* A stage opened, and one closed.
LEMMA OpenStageEffect ==
  ASSUME TypeInv, NEW stage \in SpanStages, OpenStage(stage)
  PROVE  Effect({<<run, stage>>}, {}, {}, FALSE)
PROOF
<1> DEFINE e == Event("stage_start", stage)
<1>1. run' = run /\ Emit(<<e>>)
  BY DEF OpenStage
<1>3. run \in Nat /\ stage \in Names /\ "stage_start" \in Kinds
  BY RunIsNat, Known
<1>2. /\ e \in EventType /\ e.run = run /\ e.kind # "generation" /\ Opened(e) = {<<run, stage>>}
      /\ Closed(e) = {}
  BY <1>3, EventsOf
<1> HIDE DEF e
<1>4. e.run <= run'
  BY <1>1, <1>2, <1>3
<1> QED
  BY <1>1, <1>2, <1>4, OneEventEffect

LEMMA CloseStageEffect ==
  ASSUME TypeInv, NEW stage \in SpanStages, Emit(<<Event("stage_end", stage)>>), run' = run
  PROVE  Effect({}, {<<run, stage>>}, {<<run, stage>>}, FALSE)
PROOF
<1> DEFINE e == Event("stage_end", stage)
<1>1. Emit(<<e>>)
  OBVIOUS
<1>3. run \in Nat /\ stage \in Names /\ "stage_end" \in Kinds
  BY RunIsNat, Known
<1>2. /\ e \in EventType /\ e.run = run /\ e.kind # "generation" /\ Closed(e) = {<<run, stage>>}
      /\ Opened(e) = {}
  BY <1>3, EventsOf
<1> HIDE DEF e
<1>4. e.run <= run'
  BY <1>1, <1>2, <1>3
<1> QED
  BY <1>1, <1>2, <1>4, OneEventEffect

\* A call, an error or an outcome touches no stage.
LEMMA PlainEventEffect ==
  ASSUME TypeInv, NEW kind \in {"generation", "error", "outcome"}, NEW stage \in Names,
         NEW e \in {Event(kind, stage), Unattributed(kind, stage)}, Emit(<<e>>), run' = run
  PROVE  Effect({}, {}, {}, kind = "generation")
PROOF
<1>1. run \in Nat /\ kind \in Kinds
  BY TrailAssumption DEF TypeInv, Kinds, Persisted
<1>2. /\ e \in EventType /\ e.run <= run /\ e.kind = kind /\ Opened(e) = {} /\ Closed(e) = {}
  BY <1>1, EventsOf
<1> QED
  BY <1>1, <1>2, OneEventEffect

LEMMA PlainEvents ==
  ASSUME TypeInv, run' = run, NEW stage \in Names,
         NEW kind \in Diagnostics \union {"error", "outcome", "context_build"}
  PROVE  Plain(Event(kind, stage)) /\ Plain(Unattributed(kind, stage))
PROOF
<1>1. kind \in Kinds /\ kind \notin {"stage_start", "stage_end", "review_start", "review_end", "generation"}
  BY Known
<1>2. run \in Nat
  BY RunIsNat
<1>3. Plain(Event(kind, stage))
  BY <1>1, <1>2, EventsOf DEF Plain
<1>4. Plain(Unattributed(kind, stage))
  BY <1>1, <1>2, EventsOf DEF Plain
<1> QED
  BY <1>3, <1>4

\* Dropped findings and refused comments touch no stage.
LEMMA DropsArePlain ==
  ASSUME TypeInv, run' = run, NEW stage \in Names, NEW n \in Nat
  PROVE  /\ Drops(stage, n) \in Seq(EventType) /\ Len(Drops(stage, n)) = n
         /\ \A k \in 1..n : Plain(Drops(stage, n)[k])
         /\ Plain(Event("validations", stage))
PROOF
<1>1. Plain(Event("dropped_findings", stage)) /\ Plain(Event("validations", stage))
  <2>1. {"dropped_findings", "validations"} \subseteq Diagnostics
    BY DEF Diagnostics
  <2> QED
    BY <2>1, PlainEvents
<1>2. Event("dropped_findings", stage) \in EventType
  BY <1>1 DEF Plain
<1> QED
  BY <1>1, <1>2 DEF Drops

LEMMA UnattributedArePlain ==
  ASSUME TypeInv, run' = run, NEW stage \in Names, NEW kind \in Diagnostics, NEW n \in Nat,
         NEW s, s = [i \in 1..n |-> Unattributed(kind, stage)]
  PROVE  s \in Seq(EventType) /\ Len(s) = n /\ \A k \in 1..n : Plain(s[k])
PROOF
<1>1. Plain(Unattributed(kind, stage))
  BY PlainEvents
<1>2. Unattributed(kind, stage) \in EventType
  BY <1>1 DEF Plain
<1> QED
  BY <1>1, <1>2

LEMMA ValidatedByRunnerEffect ==
  ASSUME TypeInv, ValidatedByRunner
  PROVE  Effect({}, {}, {}, FALSE)
PROOF
<1>0. MaxItems \in Nat
  BY TrailAssumption
<1>1. run' = run /\ "primary_review" \in Names
  BY Known DEF ValidatedByRunner, Spending
<1>2. PICK n \in {0, MaxItems + 1} : Emit(Append(Drops("primary_review", n), Event("validations", "primary_review")))
  BY DEF ValidatedByRunner
<1> DEFINE d == Drops("primary_review", n)
           v == Event("validations", "primary_review")
           events == Append(d, v)
<1>3. d \in Seq(EventType) /\ Len(d) = n /\ (\A k \in 1..n : Plain(d[k])) /\ Plain(v) /\ n \in Nat
  BY <1>0, <1>1, DropsArePlain
<1>4. Emit(events)
  BY <1>2
<1> HIDE DEF d, v
<1>5. Len(events) = n + 1 /\ \A k \in 1..(n + 1) : IF k = n + 1 THEN events[k] = v ELSE events[k] = d[k]
  BY <1>3 DEF Plain
<1>6. Len(events) \in Nat /\ \A k \in 1..Len(events) : Plain(events[k])
  BY <1>3, <1>5
<1> HIDE DEF events
<1> QED
  BY <1>4, <1>6, PlainEffect

LEMMA ValidatedByPipelineEffect ==
  ASSUME TypeInv, ValidatedByPipeline
  PROVE  Effect({<<run, "validation">>}, {<<run, "validation">>}, {<<run, "validation">>}, FALSE)
PROOF
<1>0. MaxItems \in Nat
  BY TrailAssumption
<1>1. run' = run /\ "validation" \in Names
  BY Known DEF ValidatedByPipeline, Spending
<1>2. PICK n \in {0, MaxItems + 1} : Emit(<<Event("stage_start", "validation"), Event("stage_end", "validation")>>
                            \o Drops("validation", n) \o <<Event("validations", "validation")>>)
  BY DEF ValidatedByPipeline
<1> DEFINE a == Event("stage_start", "validation")
           c == Event("stage_end", "validation")
           d == Drops("validation", n)
           v == Event("validations", "validation")
           events == <<a, c>> \o d \o <<v>>
<1>3. d \in Seq(EventType) /\ Len(d) = n /\ (\A k \in 1..n : Plain(d[k])) /\ Plain(v) /\ n \in Nat
  BY <1>0, <1>1, DropsArePlain
<1>4. a \in EventType /\ c \in EventType /\ v \in EventType
  BY <1>1, <1>3, Known, EventsOf DEF Plain
<1>5. Emit(events)
  BY <1>2
<1>6. /\ Len(events) = n + 3 /\ events[1] = a /\ events[2] = c
      /\ \A k \in 3..(n + 3) : IF k = n + 3 THEN events[k] = v ELSE events[k] = d[k - 2]
  <2> HIDE DEF a, c, d, v
  <2>1. <<a, c>> \o d \in Seq(EventType) /\ Len(<<a, c>> \o d) = n + 2
    BY <1>3, <1>4
  <2>2. \A k \in 1..(n + 2) : (<<a, c>> \o d)[k] = IF k <= 2 THEN <<a, c>>[k] ELSE d[k - 2]
    BY <1>3, <1>4
  <2> QED
    BY <1>3, <1>4, <2>1, <2>2
<1> HIDE DEF d, v, events
<1>7. /\ Len(events) \in Nat /\ 1 \in 1..Len(events) /\ 2 \in 1..Len(events) /\ 1 < 2
      /\ \A i \in 1..Len(events) : i \notin {1, 2} => Plain(events[i])
  BY <1>3, <1>6
<1> QED
  BY <1>1, <1>5, <1>6, <1>7, StageEffect

LEMMA DeliverEffect ==
  ASSUME TypeInv, Deliver
  PROVE  \/ Effect({}, {}, {}, FALSE)
         \/ Effect({<<run, "delivery">>}, {<<run, "delivery">>}, {<<run, "delivery">>}, FALSE)
PROOF
<1>1. run' = run /\ "delivery" \in Names /\ "" \in Names /\ "delivery_rejections" \in Diagnostics
  BY Known DEF Deliver, Spending, Diagnostics
<1> DEFINE refused(n) == [i \in 1..n |-> Unattributed("delivery_rejections", "")]
           a == Event("stage_start", "delivery")
           c == Event("stage_end", "delivery")
<1>2. PICK n \in 0..1 : Emit(IF cfg.engine = "runner" THEN refused(n) ELSE <<a>> \o refused(n) \o <<c>>)
  BY DEF Deliver
<1> DEFINE d == refused(n)
<1>0. n \in Nat
  OBVIOUS
<1>3. d \in Seq(EventType) /\ Len(d) = n /\ \A k \in 1..n : Plain(d[k])
  <2>1. n \in Nat /\ "delivery_rejections" \in Diagnostics /\ "" \in Names /\ run' = run
    BY <1>0, <1>1
  <2> QED
    BY <2>1, UnattributedArePlain
<1>4. a \in EventType /\ c \in EventType
  BY <1>1, Known, EventsOf
<1>5. CASE cfg.engine = "runner"
  <2>1. Emit(d)
    BY <1>2, <1>5
  <2> HIDE DEF d
  <2>2. Len(d) \in Nat /\ \A k \in 1..Len(d) : Plain(d[k])
    BY <1>0, <1>3
  <2> QED
    BY <2>1, <2>2, PlainEffect
<1>6. CASE cfg.engine # "runner"
  <2> DEFINE events == <<a>> \o d \o <<c>>
  <2>1. Emit(events)
    BY <1>2, <1>6
  <2>2. /\ Len(events) = n + 2 /\ events[1] = a /\ events[n + 2] = c
        /\ \A k \in 2..(n + 1) : events[k] = d[k - 1]
    <3> HIDE DEF a, c, d
    <3>1. <<a>> \o d \in Seq(EventType) /\ Len(<<a>> \o d) = n + 1
      BY <1>0, <1>3, <1>4
    <3>2. \A k \in 1..(n + 1) : (<<a>> \o d)[k] = IF k = 1 THEN a ELSE d[k - 1]
      BY <1>0, <1>3, <1>4
    <3> DEFINE ad == <<a>> \o d
    <3>3. events = ad \o <<c>> /\ n \in Nat
      BY <1>0
    <3> HIDE DEF ad, events
    <3>4. ad \in Seq(EventType) /\ Len(ad) = n + 1 /\ ad[1] = a
      BY <1>0, <1>3, <3>1, <3>2 DEF ad
    <3>5. \A k \in 2..(n + 1) : ad[k] = d[k - 1]
      BY <1>0, <1>3, <3>2 DEF ad
    <3> QED
      BY <1>4, <3>3, <3>4, <3>5
  <2> HIDE DEF d, events
  <2>3. /\ Len(events) \in Nat /\ 1 \in 1..Len(events) /\ n + 2 \in 1..Len(events) /\ 1 < n + 2
        /\ \A i \in 1..Len(events) : i \notin {1, n + 2} => Plain(events[i])
    <3>1. Len(events) \in Nat /\ 1 \in 1..Len(events) /\ n + 2 \in 1..Len(events) /\ 1 < n + 2
      BY <1>0, <2>2
    <3>2. ASSUME NEW i \in 1..Len(events), i \notin {1, n + 2} PROVE Plain(events[i])
      <4>1. i \in 2..(n + 1) /\ i - 1 \in 1..n
        BY <1>0, <2>2, <3>2
      <4>2. events[i] = d[i - 1] /\ Plain(d[i - 1])
        BY <1>3, <2>2, <4>1
      <4> QED
        BY <4>2
    <3> QED
      BY <3>1, <3>2
  <2> QED
    BY <1>1, <2>1, <2>2, <2>3, StageEffect
<1> QED
  BY <1>5, <1>6

LEMMA EditedByRunnerEffect ==
  ASSUME TypeInv, EditedByRunner
  PROVE  Effect({}, {}, {}, FALSE)
PROOF
<1>1. run' = run /\ "validation" \in Names /\ "dropped_findings" \in Diagnostics
  BY Known DEF EditedByRunner, Diagnostics
<1>2. PICK n \in 0..1 : Emit([i \in 1..n |-> Unattributed("dropped_findings", "validation")])
  BY DEF EditedByRunner
<1> DEFINE d == [i \in 1..n |-> Unattributed("dropped_findings", "validation")]
<1>0. Emit(d) /\ n \in Nat
  BY <1>2
<1>3. Len(d) = n /\ \A k \in 1..n : Plain(d[k])
  BY <1>0, <1>1, UnattributedArePlain
<1> HIDE DEF d
<1> QED
  BY <1>0, <1>3, PlainEffect

\* The end of a trace resets the counter.
LEMMA FinishGrown ==
  ASSUME cfg \in Settings, run \in Nat, NEW o, NEW p, NEW events, NEW n \in Nat,
         Grown(o, p, events, n), Capped(p), events[n + 1] = Event("review_end", "trace"),
         NEW q, q = FinishTrace(p)
  PROVE  Grown(o, q, events, n + 1) /\ q.count = Absent
PROOF
<1> DEFINE e == Event("review_end", "trace")
           d == Dispatch(p, e)
<1>1. e \in EventType
  BY DEF EventType, Event, Kinds, Names
<1>2. Grown(o, d, events, n + 1)
  BY <1>1, GrownStep
<1>3. q = [d EXCEPT !.count = Absent]
  BY DEF FinishTrace
<1> HIDE DEF d
<1>4. /\ q \in Observer /\ q.tasks = d.tasks /\ q.handles = d.handles /\ q.cut = d.cut
      /\ q.count = Absent
  BY <1>2, <1>3 DEF Grown, Watching, Observer
<1>5. Watching(q)
  BY <1>2, <1>4 DEF Grown, Watching
<1> QED
  BY <1>2, <1>4, <1>5 DEF Grown

\* No event yet.
LEMMA GrownNone ==
  ASSUME NEW o, Watching(o), NEW events
  PROVE  Grown(o, o, events, 0)
PROOF
<1>1. 1..0 = {}
  OBVIOUS
<1> QED
  BY <1>1 DEF Grown

LEMMA FinishEffect ==
  ASSUME TypeInv, Finish
  PROVE  Effect({}, {<<run, "trace">>}, {<<run, "trace">>}, FALSE)
PROOF
<1> DEFINE e == Event("review_end", "trace")
           events == <<e>>
<1>1. /\ run' = run /\ obs' = FinishTrace(obs) /\ told' = told \union NewlyTold(obs, obs')
      /\ run \in Nat /\ Watching(obs) /\ Capped(obs) /\ cfg \in Settings
  BY RunIsNat DEF Finish, EndRun, Spending, Observe, TypeInv, Watching, Capped
<1>2. /\ e \in EventType /\ e.run = run /\ e.kind # "generation" /\ Opened(e) = {}
      /\ Closed(e) = {<<run, "trace">>}
  BY Known, EventsOf
<1>3. events[1] = e /\ Len(events) = 1
  BY DEF events
<1> HIDE DEF events
<1>4. Grown(obs, obs', events, 0 + 1) /\ obs'.count = Absent
  BY <1>1, <1>3, GrownNone, FinishGrown
<1> HIDE DEF e
<1>5. Lists(events, {}, {<<run, "trace">>}, {<<run, "trace">>}, FALSE)
  BY <1>1, <1>2, <1>3 DEF Lists
<1>6. Grown(obs, obs', events, Len(events)) /\ obs'.count \in 0..cfg.cap \union {Absent}
  BY <1>3, <1>4
<1> QED
  BY <1>1, <1>5, <1>6, GrownEffect

\* The runner ends the trace of a run that raised, the pipeline leaves it.
LEMMA AbortEffect ==
  ASSUME TypeInv, Abort
  PROVE  Effect({}, {<<run, "trace">>}, {}, FALSE)
PROOF
<1>1. /\ run' = run /\ told' = told \union NewlyTold(obs, obs')
      /\ run \in Nat /\ Watching(obs) /\ Capped(obs) /\ cfg \in Settings
  BY RunIsNat DEF Abort, EndRun, Spending, Observe, TypeInv, Watching, Capped
<1>2. CASE cfg.engine = "runner"
  <2> DEFINE a == Unattributed("error", "_review")
             e == Event("review_end", "trace")
             events == <<a, e>>
             p == Dispatch(obs, a)
  <2>1. obs' = FinishTrace(p)
    BY <1>2 DEF Abort, Observe
  <2>2. /\ e \in EventType /\ e.run = run /\ e.kind # "generation" /\ Opened(e) = {}
        /\ Closed(e) = {<<run, "trace">>}
    BY Known, EventsOf
  <2>3. /\ a \in EventType /\ a.run = 0 /\ a.kind # "generation" /\ Opened(a) = {}
        /\ Closed(a) = {}
    <3>1. Plain(a)
      BY <1>1, Known, PlainEvents
    <3>2. a.run = 0
      BY DEF Unattributed
    <3> HIDE DEF a
    <3> QED
      BY <3>1, <3>2 DEF Plain
  <2>4. events[1] = a /\ events[2] = e /\ Len(events) = 2 /\ \A k \in 1..2 : events[k] \in {a, e}
    BY DEF events
  <2> HIDE DEF events
  <2>5. Grown(obs, p, events, 0 + 1) /\ Capped(p)
    <3> HIDE DEF a
    <3> QED
      BY <1>1, <2>3, <2>4, GrownNone, GrownStep
  <2> HIDE DEF p
  <2>6. Grown(obs, obs', events, 1 + 1) /\ obs'.count = Absent
    <3>1. 1 \in Nat /\ Grown(obs, p, events, 1) /\ events[1 + 1] = Event("review_end", "trace")
      BY <2>4, <2>5
    <3>2. cfg \in Settings /\ run \in Nat
      BY <1>1
    <3> HIDE DEF a, e
    <3> QED
      BY <2>1, <2>5, <3>1, <3>2, FinishGrown
  <2> HIDE DEF a, e
  <2>7. Lists(events, {}, {<<run, "trace">>}, {}, FALSE)
    BY <1>1, <2>2, <2>3, <2>4 DEF Lists
  <2>8. Grown(obs, obs', events, Len(events)) /\ obs'.count \in 0..cfg.cap \union {Absent}
    BY <2>4, <2>6
  <2> QED
    BY <1>1, <2>7, <2>8, GrownEffect
<1>3. CASE cfg.engine # "runner"
  <2>1. obs' = obs
    BY <1>3 DEF Abort, Observe
  <2> QED
    BY <1>1, <2>1 DEF Effect, Capped
<1> QED
  BY <1>2, <1>3

LEMMA PrimaryFailedEffect ==
  ASSUME TypeInv, PrimaryFailed
  PROVE  Effect({}, {<<run, "primary_review">>, <<run, "trace">>},
                {<<run, "primary_review">>, <<run, "trace">>}, FALSE)
PROOF
<1> DEFINE a == Event("stage_end", span)
           b == Unattributed("error", "_review")
           e == Event("review_end", "trace")
           two == <<a, b>>
           events == <<a, b, e>>
           p == DispatchAll(obs, two)
<1>1. /\ run' = run /\ told' = told \union NewlyTold(obs, obs') /\ obs' = FinishTrace(p)
      /\ run \in Nat /\ Watching(obs) /\ Capped(obs) /\ cfg \in Settings /\ span = "primary_review"
  BY RunIsNat DEF PrimaryFailed, EndRun, Spending, Observe, TypeInv, Watching, Capped
<1>2. /\ e \in EventType /\ e.run = run /\ e.kind # "generation" /\ Opened(e) = {}
      /\ Closed(e) = {<<run, "trace">>}
  BY Known, EventsOf
<1>3. /\ b \in EventType /\ b.run = 0 /\ b.kind # "generation" /\ Opened(b) = {}
      /\ Closed(b) = {}
  <2>1. Plain(b)
    BY <1>1, Known, PlainEvents
  <2>2. b.run = 0
    BY DEF Unattributed
  <2> HIDE DEF b
  <2> QED
    BY <2>1, <2>2 DEF Plain
<1>4. /\ a \in EventType /\ a.run = run /\ a.kind # "generation" /\ Opened(a) = {}
      /\ Closed(a) = {<<run, "primary_review">>}
  BY <1>1, Known, EventsOf
<1>5. /\ events[1] = a /\ events[2] = b /\ events[3] = e /\ Len(events) = 3
      /\ two[1] = a /\ two[2] = b /\ Len(two) = 2
      /\ \A k \in 1..3 : events[k] \in {a, b, e}
      /\ \A k \in 1..2 : two[k] = events[k] /\ two[k] \in {a, b}
  BY DEF events, two
<1> HIDE DEF events, two
<1>6. Grown(obs, p, two, 2) /\ Capped(p)
  <2> HIDE DEF a, b
  <2>1. Len(two) \in Nat /\ \A k \in 1..Len(two) : two[k] \in EventType
    BY <1>3, <1>4, <1>5
  <2> QED
    BY <1>1, <1>5, <2>1, GrownAll
<1> HIDE DEF p
<1>7. Grown(obs, p, events, 2)
  BY <1>5, <1>6 DEF Grown
<1>8. Grown(obs, obs', events, 2 + 1) /\ obs'.count = Absent
  BY <1>1, <1>5, <1>6, <1>7, FinishGrown
<1> HIDE DEF a, b, e
<1>9. Lists(events, {}, {<<run, "primary_review">>, <<run, "trace">>},
            {<<run, "primary_review">>, <<run, "trace">>}, FALSE)
  BY <1>1, <1>2, <1>3, <1>4, <1>5 DEF Lists
<1>10. Grown(obs, obs', events, Len(events)) /\ obs'.count \in 0..cfg.cap \union {Absent}
  BY <1>5, <1>8
<1> QED
  BY <1>1, <1>9, <1>10, GrownEffect

-----------------------------------------------------------------------------
(* The steps of a run, one fact per action *)

\* Where calls are made the span is a stage.
LEMMA SpanKnown ==
  ASSUME TypeInv, ControlInv
  PROVE  /\ pc \in {"calls", "validated", "editing"} => span \in SpanStages
         /\ pc = "fast_audited" => span = "fast_path"
         /\ Absent \notin SpanStages
PROOF
  BY TrailAssumption DEF ControlInv, SpanStages

LEMMA GenerateEffect ==
  ASSUME TypeInv, ControlInv, Generate
  PROVE  Effect({}, {}, {}, TRUE)
PROOF
<1>1. Emit(<<Event("generation", span)>>) /\ run' = run /\ span \in Names
  BY SpanKnown, Known DEF Generate
<1>2. Effect({}, {}, {}, "generation" = "generation")
  BY <1>1, PlainEventEffect
<1> QED
  BY <1>2

LEMMA ProviderFallbackEffect ==
  ASSUME TypeInv, ControlInv, ProviderFallback
  PROVE  Effect({}, {}, {}, FALSE)
PROOF
<1>1. Emit(<<Event("error", span)>>) /\ run' = run /\ span \in Names
  BY SpanKnown, Known DEF ProviderFallback, job
<1>2. Effect({}, {}, {}, "error" = "generation")
  BY <1>1, PlainEventEffect
<1> QED
  BY <1>2

LEMMA ClassifyEffect ==
  ASSUME TypeInv, Classify
  PROVE  Effect({}, {}, {}, FALSE)
PROOF
<1>1. Emit(<<Unattributed("outcome", "")>>) /\ run' = run /\ "" \in Names
  BY Known DEF Classify, job
<1>2. Effect({}, {}, {}, "outcome" = "generation")
  BY <1>1, PlainEventEffect
<1> QED
  BY <1>2

\* The steps that end an open stage.
LEMMA ClosingEffect ==
  ASSUME TypeInv, ControlInv, FastPathDone \/ PrimaryDone \/ PrimaryClosed \/ EditorDone
  PROVE  span \in SpanStages /\ Effect({}, {<<run, span>>}, {<<run, span>>}, FALSE)
PROOF
<1>1. CASE FastPathDone
  <2>1. Emit(<<Event("stage_end", "fast_path")>>) /\ run' = run /\ span = "fast_path"
    BY <1>1 DEF FastPathDone, Spending, ControlInv
  <2> QED
    BY <2>1, CloseStageEffect DEF SpanStages
<1>2. CASE PrimaryDone
  <2>1. Emit(<<Event("stage_end", span)>>) /\ run' = run /\ span \in SpanStages
    BY <1>2, SpanKnown DEF PrimaryDone, Spending
  <2> QED
    BY <2>1, CloseStageEffect
<1>3. CASE PrimaryClosed
  <2>1. Emit(<<Event("stage_end", "primary_review")>>) /\ run' = run /\ span = "primary_review"
    BY <1>3 DEF PrimaryClosed, Spending, ControlInv
  <2> QED
    BY <2>1, CloseStageEffect DEF SpanStages
<1>4. CASE EditorDone
  <2>1. Emit(<<Event("stage_end", "editor")>>) /\ run' = run /\ span = "editor"
    BY <1>4 DEF EditorDone, Spending, ControlInv
  <2> QED
    BY <2>1, CloseStageEffect DEF SpanStages
<1> QED
  BY <1>1, <1>2, <1>3, <1>4

\* The steps that leave the observer alone.
LEMMA SilentEffect ==
  ASSUME TypeInv, Audited \/ EditorSkipped
  PROVE  Effect({}, {}, {}, FALSE)
PROOF
<1>1. obs' = obs /\ told' = told
  BY DEF Audited, EditorSkipped
<1> QED
  BY <1>1 DEF Effect, TypeInv, Watching

\* The rows that are appended have their type.
LEMMA EmptyMetaType == EmptyMeta \in {m \in Metas : ShortLists(m)}
PROOF
<1>1. EmptyMeta \in Metas
  BY DEF EmptyMeta, Metas
<1>2. MaxItems \in Nat /\ IsFiniteSet({}) /\ Cardinality({}) = 0
  BY TrailAssumption, FS_EmptySet
<1>3. ShortLists(EmptyMeta)
  BY <1>2 DEF EmptyMeta, ShortLists
<1> QED
  BY <1>1, <1>3

LEMMA AuditRowType ==
  ASSUME TypeInv, NEW stage \in Names, NEW n \in Nat
  PROVE  /\ [AuditRow(stage) EXCEPT !.tokens = n] \in Row
         /\ [AuditRow(stage) EXCEPT !.tokens = n].run = run
         /\ [AuditRow(stage) EXCEPT !.tokens = n].tokens = n
         /\ spent[run] - snapshot = n => AuditRow(stage) \in Row /\ AuditRow(stage).run = run
                                         /\ AuditRow(stage).tokens = n
PROOF
  BY EmptyMetaType, RunIsNat DEF AuditRow, Row

\* The row a runner appends.
Appends(n) == \E row \in Row : row.run = run' /\ row.tokens = n /\ rows' = Append(rows, row)

LEMMA SpentIsNat ==
  ASSUME TypeInv, run > 0
  PROVE  run \in 1..cfg.runs /\ spent[run] \in Nat /\ spent[run] <= MaxCalls /\ MaxCalls \in Nat
PROOF
<1>1. MaxCalls \in Nat
  BY TrailAssumption
<1>2. run \in 1..cfg.runs
  BY RunIsNat DEF TypeInv
<1>3. spent[run] \in 0..MaxCalls
  BY <1>2 DEF TypeInv
<1> QED
  BY <1>1, <1>2, <1>3

\* The runner's stages append what was spent since the snapshot, its editor what it spent.
LEMMA AuditedRow ==
  ASSUME TypeInv, ControlInv, Audited
  PROVE  spent[run] - snapshot \in Nat /\ Appends(spent[run] - snapshot)
PROOF
<1> DEFINE stage == IF span = "fast_path" THEN span ELSE "primary"
<1>1. run' = run /\ rows' = Append(rows, AuditRow(stage)) /\ stage \in Names
  BY DEF Audited, Spending, Names
<1>2. run > 0 /\ snapshot <= spent[run]
  BY DEF Audited, ControlInv
<1>3. spent[run] \in Nat /\ snapshot \in Nat
  BY <1>2, SpentIsNat DEF TypeInv
<1> DEFINE n == spent[run] - snapshot
           row == AuditRow(stage)
<1> HIDE DEF stage
<1>4. n \in Nat
  BY <1>2, <1>3
<1>5. row \in Row /\ row.run = run /\ row.tokens = n
  BY <1>1, <1>4, AuditRowType
<1> HIDE DEF row, n
<1>6. Appends(n)
  BY <1>1, <1>5 DEF Appends, row
<1> QED
  BY <1>4, <1>6 DEF n

LEMMA EditedRow ==
  ASSUME TypeInv, ControlInv, EditedByRunner
  PROVE  \E n \in Nat : /\ spent[run] + n <= MaxCalls /\ spent' = [spent EXCEPT ![run] = @ + n]
                        /\ Appends(n)
PROOF
<1>1. run' = run /\ pc = "edit"
  BY DEF EditedByRunner
<1>2. run > 0 /\ "editor" \in Names
  BY <1>1, Known DEF ControlInv
<1>5. spent[run] \in Nat /\ MaxCalls \in Nat
  BY <1>2, SpentIsNat
<1>3. PICK n \in 0..(MaxCalls - spent[run]) :
        /\ spent' = [spent EXCEPT ![run] = @ + n]
        /\ rows' = Append(rows, [AuditRow("editor") EXCEPT !.tokens = n])
  BY DEF EditedByRunner
<1>4. n \in Nat /\ spent[run] + n <= MaxCalls
  BY <1>5
<1> DEFINE row == [AuditRow("editor") EXCEPT !.tokens = n]
<1>6. row \in Row /\ row.run = run /\ row.tokens = n
  BY <1>2, <1>4, AuditRowType
<1> HIDE DEF row
<1>7. rows' = Append(rows, row)
  BY <1>3 DEF row
<1>8. Appends(n)
  BY <1>1, <1>6, <1>7 DEF Appends
<1> QED
  BY <1>3, <1>4, <1>8

\* What every step of a run leaves true of the observer.
Grows ==
  /\ Watching(obs') /\ obs'.count \in 0..cfg.cap \union {Absent}
  /\ obs.tasks \subseteq obs'.tasks
  /\ \A t \in obs'.tasks \ obs.tasks : t.copy = <<>> /\ cfg.db /\ t.event.run <= run'
  /\ obs.cut \subseteq obs'.cut
  /\ told' \subseteq told \union NewlyTold(obs, obs')

NoCalls == \A t \in obs'.tasks \ obs.tasks : t.event.kind # "generation"

LEMMA EffectGrows ==
  ASSUME NEW O, NEW C, NEW L, NEW calls, Effect(O, C, L, calls)
  PROVE  Grows /\ (~calls => NoCalls)
PROOF
  BY DEF Effect, Grows, NoCalls

LEMMA RunStepGrows ==
  ASSUME TypeInv, ControlInv, RunStep
  PROVE  Grows /\ (NoCalls \/ Generate)
PROOF
<1>1. CASE Begin
  BY <1>1, BeginEffect, EffectGrows
<1>2. CASE ContextBuilt
  BY <1>2, ContextBuiltEffect, EffectGrows
<1>3. CASE FastPathDisabled
  BY <1>3, FastPathDisabledEffect, EffectGrows
<1>4. CASE OpenFastPath
  <2>1. OpenStage("fast_path") /\ "fast_path" \in SpanStages
    BY <1>4 DEF OpenFastPath, SpanStages
  <2> QED
    BY <2>1, OpenStageEffect, EffectGrows
<1>5. CASE OpenPrimary
  <2>1. OpenStage("primary_review") /\ "primary_review" \in SpanStages
    BY <1>5 DEF OpenPrimary, SpanStages
  <2> QED
    BY <2>1, OpenStageEffect, EffectGrows
<1>6. CASE Generate
  BY <1>6, GenerateEffect, EffectGrows
<1>7. CASE FastPathDone
  BY <1>7, ClosingEffect, EffectGrows
<1>8. CASE Audited
  BY <1>8, SilentEffect, EffectGrows
<1>9. CASE ProviderFallback
  BY <1>9, ProviderFallbackEffect, EffectGrows
<1>10. CASE PrimaryDone
  BY <1>10, ClosingEffect, EffectGrows
<1>11. CASE ValidatedByRunner
  BY <1>11, ValidatedByRunnerEffect, EffectGrows
<1>12. CASE ValidatedByPipeline
  BY <1>12, ValidatedByPipelineEffect, EffectGrows
<1>13. CASE PrimaryClosed
  BY <1>13, ClosingEffect, EffectGrows
<1>14. CASE EditedByRunner
  BY <1>14, EditedByRunnerEffect, EffectGrows
<1>15. CASE OpenEditor
  <2>1. OpenStage("editor") /\ "editor" \in SpanStages
    BY <1>15 DEF OpenEditor, SpanStages
  <2> QED
    BY <2>1, OpenStageEffect, EffectGrows
<1>16. CASE EditorDone
  BY <1>16, ClosingEffect, EffectGrows
<1>17. CASE EditorSkipped
  BY <1>17, SilentEffect, EffectGrows
<1>18. CASE Deliver
  BY <1>18, DeliverEffect, EffectGrows
<1>19. CASE Finish
  BY <1>19, FinishEffect, EffectGrows
<1>20. CASE PrimaryFailed
  BY <1>20, PrimaryFailedEffect, EffectGrows
<1>21. CASE Abort
  BY <1>21, AbortEffect, EffectGrows
<1>22. CASE Classify
  BY <1>22, ClassifyEffect, EffectGrows
<1> QED
  BY <1>1, <1>2, <1>3, <1>4, <1>5, <1>6, <1>7, <1>8, <1>9, <1>10, <1>11, <1>12,
     <1>13, <1>14, <1>15, <1>16, <1>17, <1>18, <1>19, <1>20, <1>21, <1>22 DEF RunStep

\* A step of a run never changes the settings, and changes rows only by appending one of its own.
LEMMA RunStepFrame ==
  ASSUME TypeInv, ControlInv, RunStep
  PROVE  /\ cfg' = cfg /\ disturbed' = disturbed /\ run' \in 0..cfg.runs /\ run <= run'
         /\ rows' = rows \/ \E n \in Nat : Appends(n)
PROOF
<1>0. run \in Nat /\ cfg.runs \in Nat /\ run \in 0..cfg.runs
  BY RunIsNat DEF TypeInv
<1>1. CASE Begin
  BY <1>0, <1>1 DEF Begin, Database
<1>2. CASE ContextBuilt
  BY <1>0, <1>2 DEF ContextBuilt, Spending, Database
<1>3. CASE FastPathDisabled
  BY <1>0, <1>3 DEF FastPathDisabled, Spending, Database
<1>4. CASE OpenFastPath
  BY <1>0, <1>4 DEF OpenFastPath, OpenStage, Database
<1>5. CASE OpenPrimary
  BY <1>0, <1>5 DEF OpenPrimary, OpenStage, Database
<1>6. CASE Generate
  BY <1>0, <1>6 DEF Generate, Spending, Database
<1>7. CASE FastPathDone
  BY <1>0, <1>7 DEF FastPathDone, Spending, Database
<1>8. CASE Audited
  BY <1>0, <1>8, AuditedRow DEF Audited, Spending
<1>9. CASE ProviderFallback
  BY <1>0, <1>9 DEF ProviderFallback, job
<1>10. CASE PrimaryDone
  BY <1>0, <1>10 DEF PrimaryDone, Spending, Database
<1>11. CASE ValidatedByRunner
  BY <1>0, <1>11 DEF ValidatedByRunner, Spending, Database
<1>12. CASE ValidatedByPipeline
  BY <1>0, <1>12 DEF ValidatedByPipeline, Spending, Database
<1>13. CASE PrimaryClosed
  BY <1>0, <1>13 DEF PrimaryClosed, Spending, Database
<1>14. CASE EditedByRunner
  <2>1. cfg' = cfg /\ run' = run /\ disturbed' = disturbed
    BY <1>14, Zenon DEF EditedByRunner
  <2> QED
    BY <1>0, <1>14, <2>1, EditedRow
<1>15. CASE OpenEditor
  BY <1>0, <1>15 DEF OpenEditor, OpenStage, Database
<1>16. CASE EditorDone
  BY <1>0, <1>16 DEF EditorDone, Spending, Database
<1>17. CASE EditorSkipped
  BY <1>0, <1>17 DEF EditorSkipped, Spending, Database
<1>18. CASE Deliver
  <2>1. cfg' = cfg /\ run' = run /\ UNCHANGED Database
    BY <1>18, Zenon DEF Deliver, Spending
  <2> QED
    BY <1>0, <2>1 DEF Database
<1>19. CASE Finish
  BY <1>0, <1>19 DEF Finish, EndRun, Spending, Database
<1>20. CASE PrimaryFailed
  BY <1>0, <1>20 DEF PrimaryFailed, EndRun, Spending, Database
<1>21. CASE Abort
  BY <1>0, <1>21 DEF Abort, EndRun, Spending, Database
<1>22. CASE Classify
  <2>1. cfg' = cfg /\ run' = run /\ UNCHANGED Database
    BY <1>22, Zenon DEF Classify, job
  <2> QED
    BY <1>0, <2>1 DEF Database
<1> QED
  BY <1>1, <1>2, <1>3, <1>4, <1>5, <1>6, <1>7, <1>8, <1>9, <1>10, <1>11, <1>12,
     <1>13, <1>14, <1>15, <1>16, <1>17, <1>18, <1>19, <1>20, <1>21, <1>22 DEF RunStep

\* What the steps of a run do to its own variables.
LocalsType ==
  /\ pc \in Labels /\ spent \in [1..cfg.runs -> 0..MaxCalls] /\ snapshot \in 0..MaxCalls
  /\ span \in SpanStages \union {Absent}
  /\ ending \in [1..cfg.runs -> {"none", "running", "finished", "raised", "abandoned"}]

LEMMA RunStepControl ==
  ASSUME TypeInv, ControlInv, RunStep
  PROVE  LocalsType' /\ ControlInv'
PROOF
<1>0. /\ run \in Nat /\ cfg.runs \in Nat /\ run \in 0..cfg.runs /\ MaxCalls \in Nat /\ cfg' = cfg
      /\ cfg.engine \in {"runner", "pipeline"} /\ LocalsType
      /\ Absent \notin {"fast_path", "primary_review", "editor"}
      /\ run > 0 => run \in 1..cfg.runs /\ spent[run] \in 0..MaxCalls
  BY RunIsNat, RunStepFrame, SpentIsNat, TrailAssumption DEF TypeInv, LocalsType
<1>1. CASE Begin
  <2>1. /\ pc = "idle" /\ run < cfg.runs /\ run' = run + 1 /\ pc' = IF cfg.engine = "runner" THEN "context" ELSE "primary"
        /\ span' = Absent /\ snapshot' = 0 /\ spent' = spent
        /\ ending' = [ending EXCEPT ![run + 1] = "running"]
    BY <1>1 DEF Begin, Goto
  <2> QED
    BY <1>0, <2>1 DEF LocalsType, ControlInv, Labels, SpanStages
<1>2. CASE ContextBuilt
  <2>1. /\ pc = "context" /\ run' = run /\ pc' = "fast_path"
        /\ span' = span /\ snapshot' = snapshot /\ spent' = spent
        /\ ending' = ending
    BY <1>2 DEF ContextBuilt, Spending, Goto
  <2> QED
    BY <1>0, <2>1 DEF LocalsType, ControlInv, Labels, SpanStages
<1>3. CASE FastPathDisabled
  <2>1. /\ pc = "fast_path" /\ run' = run /\ pc' = "primary"
        /\ span' = span /\ snapshot' = snapshot /\ spent' = spent
        /\ ending' = ending
    BY <1>3 DEF FastPathDisabled, Spending, Goto
  <2> QED
    BY <1>0, <2>1 DEF LocalsType, ControlInv, Labels, SpanStages
<1>4. CASE OpenFastPath
  <2>1. /\ pc = "fast_path" /\ run' = run /\ pc' = "calls"
        /\ span' = "fast_path" /\ snapshot' = spent[run] /\ spent' = spent
        /\ ending' = ending
    BY <1>4 DEF OpenFastPath, OpenStage, Goto
  <2> QED
    BY <1>0, <2>1 DEF LocalsType, ControlInv, Labels, SpanStages
<1>5. CASE OpenPrimary
  <2>1. /\ pc = "primary" /\ run' = run /\ pc' = "calls"
        /\ span' = "primary_review" /\ snapshot' = spent[run] /\ spent' = spent
        /\ ending' = ending
    BY <1>5 DEF OpenPrimary, OpenStage, Goto
  <2> QED
    BY <1>0, <2>1 DEF LocalsType, ControlInv, Labels, SpanStages
<1>6. CASE Generate
  <2>1. /\ pc \in {"calls", "validated", "editing"} /\ spent[run] < MaxCalls /\ run' = run /\ pc' = pc
        /\ span' = span /\ snapshot' = snapshot /\ spent' = [spent EXCEPT ![run] = @ + 1]
        /\ ending' = ending
    BY <1>6 DEF Generate
  <2> QED
    BY <1>0, <2>1 DEF LocalsType, ControlInv, Labels, SpanStages
<1>7. CASE FastPathDone
  <2>1. /\ pc = "fast_audited" /\ run' = run /\ pc' = "primary"
        /\ span' = Absent /\ snapshot' = snapshot /\ spent' = spent
        /\ ending' = ending
    BY <1>7 DEF FastPathDone, Spending, Goto
  <2> QED
    BY <1>0, <2>1 DEF LocalsType, ControlInv, Labels, SpanStages
<1>8. CASE Audited
  <2>1. /\ pc = "calls" /\ cfg.engine = "runner" /\ run' = run /\ pc' = IF span = "fast_path" THEN "fast_audited" ELSE "validate"
        /\ span' = span /\ snapshot' = snapshot /\ spent' = spent
        /\ ending' = ending
    BY <1>8 DEF Audited, Spending, Goto
  <2> QED
    BY <1>0, <2>1 DEF LocalsType, ControlInv, Labels, SpanStages
<1>9. CASE ProviderFallback
  <2>1. /\ pc = "calls" /\ run' = run /\ pc' = pc
        /\ span' = span /\ snapshot' = snapshot /\ spent' = spent
        /\ ending' = ending
    BY <1>9 DEF ProviderFallback, job
  <2> QED
    BY <1>0, <2>1 DEF LocalsType, ControlInv, Labels, SpanStages
<1>10. CASE PrimaryDone
  <2>1. /\ pc = "calls" /\ cfg.engine = "pipeline" /\ run' = run /\ pc' = "validate"
        /\ span' = Absent /\ snapshot' = snapshot /\ spent' = spent
        /\ ending' = ending
    BY <1>10 DEF PrimaryDone, Spending, Goto
  <2> QED
    BY <1>0, <2>1 DEF LocalsType, ControlInv, Labels, SpanStages
<1>11. CASE ValidatedByRunner
  <2>1. /\ pc = "validate" /\ cfg.engine = "runner" /\ run' = run /\ pc' = "validated"
        /\ span' = span /\ snapshot' = snapshot /\ spent' = spent
        /\ ending' = ending
    BY <1>11 DEF ValidatedByRunner, Spending, Goto
  <2> QED
    BY <1>0, <2>1 DEF LocalsType, ControlInv, Labels, SpanStages
<1>12. CASE ValidatedByPipeline
  <2>1. /\ pc = "validate" /\ cfg.engine = "pipeline" /\ run' = run /\ pc' = "edit"
        /\ span' = span /\ snapshot' = snapshot /\ spent' = spent
        /\ ending' = ending
    BY <1>12 DEF ValidatedByPipeline, Spending, Goto
  <2> QED
    BY <1>0, <2>1 DEF LocalsType, ControlInv, Labels, SpanStages
<1>13. CASE PrimaryClosed
  <2>1. /\ pc = "validated" /\ run' = run /\ pc' = "edit"
        /\ span' = Absent /\ snapshot' = snapshot /\ spent' = spent
        /\ ending' = ending
    BY <1>13 DEF PrimaryClosed, Spending, Goto
  <2> QED
    BY <1>0, <2>1 DEF LocalsType, ControlInv, Labels, SpanStages
<1>14. CASE EditedByRunner
  <2>1. /\ pc = "edit" /\ run' = run /\ pc' = "deliver"
        /\ span' = span /\ snapshot' = spent[run]
        /\ ending' = ending
    BY <1>14, Zenon DEF EditedByRunner, Goto
  <2>2. PICK n \in Nat : spent[run] + n <= MaxCalls /\ spent' = [spent EXCEPT ![run] = @ + n]
    BY <1>14, EditedRow
  <2> QED
    BY <1>0, <2>1, <2>2 DEF LocalsType, ControlInv, Labels, SpanStages
<1>15. CASE OpenEditor
  <2>1. /\ pc = "edit" /\ run' = run /\ pc' = "editing"
        /\ span' = "editor" /\ snapshot' = spent[run] /\ spent' = spent
        /\ ending' = ending
    BY <1>15 DEF OpenEditor, OpenStage, Goto
  <2> QED
    BY <1>0, <2>1 DEF LocalsType, ControlInv, Labels, SpanStages
<1>16. CASE EditorDone
  <2>1. /\ pc = "editing" /\ run' = run /\ pc' = "deliver"
        /\ span' = Absent /\ snapshot' = snapshot /\ spent' = spent
        /\ ending' = ending
    BY <1>16 DEF EditorDone, Spending, Goto
  <2> QED
    BY <1>0, <2>1 DEF LocalsType, ControlInv, Labels, SpanStages
<1>17. CASE EditorSkipped
  <2>1. /\ pc = "edit" /\ run' = run /\ pc' = "deliver"
        /\ span' = span /\ snapshot' = snapshot /\ spent' = spent
        /\ ending' = ending
    BY <1>17 DEF EditorSkipped, Spending, Goto
  <2> QED
    BY <1>0, <2>1 DEF LocalsType, ControlInv, Labels, SpanStages
<1>18. CASE Deliver
  <2>1. /\ pc = "deliver" /\ run' = run /\ pc' = "finish"
        /\ span' = span /\ snapshot' = snapshot /\ spent' = spent
        /\ ending' = ending
    BY <1>18, Zenon DEF Deliver, Spending, Goto
  <2> QED
    BY <1>0, <2>1 DEF LocalsType, ControlInv, Labels, SpanStages
<1>19. CASE Finish
  <2>1. /\ pc # "idle" /\ run' = run /\ pc' = "idle"
        /\ span' = Absent /\ snapshot' = snapshot /\ spent' = spent
        /\ ending' = [ending EXCEPT ![run] = "finished"]
    BY <1>19 DEF Finish, EndRun, Spending, Goto
  <2> QED
    BY <1>0, <2>1 DEF LocalsType, ControlInv, Labels, SpanStages
<1>20. CASE PrimaryFailed
  <2>1. /\ pc # "idle" /\ run' = run /\ pc' = "idle"
        /\ span' = Absent /\ snapshot' = snapshot /\ spent' = spent
        /\ ending' = [ending EXCEPT ![run] = "finished"]
    BY <1>20 DEF PrimaryFailed, EndRun, Spending, Goto
  <2> QED
    BY <1>0, <2>1 DEF LocalsType, ControlInv, Labels, SpanStages
<1>21. CASE Abort
  <2>1. /\ pc # "idle" /\ run' = run /\ pc' = "idle"
        /\ span' = Absent /\ snapshot' = snapshot /\ spent' = spent
        /\ \E how \in {"raised", "abandoned"} : ending' = [ending EXCEPT ![run] = how]
    BY <1>21 DEF Abort, EndRun, Spending, Goto
  <2> QED
    BY <1>0, <2>1 DEF LocalsType, ControlInv, Labels, SpanStages
<1>22. CASE Classify
  <2>1. /\ pc = "idle" /\ run' = run /\ pc' = pc
        /\ span' = span /\ snapshot' = snapshot /\ spent' = spent
        /\ ending' = ending
    BY <1>22, Zenon DEF Classify, job
  <2> QED
    BY <1>0, <2>1 DEF LocalsType, ControlInv, Labels, SpanStages
<1> QED
  BY <1>1, <1>2, <1>3, <1>4, <1>5, <1>6, <1>7, <1>8, <1>9, <1>10, <1>11, <1>12,
     <1>13, <1>14, <1>15, <1>16, <1>17, <1>18, <1>19, <1>20, <1>21, <1>22 DEF RunStep

-----------------------------------------------------------------------------
(* A step of a run keeps the type, what tasks read and what was told *)

\* A row appended leaves the others where they are.
LEMMA RowsExtend ==
  ASSUME rows \in Seq(Row), rows' = rows \/ \E n \in Nat : Appends(n)
  PROVE  /\ rows' \in Seq(Row) /\ DOMAIN rows \subseteq DOMAIN rows'
         /\ \A i \in DOMAIN rows : rows'[i] = rows[i]
         /\ \A i \in DOMAIN rows' : i \in DOMAIN rows \/ rows'[i].run = run'
PROOF
<1>1. CASE rows' = rows
  BY <1>1
<1>2. CASE \E n \in Nat : Appends(n)
  <2>1. PICK row \in Row : row.run = run' /\ rows' = Append(rows, row)
    BY <1>2 DEF Appends
  <2> QED
    BY <2>1
<1> QED
  BY <1>1, <1>2

LEMMA ToldType ==
  ASSUME told \subseteq [id : Nat, key : Diagnostics, row : Nat \X Names], obs' \in Observer,
         told' \subseteq told \union NewlyTold(obs, obs')
  PROVE  told' \subseteq [id : Nat, key : Diagnostics, row : Nat \X Names]
PROOF
<1>1. \A t \in obs'.tasks : t.id \in Nat /\ Key(t.event) \in Nat \X Names
  BY DEF Observer, Task, Key
<1> QED
  BY <1>1 DEF NewlyTold

\* A step of a run keeps the types.
LEMMA RunStepType ==
  ASSUME TypeInv, ControlInv, RunStep
  PROVE  TypeInv'
PROOF
<1>1. /\ cfg' = cfg /\ run' \in 0..cfg.runs /\ run <= run'
      /\ rows' = rows \/ \E n \in Nat : Appends(n)
  BY RunStepFrame
<1>2. LocalsType'
  BY RunStepControl
<1>3. /\ obs' \in Observer /\ IsFiniteSet(obs'.tasks) /\ obs'.count \in 0..cfg'.cap \union {Absent}
      /\ told' \subseteq [id : Nat, key : Diagnostics, row : Nat \X Names]
  BY <1>1, RunStepGrows, ToldType DEF Grows, Watching, TypeInv
<1>4. rows' \in Seq(Row) /\ \A i \in DOMAIN rows' : rows'[i].run <= run'
  <2>1. /\ rows' \in Seq(Row) /\ DOMAIN rows \subseteq DOMAIN rows'
        /\ \A i \in DOMAIN rows : rows'[i] = rows[i]
        /\ \A i \in DOMAIN rows' : i \in DOMAIN rows \/ rows'[i].run = run'
    BY <1>1, RowsExtend DEF TypeInv
  <2>2. ASSUME NEW i \in DOMAIN rows' PROVE rows'[i].run <= run'
    <3>1. run \in Nat /\ run' \in Nat
      BY <1>1, RunIsNat
    <3>2. CASE i \in DOMAIN rows
      <4>0. rows'[i] = rows[i]
        BY <3>2, <2>1
      <4>1. rows[i].run <= run
        BY <3>2 DEF TypeInv
      <4>2. rows'[i] \in Row
        BY <2>1
      <4>3. rows'[i].run \in Nat
        BY <4>2 DEF Row
      <4> QED
        BY <4>0, <4>1, <4>3, <3>1, <1>1
    <3> QED
      BY <2>1, <3>1, <3>2
  <2> QED
    BY <2>1, <2>2
<1> QED
  BY <1>1, <1>2, <1>3, <1>4 DEF TypeInv, LocalsType

\* What a task read is still a row of its key, as rows are only appended.
LEMMA RunStepCopies ==
  ASSUME TypeInv, ControlInv, CopyInv, RunStep
  PROVE  CopyInv'
PROOF
<1>1. /\ run' \in 0..cfg.runs /\ run <= run' /\ run \in Nat /\ run' \in Nat
      /\ rows' = rows \/ \E n \in Nat : Appends(n)
  BY RunStepFrame, RunIsNat
<1>2. DOMAIN rows \subseteq DOMAIN rows' /\ \A i \in DOMAIN rows : rows'[i] = rows[i]
  BY <1>1, RowsExtend DEF TypeInv
<1>3. ASSUME NEW t \in obs'.tasks
      PROVE  /\ t.event.run <= run'
             /\ t.copy \notin Unread =>
                  /\ t.copy[1] \in DOMAIN rows'
                  /\ rows'[t.copy[1]].run = t.event.run /\ rows'[t.copy[1]].stage = t.event.stage
  <2>1. CASE t \in obs.tasks
    <3>1. t.event.run <= run /\ t.event.run \in Nat
      BY <2>1 DEF CopyInv, TypeInv, Observer, Task
    <3>2. t.copy \notin Unread =>
             /\ t.copy[1] \in DOMAIN rows
             /\ rows[t.copy[1]].run = t.event.run /\ rows[t.copy[1]].stage = t.event.stage
      BY <2>1 DEF CopyInv
    <3> QED
      BY <1>1, <1>2, <3>1, <3>2
  <2>2. CASE t \notin obs.tasks
    BY <2>2, RunStepGrows DEF Grows, Unread
  <2> QED
    BY <2>1, <2>2
<1> QED
  BY <1>3 DEF CopyInv

\* What is told becomes a task.
LEMMA RunStepDiagnostics ==
  ASSUME TypeInv, ControlInv, DiagnosticsInv, RunStep
  PROVE  DiagnosticsInv'
PROOF
<1>1. DOMAIN rows \subseteq DOMAIN rows' /\ \A i \in DOMAIN rows : rows'[i] = rows[i]
  BY RunStepFrame, RowsExtend DEF TypeInv
<1>2. disturbed' = disturbed
  BY RunStepFrame
<1>3. obs.tasks \subseteq obs'.tasks /\ told' \subseteq told \union NewlyTold(obs, obs')
  BY RunStepGrows DEF Grows
<1>4. ASSUME NEW d \in told, d.row \notin disturbed PROVE InTask(d)' \/ InRow(d)'
  BY <1>1, <1>3, <1>4 DEF DiagnosticsInv, InTask, InRow
<1>5. ASSUME NEW d \in NewlyTold(obs, obs') PROVE InTask(d)'
  BY <1>5 DEF NewlyTold, InTask
<1> QED
  BY <1>2, <1>3, <1>4, <1>5 DEF DiagnosticsInv

-----------------------------------------------------------------------------
(* A step of a run keeps the handles *)

\* A step within a run: what it opens and leaves open is the trace and the span.
LEMMA HandlesOngoing ==
  ASSUME TypeInv, ControlInv, HandlesInv, run' = run, cfg' = cfg, pc # "idle", pc' # "idle",
         ending' = ending, NEW O, NEW C, NEW L, NEW calls, Effect(O, C, L, calls),
         \A h \in O : h[1] = run, <<run, "trace">> \notin C,
         (Allowed \union O) \ L \subseteq Allowed'
  PROVE  HandlesInv'
PROOF
<1>1. run \in Nat /\ run > 0
  BY RunIsNat DEF ControlInv
<1>2. /\ obs.cut \subseteq obs'.cut /\ obs'.handles \subseteq obs.handles \union O
      /\ obs.handles \ C \subseteq obs'.handles /\ (run \notin obs'.cut => obs'.handles \cap L = {})
  BY DEF Effect
<1>3. \A h \in obs'.handles : h[1] <= run
  BY <1>1, <1>2 DEF HandlesInv
<1>4. <<run, 1>> \notin cfg'.unsampled => <<run, "trace">> \in obs'.handles
  BY <1>2 DEF HandlesInv
<1>5. run \notin obs'.cut => \A h \in obs'.handles : h[1] = run => h \in Allowed'
  BY <1>2 DEF HandlesInv
<1>6. ASSUME NEW r \in 1..run, ending[r] = "finished", r \notin obs'.cut, NEW h \in obs'.handles
      PROVE  h[1] # r
  <2>1. r # run
    <3>1. run \in 1..cfg.runs
      BY <1>1, RunIsNat DEF TypeInv
    <3> QED
      BY <3>1, <1>6 DEF ControlInv
  <2> QED
    BY <1>2, <1>6, <2>1 DEF HandlesInv
<1> QED
  BY <1>3, <1>4, <1>5, <1>6 DEF HandlesInv

\* The same for a step that opens and closes a stage of its own, for one that touches no
\* stage, and for those that open and close the span.
LEMMA HandlesWithin ==
  ASSUME TypeInv, ControlInv, HandlesInv, run' = run, cfg' = cfg, pc # "idle", pc' # "idle",
         ending' = ending, span' = span, NEW stage, stage # "trace",
         Effect({<<run, stage>>}, {<<run, stage>>}, {<<run, stage>>}, FALSE)
  PROVE  HandlesInv'
PROOF
<1> DEFINE O == {<<run, stage>>}
<1>0. Effect(O, O, O, FALSE)
  BY Zenon
<1>1. (\A h \in O : h[1] = run) /\ <<run, "trace">> \notin O
  OBVIOUS
<1>2. (Allowed \union O) \ O \subseteq Allowed'
  BY DEF Allowed
<1> HIDE DEF O
<1> QED
  BY <1>0, <1>1, <1>2, HandlesOngoing

LEMMA HandlesPlain ==
  ASSUME TypeInv, ControlInv, HandlesInv, run' = run, cfg' = cfg, pc # "idle", pc' # "idle",
         ending' = ending, span' = span, NEW calls, Effect({}, {}, {}, calls)
  PROVE  HandlesInv'
PROOF
<1> DEFINE O == {}
<1>0. Effect(O, O, O, calls)
  BY Zenon
<1>1. (\A h \in O : h[1] = run) /\ <<run, "trace">> \notin O
  OBVIOUS
<1>2. (Allowed \union O) \ O \subseteq Allowed'
  BY DEF Allowed
<1> HIDE DEF O
<1> QED
  BY <1>0, <1>1, <1>2, HandlesOngoing

LEMMA HandlesOpening ==
  ASSUME TypeInv, ControlInv, HandlesInv, run' = run, cfg' = cfg, pc # "idle", pc' # "idle",
         ending' = ending, span = Absent, NEW stage, stage # Absent, span' = stage,
         Effect({<<run, stage>>}, {}, {}, FALSE)
  PROVE  HandlesInv'
PROOF
<1> DEFINE O == {<<run, stage>>}
           C == {}
<1>0. Effect(O, C, C, FALSE)
  BY Zenon
<1>1. (\A h \in O : h[1] = run) /\ <<run, "trace">> \notin C
  OBVIOUS
<1>2. (Allowed \union O) \ C \subseteq Allowed'
  BY DEF Allowed
<1> HIDE DEF O, C
<1> QED
  BY <1>0, <1>1, <1>2, HandlesOngoing

LEMMA HandlesClosing ==
  ASSUME TypeInv, ControlInv, HandlesInv, run' = run, cfg' = cfg, pc # "idle", pc' # "idle",
         ending' = ending, span' = Absent, span # Absent, span # "trace", Effect({}, {<<run, span>>}, {<<run, span>>}, FALSE)
  PROVE  HandlesInv'
PROOF
<1> DEFINE O == {}
           C == {<<run, span>>}
<1>0. Effect(O, C, C, FALSE)
  BY Zenon
<1>1. (\A h \in O : h[1] = run) /\ <<run, "trace">> \notin C
  OBVIOUS
<1>2. (Allowed \union O) \ C \subseteq Allowed'
  BY DEF Allowed
<1> HIDE DEF O, C
<1> QED
  BY <1>0, <1>1, <1>2, HandlesOngoing

\* The end of a run: one that ended by itself has closed all that was allowed to be open.
LEMMA HandlesAtEnd ==
  ASSUME TypeInv, ControlInv, HandlesInv, run' = run, pc' = "idle", run > 0,
         NEW how, ending' = [ending EXCEPT ![run] = how],
         NEW C, NEW L, NEW calls, Effect({}, C, L, calls),
         how = "finished" => pc # "idle" /\ Allowed \subseteq L
  PROVE  HandlesInv'
PROOF
<1>1. run \in Nat /\ run \in 1..cfg.runs
  BY RunIsNat DEF TypeInv
<1>2. /\ obs.cut \subseteq obs'.cut /\ obs'.handles \subseteq obs.handles
      /\ (run \notin obs'.cut => obs'.handles \cap L = {})
  BY DEF Effect
<1>3. ASSUME NEW r \in 1..run, ending'[r] = "finished", r \notin obs'.cut, NEW h \in obs'.handles
      PROVE  h[1] # r
  <2>1. CASE r = run
    <3>1. how = "finished"
      BY <1>1, <1>3, <2>1 DEF TypeInv
    <3> QED
      BY <1>2, <1>3, <2>1, <3>1 DEF HandlesInv
  <2>2. CASE r # run
    <3>1. ending[r] = "finished"
      BY <1>1, <1>3, <2>2 DEF TypeInv
    <3> QED
      BY <1>2, <1>3, <3>1 DEF HandlesInv
  <2> QED
    BY <2>1, <2>2
<1> QED
  BY <1>1, <1>2, <1>3 DEF HandlesInv

\* A new run: no handle of its number exists yet.
LEMMA HandlesAtBegin ==
  ASSUME TypeInv, ControlInv, HandlesInv, Begin
  PROVE  HandlesInv'
PROOF
<1>1. /\ run \in Nat /\ run' = run + 1 /\ run' \in 1..cfg.runs
      /\ pc = "idle" /\ ending' = [ending EXCEPT ![run + 1] = "running"]
  BY RunIsNat DEF TypeInv, Begin
<1>2. /\ obs.cut \subseteq obs'.cut /\ obs'.handles \subseteq obs.handles \union {<<run', "trace">>}
      /\ <<run', 1>> \notin cfg'.unsampled => <<run', "trace">> \in obs'.handles
  BY BeginEffect DEF Effect, Begin
<1>3. \A h \in obs'.handles : h[1] <= run'
  <2>1. \A h \in obs.handles : h[1] <= run /\ h[1] \in Nat
    BY DEF HandlesInv, TypeInv, Observer
  <2> QED
    BY <1>1, <1>2, <2>1
<1>4. \A h \in obs'.handles : h[1] = run' => h \in Allowed'
  <2>1. \A h \in obs.handles : h[1] # run'
    BY <1>1 DEF HandlesInv
  <2> QED
    BY <1>2, <2>1 DEF Allowed
<1>5. ASSUME NEW r \in 1..run', ending'[r] = "finished", r \notin obs'.cut, NEW h \in obs'.handles
      PROVE  h[1] # r
  <2>1. r # run' /\ r \in 1..run /\ ending[r] = "finished"
    BY <1>1, <1>5 DEF TypeInv
  <2> QED
    BY <1>2, <1>5, <2>1 DEF HandlesInv
<1> QED
  BY <1>2, <1>3, <1>4, <1>5 DEF HandlesInv

\* No stage is named as the trace.
LEMMA SpansAreStages ==
  ASSUME TypeInv, ControlInv
  PROVE  \A stage \in SpanStages : stage # Absent /\ stage # "trace"
PROOF
  BY TrailAssumption DEF SpanStages

\* Every step of a run keeps the handles.
LEMMA RunStepHandles ==
  ASSUME TypeInv, ControlInv, HandlesInv, RunStep
  PROVE  HandlesInv'
PROOF
<1>1. CASE Begin
  BY <1>1, HandlesAtBegin
<1>2. CASE ContextBuilt
  <2>1. run' = run /\ cfg' = cfg /\ pc # "idle" /\ pc' # "idle" /\ ending' = ending /\ span' = span
    BY <1>2 DEF ContextBuilt, Spending, Goto
  <2>2. Effect({<<run, "context_build">>}, {<<run, "context_build">>}, {<<run, "context_build">>}, FALSE)
    BY <1>2, ContextBuiltEffect
  <2> QED
    BY <2>1, <2>2, HandlesWithin
<1>3. CASE FastPathDisabled
  <2>1. run' = run /\ cfg' = cfg /\ pc # "idle" /\ pc' # "idle" /\ ending' = ending /\ span' = span
    BY <1>3 DEF FastPathDisabled, Spending, Goto
  <2>2. Effect({<<run, "fast_path">>}, {<<run, "fast_path">>}, {<<run, "fast_path">>}, FALSE)
    BY <1>3, FastPathDisabledEffect
  <2> QED
    BY <2>1, <2>2, HandlesWithin
<1>4. CASE OpenFastPath
  <2>1. run' = run /\ cfg' = cfg /\ pc # "idle" /\ pc' # "idle" /\ ending' = ending /\ span' = "fast_path" /\ span = Absent
    BY <1>4 DEF OpenFastPath, OpenStage, Goto, ControlInv
  <2>2. Effect({<<run, "fast_path">>}, {}, {}, FALSE)
    <3>1. OpenStage("fast_path") /\ "fast_path" \in SpanStages
      BY <1>4 DEF OpenFastPath, SpanStages
    <3> QED
      BY <3>1, OpenStageEffect
  <2>3. "fast_path" # Absent
    BY TrailAssumption
  <2> QED
    BY <2>1, <2>2, <2>3, HandlesOpening
<1>5. CASE OpenPrimary
  <2>1. run' = run /\ cfg' = cfg /\ pc # "idle" /\ pc' # "idle" /\ ending' = ending /\ span' = "primary_review" /\ span = Absent
    BY <1>5 DEF OpenPrimary, OpenStage, Goto, ControlInv
  <2>2. Effect({<<run, "primary_review">>}, {}, {}, FALSE)
    <3>1. OpenStage("primary_review") /\ "primary_review" \in SpanStages
      BY <1>5 DEF OpenPrimary, SpanStages
    <3> QED
      BY <3>1, OpenStageEffect
  <2>3. "primary_review" # Absent
    BY TrailAssumption
  <2> QED
    BY <2>1, <2>2, <2>3, HandlesOpening
<1>6. CASE Generate
  <2>1. run' = run /\ cfg' = cfg /\ pc # "idle" /\ pc' # "idle" /\ ending' = ending /\ span' = span
    BY <1>6 DEF Generate
  <2>2. Effect({}, {}, {}, TRUE)
    BY <1>6, GenerateEffect
  <2> QED
    BY <2>1, <2>2, HandlesPlain
<1>7. CASE FastPathDone
  <2>1. run' = run /\ cfg' = cfg /\ pc # "idle" /\ pc' # "idle" /\ ending' = ending /\ span' = Absent
    BY <1>7 DEF FastPathDone, Spending, Goto
  <2>2. span \in SpanStages /\ Effect({}, {<<run, span>>}, {<<run, span>>}, FALSE)
    BY <1>7, ClosingEffect
  <2>3. span # Absent /\ span # "trace"
    BY <2>2, SpansAreStages
  <2> QED
    BY <2>1, <2>2, <2>3, HandlesClosing
<1>8. CASE Audited
  <2>1. run' = run /\ cfg' = cfg /\ pc # "idle" /\ pc' # "idle" /\ ending' = ending /\ span' = span
    BY <1>8 DEF Audited, Spending, Goto
  <2>2. Effect({}, {}, {}, FALSE)
    BY <1>8, SilentEffect
  <2> QED
    BY <2>1, <2>2, HandlesPlain
<1>9. CASE ProviderFallback
  <2>1. run' = run /\ cfg' = cfg /\ pc # "idle" /\ pc' # "idle" /\ ending' = ending /\ span' = span
    BY <1>9 DEF ProviderFallback, job
  <2>2. Effect({}, {}, {}, FALSE)
    BY <1>9, ProviderFallbackEffect
  <2> QED
    BY <2>1, <2>2, HandlesPlain
<1>10. CASE PrimaryDone
  <2>1. run' = run /\ cfg' = cfg /\ pc # "idle" /\ pc' # "idle" /\ ending' = ending /\ span' = Absent
    BY <1>10 DEF PrimaryDone, Spending, Goto
  <2>2. span \in SpanStages /\ Effect({}, {<<run, span>>}, {<<run, span>>}, FALSE)
    BY <1>10, ClosingEffect
  <2>3. span # Absent /\ span # "trace"
    BY <2>2, SpansAreStages
  <2> QED
    BY <2>1, <2>2, <2>3, HandlesClosing
<1>11. CASE ValidatedByRunner
  <2>1. run' = run /\ cfg' = cfg /\ pc # "idle" /\ pc' # "idle" /\ ending' = ending /\ span' = span
    BY <1>11 DEF ValidatedByRunner, Spending, Goto
  <2>2. Effect({}, {}, {}, FALSE)
    BY <1>11, ValidatedByRunnerEffect
  <2> QED
    BY <2>1, <2>2, HandlesPlain
<1>12. CASE ValidatedByPipeline
  <2>1. run' = run /\ cfg' = cfg /\ pc # "idle" /\ pc' # "idle" /\ ending' = ending /\ span' = span
    BY <1>12 DEF ValidatedByPipeline, Spending, Goto
  <2>2. Effect({<<run, "validation">>}, {<<run, "validation">>}, {<<run, "validation">>}, FALSE)
    BY <1>12, ValidatedByPipelineEffect
  <2> QED
    BY <2>1, <2>2, HandlesWithin
<1>13. CASE PrimaryClosed
  <2>1. run' = run /\ cfg' = cfg /\ pc # "idle" /\ pc' # "idle" /\ ending' = ending /\ span' = Absent
    BY <1>13 DEF PrimaryClosed, Spending, Goto
  <2>2. span \in SpanStages /\ Effect({}, {<<run, span>>}, {<<run, span>>}, FALSE)
    BY <1>13, ClosingEffect
  <2>3. span # Absent /\ span # "trace"
    BY <2>2, SpansAreStages
  <2> QED
    BY <2>1, <2>2, <2>3, HandlesClosing
<1>14. CASE EditedByRunner
  <2>1. run' = run /\ cfg' = cfg /\ pc # "idle" /\ pc' # "idle" /\ ending' = ending /\ span' = span
    BY <1>14, Zenon DEF EditedByRunner, Goto
  <2>2. Effect({}, {}, {}, FALSE)
    BY <1>14, EditedByRunnerEffect
  <2> QED
    BY <2>1, <2>2, HandlesPlain
<1>15. CASE OpenEditor
  <2>1. run' = run /\ cfg' = cfg /\ pc # "idle" /\ pc' # "idle" /\ ending' = ending /\ span' = "editor" /\ span = Absent
    BY <1>15 DEF OpenEditor, OpenStage, Goto, ControlInv
  <2>2. Effect({<<run, "editor">>}, {}, {}, FALSE)
    <3>1. OpenStage("editor") /\ "editor" \in SpanStages
      BY <1>15 DEF OpenEditor, SpanStages
    <3> QED
      BY <3>1, OpenStageEffect
  <2>3. "editor" # Absent
    BY TrailAssumption
  <2> QED
    BY <2>1, <2>2, <2>3, HandlesOpening
<1>16. CASE EditorDone
  <2>1. run' = run /\ cfg' = cfg /\ pc # "idle" /\ pc' # "idle" /\ ending' = ending /\ span' = Absent
    BY <1>16 DEF EditorDone, Spending, Goto
  <2>2. span \in SpanStages /\ Effect({}, {<<run, span>>}, {<<run, span>>}, FALSE)
    BY <1>16, ClosingEffect
  <2>3. span # Absent /\ span # "trace"
    BY <2>2, SpansAreStages
  <2> QED
    BY <2>1, <2>2, <2>3, HandlesClosing
<1>17. CASE EditorSkipped
  <2>1. run' = run /\ cfg' = cfg /\ pc # "idle" /\ pc' # "idle" /\ ending' = ending /\ span' = span
    BY <1>17 DEF EditorSkipped, Spending, Goto
  <2>2. Effect({}, {}, {}, FALSE)
    BY <1>17, SilentEffect
  <2> QED
    BY <2>1, <2>2, HandlesPlain
<1>18. CASE Deliver
  <2>1. run' = run /\ cfg' = cfg /\ pc # "idle" /\ pc' # "idle" /\ ending' = ending /\ span' = span
    BY <1>18, Zenon DEF Deliver, Spending, Goto
  <2>2. CASE Effect({}, {}, {}, FALSE)
    BY <2>1, <2>2, HandlesPlain
  <2>3. CASE Effect({<<run, "delivery">>}, {<<run, "delivery">>}, {<<run, "delivery">>}, FALSE)
    BY <2>1, <2>3, HandlesWithin
  <2> QED
    BY <1>18, <2>2, <2>3, DeliverEffect
<1>19. CASE Finish
  <2>1. /\ run' = run /\ pc # "idle" /\ pc' = "idle" /\ run > 0 /\ span = Absent
        /\ ending' = [ending EXCEPT ![run] = "finished"]
    BY <1>19 DEF Finish, EndRun, Spending, Goto, ControlInv
  <2>2. Effect({}, {<<run, "trace">>}, {<<run, "trace">>}, FALSE)
    BY <1>19, FinishEffect
  <2>3. Allowed \subseteq {<<run, "trace">>}
    BY <2>1, TrailAssumption DEF Allowed
  <2> QED
    BY <2>1, <2>2, <2>3, HandlesAtEnd
<1>20. CASE PrimaryFailed
  <2>1. /\ run' = run /\ pc # "idle" /\ pc' = "idle" /\ run > 0 /\ span = "primary_review"
        /\ ending' = [ending EXCEPT ![run] = "finished"]
    BY <1>20 DEF PrimaryFailed, EndRun, Spending, Goto, ControlInv
  <2>2. Effect({}, {<<run, "primary_review">>, <<run, "trace">>}, {<<run, "primary_review">>, <<run, "trace">>}, FALSE)
    BY <1>20, PrimaryFailedEffect
  <2>3. Allowed \subseteq {<<run, "primary_review">>, <<run, "trace">>}
    BY <2>1, TrailAssumption DEF Allowed
  <2> QED
    BY <2>1, <2>2, <2>3, HandlesAtEnd
<1>21. CASE Abort
  <2>1. /\ run' = run /\ pc # "idle" /\ pc' = "idle" /\ run > 0
        /\ \E how \in {"raised", "abandoned"} : ending' = [ending EXCEPT ![run] = how]
    BY <1>21 DEF Abort, EndRun, Spending, Goto, ControlInv
  <2>2. Effect({}, {<<run, "trace">>}, {}, FALSE)
    BY <1>21, AbortEffect
  <2>3. PICK how \in {"raised", "abandoned"} : ending' = [ending EXCEPT ![run] = how]
    BY <2>1
  <2>4. how # "finished"
    BY <2>3
  <2> QED
    BY <2>1, <2>2, <2>3, <2>4, HandlesAtEnd
<1>22. CASE Classify
  <2>1. run' = run /\ cfg' = cfg /\ pc = "idle" /\ pc' = "idle" /\ ending' = ending
    BY <1>22, Zenon DEF Classify, job
  <2>2. obs.cut \subseteq obs'.cut /\ obs'.handles \subseteq obs.handles
    BY <1>22, ClassifyEffect DEF Effect
  <2> QED
    BY <2>1, <2>2 DEF HandlesInv
<1> QED
  BY <1>1, <1>2, <1>3, <1>4, <1>5, <1>6, <1>7, <1>8, <1>9, <1>10, <1>11, <1>12,
     <1>13, <1>14, <1>15, <1>16, <1>17, <1>18, <1>19, <1>20, <1>21, <1>22 DEF RunStep

-----------------------------------------------------------------------------
(* A step of a run keeps the account *)

\* The size of a set covered by two others.
LEMMA CoveredBy ==
  ASSUME NEW S, IsFiniteSet(S), NEW T, IsFiniteSet(T), NEW U, U \subseteq S \union T
  PROVE  /\ IsFiniteSet(U) /\ Cardinality(U) \in Nat /\ Cardinality(S) \in Nat /\ Cardinality(T) \in Nat
         /\ Cardinality(U) <= Cardinality(S) + Cardinality(T)
PROOF
<1>1. /\ IsFiniteSet(S \union T)
      /\ Cardinality(S \union T) = Cardinality(S) + Cardinality(T) - Cardinality(S \cap T)
  BY FS_Union
<1>2. IsFiniteSet(S \cap T)
  BY FS_Subset
<1>3. IsFiniteSet(U) /\ Cardinality(U) <= Cardinality(S \union T)
  BY <1>1, FS_Subset
<1>4. /\ Cardinality(S) \in Nat /\ Cardinality(T) \in Nat /\ Cardinality(S \cap T) \in Nat
      /\ Cardinality(U) \in Nat /\ Cardinality(S \union T) \in Nat
  BY <1>1, <1>2, <1>3, FS_CardinalityType
<1> QED
  BY <1>1, <1>3, <1>4

\* A row of n tokens has n units.
LEMMA BlockSize ==
  ASSUME NEW i, NEW n \in Nat
  PROVE  IsFiniteSet({i} \X (1..n)) /\ Cardinality({i} \X (1..n)) = n
PROOF
<1>1. IsFiniteSet({i}) /\ Cardinality({i}) = 1
  BY FS_Singleton
<1>2. IsFiniteSet(1..n) /\ Cardinality(1..n) = n
  BY FS_Interval
<1>3. /\ IsFiniteSet({i} \X (1..n))
      /\ Cardinality({i} \X (1..n)) = Cardinality({i}) * Cardinality(1..n)
  BY <1>1, <1>2, FS_Product
<1> QED
  BY <1>1, <1>2, <1>3

\* The sizes the account speaks of are numbers.
LEMMA PendingIsFinite ==
  ASSUME TypeInv, NEW r
  PROVE  IsFiniteSet(Pending(r)) /\ Cardinality(Pending(r)) \in Nat
PROOF
<1>1. Pending(r) \subseteq obs.tasks /\ IsFiniteSet(obs.tasks)
  BY DEF Pending, TypeInv
<1> QED
  BY <1>1, FS_Subset, FS_CardinalityType

LEMMA BudgetIsNat ==
  ASSUME TypeInv, NEW r \in 1..cfg.runs
  PROVE  spent[r] \in Nat /\ Booked(r) \in Nat /\ Budget(r) \in Nat
PROOF
<1>0. MaxCalls \in Nat
  BY TrailAssumption
<1>1. spent[r] \in 0..MaxCalls /\ snapshot \in 0..MaxCalls
  BY DEF TypeInv
<1> QED
  BY <1>0, <1>1 DEF Booked, Budget

\* What is true of most steps: nothing is spent or booked.
Saves ==
  /\ spent' = spent /\ rows' = rows
  /\ pc' = "calls" => IF pc = "calls" THEN run' = run /\ snapshot' = snapshot
                      ELSE snapshot' = spent[run']

\* All steps but the three that spend or book.
LEMMA RunStepSaves ==
  ASSUME TypeInv, ControlInv, RunStep
  PROVE  Saves \/ Generate \/ Audited \/ EditedByRunner
PROOF
<1>1. CASE Begin
  BY <1>1 DEF Begin, Goto, Database, Saves
<1>2. CASE ContextBuilt
  BY <1>2 DEF ContextBuilt, Spending, Goto, Database, Saves
<1>3. CASE FastPathDisabled
  BY <1>3 DEF FastPathDisabled, Spending, Goto, Database, Saves
<1>4. CASE OpenFastPath
  BY <1>4 DEF OpenFastPath, OpenStage, Goto, Database, Saves
<1>5. CASE OpenPrimary
  BY <1>5 DEF OpenPrimary, OpenStage, Goto, Database, Saves
<1>6. CASE Generate
  BY <1>6
<1>7. CASE FastPathDone
  BY <1>7 DEF FastPathDone, Spending, Goto, Database, Saves
<1>8. CASE Audited
  BY <1>8
<1>9. CASE ProviderFallback
  BY <1>9 DEF ProviderFallback, job, Saves
<1>10. CASE PrimaryDone
  BY <1>10 DEF PrimaryDone, Spending, Goto, Database, Saves
<1>11. CASE ValidatedByRunner
  BY <1>11 DEF ValidatedByRunner, Spending, Goto, Database, Saves
<1>12. CASE ValidatedByPipeline
  BY <1>12 DEF ValidatedByPipeline, Spending, Goto, Database, Saves
<1>13. CASE PrimaryClosed
  BY <1>13 DEF PrimaryClosed, Spending, Goto, Database, Saves
<1>14. CASE EditedByRunner
  BY <1>14
<1>15. CASE OpenEditor
  BY <1>15 DEF OpenEditor, OpenStage, Goto, Database, Saves
<1>16. CASE EditorDone
  BY <1>16 DEF EditorDone, Spending, Goto, Database, Saves
<1>17. CASE EditorSkipped
  BY <1>17 DEF EditorSkipped, Spending, Goto, Database, Saves
<1>18. CASE Deliver
  <2>1. spent' = spent /\ UNCHANGED Database /\ pc' = "finish"
    BY <1>18, Zenon DEF Deliver, Spending, Goto
  <2> QED
    BY <2>1 DEF Database, Saves
<1>19. CASE Finish
  BY <1>19 DEF Finish, EndRun, Spending, Goto, Database, Saves
<1>20. CASE PrimaryFailed
  BY <1>20 DEF PrimaryFailed, EndRun, Spending, Goto, Database, Saves
<1>21. CASE Abort
  BY <1>21 DEF Abort, EndRun, Spending, Goto, Database, Saves
<1>22. CASE Classify
  <2>1. spent' = spent /\ UNCHANGED Database /\ pc' = pc /\ pc = "idle"
    BY <1>22, Zenon DEF Classify, job
  <2> QED
    BY <2>1 DEF Database, Saves
<1> QED
  BY <1>1, <1>2, <1>3, <1>4, <1>5, <1>6, <1>7, <1>8, <1>9, <1>10, <1>11, <1>12,
     <1>13, <1>14, <1>15, <1>16, <1>17, <1>18, <1>19, <1>20, <1>21, <1>22 DEF RunStep

\* Tasks that are added have read nothing, so they hold no tokens.
LEMMA UnitsOfRows ==
  ASSUME Grows, rows' = rows, NEW r
  PROVE  Units(r)' = Units(r)
PROOF
<1>1. {u \in obs'.tasks : u.copy \notin Unread /\ u.event.run = r}
        = {u \in obs.tasks : u.copy \notin Unread /\ u.event.run = r}
  BY DEF Grows, Unread
<1>2. Copied(r)' = Copied(r)
  BY <1>1, Zenon DEF Copied
<1>3. Held(r)' = Held(r)
  BY DEF Held
<1> QED
  BY <1>2, <1>3 DEF Units

LEMMA PendingOfNoCalls ==
  ASSUME Grows, NoCalls, NEW r
  PROVE  Pending(r)' = Pending(r)
PROOF
  BY DEF Grows, NoCalls, Pending

\* Those steps keep the account: the budget never shrinks.
LEMMA SavesAccount ==
  ASSUME TypeInv, ControlInv, AccountInv, cfg' = cfg, Saves, Grows, NoCalls
  PROVE  AccountInv'
PROOF
<1> SUFFICES ASSUME NEW r \in 1..cfg.runs
             PROVE  /\ IsFiniteSet(Units(r)')
                    /\ Cardinality(Units(r)') + Cardinality(Pending(r)') <= Budget(r)'
  BY DEF AccountInv
<1>1. Units(r)' = Units(r) /\ Pending(r)' = Pending(r)
  BY UnitsOfRows, PendingOfNoCalls DEF Saves
<1>2. IsFiniteSet(Units(r)) /\ Cardinality(Units(r)) + Cardinality(Pending(r)) <= Budget(r)
  BY DEF AccountInv
<1>3. /\ spent[r] \in Nat /\ snapshot \in Nat /\ Booked(r) \in Nat
      /\ Cardinality(Units(r)) \in Nat /\ Cardinality(Pending(r)) \in Nat
  BY <1>2, BudgetIsNat, PendingIsFinite, FS_CardinalityType DEF TypeInv
<1>4. Booked(r)' \in Nat /\ Booked(r) <= Booked(r)'
  BY <1>3 DEF Booked, Saves, ControlInv
<1>5. Budget(r)' \in Nat /\ Budget(r) <= Budget(r)'
  BY <1>3, <1>4 DEF Budget, Saves
<1> QED
  BY <1>1, <1>2, <1>3, <1>5, BudgetIsNat

\* A call is one token spent and at most one task of the sink.
LEMMA GenerateTask ==
  ASSUME TypeInv, ControlInv, Generate
  PROVE  \E t : t.event.run = run /\ obs'.tasks \subseteq obs.tasks \union {t}
PROOF
<1> DEFINE e == Event("generation", span)
<1>1. obs' = DispatchAll(obs, <<e>>)
  BY DEF Generate, Emit, Observe
<1>2. e \in EventType /\ e.run = run
  BY SpanKnown, Known, EventsOf DEF Generate
<1>3. Watching(obs) /\ Capped(obs) /\ run \in Nat /\ cfg \in Settings
  BY RunIsNat DEF TypeInv, Watching, Capped
<1> HIDE DEF e
<1> DEFINE g == StepsOf(obs, <<e>>)
<1>4. g[0] = obs /\ g[1] = Dispatch(g[0], e) /\ DispatchAll(obs, <<e>>) = g[1]
  <2>1. Len(<<e>>) = 1 /\ <<e>>[1] = e /\ 0 \in 0..(1 - 1)
    OBVIOUS
  <2> QED
    BY <2>1, StepsOfUnfolds
<1>5. obs' = Dispatch(obs, e)
  BY <1>1, <1>4
<1>6. \A t, u \in obs'.tasks \ obs.tasks : t = u /\ t.event = e
  <2>1. ASSUME NEW p, p = Dispatch(obs, e)
        PROVE  \A t, u \in p.tasks \ obs.tasks : t = u /\ t.event = e
    <3>1. \A t \in p.tasks \ obs.tasks : t.event = e
      BY <1>2, <1>3, <2>1, DispatchType
    <3>2. \A t, u \in p.tasks \ obs.tasks : t = u
      BY <1>2, <1>3, <2>1, DispatchType
    <3> QED
      BY <3>1, <3>2
  <2> QED
    BY <1>5, <2>1
<1>7. CASE obs'.tasks \subseteq obs.tasks
  <2> DEFINE t == [event |-> [run |-> run]]
  <2>1. t.event.run = run
    OBVIOUS
  <2> QED
    BY <1>7, <2>1
<1>8. CASE ~(obs'.tasks \subseteq obs.tasks)
  <2>1. PICK t : t \in obs'.tasks \ obs.tasks
    BY <1>8
  <2> QED
    BY <1>2, <1>6, <2>1
<1> QED
  BY <1>7, <1>8

\* A call raises the budget by one wherever it adds a task.
LEMMA GenerateAccount ==
  ASSUME TypeInv, ControlInv, AccountInv, Generate
  PROVE  AccountInv'
PROOF
<1>0. RunStep
  BY DEF RunStep
<1>1. /\ cfg' = cfg /\ run' = run /\ pc' = pc /\ snapshot' = snapshot /\ rows' = rows
      /\ spent' = [spent EXCEPT ![run] = @ + 1] /\ run \in 1..cfg.runs /\ spent[run] \in Nat
  BY SpentIsNat DEF Generate, Database, ControlInv
<1>2. Grows
  BY <1>0, RunStepGrows
<1>3. PICK t : t.event.run = run /\ obs'.tasks \subseteq obs.tasks \union {t}
  BY GenerateTask
<1> SUFFICES ASSUME NEW r \in 1..cfg.runs
             PROVE  /\ IsFiniteSet(Units(r)')
                    /\ Cardinality(Units(r)') + Cardinality(Pending(r)') <= Budget(r)'
  BY <1>1 DEF AccountInv
<1>4. Units(r)' = Units(r)
  BY <1>1, <1>2, UnitsOfRows
<1>5. IsFiniteSet(Units(r)) /\ Cardinality(Units(r)) + Cardinality(Pending(r)) <= Budget(r)
  BY DEF AccountInv
<1>6. /\ spent[r] \in Nat /\ snapshot \in Nat /\ Booked(r) \in Nat /\ Budget(r) \in Nat
      /\ Cardinality(Units(r)) \in Nat /\ Cardinality(Pending(r)) \in Nat /\ IsFiniteSet(Pending(r))
  BY <1>5, BudgetIsNat, PendingIsFinite, FS_CardinalityType DEF TypeInv
<1>7. CASE r = run /\ cfg.db
  <2>1. Pending(r)' \subseteq Pending(r) \union {t}
    BY <1>3 DEF Pending
  <2>2. IsFiniteSet({t}) /\ Cardinality({t}) = 1
    BY FS_Singleton
  <2>3. Cardinality(Pending(r)') \in Nat /\ Cardinality(Pending(r)') <= Cardinality(Pending(r)) + 1
    BY <1>6, <2>1, <2>2, CoveredBy
  <2>4. spent'[r] = spent[r] + 1
    BY <1>1, <1>7 DEF TypeInv
  <2>5. Booked(r)' \in Nat /\ Booked(r) <= Booked(r)'
    BY <1>1, <1>6, <2>4 DEF Booked
  <2>6. Budget(r)' \in Nat /\ Budget(r) + 1 <= Budget(r)'
    BY <1>1, <1>6, <1>7, <2>4, <2>5 DEF Budget
  <2> QED
    BY <1>4, <1>5, <1>6, <2>3, <2>6
<1>8. CASE ~(r = run /\ cfg.db)
  <2>1. Pending(r)' = Pending(r)
    <3>1. \A u \in obs'.tasks \ obs.tasks : cfg.db /\ u = t
      BY <1>2, <1>3 DEF Grows
    <3>2. obs.tasks \subseteq obs'.tasks
      BY <1>2 DEF Grows
    <3> QED
      BY <1>3, <1>8, <3>1, <3>2 DEF Pending
  <2>2. spent'[r] \in Nat /\ spent[r] <= spent'[r]
    BY <1>1, <1>6 DEF TypeInv
  <2>3. Booked(r)' \in Nat /\ Booked(r) <= Booked(r)'
    BY <1>1, <1>6, <2>2 DEF Booked
  <2>4. Budget(r)' \in Nat /\ Budget(r) <= Budget(r)'
    BY <1>1, <1>6, <2>2, <2>3 DEF Budget
  <2> QED
    BY <1>4, <1>5, <1>6, <2>1, <2>4
<1> QED
  BY <1>7, <1>8

\* A row of the runner holds what the budget grew by.
LEMMA BookedAccount ==
  ASSUME TypeInv, AccountInv, cfg' = cfg, run' = run, run \in 1..cfg.runs, Grows, NoCalls,
         NEW n \in Nat, Appends(n),
         \A r \in 1..cfg.runs : /\ Budget(r)' \in Nat
                                /\ Budget(r) + (IF r = run THEN n ELSE 0) <= Budget(r)'
  PROVE  AccountInv'
PROOF
<1> SUFFICES ASSUME NEW r \in 1..cfg.runs
             PROVE  /\ IsFiniteSet(Units(r)')
                    /\ Cardinality(Units(r)') + Cardinality(Pending(r)') <= Budget(r)'
  BY DEF AccountInv
<1>1. PICK row \in Row : row.run = run /\ row.tokens = n /\ rows' = Append(rows, row)
  BY DEF Appends
<1> DEFINE m == IF r = run THEN n ELSE 0
           new == {Len(rows) + 1} \X (1..m)
<1>2. m \in Nat /\ IsFiniteSet(new) /\ Cardinality(new) = m
  BY BlockSize
<1>3. Held(r)' \subseteq Held(r) \union new
  <2>1. rows \in Seq(Row)
    BY DEF TypeInv
  <2>2. /\ DOMAIN rows' = DOMAIN rows \union {Len(rows) + 1}
        /\ \A i \in DOMAIN rows : rows'[i] = rows[i]
        /\ rows'[Len(rows) + 1] = row
    BY <1>1, <2>1
  <2> SUFFICES ASSUME NEW i \in DOMAIN rows', rows'[i].run = r, NEW x \in {i} \X (1..rows'[i].tokens)
               PROVE  x \in Held(r) \union new
    BY DEF Held
  <2>3. CASE i \in DOMAIN rows
    BY <2>2, <2>3 DEF Held
  <2>4. CASE i \notin DOMAIN rows
    <3>1. i = Len(rows) + 1 /\ rows'[i] = row
      BY <2>2, <2>4
    <3> QED
      BY <1>1, <3>1
  <2> QED
    BY <2>3, <2>4
<1>4. Copied(r)' = Copied(r)
  <2>1. {u \in obs'.tasks : u.copy \notin Unread /\ u.event.run = r}
          = {u \in obs.tasks : u.copy \notin Unread /\ u.event.run = r}
    BY DEF Grows, Unread
  <2> QED
    BY <2>1, Zenon DEF Copied
<1>5. Units(r)' \subseteq Units(r) \union new
  BY <1>3, <1>4 DEF Units
<1>6. IsFiniteSet(Units(r)) /\ Cardinality(Units(r)) + Cardinality(Pending(r)) <= Budget(r)
  BY DEF AccountInv
<1> HIDE DEF new, m
<1>7. /\ IsFiniteSet(Units(r)') /\ Cardinality(Units(r)') \in Nat /\ Cardinality(Units(r)) \in Nat
      /\ Cardinality(Units(r)') <= Cardinality(Units(r)) + m
  BY <1>2, <1>5, <1>6, CoveredBy
<1>8. Pending(r)' = Pending(r) /\ Cardinality(Pending(r)) \in Nat
  BY PendingOfNoCalls, PendingIsFinite
<1>9. Budget(r) \in Nat /\ Budget(r)' \in Nat /\ Budget(r) + m <= Budget(r)'
  BY BudgetIsNat DEF m
<1> QED
  BY <1>2, <1>6, <1>7, <1>8, <1>9

\* The runner's stages and its editor.
LEMMA AuditedAccount ==
  ASSUME TypeInv, ControlInv, AccountInv, Audited
  PROVE  AccountInv'
PROOF
<1>0. RunStep
  BY DEF RunStep
<1>1. /\ cfg' = cfg /\ run' = run /\ pc = "calls" /\ pc' # "calls" /\ cfg.engine = "runner"
      /\ spent' = spent /\ snapshot' = snapshot
  BY DEF Audited, Spending, Goto
<1>2. run \in 1..cfg.runs /\ spent[run] \in Nat /\ snapshot \in Nat
  BY <1>1, SpentIsNat DEF ControlInv, TypeInv
<1> DEFINE n == spent[run] - snapshot
<1>3. n \in Nat /\ Appends(n)
  BY AuditedRow
<1>4. Grows /\ NoCalls
  BY SilentEffect, EffectGrows
<1>5. ASSUME NEW r \in 1..cfg.runs
      PROVE  Budget(r)' \in Nat /\ Budget(r) + (IF r = run THEN n ELSE 0) <= Budget(r)'
  <2>1. spent[r] \in Nat
    BY BudgetIsNat
  <2> QED
    BY <1>1, <1>2, <2>1 DEF Budget, Booked
<1> HIDE DEF n
<1> QED
  BY <1>1, <1>2, <1>3, <1>4, <1>5, BookedAccount

LEMMA EditedAccount ==
  ASSUME TypeInv, ControlInv, AccountInv, EditedByRunner
  PROVE  AccountInv'
PROOF
<1>1. cfg' = cfg /\ run' = run /\ pc = "edit" /\ pc' = "deliver" /\ cfg.engine = "runner"
  BY Zenon DEF EditedByRunner, Goto
<1>2. run \in 1..cfg.runs /\ spent[run] \in Nat
  BY <1>1, SpentIsNat DEF ControlInv
<1>3. PICK n \in Nat : spent' = [spent EXCEPT ![run] = @ + n] /\ Appends(n)
  BY EditedRow
<1>4. Grows /\ NoCalls
  BY EditedByRunnerEffect, EffectGrows
<1>5. ASSUME NEW r \in 1..cfg.runs
      PROVE  Budget(r)' \in Nat /\ Budget(r) + (IF r = run THEN n ELSE 0) <= Budget(r)'
  <2>1. spent[r] \in Nat
    BY BudgetIsNat
  <2>2. spent'[r] = spent[r] + (IF r = run THEN n ELSE 0)
    BY <1>3, <2>1 DEF TypeInv
  <2>3. Booked(r) = spent[r] /\ Booked(r)' = spent'[r]
    BY <1>1 DEF Booked
  <2> QED
    BY <1>1, <2>1, <2>2, <2>3 DEF Budget
<1> QED
  BY <1>1, <1>2, <1>3, <1>4, <1>5, BookedAccount

\* Every step of a run keeps the account.
LEMMA RunStepAccount ==
  ASSUME TypeInv, ControlInv, AccountInv, RunStep
  PROVE  AccountInv'
PROOF
<1>1. CASE Generate
  BY <1>1, GenerateAccount
<1>2. CASE Audited
  BY <1>2, AuditedAccount
<1>3. CASE EditedByRunner
  BY <1>3, EditedAccount
<1>4. CASE ~Generate /\ Saves
  <2>1. Grows /\ NoCalls
    BY <1>4, RunStepGrows
  <2>2. cfg' = cfg
    BY RunStepFrame
  <2> QED
    BY <1>4, <2>1, <2>2, SavesAccount
<1> QED
  BY <1>1, <1>2, <1>3, <1>4, RunStepSaves

-----------------------------------------------------------------------------
(* What a task of the database sink reads and writes *)

\* What a task makes of a row: the key stays, a call adds a token, a diagnostic is listed or
\* its list marked, and nothing listed is lost.
LEMMA PersistedRow ==
  ASSUME NEW row \in Row, NEW t \in Task, NEW new, new = Edited(row, t)
  PROVE  /\ new \in Row /\ new.run = row.run /\ new.stage = row.stage
         /\ new.tokens = row.tokens + (IF t.event.kind = "generation" THEN 1 ELSE 0)
         /\ \A k \in Diagnostics : row.meta.lists[k] \subseteq new.meta.lists[k]
         /\ row.meta.truncated \subseteq new.meta.truncated
         /\ t.event.kind \in Diagnostics =>
              t.id \in new.meta.lists[t.event.kind] \/ t.event.kind \in new.meta.truncated
PROOF
<1> DEFINE kind == t.event.kind
           meta == row.meta
<1>1. /\ row.run \in Nat /\ row.stage \in Names /\ row.tokens \in Nat /\ meta \in Metas /\ ShortLists(meta)
      /\ row = [run |-> row.run, stage |-> row.stage, tokens |-> row.tokens, meta |-> meta]
  BY DEF Row
<1>2. t.id \in Nat /\ kind \in Persisted
  BY DEF Task
<1>3. /\ meta.lists \in [Diagnostics -> SUBSET Nat] /\ meta.truncated \subseteq Diagnostics
      /\ meta.errors \subseteq Nat
      /\ meta = [lists |-> meta.lists, truncated |-> meta.truncated, errors |-> meta.errors]
  BY <1>1 DEF Metas
<1>4. "generation" \notin Diagnostics /\ "error" \notin Diagnostics /\ "stage_end" \notin Diagnostics
  BY DEF Diagnostics
<1>5. CASE kind = "generation"
  <2>1. new = [row EXCEPT !.tokens = @ + 1]
    BY <1>4, <1>5 DEF Edited
  <2> QED
    BY <1>1, <1>4, <1>5, <2>1 DEF Row
<1>6. CASE kind \in Diagnostics
  <2> DEFINE m == AppendItem(meta, t)
  <2>1. new = [row EXCEPT !.meta = m]
    BY <1>4, <1>6 DEF Edited
  <2>2. /\ m \in Metas /\ ShortLists(m)
        /\ \A k \in Diagnostics : meta.lists[k] \subseteq m.lists[k]
        /\ meta.truncated \subseteq m.truncated
        /\ t.id \in m.lists[kind] \/ kind \in m.truncated
    <3>1. CASE Cardinality(meta.lists[kind]) < MaxItems
      <4> DEFINE l == [meta.lists EXCEPT ![kind] = @ \union {t.id}]
      <4>1. m = [meta EXCEPT !.lists = l]
        BY <3>1 DEF AppendItem
      <4>2. l \in [Diagnostics -> SUBSET Nat]
        BY <1>2, <1>3, <1>6
      <4>3. /\ l[kind] = meta.lists[kind] \union {t.id}
            /\ \A k \in Diagnostics : k # kind => l[k] = meta.lists[k]
        BY <1>3, <1>6
      <4> HIDE DEF l, m, meta, kind
      <4>4. m.lists = l /\ m.truncated = meta.truncated /\ m \in Metas
        BY <1>3, <4>1, <4>2 DEF Metas
      <4>5. IsFiniteSet(l[kind]) /\ Cardinality(l[kind]) <= MaxItems
        <5>1. IsFiniteSet(meta.lists[kind])
          BY <1>1, <1>6 DEF ShortLists
        <5>2. IsFiniteSet(l[kind]) /\ Cardinality(l[kind]) <= Cardinality(meta.lists[kind]) + 1
          BY <4>3, <5>1, FS_AddElement, FS_CardinalityType
        <5>3. Cardinality(l[kind]) \in Nat /\ Cardinality(meta.lists[kind]) \in Nat /\ MaxItems \in Nat
          BY <5>1, <5>2, FS_CardinalityType, TrailAssumption
        <5> QED
          BY <3>1, <5>2, <5>3
      <4>6. ShortLists(m)
        BY <1>1, <4>3, <4>4, <4>5 DEF ShortLists
      <4> QED
        BY <4>3, <4>4, <4>6
    <3>2. CASE ~(Cardinality(meta.lists[kind]) < MaxItems)
      <4> DEFINE c == meta.truncated \union {kind}
      <4>1. m = [meta EXCEPT !.truncated = c]
        BY <3>2 DEF AppendItem
      <4>2. c \in SUBSET Diagnostics
        BY <1>3, <1>6
      <4>3. meta.truncated \subseteq c /\ kind \in c
        OBVIOUS
      <4> HIDE DEF c, m, meta, kind
      <4>4. m.lists = meta.lists /\ m.truncated = c /\ m \in Metas
        BY <1>3, <4>1, <4>2 DEF Metas
      <4>5. ShortLists(m)
        BY <1>1, <4>4 DEF ShortLists
      <4> QED
        BY <4>3, <4>4, <4>5
    <3> QED
      BY <3>1, <3>2
  <2> HIDE DEF m
  <2>3. /\ new.run = row.run /\ new.stage = row.stage /\ new.tokens = row.tokens /\ new.meta = m
        /\ new \in Row
    BY <1>1, <2>1, <2>2 DEF Row
  <2> QED
    BY <1>1, <1>4, <1>6, <2>2, <2>3
<1>7. CASE kind = "error"
  <2>0. new = IF meta.errors = {} THEN [row EXCEPT !.meta.errors = {t.id}] ELSE row
    BY <1>4, <1>7 DEF Edited
  <2>1. CASE new = row
    BY <1>1, <1>4, <1>7, <2>1
  <2>2. CASE new = [row EXCEPT !.meta.errors = {t.id}]
    <3> DEFINE m == [meta EXCEPT !.errors = {t.id}]
    <3>1. m.lists = meta.lists /\ m.truncated = meta.truncated /\ m \in Metas
      BY <1>2, <1>3 DEF Metas
    <3>2. ShortLists(m)
      BY <1>1, <3>1 DEF ShortLists
    <3>3. new = [row EXCEPT !.meta = m]
      BY <2>2
    <3> HIDE DEF m
    <3>4. /\ new.run = row.run /\ new.stage = row.stage /\ new.tokens = row.tokens /\ new.meta = m
          /\ new \in Row
      BY <1>1, <3>1, <3>2, <3>3 DEF Row
    <3> QED
      BY <1>1, <1>4, <1>7, <3>1, <3>4
  <2> QED
    BY <2>0, <2>1, <2>2
<1>8. CASE kind = "stage_end"
  <2>1. new = row
    BY <1>4, <1>8 DEF Edited
  <2> QED
    BY <1>1, <1>4, <1>8, <2>1
<1> QED
  BY <1>2, <1>5, <1>6, <1>7, <1>8 DEF Persisted

\* The task that took the row and the one that writes it.
LEMMA TaskType ==
  ASSUME TypeInv, CopyInv, NEW t \in obs.tasks
  PROVE  /\ t \in Task /\ t.id \in Nat /\ t.event.run \in Nat /\ t.event.run <= run
         /\ t.event.stage \in Names /\ t.event.kind \in Persisted
         /\ t.copy \notin Unread => /\ t.copy[1] \in DOMAIN rows /\ t.copy[2] \in Row
                                    /\ rows[t.copy[1]].run = t.event.run
                                    /\ rows[t.copy[1]].stage = t.event.stage
PROOF
<1>1. t \in Task
  BY DEF TypeInv, Observer
<1>2. /\ t.id \in Nat /\ t.event.run \in Nat /\ t.event.stage \in Names /\ t.event.kind \in Persisted
      /\ t.copy \notin Unread => t.copy[2] \in Row
  BY <1>1 DEF Task
<1> QED
  BY <1>1, <1>2 DEF CopyInv

\* Reading a row: the task is replaced by one that holds the row.
LEMMA ReadIs ==
  ASSUME TypeInv, CopyInv, NEW t \in obs.tasks, Read(t)
  PROVE  \E u \in Task :
           /\ u.id = t.id /\ u.event = t.event /\ t.copy = <<>>
           /\ u.copy \notin Unread => u.copy[1] \in RowsOf(t.event) /\ u.copy[2] = rows[u.copy[1]]
           /\ obs' = [obs EXCEPT !.tasks = (@ \ {t}) \union {u}]
PROOF
<1>1. PICK found \in IF RowsOf(t.event) = {} THEN {<<"none">>}
                     ELSE {<<i, rows[i]>> : i \in RowsOf(t.event)} :
        obs' = [obs EXCEPT !.tasks = (@ \ {t}) \union {[t EXCEPT !.copy = found]}]
  BY DEF Read
<1> DEFINE u == [t EXCEPT !.copy = found]
<1>2. t \in Task
  BY TaskType
<1>3. \/ found = <<"none">>
      \/ found[1] \in RowsOf(t.event) /\ found[2] = rows[found[1]] /\ found \in Nat \X Row
  <2>1. CASE RowsOf(t.event) = {}
    BY <2>1
  <2>2. CASE RowsOf(t.event) # {}
    <3>1. PICK i \in RowsOf(t.event) : found = <<i, rows[i]>>
      BY <2>2
    <3>2. i \in Nat /\ rows[i] \in Row
      BY DEF RowsOf, TypeInv
    <3> QED
      BY <3>1, <3>2
  <2> QED
    BY <2>1, <2>2
<1>4. found \in Unread \union (Nat \X Row)
  BY <1>3 DEF Unread
<1>5. u \in Task /\ u.id = t.id /\ u.event = t.event /\ u.copy = found
  BY <1>2, <1>4 DEF Task
<1>6. t.copy = <<>>
  BY DEF Read
<1>7. obs' = [obs EXCEPT !.tasks = (@ \ {t}) \union {u}]
  BY <1>1
<1> HIDE DEF u
<1> QED
  BY <1>3, <1>5, <1>6, <1>7 DEF Unread

\* What a commit writes: the row i of the task's key, new or with the tokens the task saw.
Listed(t, new) ==
  t.event.kind \in Diagnostics =>
    t.id \in new.meta.lists[t.event.kind] \/ t.event.kind \in new.meta.truncated
Keeps(old, new) ==
  /\ \A k \in Diagnostics : old.meta.lists[k] \subseteq new.meta.lists[k]
  /\ old.meta.truncated \subseteq new.meta.truncated
Written(t, i, new) ==
  /\ new.run = t.event.run /\ new.stage = t.event.stage /\ Listed(t, new)
  /\ rows' \in Seq(Row) /\ DOMAIN rows' = DOMAIN rows \union {i} /\ rows'[i] = new
  /\ \A j \in DOMAIN rows \ {i} : rows'[j] = rows[j]
  /\ i \notin DOMAIN rows => new.tokens = IF t.event.kind = "generation" THEN 1 ELSE 0
  /\ i \in DOMAIN rows =>
       /\ t.copy \notin Unread /\ t.copy[1] = i
       /\ t.event.kind = "generation" => new.tokens = t.copy[2].tokens + 1
       /\ t.event.kind # "generation" => new.tokens = rows[i].tokens
       /\ rows[i] = t.copy[2] => Keeps(rows[i], new)
       /\ Key(t.event) \notin disturbed' => rows[i] = t.copy[2]

\* A row that is new, and a row that is written over.
LEMMA InsertWrites ==
  ASSUME TypeInv, CopyInv, NEW t \in obs.tasks, t.copy = <<"none">>, rows' = Insert(t)
  PROVE  \E i \in Nat, new \in Row : Written(t, i, new)
PROOF
<1> DEFINE blank == [run |-> t.event.run, stage |-> t.event.stage, tokens |-> 0, meta |-> EmptyMeta]
           new == Edited(blank, t)
           i == Len(rows) + 1
<1>1. t \in Task /\ t.event.run \in Nat /\ t.event.stage \in Names
  BY TaskType
<1>2. blank \in Row
  BY <1>1, EmptyMetaType DEF Row
<1>3. rows' = Append(rows, new) /\ rows \in Seq(Row)
  BY DEF Insert, TypeInv
<1>4. blank.run = t.event.run /\ blank.stage = t.event.stage /\ blank.tokens = 0
  OBVIOUS
<1> HIDE DEF blank
<1>5. /\ new \in Row /\ new.run = blank.run /\ new.stage = blank.stage
      /\ new.tokens = blank.tokens + (IF t.event.kind = "generation" THEN 1 ELSE 0)
      /\ Listed(t, new)
  BY <1>1, <1>2, PersistedRow DEF Listed
<1> HIDE DEF new
<1>6. /\ i \in Nat /\ i \notin DOMAIN rows
      /\ rows' \in Seq(Row) /\ DOMAIN rows' = DOMAIN rows \union {i} /\ rows'[i] = new
      /\ \A j \in DOMAIN rows \ {i} : rows'[j] = rows[j]
  BY <1>3, <1>5
<1> HIDE DEF i
<1>7. Written(t, i, new)
  BY <1>4, <1>5, <1>6 DEF Written
<1> QED
  BY <1>5, <1>6, <1>7

LEMMA UpdateWrites ==
  ASSUME TypeInv, CopyInv, NEW t \in obs.tasks, t.copy \notin Unread, rows' = Update(t),
         disturbed' = IF rows[t.copy[1]] # t.copy[2] THEN disturbed \union {Key(t.event)} ELSE disturbed
  PROVE  \E i \in Nat, new \in Row : Written(t, i, new)
PROOF
<1> DEFINE i == t.copy[1]
           copy == t.copy[2]
           old == rows[i]
           edited == Edited(copy, t)
           new == [old EXCEPT
                     !.tokens = IF edited.tokens = copy.tokens THEN @ ELSE edited.tokens,
                     !.meta = IF t.event.kind = "error" /\ edited = copy THEN @ ELSE edited.meta]
<1>1. /\ t \in Task /\ t.event.run \in Nat /\ t.event.stage \in Names
      /\ i \in DOMAIN rows /\ copy \in Row /\ old.run = t.event.run /\ old.stage = t.event.stage
  BY TaskType
<1>2. rows \in Seq(Row) /\ old \in Row /\ i \in Nat
  BY <1>1 DEF TypeInv
<1>3. rows' = [rows EXCEPT ![i] = new]
  BY DEF Update
<1> HIDE DEF copy, i
<1>4. /\ edited \in Row
      /\ edited.tokens = copy.tokens + (IF t.event.kind = "generation" THEN 1 ELSE 0)
      /\ Keeps(copy, edited) /\ Listed(t, edited)
  BY <1>1, PersistedRow DEF Listed, Keeps
<1> HIDE DEF edited
<1>5. copy.tokens \in Nat /\ edited.tokens \in Nat
  BY <1>1, <1>4 DEF Row
<1> HIDE DEF old
<1> DEFINE tokens == IF edited.tokens = copy.tokens THEN old.tokens ELSE edited.tokens
           meta == IF t.event.kind = "error" /\ edited = copy THEN old.meta ELSE edited.meta
<1>6. /\ new = [old EXCEPT !.tokens = tokens, !.meta = meta]
      /\ tokens \in Nat /\ meta \in {m \in Metas : ShortLists(m)}
  BY <1>2, <1>4, <1>5 DEF Row
<1>7. new \in Row /\ new.run = old.run /\ new.stage = old.stage /\ new.tokens = tokens /\ new.meta = meta
  <2> HIDE DEF tokens, meta, new
  <2> QED
    BY <1>2, <1>6 DEF Row
<1>8. /\ t.event.kind = "generation" => new.tokens = copy.tokens + 1
      /\ t.event.kind # "generation" => new.tokens = old.tokens
  BY <1>4, <1>5, <1>7
<1>9. Listed(t, new)
  <2>1. CASE t.event.kind \in Diagnostics
    <3>1. meta = edited.meta
      BY <2>1 DEF Diagnostics
    <3> HIDE DEF meta, new
    <3> QED
      BY <1>4, <1>7, <3>1 DEF Listed
  <2> QED
    BY <2>1 DEF Listed
<1>10. old = copy => Keeps(old, new)
  <2>1. meta = old.meta \/ meta = edited.meta
    OBVIOUS
  <2> HIDE DEF meta, new
  <2> QED
    BY <1>4, <1>7, <2>1 DEF Keeps
<1>11. Key(t.event) \notin disturbed' => old = copy
  BY DEF i, copy, old
<1> HIDE DEF new, tokens, meta
<1>12. /\ rows' \in Seq(Row) /\ DOMAIN rows' = DOMAIN rows \union {i} /\ rows'[i] = new
       /\ \A j \in DOMAIN rows \ {i} : rows'[j] = rows[j]
  <2>1. i \in 1..Len(rows) /\ new \in Row
    BY <1>1, <1>2, <1>7
  <2>2. /\ rows' \in Seq(Row) /\ Len(rows') = Len(rows)
        /\ \A j \in 1..Len(rows) : rows'[j] = IF j = i THEN new ELSE rows[j]
    BY <1>2, <1>3, <2>1, ExceptSeq
  <2>3. DOMAIN rows' = 1..Len(rows') /\ DOMAIN rows = 1..Len(rows)
    BY <1>2, <2>2
  <2> QED
    BY <1>1, <2>2, <2>3
<1>13. Written(t, i, new)
  BY <1>1, <1>7, <1>8, <1>9, <1>10, <1>11, <1>12 DEF Written, i, copy, old
<1> QED
  BY <1>2, <1>7, <1>13

LEMMA CommitWrites ==
  ASSUME TypeInv, CopyInv, NEW t \in obs.tasks, Commit(t)
  PROVE  \/ rows' = rows /\ t.event.kind \notin Creates
         \/ \E i \in Nat, new \in Row : Written(t, i, new)
PROOF
<1>1. CASE t.copy = <<"none">>
  <2>1. CASE t.event.kind \in Creates
    BY <1>1, <2>1, InsertWrites DEF Commit
  <2>2. CASE t.event.kind \notin Creates
    BY <1>1, <2>2 DEF Commit
  <2> QED
    BY <2>1, <2>2
<1>2. CASE t.copy # <<"none">>
  <2>1. t.copy \notin Unread /\ rows' = Update(t)
    BY <1>2 DEF Commit, Unread
  <2>2. disturbed' = IF rows[t.copy[1]] # t.copy[2] THEN disturbed \union {Key(t.event)} ELSE disturbed
    BY <1>2 DEF Commit
  <2> QED
    BY <2>1, <2>2, UpdateWrites
<1> QED
  BY <1>1, <1>2

-----------------------------------------------------------------------------
(* The steps of the sink *)

\* A step of the sink replaces the task t: by nothing, or by one that differs in its copy.
Replaces(t, more) ==
  /\ UNCHANGED <<job, told, ending>>
  /\ obs' = [obs EXCEPT !.tasks = (@ \ {t}) \union more]

LEMMA SinkFrame ==
  ASSUME TypeInv, ControlInv, HandlesInv, NEW t, NEW more \in SUBSET Task, IsFiniteSet(more), Replaces(t, more),
         rows' \in Seq(Row), \A i \in DOMAIN rows' : rows'[i].run <= run
  PROVE  TypeInv' /\ ControlInv' /\ HandlesInv' /\ obs'.tasks = (obs.tasks \ {t}) \union more
         /\ run' = run /\ cfg' = cfg /\ \A r : Budget(r)' = Budget(r)
PROOF
<1>1. /\ cfg' = cfg /\ pc' = pc /\ run' = run /\ spent' = spent /\ snapshot' = snapshot /\ span' = span
      /\ told' = told /\ ending' = ending
  BY DEF Replaces, job
<1>2. obs \in Observer /\ IsFiniteSet(obs.tasks)
  BY DEF TypeInv
<1> DEFINE tasks == (obs.tasks \ {t}) \union more
<1>3. tasks \in SUBSET Task /\ IsFiniteSet(tasks)
  <2>1. IsFiniteSet(obs.tasks \ {t})
    BY <1>2, FS_RemoveElement
  <2>2. obs.tasks \in SUBSET Task
    BY <1>2 DEF Observer
  <2> QED
    BY <2>1, <2>2, FS_Union
<1>4. obs' = [obs EXCEPT !.tasks = tasks]
  BY DEF Replaces
<1> HIDE DEF tasks
<1>5. /\ obs' \in Observer /\ obs'.tasks = tasks /\ obs'.count = obs.count
      /\ obs'.handles = obs.handles /\ obs'.cut = obs.cut
  BY <1>2, <1>3, <1>4 DEF Observer
<1>6. TypeInv'
  BY <1>1, <1>3, <1>5 DEF TypeInv
<1>7. ControlInv'
  BY <1>1 DEF ControlInv
<1>8. HandlesInv'
  BY <1>1, <1>5 DEF HandlesInv, Allowed
<1>9. \A r : Budget(r)' = Budget(r)
  BY <1>1 DEF Budget, Booked
<1> QED
  BY <1>1, <1>5, <1>6, <1>7, <1>8, <1>9 DEF tasks

\* A task that reads a row may write no token the row does not hold.
LEMMA ReadKeeps ==
  ASSUME IInv, NEW t \in obs.tasks, Read(t)
  PROVE  IInv'
PROOF
<1>0. TypeInv /\ ControlInv /\ HandlesInv /\ CopyInv /\ AccountInv /\ DiagnosticsInv
  BY DEF IInv
<1>1. PICK u \in Task :
        /\ u.id = t.id /\ u.event = t.event /\ t.copy = <<>>
        /\ u.copy \notin Unread => u.copy[1] \in RowsOf(t.event) /\ u.copy[2] = rows[u.copy[1]]
        /\ obs' = [obs EXCEPT !.tasks = (@ \ {t}) \union {u}]
  BY <1>0, ReadIs
<1>2. rows' = rows /\ disturbed' = disturbed /\ told' = told /\ Replaces(t, {u})
  BY <1>1 DEF Read, Replaces
<1>3. /\ TypeInv' /\ ControlInv' /\ HandlesInv' /\ obs'.tasks = (obs.tasks \ {t}) \union {u}
      /\ run' = run /\ cfg' = cfg /\ \A r : Budget(r)' = Budget(r)
  <2>1. IsFiniteSet({u}) /\ {u} \in SUBSET Task
    BY FS_Singleton
  <2>2. rows' \in Seq(Row) /\ \A i \in DOMAIN rows' : rows'[i].run <= run
    BY <1>0, <1>2 DEF TypeInv
  <2> QED
    BY <1>0, <1>2, <2>1, <2>2, SinkFrame
<1>4. CopyInv'
  <2>1. u.event.run <= run
    BY <1>0, <1>1 DEF CopyInv
  <2>2. u.copy \notin Unread =>
          /\ u.copy[1] \in DOMAIN rows
          /\ rows[u.copy[1]].run = u.event.run /\ rows[u.copy[1]].stage = u.event.stage
    BY <1>1 DEF RowsOf
  <2> QED
    BY <1>0, <1>2, <1>3, <2>1, <2>2 DEF CopyInv
<1>5. ASSUME NEW r \in 1..cfg.runs
      PROVE  /\ IsFiniteSet(Units(r)')
             /\ Cardinality(Units(r)') + Cardinality(Pending(r)') <= Budget(r)'
  <2>1. /\ IsFiniteSet(Units(r)) /\ Cardinality(Units(r)) + Cardinality(Pending(r)) <= Budget(r)
        /\ IsFiniteSet(Pending(r)) /\ Cardinality(Pending(r)) \in Nat /\ Budget(r) \in Nat
    BY <1>0, PendingIsFinite, BudgetIsNat DEF AccountInv
  <2>2. Units(r)' \subseteq Units(r)
    <3>1. Held(r)' = Held(r)
      BY <1>2 DEF Held
    <3> SUFFICES ASSUME NEW v \in obs'.tasks, v.copy \notin Unread, v.event.run = r,
                        NEW x \in {v.copy[1]} \X (1..v.copy[2].tokens)
                 PROVE  x \in Units(r)
      BY <3>1 DEF Units, Copied
    <3>2. CASE v \in obs.tasks
      BY <3>2 DEF Units, Copied
    <3>3. CASE v = u
      <4>1. v.copy[1] \in DOMAIN rows /\ rows[v.copy[1]].run = r /\ v.copy[2] = rows[v.copy[1]]
        BY <1>1, <3>3 DEF RowsOf
      <4>2. x \in Held(r)
        BY <4>1 DEF Held
      <4> QED
        BY <4>2 DEF Units
    <3> QED
      BY <1>3, <3>2, <3>3
  <2>3. IsFiniteSet(Units(r)') /\ Cardinality(Units(r)') <= Cardinality(Units(r))
    BY <2>1, <2>2, FS_Subset
  <2>4. /\ Cardinality(Units(r)') \in Nat /\ Cardinality(Units(r)) \in Nat
        /\ Cardinality(Pending(r)') \in Nat /\ Cardinality(Pending(r)') <= Cardinality(Pending(r))
    <3>1. CASE t \in Pending(r)
      <4>1. Pending(r)' \subseteq (Pending(r) \ {t}) \union {u}
        BY <1>3 DEF Pending
      <4>2. IsFiniteSet(Pending(r) \ {t}) /\ Cardinality(Pending(r) \ {t}) = Cardinality(Pending(r)) - 1
        BY <2>1, <3>1, FS_RemoveElement
      <4>3. IsFiniteSet({u}) /\ Cardinality({u}) = 1
        BY FS_Singleton
      <4>4. /\ Cardinality(Pending(r)') \in Nat
            /\ Cardinality(Pending(r)') <= Cardinality(Pending(r) \ {t}) + Cardinality({u})
            /\ Cardinality(Pending(r) \ {t}) \in Nat
        BY <4>1, <4>2, <4>3, CoveredBy
      <4> QED
        BY <2>1, <2>3, <4>2, <4>3, <4>4, FS_CardinalityType
    <3>2. CASE t \notin Pending(r)
      <4>1. Pending(r)' \subseteq Pending(r)
        BY <1>1, <1>3, <3>2 DEF Pending
      <4> QED
        BY <2>1, <2>3, <4>1, FS_Subset, FS_CardinalityType
    <3> QED
      BY <3>1, <3>2
  <2> QED
    BY <1>3, <2>1, <2>3, <2>4
<1>6. AccountInv'
  BY <1>3, <1>5 DEF AccountInv
<1>7. DiagnosticsInv'
  <2> SUFFICES ASSUME NEW d \in told, d.row \notin disturbed
               PROVE  InTask(d)' \/ InRow(d)'
    BY <1>2 DEF DiagnosticsInv
  <2>1. InRow(d) => InRow(d)'
    BY <1>2 DEF InRow
  <2>2. InTask(d) => InTask(d)'
    BY <1>1, <1>3 DEF InTask
  <2> QED
    BY <1>0, <2>1, <2>2 DEF DiagnosticsInv
<1> QED
  BY <1>3, <1>4, <1>6, <1>7 DEF IInv

\* A failed session loses its task, and its key counts as disturbed.
LEMMA FailKeeps ==
  ASSUME IInv, NEW t \in obs.tasks, Fail(t)
  PROVE  IInv'
PROOF
<1>0. TypeInv /\ ControlInv /\ HandlesInv /\ CopyInv /\ AccountInv /\ DiagnosticsInv
  BY DEF IInv
<1>1. /\ rows' = rows /\ disturbed' = disturbed \union {Key(t.event)} /\ told' = told
      /\ Replaces(t, {})
  <2>1. obs' = [obs EXCEPT !.tasks = (@ \ {t}) \union {}]
    BY DEF Fail
  <2> QED
    BY <2>1 DEF Fail, Replaces
<1>2. /\ TypeInv' /\ ControlInv' /\ HandlesInv' /\ obs'.tasks = obs.tasks \ {t}
      /\ run' = run /\ cfg' = cfg /\ \A r : Budget(r)' = Budget(r)
  <2>1. IsFiniteSet({}) /\ {} \in SUBSET Task
    BY FS_EmptySet
  <2>2. rows' \in Seq(Row) /\ \A i \in DOMAIN rows' : rows'[i].run <= run
    BY <1>0, <1>1 DEF TypeInv
  <2>3. /\ TypeInv' /\ ControlInv' /\ HandlesInv' /\ obs'.tasks = (obs.tasks \ {t}) \union {}
        /\ run' = run /\ cfg' = cfg /\ \A r : Budget(r)' = Budget(r)
    BY <1>0, <1>1, <2>1, <2>2, SinkFrame
  <2> QED
    BY <2>3
<1>3. CopyInv'
  BY <1>0, <1>1, <1>2 DEF CopyInv
<1>4. ASSUME NEW r \in 1..cfg.runs
      PROVE  /\ IsFiniteSet(Units(r)')
             /\ Cardinality(Units(r)') + Cardinality(Pending(r)') <= Budget(r)'
  <2>1. /\ IsFiniteSet(Units(r)) /\ Cardinality(Units(r)) + Cardinality(Pending(r)) <= Budget(r)
        /\ IsFiniteSet(Pending(r)) /\ Budget(r) \in Nat
    BY <1>0, PendingIsFinite, BudgetIsNat DEF AccountInv
  <2>2. Units(r)' \subseteq Units(r)
    BY <1>1, <1>2 DEF Units, Held, Copied
  <2>3. Pending(r)' \subseteq Pending(r)
    BY <1>2 DEF Pending
  <2>4. IsFiniteSet(Units(r)') /\ Cardinality(Units(r)') <= Cardinality(Units(r))
    BY <2>1, <2>2, FS_Subset
  <2>5. IsFiniteSet(Pending(r)') /\ Cardinality(Pending(r)') <= Cardinality(Pending(r))
    BY <2>1, <2>3, FS_Subset
  <2>6. /\ Cardinality(Units(r)') \in Nat /\ Cardinality(Units(r)) \in Nat
        /\ Cardinality(Pending(r)') \in Nat /\ Cardinality(Pending(r)) \in Nat
    BY <2>1, <2>4, <2>5, FS_CardinalityType
  <2> QED
    BY <1>2, <2>1, <2>4, <2>5, <2>6
<1>5. AccountInv'
  BY <1>2, <1>4 DEF AccountInv
<1>6. DiagnosticsInv'
  <2> SUFFICES ASSUME NEW d \in told, d.row \notin disturbed, d.row # Key(t.event)
               PROVE  InTask(d)' \/ InRow(d)'
    BY <1>1 DEF DiagnosticsInv
  <2>1. InRow(d) => InRow(d)'
    BY <1>1 DEF InRow
  <2>2. InTask(d) => InTask(d)'
    BY <1>2 DEF InTask
  <2> QED
    BY <1>0, <2>1, <2>2 DEF DiagnosticsInv
<1> QED
  BY <1>2, <1>3, <1>5, <1>6 DEF IInv

\* A commit turns the task's call into at most one token more.
LEMMA CommitUnits ==
  ASSUME TypeInv, CopyInv, NEW t \in obs.tasks, Commit(t), obs'.tasks = obs.tasks \ {t},
         NEW i \in Nat, NEW new \in Row, Written(t, i, new), NEW r
  PROVE  /\ Units(r)' \subseteq Units(r) \union {<<i, new.tokens>>}
         /\ t.event.kind # "generation" \/ t.event.run # r => Units(r)' \subseteq Units(r)
PROOF
<1> DEFINE calls == t.event.kind = "generation" /\ t.event.run = r
<1>1. Copied(r)' \subseteq Copied(r)
  BY DEF Copied
<1>2. ASSUME NEW j \in DOMAIN rows', rows'[j].run = r, NEW x \in {j} \X (1..rows'[j].tokens)
      PROVE  x \in Units(r) \/ (calls /\ x = <<i, new.tokens>>)
  <2>1. CASE j # i
    <3>1. j \in DOMAIN rows /\ rows'[j] = rows[j]
      BY <2>1 DEF Written
    <3>2. x \in Held(r)
      BY <1>2, <3>1 DEF Held
    <3> QED
      BY <3>2 DEF Units
  <2>2. CASE j = i /\ i \notin DOMAIN rows
    <3>1. rows'[j] = new /\ new.run = t.event.run
      BY <2>2 DEF Written
    <3>2. new.tokens = IF t.event.kind = "generation" THEN 1 ELSE 0
      BY <2>2 DEF Written
    <3> QED
      BY <1>2, <2>2, <3>1, <3>2
  <2>3. CASE j = i /\ i \in DOMAIN rows
    <3>1. /\ rows'[j] = new /\ new.run = t.event.run
          /\ t.copy \notin Unread /\ t.copy[1] = i
      BY <2>3 DEF Written
    <3>2. t.event.run = r /\ rows[i].run = r
      BY <1>2, <3>1, TaskType
    <3>3. CASE t.event.kind = "generation"
      <4>1. new.tokens = t.copy[2].tokens + 1 /\ t.copy[2].tokens \in Nat
        BY <2>3, <3>1, <3>3, TaskType DEF Written, Row
      <4>2. PICK k \in 1..(t.copy[2].tokens + 1) : x = <<i, k>>
        BY <2>3, <3>1, <4>1
      <4>3. CASE k = new.tokens
        BY <3>2, <3>3, <4>2, <4>3
      <4>4. CASE k # new.tokens
        <5>1. x \in {t.copy[1]} \X (1..t.copy[2].tokens)
          BY <3>1, <4>1, <4>2, <4>4
        <5>2. x \in Copied(r)
          BY <3>1, <3>2, <5>1 DEF Copied
        <5> QED
          BY <5>2 DEF Units
      <4> QED
        BY <4>3, <4>4
    <3>4. CASE t.event.kind # "generation"
      <4>1. new.tokens = rows[i].tokens
        BY <2>3, <3>4 DEF Written
      <4>2. x \in Held(r)
        BY <2>3, <3>1, <3>2, <4>1 DEF Held
      <4> QED
        BY <4>2 DEF Units
    <3> QED
      BY <3>3, <3>4
  <2> QED
    BY <2>1, <2>2, <2>3
<1>3. \A x \in Held(r)' : x \in Units(r) \/ (calls /\ x = <<i, new.tokens>>)
  BY <1>2 DEF Held
<1> QED
  BY <1>1, <1>3 DEF Units

\* A commit keeps the account: the task's call becomes the token.
LEMMA CommitAccount ==
  ASSUME TypeInv, CopyInv, AccountInv, NEW t \in obs.tasks, Commit(t), obs'.tasks = obs.tasks \ {t},
         cfg' = cfg, \A r : Budget(r)' = Budget(r)
  PROVE  AccountInv'
PROOF
<1> SUFFICES ASSUME NEW r \in 1..cfg.runs
             PROVE  /\ IsFiniteSet(Units(r)')
                    /\ Cardinality(Units(r)') + Cardinality(Pending(r)') <= Budget(r)'
  BY DEF AccountInv
<1>1. /\ IsFiniteSet(Units(r)) /\ Cardinality(Units(r)) + Cardinality(Pending(r)) <= Budget(r)
      /\ IsFiniteSet(Pending(r)) /\ Budget(r) \in Nat
  BY PendingIsFinite, BudgetIsNat DEF AccountInv
<1>2. /\ IsFiniteSet(Pending(r) \ {t}) /\ Pending(r)' = Pending(r) \ {t}
      /\ Cardinality(Pending(r) \ {t})
           = IF t \in Pending(r) THEN Cardinality(Pending(r)) - 1 ELSE Cardinality(Pending(r))
  BY <1>1, FS_RemoveElement DEF Pending
<1>3. /\ Cardinality(Units(r)) \in Nat /\ Cardinality(Pending(r)) \in Nat
      /\ Cardinality(Pending(r)') \in Nat
  BY <1>1, <1>2, FS_CardinalityType
<1>4. CASE Units(r)' \subseteq Units(r)
  <2>1. /\ IsFiniteSet(Units(r)') /\ Cardinality(Units(r)') <= Cardinality(Units(r))
        /\ Cardinality(Units(r)') \in Nat
    BY <1>1, <1>4, FS_Subset, FS_CardinalityType
  <2> QED
    BY <1>1, <1>2, <1>3, <2>1
<1>5. CASE t \in Pending(r) /\ \E x : Units(r)' \subseteq Units(r) \union {x}
  <2>1. PICK x : Units(r)' \subseteq Units(r) \union {x}
    BY <1>5
  <2>2. IsFiniteSet({x}) /\ Cardinality({x}) = 1
    BY FS_Singleton
  <2>3. /\ IsFiniteSet(Units(r)') /\ Cardinality(Units(r)') \in Nat
        /\ Cardinality(Units(r)') <= Cardinality(Units(r)) + 1
    BY <1>1, <2>1, <2>2, CoveredBy
  <2> QED
    BY <1>1, <1>2, <1>3, <1>5, <2>3
<1>6. CASE rows' = rows
  <2>1. Units(r)' \subseteq Units(r)
    BY <1>6 DEF Units, Held, Copied
  <2> QED
    BY <1>4, <2>1
<1>7. CASE \E i \in Nat, new \in Row : Written(t, i, new)
  <2>1. PICK i \in Nat : \E new \in Row : Written(t, i, new)
    BY <1>7
  <2>2. PICK new \in Row : Written(t, i, new)
    BY <2>1
  <2>3. CASE t.event.kind = "generation" /\ t.event.run = r
    <3>1. t \in Pending(r)
      BY <2>3 DEF Pending
    <3>2. Units(r)' \subseteq Units(r) \union {<<i, new.tokens>>}
      BY <2>2, CommitUnits
    <3> DEFINE x == <<i, new.tokens>>
    <3>3. Units(r)' \subseteq Units(r) \union {x}
      BY <3>2
    <3> HIDE DEF x
    <3> QED
      BY <1>5, <3>1, <3>3
  <2>4. CASE t.event.kind # "generation" \/ t.event.run # r
    <3>1. Units(r)' \subseteq Units(r)
      BY <2>2, <2>4, CommitUnits
    <3> QED
      BY <1>4, <3>1
  <2> QED
    BY <2>3, <2>4
<1> QED
  BY <1>6, <1>7, CommitWrites

\* A diagnostic stays in its row unless the commit overwrote one it had not read.
LEMMA CommitDiagnostics ==
  ASSUME TypeInv, CopyInv, DiagnosticsInv, NEW t \in obs.tasks, Commit(t),
         obs'.tasks = obs.tasks \ {t}, told' = told
  PROVE  DiagnosticsInv'
PROOF
<1>1. disturbed \subseteq disturbed'
  BY DEF Commit
<1> SUFFICES ASSUME NEW d \in told, d.row \notin disturbed'
             PROVE  InTask(d)' \/ InRow(d)'
  BY DEF DiagnosticsInv
<1>2. d.key \in Diagnostics
  BY DEF TypeInv
<1>3. InTask(d) \/ InRow(d)
  BY <1>1 DEF DiagnosticsInv
<1>4. CASE rows' = rows /\ t.event.kind \notin Creates
  <2>1. InRow(d) => InRow(d)'
    BY <1>4 DEF InRow
  <2>2. InTask(d) => InTask(d)'
    BY <1>2, <1>4 DEF InTask, Creates
  <2> QED
    BY <1>3, <2>1, <2>2
<1>5. CASE \E i \in Nat, new \in Row : Written(t, i, new)
  <2>1. PICK i \in Nat : \E new \in Row : Written(t, i, new)
    BY <1>5
  <2>2. PICK new \in Row : Written(t, i, new)
    BY <2>1
  <2>3. /\ i \in DOMAIN rows' /\ rows'[i] = new /\ <<new.run, new.stage>> = Key(t.event)
        /\ DOMAIN rows \subseteq DOMAIN rows'
    BY <2>2 DEF Written, Key
  <2>4. CASE InTask(d)
    <3>1. PICK u \in obs.tasks : u.id = d.id /\ u.event.kind = d.key /\ Key(u.event) = d.row
      BY <2>4 DEF InTask
    <3>2. CASE u = t
      <4>1. Listed(t, new)
        BY <2>2 DEF Written
      <4>2. d.id \in new.meta.lists[d.key] \/ d.key \in new.meta.truncated
        BY <1>2, <3>1, <3>2, <4>1 DEF Listed
      <4> QED
        BY <2>3, <3>1, <3>2, <4>2 DEF InRow
    <3>3. CASE u # t
      BY <3>1, <3>3 DEF InTask
    <3> QED
      BY <3>2, <3>3
  <2>5. CASE InRow(d)
    <3>1. PICK j \in DOMAIN rows :
            /\ <<rows[j].run, rows[j].stage>> = d.row
            /\ d.id \in rows[j].meta.lists[d.key] \/ d.key \in rows[j].meta.truncated
      BY <2>5 DEF InRow
    <3>2. CASE j # i
      <4>1. rows'[j] = rows[j] /\ j \in DOMAIN rows'
        BY <2>2, <2>3, <3>2 DEF Written
      <4> QED
        BY <3>1, <4>1 DEF InRow
    <3>3. CASE j = i
      <4>1. <<rows[i].run, rows[i].stage>> = Key(t.event)
        BY <2>2, <3>3, TaskType DEF Written, Key
      <4>2. Key(t.event) \notin disturbed'
        BY <3>1, <3>3, <4>1
      <4>3. Keeps(rows[i], new)
        BY <2>2, <3>3, <4>2 DEF Written
      <4>4. d.id \in new.meta.lists[d.key] \/ d.key \in new.meta.truncated
        BY <1>2, <3>1, <3>3, <4>3 DEF Keeps
      <4> QED
        BY <2>3, <3>1, <3>3, <4>1, <4>4 DEF InRow
    <3> QED
      BY <3>2, <3>3
  <2> QED
    BY <1>3, <2>4, <2>5
<1> QED
  BY <1>4, <1>5, CommitWrites

\* A commit keeps the invariant.
LEMMA CommitKeeps ==
  ASSUME IInv, NEW t \in obs.tasks, Commit(t)
  PROVE  IInv'
PROOF
<1>0. TypeInv /\ ControlInv /\ HandlesInv /\ CopyInv /\ AccountInv /\ DiagnosticsInv
  BY DEF IInv
<1>1. told' = told /\ Replaces(t, {})
  <2>1. obs' = [obs EXCEPT !.tasks = (@ \ {t}) \union {}]
    BY DEF Commit
  <2> QED
    BY <2>1 DEF Commit, Replaces
<1>2. /\ rows' \in Seq(Row) /\ \A i \in DOMAIN rows' : rows'[i].run <= run
      /\ DOMAIN rows \subseteq DOMAIN rows'
      /\ \A i \in DOMAIN rows : rows'[i].run = rows[i].run /\ rows'[i].stage = rows[i].stage
  <2>1. CASE rows' = rows
    BY <1>0, <2>1 DEF TypeInv
  <2>2. CASE \E i \in Nat, new \in Row : Written(t, i, new)
    <3>1. PICK i \in Nat : \E new \in Row : Written(t, i, new)
      BY <2>2
    <3>2. PICK new \in Row : Written(t, i, new)
      BY <3>1
    <3>3. /\ rows' \in Seq(Row) /\ DOMAIN rows' = DOMAIN rows \union {i} /\ rows'[i] = new
          /\ \A j \in DOMAIN rows \ {i} : rows'[j] = rows[j]
          /\ new.run = t.event.run /\ new.stage = t.event.stage
          /\ i \in DOMAIN rows => t.copy \notin Unread /\ t.copy[1] = i
      BY <3>2 DEF Written
    <3>4. /\ t.event.run <= run
          /\ i \in DOMAIN rows => rows[i].run = t.event.run /\ rows[i].stage = t.event.stage
      BY <1>0, <3>3, TaskType
    <3>5. \A j \in DOMAIN rows : rows[j].run <= run
      BY <1>0 DEF TypeInv
    <3> QED
      BY <3>3, <3>4, <3>5
  <2> QED
    BY <1>0, <2>1, <2>2, CommitWrites
<1>3. /\ TypeInv' /\ ControlInv' /\ HandlesInv' /\ obs'.tasks = obs.tasks \ {t}
      /\ run' = run /\ cfg' = cfg /\ \A r : Budget(r)' = Budget(r)
  <2>1. IsFiniteSet({}) /\ {} \in SUBSET Task
    BY FS_EmptySet
  <2>2. /\ TypeInv' /\ ControlInv' /\ HandlesInv' /\ obs'.tasks = (obs.tasks \ {t}) \union {}
        /\ run' = run /\ cfg' = cfg /\ \A r : Budget(r)' = Budget(r)
    BY <1>0, <1>1, <1>2, <2>1, SinkFrame
  <2> QED
    BY <2>2
<1>4. CopyInv'
  BY <1>0, <1>2, <1>3 DEF CopyInv
<1>5. AccountInv'
  BY <1>0, <1>3, CommitAccount
<1>6. DiagnosticsInv'
  BY <1>0, <1>1, <1>3, CommitDiagnostics
<1> QED
  BY <1>3, <1>4, <1>5, <1>6 DEF IInv

-----------------------------------------------------------------------------
(* The invariant and what follows from it *)

\* The invariant holds at the start, and every step keeps it.
LEMMA InitIInv == Init => IInv
PROOF
<1> SUFFICES ASSUME Init PROVE IInv
  OBVIOUS
<1>0. /\ cfg \in Settings /\ pc = "idle" /\ run = 0 /\ spent = [r \in 1..cfg.runs |-> 0] /\ snapshot = 0
      /\ span = Absent /\ obs = Quiet /\ rows = <<>> /\ told = {}
      /\ ending = [r \in 1..cfg.runs |-> "none"]
  BY DEF Init
<1>1. cfg.runs \in Nat /\ cfg.cap \in Nat /\ MaxCalls \in Nat
  BY <1>0, TrailAssumption
<1>2. obs \in Observer /\ obs.tasks = {} /\ obs.handles = {} /\ obs.count = Absent
  BY <1>0 DEF Quiet, Observer
<1>3. TypeInv
  BY <1>0, <1>1, <1>2, FS_EmptySet DEF TypeInv, Labels
<1>4. ControlInv
  BY <1>0 DEF ControlInv
<1>5. HandlesInv
  BY <1>0, <1>2 DEF HandlesInv
<1>6. CopyInv
  BY <1>2 DEF CopyInv
<1>7. AccountInv
  <2> SUFFICES ASSUME NEW r \in 1..cfg.runs
               PROVE  /\ IsFiniteSet(Units(r))
                      /\ Cardinality(Units(r)) + Cardinality(Pending(r)) <= Budget(r)
    BY DEF AccountInv
  <2>1. Units(r) = {}
    BY <1>0, <1>2 DEF Units, Held, Copied
  <2>2. Pending(r) = {}
    BY <1>2 DEF Pending
  <2>3. Budget(r) \in Nat
    BY <1>3, BudgetIsNat
  <2> QED
    BY <2>1, <2>2, <2>3, FS_EmptySet
<1>8. DiagnosticsInv
  BY <1>0 DEF DiagnosticsInv
<1> QED
  BY <1>3, <1>4, <1>5, <1>6, <1>7, <1>8 DEF IInv

LEMMA NextIInv == IInv /\ [Next]_vars => IInv'
PROOF
<1> SUFFICES ASSUME IInv, [Next]_vars PROVE IInv'
  OBVIOUS
<1>1. CASE RunStep
  <2>1. TypeInv /\ ControlInv /\ HandlesInv /\ CopyInv /\ AccountInv /\ DiagnosticsInv
    BY DEF IInv
  <2>2. TypeInv' /\ ControlInv'
    BY <1>1, <2>1, RunStepType, RunStepControl
  <2>3. HandlesInv' /\ CopyInv'
    BY <1>1, <2>1, RunStepHandles, RunStepCopies
  <2>4. AccountInv' /\ DiagnosticsInv'
    BY <1>1, <2>1, RunStepAccount, RunStepDiagnostics
  <2> QED
    BY <2>2, <2>3, <2>4 DEF IInv
<1>2. CASE SinkStep
  BY <1>2, ReadKeeps, CommitKeeps, FailKeeps DEF SinkStep
<1>3. CASE UNCHANGED vars
  <2>0. TypeInv /\ ControlInv /\ HandlesInv /\ CopyInv /\ AccountInv /\ DiagnosticsInv
    BY DEF IInv
  <2>1. /\ cfg' = cfg /\ pc' = pc /\ run' = run /\ spent' = spent /\ snapshot' = snapshot
        /\ span' = span /\ obs' = obs /\ rows' = rows /\ told' = told /\ disturbed' = disturbed
        /\ ending' = ending
    BY <1>3 DEF vars, job
  <2>2. TypeInv' /\ ControlInv' /\ CopyInv'
    BY <2>0, <2>1 DEF TypeInv, ControlInv, CopyInv
  <2>3. HandlesInv'
    BY <2>0, <2>1 DEF HandlesInv, Allowed
  <2>4. \A r : Units(r)' = Units(r) /\ Pending(r)' = Pending(r) /\ Budget(r)' = Budget(r)
    BY <2>1 DEF Units, Held, Copied, Pending, Budget, Booked
  <2>5. AccountInv'
    BY <2>0, <2>1, <2>4 DEF AccountInv
  <2>6. DiagnosticsInv'
    BY <2>0, <2>1 DEF DiagnosticsInv, InTask, InRow
  <2> QED
    BY <2>2, <2>3, <2>5, <2>6 DEF IInv
<1> QED
  BY <1>1, <1>2, <1>3 DEF Next

LEMMA SpecIInv == Spec => []IInv
PROOF
  BY InitIInv, NextIInv, PTL DEF Spec

\* In every reachable state the variables have their types: spans are open where calls are
\* made, the observer never counts past its cap, and no list of a row outgrows its limit.
THEOREM TypeCorrect == Spec => []TypeOK
PROOF
<1>1. IInv => TypeOK
  <2> SUFFICES ASSUME IInv PROVE TypeOK
    OBVIOUS
  <2>1. TypeInv /\ ControlInv
    BY DEF IInv
  <2>2. \A i \in DOMAIN rows :
          /\ rows[i].run \in 0..run /\ rows[i].tokens \in Nat
          /\ \A k \in Diagnostics : Cardinality(rows[i].meta.lists[k]) <= MaxItems
    <3> SUFFICES ASSUME NEW i \in DOMAIN rows
                 PROVE  /\ rows[i].run \in 0..run /\ rows[i].tokens \in Nat
                        /\ \A k \in Diagnostics : Cardinality(rows[i].meta.lists[k]) <= MaxItems
      OBVIOUS
    <3>1. rows[i] \in Row /\ rows[i].run <= run /\ run \in Nat
      BY <2>1, RunIsNat DEF TypeInv
    <3>2. rows[i].run \in Nat /\ rows[i].tokens \in Nat /\ ShortLists(rows[i].meta)
      BY <3>1 DEF Row
    <3> QED
      BY <3>1, <3>2 DEF ShortLists
  <2>3. (pc \in {"calls", "validated", "editing"}) => span # Absent
    BY <2>1, TrailAssumption DEF ControlInv
  <2> QED
    BY <2>1, <2>2, <2>3 DEF TypeInv, TypeOK, Labels
<1> QED
  BY <1>1, SpecIInv, PTL

\* Whatever the tasks of the database sink overwrite, repeat or lose, the audit rows of a run
\* never account for more than its calls cost, once in the runner's rows and once more in
\* those of the sink.
THEOREM RowsNeverOvercount == Spec => []AuditNeverOvercounts
PROOF
<1>1. IInv => AuditNeverOvercounts
  <2> SUFFICES ASSUME IInv, NEW r \in 1..run
               PROVE  TokensOf(r) <= spent[r] * (IF cfg.engine = "runner" /\ cfg.db THEN 2 ELSE 1)
    BY DEF AuditNeverOvercounts
  <2>1. TypeInv /\ ControlInv /\ AccountInv
    BY DEF IInv
  <2>2. r \in 1..cfg.runs
    BY <2>1, RunIsNat DEF TypeInv
  <2>3. IsFiniteSet(Units(r)) /\ Cardinality(Units(r)) + Cardinality(Pending(r)) <= Budget(r)
    BY <2>1, <2>2 DEF AccountInv
  <2>4. TokensOf(r) = Cardinality(Held(r)) /\ Held(r) \subseteq Units(r)
    BY DEF TokensOf, Held, Units
  <2>5. /\ Cardinality(Held(r)) <= Cardinality(Units(r)) /\ Cardinality(Held(r)) \in Nat
        /\ Cardinality(Units(r)) \in Nat
    BY <2>3, <2>4, FS_Subset, FS_CardinalityType
  <2>6. Cardinality(Pending(r)) \in Nat /\ spent[r] \in Nat /\ Booked(r) \in Nat /\ Budget(r) \in Nat
    BY <2>1, <2>2, PendingIsFinite, BudgetIsNat
  <2>7. Booked(r) <= spent[r]
    BY <2>1, <2>6 DEF Booked, ControlInv
  <2>8. Budget(r) <= spent[r] * (IF cfg.engine = "runner" /\ cfg.db THEN 2 ELSE 1)
    BY <2>6, <2>7 DEF Budget
  <2>9. TokensOf(r) <= Budget(r)
    BY <2>3, <2>4, <2>5, <2>6
  <2> DEFINE limit == spent[r] * (IF cfg.engine = "runner" /\ cfg.db THEN 2 ELSE 1)
  <2>10. limit \in Nat
    BY <2>6
  <2> HIDE DEF limit
  <2> QED
    BY <2>4, <2>5, <2>6, <2>8, <2>9, <2>10 DEF limit
<1> QED
  BY <1>1, SpecIInv, PTL

\* A diagnostic handed to the database sink is still with its task, in a row of its stage, or
\* that row says its list was cut, unless a session failed or two tasks of the stage overlapped.
THEOREM NoDiagnosticIsLost == Spec => []DiagnosticsReachARow
PROOF
<1>1. IInv => DiagnosticsReachARow
  BY DEF IInv, DiagnosticsInv, DiagnosticsReachARow, InTask, InRow
<1> QED
  BY <1>1, SpecIInv, PTL

\* A run under way has its trace open unless the sampler left its start out, and one that
\* ended by itself left no trace or span of it open unless the cap or the sampler cut an
\* event of it, whatever earlier runs left behind.
THEOREM TracesMatchRuns == Spec => []ObservedFromStartToEnd
PROOF
<1>1. IInv => ObservedFromStartToEnd
  <2> SUFFICES ASSUME IInv, NEW r \in 1..run
               PROVE  /\ ending[r] = "running" /\ <<r, 1>> \notin cfg.unsampled =>
                           <<r, "trace">> \in obs.handles
                      /\ ending[r] = "finished" /\ r \notin obs.cut => \A h \in obs.handles : h[1] # r
    BY DEF ObservedFromStartToEnd
  <2>1. TypeInv /\ ControlInv /\ HandlesInv
    BY DEF IInv
  <2>2. r \in 1..cfg.runs
    BY <2>1, RunIsNat DEF TypeInv
  <2>3. ending[r] = "running" => r = run /\ pc # "idle"
    BY <2>1, <2>2 DEF ControlInv
  <2> QED
    BY <2>1, <2>3 DEF HandlesInv
<1> QED
  BY <1>1, SpecIInv, PTL
====
