------------------------ MODULE ReviewLifecycleProofs ------------------------
(***************************************************************************)
(* Proofs about ReviewLifecycle for any number of heads, handlers and jobs *)
(* and any bound on the environment: type correctness, the submission      *)
(* lock's promise of one job per head, the head check of every attempt, the*)
(* terminal write, and that the whole implements ReviewLease.              *)
(***************************************************************************)
EXTENDS ReviewLifecycleRefinement, TLAPS

LEMMA InitTypeOK == Init => TypeOK
  BY ConstantsAssumption
  DEF Init, TypeOK, Handler, Job, Statuses

\* Every step preserves the types.  The steps of a handler, and of a job, are
\* those that start from a slot in use.
LEMMA HandlerTypes ==
    ASSUME TypeOK, NEW p \in Handlers
    PROVE  /\ hook[p] \in Handler
           /\ hook[p].pc # "idle" => /\ hook[p].head \in Heads
                                     /\ hook[p].kind \in Kinds
                                     /\ \A pc \in {"gate"} \cup Holding :
                                          /\ Goto(p, pc) \in [Handlers -> Handler]
                                          /\ Enqueuing(p, pc) \in [Handlers -> Handler]
           /\ Idle(p) \in [Handlers -> Handler]
  <1>1. hook[p] \in Handler /\ IdleHandler \in Handler
    BY DEF TypeOK, Handler
  <1>2. Idle(p) \in [Handlers -> Handler]
    BY <1>1 DEF TypeOK, Idle
  <1>3. ASSUME hook[p].pc # "idle" PROVE hook[p] \in BusyHandler
    BY <1>1, <1>3 DEF Handler, IdleHandler
  <1>4. ASSUME hook[p].pc # "idle", NEW pc \in {"gate"} \cup Holding
        PROVE  /\ Goto(p, pc) \in [Handlers -> Handler]
               /\ Enqueuing(p, pc) \in [Handlers -> Handler]
    <2>1. /\ [hook[p] EXCEPT !.pc = pc] \in Handler
          /\ [hook[p] EXCEPT !.pc = pc, !.saw = FALSE, !.others = {}] \in Handler
      BY <1>3, <1>4 DEF Handler, BusyHandler
    <2>2. QED
      BY <2>1 DEF Goto, Enqueuing, TypeOK
  <1>5. QED
    BY <1>1, <1>2, <1>3, <1>4 DEF BusyHandler

\* What a handler that receives an event or a request becomes.
LEMMA ReceivedType ==
    ASSUME NEW h \in Heads, NEW kind \in Kinds, NEW saw \in BOOLEAN
    PROVE  /\ [IdleHandler EXCEPT !.pc = "gate", !.head = h] \in Handler
           /\ [IdleHandler EXCEPT !.pc = "gate", !.head = h, !.saw = saw, !.kind = kind]
                \in Handler
  BY DEF IdleHandler, Handler, BusyHandler, Kinds

LEMMA QueuedJobType ==
    ASSUME NEW h \in Heads, NEW tries \in 0 .. MaxTries, tries < MaxTries
    PROVE  QueuedJob(h, tries) \in Job
  BY DEF QueuedJob, NoJob, Job, JobRecord, Stages, Outcomes, Statuses

LEMMA JobTypes ==
    ASSUME TypeOK, NEW j \in Jobs
    PROVE  /\ job[j] \in Job
           /\ Ended(j) \in [Jobs -> Job]
           /\ Live(j) => /\ job[j].head \in Heads
                         /\ job[j].outcome \in Outcomes
                         /\ \A stage \in Stages \ {"queued"} : Step(j, stage) \in [Jobs -> Job]
                         /\ \A o \in Outcomes : Conclude(j, o) \in [Jobs -> Job]
                         /\ Releasing(j) \in [Jobs -> Job]
                         /\ Interrupted(j) \in [Jobs -> Job]
  <1>1. job[j] \in Job /\ NoJob \in Job
    BY DEF TypeOK, Job
  <1>2. Ended(j) \in [Jobs -> Job]
    BY <1>1 DEF TypeOK, Ended
  <1>3. ASSUME Live(j)
        PROVE  /\ job[j] \in JobRecord
               /\ \A stage \in Stages \ {"queued"} : Step(j, stage) \in [Jobs -> Job]
               /\ \A o \in Outcomes : Conclude(j, o) \in [Jobs -> Job]
               /\ Releasing(j) \in [Jobs -> Job]
    <2>1. job[j] \in JobRecord
      BY <1>1, <1>3 DEF Job, NoJob, Live
    <2>2. ASSUME NEW stage \in Stages \ {"queued"} PROVE Step(j, stage) \in [Jobs -> Job]
      BY <2>1, <2>2 DEF TypeOK, Step, Job, JobRecord
    <2>3. ASSUME NEW o \in Outcomes PROVE Conclude(j, o) \in [Jobs -> Job]
      BY <2>1 DEF TypeOK, Conclude, Job, JobRecord, Stages, Statuses
    <2>4. Releasing(j) \in [Jobs -> Job]
      BY <2>1 DEF TypeOK, Releasing, Job, JobRecord, Stages, Statuses, Outcomes
    <2>5. QED BY <2>1, <2>2, <2>3, <2>4
  <1>4. ASSUME Live(j) PROVE Interrupted(j) \in [Jobs -> Job]
    <2>1. CASE job[j].tries < MaxTries
      BY <1>3, <1>4, <2>1, QueuedJobType DEF Interrupted, TypeOK, JobRecord
    <2>2. CASE ~(job[j].tries < MaxTries)
      BY <1>2, <2>2 DEF Interrupted
    <2>3. QED BY <2>1, <2>2
  <1>5. QED
    BY <1>1, <1>2, <1>3, <1>4 DEF JobRecord

LEMMA StepTypeOK == TypeOK /\ [Next]_vars => TypeOK'
  <1> SUFFICES ASSUME TypeOK, [Next]_vars PROVE TypeOK'
    OBVIOUS
  <1>1. ASSUME NEW h \in Heads, Push(h) PROVE TypeOK'
    <2>1. ASSUME NEW j \in Jobs, job[j].stage \in Trying
          PROVE  [job[j] EXCEPT !.wasLive = @ \/ job[j].head = h] \in Job
      <3>1. job[j] \in JobRecord /\ job[j].stage # "queued"
        BY <2>1 DEF TypeOK, Job, NoJob, Trying, InTry
      <3>2. (job[j].wasLive \/ job[j].head = h) \in BOOLEAN
        OBVIOUS
      <3>3. QED
        BY <3>1, <3>2 DEF Job, JobRecord
    <2>2. job' \in [Jobs -> Job]
      BY <1>1, <2>1 DEF Push, TypeOK
    <2>3. QED
      BY <1>1, <2>2 DEF Push, TypeOK, Spend
  <1>2. ASSUME HookDrop \/ \E h \in Heads : Redeliver(h) PROVE TypeOK'
    BY <1>2 DEF Redeliver, HookDrop, TypeOK, Spend
  <1>3. ASSUME NEW p \in Handlers, HookReceive(p) PROVE TypeOK'
    BY <1>3, ReceivedType DEF HookReceive, TypeOK, Kinds
  <1>4. ASSUME NEW p \in Handlers, HookSkip(p) PROVE TypeOK'
    BY <1>4, HandlerTypes DEF HookSkip, PersistSkippedReview, TypeOK, Statuses
  <1>5. ASSUME NEW p \in Handlers, NEW h \in Heads, ApiRead(p, h)
        PROVE  TypeOK'
    <2>1. DEFINE kind == IF row[h] = "queued" THEN "api_queued" ELSE "api"
                 saw == h \in started
    <2>2. [IdleHandler EXCEPT !.pc = "gate", !.head = h, !.saw = saw, !.kind = kind]
             \in Handler
      <3>1. kind \in Kinds
        BY DEF Kinds
      <3>2. saw \in BOOLEAN
        OBVIOUS
      <3> HIDE DEF kind, saw
      <3>3. QED
        BY <3>1, <3>2, ReceivedType
    <2>3. hook' \in [Handlers -> Handler]
      BY <1>5, <2>2 DEF ApiRead, TypeOK
    <2>4. QED
      BY <1>5, <2>3 DEF ApiRead, TypeOK, Spend
  <1>6. ASSUME NEW p \in Handlers, HookLock(p) PROVE TypeOK'
    <2>1. hook' \in [Handlers -> Handler]
      BY <1>6, HandlerTypes DEF HookLock, Locked, Holding
    <2>2. lock' \in [Heads -> BOOLEAN]
      BY <1>6 DEF HookLock, TypeOK
    <2>3. QED
      BY <1>6, <2>1, <2>2 DEF HookLock, TypeOK
  <1>7. ASSUME NEW p \in Handlers, HookSelect(p) PROVE TypeOK'
    <2>1. hook[p].head \in Heads /\ hook[p].kind \in Kinds
      BY <1>7, HandlerTypes DEF HookSelect
    <2>2. OlderReviews(hook[p].head) \in SUBSET Heads
      BY DEF OlderReviews
    <2>3. hook[p] \in BusyHandler
      BY <1>7, HandlerTypes DEF HookSelect, Handler, IdleHandler
    <2>4. ASSUME NEW pc \in {"insert", "requeue"}, NEW saw \in BOOLEAN
          PROVE  [hook[p] EXCEPT !.pc = pc, !.saw = saw,
                    !.others = OlderReviews(hook[p].head)] \in Handler
      BY <2>2, <2>3 DEF Handler, BusyHandler, Holding
    <2>5. hook' \in [Handlers -> Handler]
      <3>1. DEFINE saw == hook[p].head \in started
      <3>2. ASSUME NEW pc \in {"insert", "requeue"}
            PROVE  [hook EXCEPT ![p].pc = pc, ![p].saw = saw,
                                ![p].others = OlderReviews(hook[p].head)]
                     \in [Handlers -> Handler]
        <4>1. saw \in BOOLEAN
          OBVIOUS
        <4> HIDE DEF saw
        <4>2. QED
          BY <2>4, <3>2, <4>1 DEF TypeOK
      <3>3. QED
        BY <1>7, <3>2, HandlerTypes DEF HookSelect
    <2>6. QED
      BY <1>7, <2>5 DEF HookSelect, TypeOK
  <1>8. ASSUME NEW p \in Handlers, HookInsert(p) \/ HookRequeue(p) \/ ApiCommit(p) PROVE TypeOK'
    <2>1. row' \in [Heads -> Statuses]
      BY <1>8 DEF HookInsert, HookRequeue, ApiCommit, SupersedeOlderReviews, TypeOK,
                  Statuses, Active, Outcomes
    <2>2. hook' \in [Handlers -> Handler]
      BY <1>8, HandlerTypes DEF HookInsert, HookRequeue, ApiCommit, Holding
    <2>3. QED
      BY <1>8, <2>1, <2>2 DEF HookInsert, HookRequeue, ApiCommit, Unstarted, TypeOK
  <1>9. ASSUME NEW p \in Handlers, hook[p].pc \in {"enqueue_new", "enqueue"},
               NEW j \in Jobs, Enqueued(j, hook[p].head)
        PROVE  job' \in [Jobs -> Job]
    BY <1>9, HandlerTypes, QueuedJobType, ConstantsAssumption DEF Enqueued, TypeOK
  <1>10. ASSUME NEW p \in Handlers, EnqueueOk(p) PROVE TypeOK'
    BY <1>9, <1>10, HandlerTypes DEF EnqueueOk, TypeOK
  <1>11. ASSUME NEW p \in Handlers, EnqueueRaises(p) PROVE TypeOK'
    <2>1. job' \in [Jobs -> Job]
      BY <1>9, <1>11 DEF EnqueueRaises, TypeOK
    <2>2. QED
      BY <1>11, <2>1, HandlerTypes DEF EnqueueRaises, Spend, TypeOK, Holding
  <1>12. ASSUME NEW p \in Handlers, EnqueueReturnsNone(p) PROVE TypeOK'
    BY <1>12, HandlerTypes DEF EnqueueReturnsNone, Spend, TypeOK, Holding, Statuses, Outcomes
  <1>13. ASSUME NEW p \in Handlers, HookUnlock(p) PROVE TypeOK'
    BY <1>13, HandlerTypes DEF HookUnlock, TypeOK
  <1>14. ASSUME NEW p \in Handlers, HandlerCrash(p) PROVE TypeOK'
    BY <1>14, HandlerTypes DEF HandlerCrash, TypeOK, Spend
  <1>15. ASSUME NEW h \in Heads, MarkFailed(h) PROVE TypeOK'
    BY <1>15 DEF MarkFailed, TypeOK, Spend, Statuses, Outcomes
  <1>16. ASSUME NEW j \in Jobs, JobStart(j) PROVE TypeOK'
    <2>1. job[j] \in JobRecord /\ job[j].tries + 1 \in 0 .. MaxTries
      BY <1>16, ConstantsAssumption DEF JobStart, TypeOK, Job, JobRecord, NoJob
    <2>2. job' \in [Jobs -> Job]
      BY <1>16, <2>1 DEF JobStart, TypeOK, Job, JobRecord, Stages
    <2>3. QED
      BY <1>16, <2>1, <2>2 DEF JobStart, TypeOK, JobRecord, Statuses, Active
  <1>17. ASSUME NEW j \in Jobs, JobPreamble(j) PROVE TypeOK'
    BY <1>17, JobTypes DEF JobPreamble, TypeOK, Live, Stages, InTry
  <1>18. ASSUME NEW j \in Jobs, JobFetch(j) PROVE TypeOK'
    BY <1>18, JobTypes DEF JobFetch, TypeOK, Live, Stages, InTry, Outcomes
  <1>19. ASSUME NEW j \in Jobs, JobReview(j) PROVE TypeOK'
    BY <1>19, JobTypes DEF JobReview, TypeOK, Live, Stages, InTry, Outcomes
  <1>20. ASSUME NEW j \in Jobs, JobDeliver(j) PROVE TypeOK'
    <2>1. job' \in [Jobs -> Job]
      BY <1>20, JobTypes DEF JobDeliver, Live, Outcomes
    <2>2. posted' \subseteq Heads
      BY <1>20, JobTypes DEF JobDeliver, Live, TypeOK
    <2>3. QED
      BY <1>20, <2>1, <2>2 DEF JobDeliver, TypeOK
  <1>21. ASSUME NEW j \in Jobs, JobFinish(j) \/ JobWrite(j) PROVE TypeOK'
    <2>1. job[j] \in JobRecord
      BY <1>21 DEF JobFinish, JobWrite, TypeOK, Job, NoJob
    <2>2. job' \in [Jobs -> Job]
      BY <1>21, <2>1 DEF JobFinish, JobWrite, TypeOK, Job, JobRecord, Stages, Statuses
    <2>3. row' \in [Heads -> Statuses]
      BY <1>21, <2>1 DEF JobFinish, JobWrite, TypeOK, JobRecord, Statuses
    <2>4. QED
      BY <1>21, <2>2, <2>3 DEF JobFinish, JobWrite, TypeOK
  <1>22. ASSUME NEW j \in Jobs, JobFinishRaises(j) PROVE TypeOK'
    BY <1>22, JobTypes DEF JobFinishRaises, Spend, TypeOK, Live, Stages, Outcomes
  <1>23. ASSUME NEW j \in Jobs, JobConclude(j) PROVE TypeOK'
    BY <1>23, JobTypes DEF JobConclude, TypeOK, Live, Stages
  <1>24. ASSUME NEW j \in Jobs, JobRelease(j) PROVE TypeOK'
    BY <1>24, JobTypes DEF JobRelease, TypeOK, Live
  <1>25. ASSUME NEW j \in Jobs, NEW again \in BOOLEAN, Cancel(j, again) PROVE TypeOK'
    <2>1. Live(j)
      BY <1>25 DEF Cancel, Live, InTry
    <2>2. job[j] \in JobRecord /\ job \in [Jobs -> Job]
      BY <2>1 DEF Live, TypeOK, Job, NoJob
    <2>3. /\ [Conclude(j, "failed") EXCEPT ![j].again = again] \in [Jobs -> Job]
          /\ [Releasing(j) EXCEPT ![j].again = again] \in [Jobs -> Job]
      BY <2>2 DEF Conclude, Releasing, Job, JobRecord, Stages, Outcomes, Statuses
    <2>4. job' \in [Jobs -> Job]
      BY <1>25, <2>1, <2>3, JobTypes DEF Cancel
    <2>5. QED
      BY <1>25, <2>4 DEF Cancel, TypeOK, Spend
  <1>26. ASSUME NEW j \in Jobs, WorkerCrash(j) PROVE TypeOK'
    BY <1>26, JobTypes DEF WorkerCrash, TypeOK, Spend, Live
  <1>27. ASSUME NEW h \in Heads, RecoverRunning(h) \/ RecoverQueued(h)
         PROVE  TypeOK'
    BY <1>27 DEF RecoverRunning, RecoverQueued, TypeOK, Statuses, Outcomes
  <1>28. ASSUME NEW h \in Heads, LockExpire(h) \/ LockExpireUnderJob(h) PROVE TypeOK'
    <2>1. budget' \in Nat
      BY <1>28 DEF LockExpire, LockExpireUnderJob, TypeOK, Spend
    <2>2. Expired(h)
      BY <1>28 DEF LockExpire, LockExpireUnderJob
    <2>3. QED
      BY <2>1, <2>2 DEF Expired, TypeOK
  <1>29. CASE RecoverCommit
    BY <1>29 DEF RecoverCommit, TypeOK, Statuses, Outcomes
  <1>30. CASE UNCHANGED vars
    BY <1>30 DEF vars, TypeOK
  <1>31. QED
    BY <1>1, <1>2, <1>3, <1>4, <1>5, <1>6, <1>7, <1>8, <1>10, <1>11, <1>12, <1>13,
       <1>14, <1>15, <1>16, <1>17, <1>18, <1>19, <1>20, <1>21, <1>22, <1>23, <1>24,
       <1>25, <1>26, <1>27, <1>28, <1>29, <1>30
    DEF Next, GitHubNext, HandlerNext, HandlerStep, WorkerNext, JobStep, TimeNext

\* Every variable of every reachable state has the type the code gives it; in
\* particular ARQ never starts a job more than MaxTries times.
THEOREM TypeCorrect == Spec => []TypeOK
  BY InitTypeOK, StepTypeOK, PTL DEF Spec

-----------------------------------------------------------------------------
(***************************************************************************)
(* The submission lock.  LockHandover is inductive by itself: a handler    *)
(* takes the lock only when it is free, so when no job and no other handler*)
(* has the head; it gives it to the one job it enqueues; the job deletes it*)
(* when it leaves.                                                         *)
(***************************************************************************)
NoOvertaking == Faults \cap Overtaking = {}

LEMMA PushKeepsJobs ==
    ASSUME TypeOK, NEW h \in Heads, Push(h), NEW j \in Jobs
    PROVE  /\ job'[j].stage = job[j].stage /\ job'[j].head = job[j].head
           /\ job'[j].tries = job[j].tries /\ job'[j].again = job[j].again
  <1>1. CASE job[j].stage \in Trying
    <2>1. job[j] \in JobRecord
      BY <1>1 DEF TypeOK, Job, NoJob, Trying, InTry
    <2>2. job'[j] = [job[j] EXCEPT !.wasLive = @ \/ job[j].head = h]
      BY <1>1 DEF Push
    <2>3. QED
      BY <2>1, <2>2 DEF JobRecord
  <1>2. CASE job[j].stage \notin Trying
    BY <1>2 DEF Push
  <1>3. QED
    BY <1>1, <1>2

LEMMA LockStep ==
    ASSUME NoOvertaking, TypeOK, TypeOK', OneJobPerHead /\ LockHandover, [Next]_vars
    PROVE  (OneJobPerHead /\ LockHandover)'
  <1> USE DEF OneJobPerHead, LockHandover, Live, Holds, Holding
  <1>1. ASSUME NEW h \in Heads, Push(h) PROVE (OneJobPerHead /\ LockHandover)'
    BY <1>1, PushKeepsJobs DEF Push
  <1>2. ASSUME NEW p \in Handlers, hook' = Idle(p), UNCHANGED <<lock, job>>
        PROVE  (OneJobPerHead /\ LockHandover)'
    BY <1>2 DEF Idle, IdleHandler, TypeOK
  <1>3. ASSUME NEW p \in Handlers, HookReceive(p) PROVE (OneJobPerHead /\ LockHandover)'
    BY <1>3 DEF HookReceive, IdleHandler, TypeOK
  <1>4. ASSUME NEW p \in Handlers, NEW h \in Heads, ApiRead(p, h)
        PROVE  (OneJobPerHead /\ LockHandover)'
    BY <1>4 DEF ApiRead, IdleHandler, TypeOK
  <1>5. ASSUME NEW p \in Handlers, HookLock(p) PROVE (OneJobPerHead /\ LockHandover)'
    <2>1. CASE lock[hook[p].head]
      BY <1>2, <1>5, <2>1 DEF HookLock
    <2>2. CASE ~lock[hook[p].head]
      <3>1. /\ \A j \in Jobs : Live(j) => job[j].head # hook[p].head
            /\ \A q \in Handlers : Holds(q) => hook[q].head # hook[p].head
        BY <2>2
      <3>2. /\ hook' = Goto(p, Locked(p)) /\ UNCHANGED job
            /\ lock' = [lock EXCEPT ![hook[p].head] = TRUE]
        BY <1>5, <2>2 DEF HookLock
      <3>3. /\ hook'[p].head = hook[p].head
            /\ \A q \in Handlers \ {p} : hook'[q] = hook[q]
            /\ hook[p].head \in Heads
        BY <1>5, <3>2, HandlerTypes DEF Goto, TypeOK, HookLock
      <3>4. \A h \in Heads : lock'[h] = (lock[h] \/ h = hook[p].head)
        BY <3>2, <3>3 DEF TypeOK
      <3>5. /\ \A j \in Jobs : Live(j) => job[j].head \in Heads
            /\ \A q \in Handlers : Holds(q) => hook[q].head \in Heads
        BY JobTypes, HandlerTypes
      <3>6. \A j \in Jobs : Live(j)' => lock'[job'[j].head] /\ ~job'[j].again
        BY <3>2, <3>4, <3>5
      <3>7. \A q \in Handlers : Holds(q)' => lock'[hook'[q].head]
        BY <3>3, <3>4, <3>5
      <3>8. \A q \in Handlers, j \in Jobs : Holds(q)' /\ Live(j)' => hook'[q].head # job'[j].head
        BY <3>1, <3>2, <3>3
      <3>9. \A q, r \in Handlers :
              Holds(q)' /\ Holds(r)' /\ hook'[q].head = hook'[r].head => q = r
        BY <3>1, <3>3
      <3>10. QED
        BY <3>2, <3>6, <3>7, <3>8, <3>9
    <2>3. QED
      BY <2>1, <2>2
  <1>6. ASSUME NEW p \in Handlers, Holds(p), UNCHANGED <<lock, job>>,
               hook'[p].head = hook[p].head, \A q \in Handlers \ {p} : hook'[q] = hook[q]
        PROVE  (OneJobPerHead /\ LockHandover)'
    BY <1>6
  <1>7. ASSUME NEW p \in Handlers,
               HookSelect(p) \/ HookInsert(p) \/ HookRequeue(p) \/ ApiCommit(p)
        PROVE  (OneJobPerHead /\ LockHandover)'
    <2>1. Holds(p) /\ UNCHANGED <<lock, job>>
      BY <1>7 DEF HookSelect, HookInsert, HookRequeue, ApiCommit
    <2>2. \/ hook' = Idle(p)
          \/ /\ hook'[p].head = hook[p].head
             /\ \A q \in Handlers \ {p} : hook'[q] = hook[q]
      <3>1. hook[p] \in BusyHandler
        BY <2>1, HandlerTypes DEF Handler, IdleHandler
      <3>2. \A pc : /\ Enqueuing(p, pc)[p].head = hook[p].head
                    /\ \A q \in Handlers \ {p} : Enqueuing(p, pc)[q] = hook[q]
        BY <3>1 DEF Enqueuing, TypeOK, BusyHandler
      <3>3. CASE HookSelect(p)
        BY <3>1, <3>3 DEF HookSelect, TypeOK, BusyHandler
      <3>4. CASE HookInsert(p) \/ HookRequeue(p) \/ ApiCommit(p)
        BY <3>2, <3>4 DEF HookInsert, HookRequeue, ApiCommit
      <3>5. QED
        BY <1>7, <3>3, <3>4
    <2>3. QED
      BY <1>2, <1>6, <2>1, <2>2
  <1>8. ASSUME NEW p \in Handlers, EnqueueOk(p) PROVE (OneJobPerHead /\ LockHandover)'
    <2>1. PICK j \in Jobs : Enqueued(j, hook[p].head)
      BY <1>8 DEF EnqueueOk
    <2>2. /\ Holds(p) /\ hook' = Idle(p) /\ UNCHANGED lock
          /\ ~Live(j) /\ job'[j].head = hook[p].head /\ ~job'[j].again
          /\ \A k \in Jobs \ {j} : job'[k] = job[k]
      BY <1>8, <2>1 DEF EnqueueOk, Enqueued, QueuedJob, NoJob, TypeOK
    <2>3. /\ hook'[p].pc = "idle"
          /\ \A q \in Handlers \ {p} : hook'[q] = hook[q]
      BY <2>2 DEF Idle, IdleHandler, TypeOK
    <2>4. QED
      BY <2>2, <2>3
  <1>9. ASSUME NEW p \in Handlers, EnqueueRaises(p) \/ EnqueueReturnsNone(p)
        PROVE  (OneJobPerHead /\ LockHandover)'
    <2>1. UNCHANGED <<lock, job>> /\ Holds(p)
      BY <1>9 DEF EnqueueRaises, EnqueueReturnsNone, NoOvertaking, Overtaking
    <2>2. hook' = Goto(p, "unlock") \/ hook' = Idle(p)
      BY <1>9 DEF EnqueueRaises, EnqueueReturnsNone
    <2>3. \A pc : /\ Goto(p, pc)[p].head = hook[p].head
                  /\ \A q \in Handlers \ {p} : Goto(p, pc)[q] = hook[q]
      BY <2>1 DEF Goto, TypeOK
    <2>4. QED
      BY <1>2, <1>6, <2>1, <2>2, <2>3
  <1>10. ASSUME NEW p \in Handlers, HookUnlock(p) PROVE (OneJobPerHead /\ LockHandover)'
    <2>1. CASE UNCHANGED lock
      BY <1>2, <1>10, <2>1 DEF HookUnlock
    <2>2. CASE lock' = [lock EXCEPT ![hook[p].head] = FALSE]
      <3>1. /\ Holds(p) /\ UNCHANGED job /\ hook'[p].pc = "idle"
            /\ \A q \in Handlers \ {p} : hook'[q] = hook[q]
        BY <1>10 DEF HookUnlock, Idle, IdleHandler, TypeOK
      <3>2. \A h \in Heads : h # hook[p].head => lock'[h] = lock[h]
        BY <2>2 DEF TypeOK
      <3>3. /\ \A j \in Jobs : Live(j) => job[j].head \in Heads
            /\ \A q \in Handlers : Holds(q) => hook[q].head \in Heads
        BY JobTypes, HandlerTypes
      <3>4. QED
        BY <3>1, <3>2, <3>3
    <2>3. QED
      BY <1>10, <2>1, <2>2 DEF HookUnlock
  <1>11. ASSUME NEW p \in Handlers, HookSkip(p) \/ HandlerCrash(p)
         PROVE  (OneJobPerHead /\ LockHandover)'
    BY <1>2, <1>11 DEF HookSkip, HandlerCrash
  <1>12. ASSUME NEW j \in Jobs, Live(j), UNCHANGED <<hook, lock>>,
                \A k \in Jobs \ {j} : job'[k] = job[k],
                \/ job'[j].stage = "absent"
                \/ job'[j].head = job[j].head /\ ~job'[j].again
         PROVE  (OneJobPerHead /\ LockHandover)'
    BY <1>12
  <1>13. ASSUME NEW j \in Jobs, Live(j)
         PROVE  /\ \A stage : Step(j, stage)[j].head = job[j].head /\ ~Step(j, stage)[j].again
                /\ \A o : Conclude(j, o)[j].head = job[j].head /\ ~Conclude(j, o)[j].again
                /\ Releasing(j)[j].head = job[j].head /\ ~Releasing(j)[j].again
                /\ Ended(j)[j].stage = "absent"
                /\ \/ Interrupted(j) = Ended(j)
                   \/ /\ Interrupted(j)[j].head = job[j].head /\ ~Interrupted(j)[j].again
                      /\ \A k \in Jobs \ {j} : Interrupted(j)[k] = job[k]
                /\ \A k \in Jobs \ {j} : /\ \A stage : Step(j, stage)[k] = job[k]
                                         /\ \A o : Conclude(j, o)[k] = job[k]
                                         /\ Releasing(j)[k] = job[k]
                                         /\ Ended(j)[k] = job[k]
    <2>1. job[j] \in JobRecord /\ ~job[j].again
      BY <1>13 DEF TypeOK, Job, NoJob
    <2>2. \/ Interrupted(j) = Ended(j)
          \/ /\ Interrupted(j)[j].head = job[j].head /\ ~Interrupted(j)[j].again
             /\ \A k \in Jobs \ {j} : Interrupted(j)[k] = job[k]
      BY <2>1 DEF Interrupted, QueuedJob, NoJob, TypeOK
    <2>3. QED
      BY <2>1, <2>2 DEF Step, Conclude, Releasing, Ended, NoJob, TypeOK, JobRecord
  <1>14. ASSUME NEW j \in Jobs, JobStart(j) \/ JobFinish(j) \/ JobWrite(j)
         PROVE  (OneJobPerHead /\ LockHandover)'
    <2>1. job[j] \in JobRecord
      BY <1>14 DEF JobStart, JobFinish, JobWrite, TypeOK, Job, NoJob
    <2>2. /\ Live(j) /\ UNCHANGED <<hook, lock>>
          /\ job'[j].head = job[j].head /\ ~job'[j].again
          /\ \A k \in Jobs \ {j} : job'[k] = job[k]
      BY <1>14, <2>1 DEF JobStart, JobFinish, JobWrite, TypeOK, JobRecord
    <2>3. QED
      BY <1>12, <2>2
  <1>15. ASSUME NEW j \in Jobs, JobPreamble(j) \/ JobFetch(j) \/ JobReview(j) \/ JobDeliver(j)
                               \/ JobFinishRaises(j) \/ JobConclude(j) \/ WorkerCrash(j)
         PROVE  (OneJobPerHead /\ LockHandover)'
    <2>1. Live(j) /\ UNCHANGED <<hook, lock>>
      BY <1>15 DEF JobPreamble, JobFetch, JobReview, JobDeliver, JobFinishRaises,
                   JobConclude, WorkerCrash
    <2>2. \/ \E stage \in Stages : job' = Step(j, stage)
          \/ \E o \in Outcomes : job' = Conclude(j, o)
          \/ job' \in {Releasing(j), Interrupted(j), Ended(j)}
      BY <1>15 DEF JobPreamble, JobFetch, JobReview, JobDeliver, JobFinishRaises,
                   JobConclude, WorkerCrash, Stages, InTry, Outcomes
    <2>3. QED
      BY <1>12, <1>13, <2>1, <2>2
  <1>16. ASSUME NEW j \in Jobs, JobRelease(j) PROVE (OneJobPerHead /\ LockHandover)'
    <2>1. Live(j) /\ job[j].head \in Heads
      BY <1>16, JobTypes DEF JobRelease
    <2>2. /\ job'[j].stage = "absent" /\ UNCHANGED hook
          /\ \A k \in Jobs \ {j} : job'[k] = job[k]
      BY <1>13, <1>16, <2>1 DEF JobRelease
    <2>3. \A h \in Heads : h # job[j].head => lock'[h] = lock[h]
      BY <1>16 DEF JobRelease, TypeOK
    <2>4. /\ \A k \in Jobs : Live(k) => job[k].head \in Heads
          /\ \A q \in Handlers : Holds(q) => hook[q].head \in Heads
      BY JobTypes, HandlerTypes
    <2>5. QED
      BY <2>1, <2>2, <2>3, <2>4
  <1>17. ASSUME NEW j \in Jobs, NEW again \in BOOLEAN, Cancel(j, again)
         PROVE  (OneJobPerHead /\ LockHandover)'
    <2>1. ~again /\ Live(j) /\ UNCHANGED <<hook, lock>>
      BY <1>17 DEF Cancel, NoOvertaking, Overtaking, InTry
    <2>2. job[j] \in JobRecord
      BY <2>1 DEF TypeOK, Job, NoJob
    <2>3. /\ [Conclude(j, "failed") EXCEPT ![j].again = again][j].head = job[j].head
          /\ ~[Conclude(j, "failed") EXCEPT ![j].again = again][j].again
          /\ [Releasing(j) EXCEPT ![j].again = again][j].head = job[j].head
          /\ ~[Releasing(j) EXCEPT ![j].again = again][j].again
          /\ \A k \in Jobs \ {j} :
               /\ [Conclude(j, "failed") EXCEPT ![j].again = again][k] = job[k]
               /\ [Releasing(j) EXCEPT ![j].again = again][k] = job[k]
      BY <2>1, <2>2 DEF Conclude, Releasing, TypeOK, JobRecord
    <2>4. \/ job' = Ended(j)
          \/ job' = [Conclude(j, "failed") EXCEPT ![j].again = again]
          \/ job' = [Releasing(j) EXCEPT ![j].again = again]
      BY <1>17, <2>1 DEF Cancel
    <2>5. CASE job' = Ended(j)
      BY ONLY <1>12, <1>13, <2>1, <2>5
    <2>6. CASE job' # Ended(j)
      <3>1. /\ \A k \in Jobs \ {j} : job'[k] = job[k]
            /\ job'[j].head = job[j].head /\ ~job'[j].again
        BY ONLY <2>3, <2>4, <2>6
      <3>2. QED
        BY ONLY <1>12, <2>1, <3>1
    <2>7. QED
      BY <2>5, <2>6
  <1>18. ASSUME NEW h \in Heads, LockExpire(h) PROVE (OneJobPerHead /\ LockHandover)'
    <2>1. HoldersOf(h) = {} /\ JobsOf(h) = {} /\ UNCHANGED <<hook, job>>
      BY <1>18 DEF LockExpire, Expired
    <2>2. \A g \in Heads : g # h => lock'[g] = lock[g]
      BY <1>18 DEF LockExpire, Expired, TypeOK
    <2>3. /\ \A k \in Jobs : Live(k) => job[k].head \in Heads
          /\ \A q \in Handlers : Holds(q) => hook[q].head \in Heads
      BY JobTypes, HandlerTypes
    <2>4. QED
      BY <2>1, <2>2, <2>3 DEF HoldersOf, JobsOf
  <1>19. CASE UNCHANGED <<hook, lock, job>>
    BY <1>19
  <1>20. ASSUME NEW h \in Heads PROVE ~LockExpireUnderJob(h)
    BY DEF LockExpireUnderJob, NoOvertaking, Overtaking
  <1>21. QED
    BY <1>1, <1>3, <1>4, <1>5, <1>7, <1>8, <1>9, <1>10, <1>11, <1>14, <1>15, <1>16,
       <1>17, <1>18, <1>19, <1>20
    DEF Next, GitHubNext, HandlerNext, HandlerStep, WorkerNext, JobStep, TimeNext, vars,
        Redeliver, HookDrop, MarkFailed, RecoverRunning, RecoverQueued, RecoverCommit

\* While no fault lets a job overtake its lock, the lock passes from handler to
\* job and no head ever has two jobs queued or running.
THEOREM LockKeepsOneJobPerHead ==
    ASSUME NoOvertaking
    PROVE  Spec => [](OneJobPerHead /\ LockHandover)
  <1>1. Init => OneJobPerHead /\ LockHandover
    BY DEF Init, OneJobPerHead, LockHandover, Live, Holds, Holding, NoJob, IdleHandler
  <1>2. QED
    BY <1>1, LockStep, TypeCorrect, PTL DEF Spec

-----------------------------------------------------------------------------
(***************************************************************************)
(* The head check.  An attempt whose head is live knows it until it ends,   *)
(* so the commit it found live was live in it, whatever faults there are,   *)
(* as long as GitHub's answers name the head.                               *)
(***************************************************************************)
HeadNamed == "blank_head" \notin Faults

HeadInv == AttemptSawLiveHead /\ ReviewedHeadWasLive

LEMMA HeadStep ==
    ASSUME HeadNamed
    PROVE  TypeOK /\ HeadInv /\ [Next]_vars => HeadInv'
  <1> SUFFICES ASSUME TypeOK, HeadInv, [Next]_vars PROVE HeadInv'
    OBVIOUS
  <1> USE DEF HeadInv, AttemptSawLiveHead, ReviewedHeadWasLive
  <1>1. ASSUME NEW h \in Heads, Push(h) PROVE HeadInv'
    <2>1. ASSUME NEW j \in Jobs
          PROVE  /\ job'[j].stage = job[j].stage /\ job'[j].head = job[j].head
                 /\ job[j].stage \in Trying =>
                      job'[j].wasLive = (job[j].wasLive \/ job[j].head = h)
      <3>1. CASE job[j].stage \in Trying
        <4>1. job[j] \in JobRecord
          BY <3>1 DEF TypeOK, Job, NoJob, Trying, InTry
        <4>2. job'[j] = [job[j] EXCEPT !.wasLive = @ \/ job[j].head = h]
          BY <1>1, <3>1 DEF Push
        <4>3. QED
          BY <4>1, <4>2 DEF JobRecord
      <3>2. CASE job[j].stage \notin Trying
        BY <1>1, <3>2 DEF Push
      <3>3. QED
        BY <3>1, <3>2
    <2>2. QED
      BY <1>1, <2>1 DEF Push, Trying, InTry
  <1>2. ASSUME NEW j \in Jobs, UNCHANGED liveHead, \A k \in Jobs \ {j} : job'[k] = job[k],
               job'[j].stage \notin Trying
        PROVE  HeadInv'
    BY <1>2 DEF Trying, InTry
  <1>3. ASSUME NEW j \in Jobs, JobStart(j) PROVE HeadInv'
    <2>1. job[j] \in JobRecord
      BY <1>3 DEF JobStart, TypeOK, Job, NoJob
    <2>2. /\ job'[j].stage = "started" /\ job'[j].wasLive = (liveHead = job[j].head)
          /\ job'[j].head = job[j].head
          /\ \A k \in Jobs \ {j} : job'[k] = job[k]
      BY <1>3, <2>1 DEF JobStart, TypeOK, JobRecord
    <2>3. QED
      BY <1>3, <2>2 DEF JobStart
  \* An attempt enters review only from the head check, and deliver only from
  \* review.
  <1>4. ASSUME NEW j \in Jobs, NEW stage, job[j].stage \in Trying, UNCHANGED liveHead,
               job' = Step(j, stage),
               stage \in {"review", "deliver"} =>
                   job[j].head = liveHead \/ job[j].stage \in {"review", "deliver"}
        PROVE  HeadInv'
    <2>1. job[j] \in JobRecord
      BY <1>4 DEF TypeOK, Job, NoJob, Trying, InTry
    <2>2. /\ job'[j].wasLive = job[j].wasLive /\ job'[j].head = job[j].head
          /\ job'[j].stage = stage /\ \A k \in Jobs \ {j} : job'[k] = job[k]
      BY <1>4, <2>1 DEF Step, TypeOK, JobRecord
    <2>3. QED
      BY <1>4, <2>2
  <1>5. ASSUME NEW j \in Jobs, Live(j)
        PROVE  /\ \A stage : Step(j, stage)[j].stage = stage
               /\ \A o : Conclude(j, o)[j].stage = "finish"
               /\ Releasing(j)[j].stage = "release" /\ Ended(j)[j].stage = "absent"
               /\ Interrupted(j)[j].stage \in {"queued", "absent"}
               /\ \A k \in Jobs \ {j} : /\ \A stage : Step(j, stage)[k] = job[k]
                                        /\ \A o : Conclude(j, o)[k] = job[k]
                                        /\ Releasing(j)[k] = job[k]
                                        /\ Ended(j)[k] = job[k]
                                        /\ Interrupted(j)[k] = job[k]
    <2>1. job[j] \in JobRecord
      BY <1>5 DEF TypeOK, Job, NoJob, Live
    <2>2. /\ Interrupted(j)[j].stage \in {"queued", "absent"}
          /\ \A k \in Jobs \ {j} : Interrupted(j)[k] = job[k]
      BY <2>1 DEF Interrupted, Ended, QueuedJob, NoJob, TypeOK
    <2>3. QED
      BY <2>1, <2>2 DEF Step, Conclude, Releasing, Ended, NoJob, TypeOK, JobRecord
  <1>6. ASSUME NEW j \in Jobs, JobPreamble(j) \/ JobFetch(j) \/ JobReview(j)
        PROVE  HeadInv'
    <2>1. job[j].stage \in Trying /\ Live(j) /\ UNCHANGED liveHead
      BY <1>6 DEF JobPreamble, JobFetch, JobReview, Trying, InTry, Live
    <2>2. \/ job' = Ended(j)
          \/ \E o \in Outcomes : job' = Conclude(j, o)
          \/ job' = Step(j, "fetch")
          \/ liveHead = job[j].head /\ job' = Step(j, "review")
          \/ job[j].stage = "review" /\ job' = Step(j, "deliver")
      BY <1>6 DEF JobPreamble, JobFetch, JobReview, Outcomes, HeadNamed
    <2>3. QED
      BY <1>2, <1>4, <1>5, <2>1, <2>2 DEF Trying, InTry
  <1>7. ASSUME NEW j \in Jobs, JobDeliver(j) \/ JobFinishRaises(j) \/ JobConclude(j)
                              \/ JobRelease(j) \/ WorkerCrash(j)
        PROVE  HeadInv'
    <2>1. Live(j) /\ UNCHANGED liveHead
      BY <1>7 DEF JobDeliver, JobFinishRaises, JobConclude, JobRelease, WorkerCrash, Live
    <2>2. \/ \E o \in Outcomes : job' = Conclude(j, o)
          \/ job' \in {Releasing(j), Interrupted(j), Ended(j)}
      BY <1>7 DEF JobDeliver, JobFinishRaises, JobConclude, JobRelease, WorkerCrash, Outcomes
    <2>3. QED
      BY <1>2, <1>5, <2>1, <2>2 DEF Trying, InTry
  <1>8. ASSUME NEW j \in Jobs, JobFinish(j) \/ JobWrite(j) PROVE HeadInv'
    <2>1. job[j] \in JobRecord
      BY <1>8 DEF JobFinish, JobWrite, TypeOK, Job, NoJob
    <2>2. /\ job'[j].stage \in {"write", "conclude"} /\ UNCHANGED liveHead
          /\ \A k \in Jobs \ {j} : job'[k] = job[k]
      BY <1>8, <2>1 DEF JobFinish, JobWrite, TypeOK, JobRecord
    <2>3. QED
      BY <1>2, <2>2 DEF Trying, InTry
  <1>9. ASSUME NEW j \in Jobs, NEW again \in BOOLEAN, Cancel(j, again) PROVE HeadInv'
    <2>1. Live(j) /\ UNCHANGED liveHead
      BY <1>9 DEF Cancel, InTry, Live
    <2>2. job[j] \in JobRecord
      BY <2>1 DEF TypeOK, Job, NoJob, Live
    <2>3. \/ job' = Interrupted(j) \/ job' = Ended(j)
          \/ job' = [Conclude(j, "failed") EXCEPT ![j].again = again]
          \/ job' = [Releasing(j) EXCEPT ![j].again = again]
      BY <1>9 DEF Cancel
    <2>4. /\ \A k \in Jobs \ {j} :
               /\ [Conclude(j, "failed") EXCEPT ![j].again = again][k] = job[k]
               /\ [Releasing(j) EXCEPT ![j].again = again][k] = job[k]
          /\ [Conclude(j, "failed") EXCEPT ![j].again = again][j].stage = "finish"
          /\ [Releasing(j) EXCEPT ![j].again = again][j].stage = "release"
      BY <2>2 DEF Conclude, Releasing, TypeOK, JobRecord
    <2>5. /\ \A k \in Jobs \ {j} : job'[k] = job[k]
          /\ job'[j].stage \in {"queued", "absent", "finish", "release"}
      <3>1. CASE job' = Interrupted(j) \/ job' = Ended(j)
        BY <1>5, <2>1, <3>1
      <3>2. CASE job' = [Conclude(j, "failed") EXCEPT ![j].again = again]
        BY <2>4, <3>2
      <3>3. CASE job' = [Releasing(j) EXCEPT ![j].again = again]
        BY <2>4, <3>3
      <3>4. QED
        BY <2>3, <3>1, <3>2, <3>3
    <2>6. QED
      BY <1>2, <2>1, <2>5 DEF Trying, InTry
  <1>10. ASSUME NEW p \in Handlers, EnqueueOk(p) \/ EnqueueRaises(p) PROVE HeadInv'
    <2>1. CASE UNCHANGED job
      BY <1>10, <2>1 DEF EnqueueOk, EnqueueRaises
    <2>2. CASE \E j \in Jobs : Enqueued(j, hook[p].head)
      BY <1>2, <1>10, <2>2
      DEF EnqueueOk, EnqueueRaises, Enqueued, QueuedJob, NoJob, TypeOK, Trying, InTry
    <2>3. QED
      BY <1>10, <2>1, <2>2 DEF EnqueueOk, EnqueueRaises
  <1>11. CASE UNCHANGED <<liveHead, job>>
    BY <1>11
  <1>12. QED
    BY <1>1, <1>3, <1>6, <1>7, <1>8, <1>9, <1>10, <1>11
    DEF Next, GitHubNext, HandlerNext, HandlerStep, WorkerNext, JobStep, TimeNext, vars,
        Redeliver, HookDrop, HookReceive, HookSkip, ApiRead, HookLock, HookSelect, HookInsert,
        HookRequeue, ApiCommit, EnqueueReturnsNone, HookUnlock, HandlerCrash, MarkFailed,
        RecoverRunning, RecoverQueued, RecoverCommit, LockExpire,
        LockExpireUnderJob, Expired

\* Whatever crashes, retries, cancellations and expired locks there are, an
\* attempt reviews and posts only a commit that was the head since it began, as
\* long as GitHub's answers name the head.
THEOREM HeadCheckedInEveryAttempt ==
    ASSUME HeadNamed
    PROVE  Spec => []ReviewedHeadWasLive
  <1>1. Init => HeadInv
    BY DEF Init, HeadInv, AttemptSawLiveHead, ReviewedHeadWasLive, NoJob, Trying, InTry
  <1>2. HeadInv => ReviewedHeadWasLive
    BY DEF HeadInv
  <1>3. QED
    BY <1>1, <1>2, HeadStep, TypeCorrect, PTL DEF Spec

-----------------------------------------------------------------------------
(***************************************************************************)
(* The terminal write.  Of a job's steps only JobStart and JobWrite write  *)
(* the row, the first to running, the second not over a status it read as  *)
(* superseded.                                                             *)
(***************************************************************************)
LostOnlyInRace ==
    \A h \in Heads :
        row[h] = "superseded" /\ row'[h] \notin {"superseded", "queued", "running"} =>
            \/ row'[h] = "failed" /\ UNCHANGED job
            \/ \E j \in JobsOf(h) : job[j].stage = "write" /\ job[j].read # "superseded"

LEMMA LostOnlyInRaceStep == TypeOK /\ [Next]_vars => LostOnlyInRace
  <1> SUFFICES ASSUME TypeOK, [Next]_vars PROVE LostOnlyInRace
    OBVIOUS
  <1> USE DEF LostOnlyInRace, TypeOK
  <1>1. ASSUME NEW p \in Handlers, HookSkip(p) \/ HookInsert(p) \/ HookRequeue(p)
                                   \/ ApiCommit(p) \/ EnqueueReturnsNone(p)
        PROVE  LostOnlyInRace
    BY <1>1 DEF HookSkip, PersistSkippedReview, HookInsert, HookRequeue, ApiCommit,
                EnqueueReturnsNone, SupersedeOlderReviews
  <1>2. ASSUME NEW j \in Jobs, JobStart(j) PROVE LostOnlyInRace
    BY <1>2 DEF JobStart
  <1>3. ASSUME NEW j \in Jobs, JobWrite(j) PROVE LostOnlyInRace
    BY <1>3 DEF JobWrite, JobsOf, Live
  <1>4. ASSUME RecoverCommit \/ \E h \in Heads : MarkFailed(h) PROVE LostOnlyInRace
    BY <1>4 DEF MarkFailed, RecoverCommit
  <1>5. CASE UNCHANGED row
    BY <1>5
  <1>6. QED
    BY <1>1, <1>2, <1>3, <1>4, <1>5
    DEF Next, GitHubNext, HandlerNext, HandlerStep, WorkerNext, JobStep, TimeNext, vars,
        Push, Redeliver, HookDrop, HookReceive, ApiRead, HookLock, HookSelect, EnqueueOk,
        EnqueueRaises, HookUnlock, HandlerCrash, JobPreamble, JobFetch, JobReview, JobDeliver, JobFinish,
        JobFinishRaises, JobConclude, JobRelease, Cancel, WorkerCrash, LockExpire,
        LockExpireUnderJob, Expired,
        RecoverRunning, RecoverQueued

\* A stale job that reads its row after the row was superseded leaves it
\* superseded, whatever faults there are.
THEOREM SupersededStays == Spec => SupersededLostOnlyInRace
  <1>1. TypeOK /\ [Next]_vars => [LostOnlyInRace]_vars
    BY LostOnlyInRaceStep
  <1>2. [][LostOnlyInRace]_vars => SupersededLostOnlyInRace
    BY PTL DEF LostOnlyInRace, SupersededLostOnlyInRace
  <1>3. QED
    BY <1>1, <1>2, TypeCorrect, PTL DEF Spec

-----------------------------------------------------------------------------
(***************************************************************************)
(* The refinement.  The lease is read off the lock, the jobs and the       *)
(* handlers; LockHandover makes the reading unique.  A step that moves one *)
(* handler or one job moves the lease of at most that head; what the step  *)
(* needs beyond the lock is what its actor read earlier and still holds:   *)
(* HandlersInformed, StaleReviewed and TriesCounted.                       *)
(***************************************************************************)
LockInv == TypeOK /\ OneJobPerHead /\ LockHandover

\* Who has the lease of a head, read off the state.
LeaseFacts ==
    /\ \A j \in Jobs : Live(j) =>
         LeaseOf(job[j].head) = "job" /\ TriesOf(job[j].head) = job[j].tries
    /\ \A p \in Handlers : Holds(p) =>
         LeaseOf(hook[p].head) = "handler" /\ TriesOf(hook[p].head) = 0
    /\ \A h \in Heads : JobsOf(h) = {} /\ HoldersOf(h) = {} =>
         LeaseOf(h) = (IF lock[h] THEN "orphan" ELSE "free") /\ TriesOf(h) = 0

LEMMA LeaseRead == LockInv => LeaseFacts
  <1> SUFFICES ASSUME LockInv PROVE LeaseFacts
    OBVIOUS
  <1>1. ASSUME NEW j \in Jobs, Live(j)
        PROVE  LeaseOf(job[j].head) = "job" /\ TriesOf(job[j].head) = job[j].tries
    <2>1. JobsOf(job[j].head) = {j}
      BY <1>1 DEF LockInv, OneJobPerHead, JobsOf
    <2>2. HoldersOf(job[j].head) = {}
      BY <1>1 DEF LockInv, LockHandover, HoldersOf
    <2>3. QED
      BY <2>1, <2>2 DEF LeaseOf, TriesOf
  <1>2. ASSUME NEW p \in Handlers, Holds(p)
        PROVE  LeaseOf(hook[p].head) = "handler" /\ TriesOf(hook[p].head) = 0
    <2>1. HoldersOf(hook[p].head) = {p}
      BY <1>2 DEF LockInv, LockHandover, HoldersOf
    <2>2. JobsOf(hook[p].head) = {}
      BY <1>2 DEF LockInv, LockHandover, JobsOf
    <2>3. QED
      BY <2>1, <2>2 DEF LeaseOf, TriesOf
  <1>3. ASSUME NEW h \in Heads, JobsOf(h) = {}, HoldersOf(h) = {}
        PROVE  LeaseOf(h) = (IF lock[h] THEN "orphan" ELSE "free") /\ TriesOf(h) = 0
    BY <1>3 DEF LeaseOf, TriesOf
  <1>4. QED
    BY <1>1, <1>2, <1>3 DEF LeaseFacts

LEMMA LeaseReadNext == LockInv' => LeaseFacts'
  BY LeaseRead, PTL

\* A head whose lock, jobs and handlers a step leaves alone keeps its lease.
LEMMA LeaseFrame ==
    ASSUME NEW h \in Heads, lock'[h] = lock[h],
           HoldersOf(h)' = HoldersOf(h), JobsOf(h)' = JobsOf(h),
           \A j \in JobsOf(h) : job'[j].tries = job[j].tries
    PROVE  LeaseOf(h)' = LeaseOf(h) /\ TriesOf(h)' = TriesOf(h)
  BY DEF LeaseOf, TriesOf

LEMMA HandlerFrame ==
    ASSUME NEW p \in Handlers, UNCHANGED job, \A q \in Handlers \ {p} : hook'[q] = hook[q],
           NEW h \in Heads, lock'[h] = lock[h],
           Holds(p) /\ hook[p].head = h <=> Holds(p)' /\ hook'[p].head = h
    PROVE  LeaseOf(h)' = LeaseOf(h) /\ TriesOf(h)' = TriesOf(h)
  <1>1. HoldersOf(h)' = HoldersOf(h)
    BY DEF HoldersOf, Holds
  <1>2. JobsOf(h)' = JobsOf(h)
    BY DEF JobsOf, Live
  <1>3. QED
    BY <1>1, <1>2, LeaseFrame

LEMMA JobFrame ==
    ASSUME NEW j \in Jobs, UNCHANGED hook, \A k \in Jobs \ {j} : job'[k] = job[k],
           NEW h \in Heads, lock'[h] = lock[h],
           Live(j) /\ job[j].head = h <=> Live(j)' /\ job'[j].head = h,
           Live(j) /\ job[j].head = h => job'[j].tries = job[j].tries
    PROVE  LeaseOf(h)' = LeaseOf(h) /\ TriesOf(h)' = TriesOf(h)
  <1>1. HoldersOf(h)' = HoldersOf(h)
    BY DEF HoldersOf, Holds
  <1>2. JobsOf(h)' = JobsOf(h)
    BY DEF JobsOf, Live
  <1>3. \A k \in JobsOf(h) : job'[k].tries = job[k].tries
    BY DEF JobsOf
  <1>4. QED
    BY <1>1, <1>2, <1>3, LeaseFrame

LEMMA Stutters ==
    ASSUME \A h \in Heads : LeaseOf(h)' = LeaseOf(h) /\ TriesOf(h)' = TriesOf(h)
    PROVE  /\ UNCHANGED <<[h \in Heads |-> LeaseOf(h)], [h \in Heads |-> TriesOf(h)]>>
           /\ UNCHANGED row => UNCHANGED Lease!vars
  BY DEF Lease!vars

LEMMA Passes ==
    ASSUME NEW h \in Heads, NEW x, NEW y, LeaseOf(h) = x, LeaseOf(h)' = y,
           \A g \in Heads \ {h} : LeaseOf(g)' = LeaseOf(g)
    PROVE  Lease!Passes(h, x, y)
  BY DEF Lease!Passes

LEMMA TriesBecome ==
    ASSUME NEW h \in Heads, NEW n, TriesOf(h)' = n,
           \A g \in Heads \ {h} : TriesOf(g)' = TriesOf(g)
    PROVE  [g \in Heads |-> TriesOf(g)]' = [[g \in Heads |-> TriesOf(g)] EXCEPT ![h] = n]
  OBVIOUS

LEMMA Withdraws ==
    ASSUME LockInv, LockInv', NEW p \in Handlers, NEW h \in Heads,
           Holds(p), hook[p].head = h, hook'[p].pc = "idle",
           UNCHANGED job, \A q \in Handlers \ {p} : hook'[q] = hook[q],
           \A g \in Heads \ {h} : lock'[g] = lock[g],
           row' \in {row, Lease!Failed(Lease!Reviewed \cap {h})}
    PROVE  Lease!Withdraw(h)
  <1>1. ~Holds(p)'
    BY DEF Holds, Holding
  <1>2. LeaseOf(h) = "handler" /\ TriesOf(h) = 0
    BY LeaseRead DEF LeaseFacts
  <1>3. HoldersOf(h)' = {} /\ JobsOf(h)' = {}
    BY <1>1 DEF LockInv, LockHandover, HoldersOf, JobsOf, Holds, Live
  <1>4. LeaseOf(h)' \in {"free", "orphan"} /\ TriesOf(h)' = 0
    BY <1>1, <1>3, LeaseReadNext DEF LeaseFacts
  <1>5. \A g \in Heads \ {h} : LeaseOf(g)' = LeaseOf(g) /\ TriesOf(g)' = TriesOf(g)
    BY <1>1, HandlerFrame
  <1>6. Lease!Passes(h, "handler", "free") \/ Lease!Passes(h, "handler", "orphan")
    BY <1>1, <1>2, <1>4, <1>5, Passes
  <1>7. UNCHANGED [g \in Heads |-> TriesOf(g)]
    BY <1>2, <1>4, <1>5
  <1>8. QED
    BY <1>6, <1>7 DEF Lease!Withdraw

LEMMA Leaves ==
    ASSUME LockInv, LockInv', NEW j \in Jobs, NEW h \in Heads,
           Live(j), job[j].head = h, job'[j].stage = "absent",
           UNCHANGED <<hook, row>>, \A k \in Jobs \ {j} : job'[k] = job[k],
           \A g \in Heads \ {h} : lock'[g] = lock[g]
    PROVE  Lease!Leave(h)
  <1>1. ~Live(j)'
    BY DEF Live
  <1>2. LeaseOf(h) = "job"
    BY LeaseRead DEF LeaseFacts
  <1>3. HoldersOf(h)' = {} /\ JobsOf(h)' = {}
    BY <1>1 DEF LockInv, LockHandover, OneJobPerHead, HoldersOf, JobsOf, Holds, Live
  <1>4. LeaseOf(h)' \in {"free", "orphan"} /\ TriesOf(h)' = 0
    BY <1>1, <1>3, LeaseReadNext DEF LeaseFacts
  <1>5. \A g \in Heads \ {h} : LeaseOf(g)' = LeaseOf(g) /\ TriesOf(g)' = TriesOf(g)
    BY <1>1, JobFrame
  <1>6. Lease!Passes(h, "job", "free") \/ Lease!Passes(h, "job", "orphan")
    BY <1>1, <1>2, <1>4, <1>5, Passes
  <1>7. [g \in Heads |-> TriesOf(g)]' = [[g \in Heads |-> TriesOf(g)] EXCEPT ![h] = 0]
    BY <1>1, <1>4, <1>5, TriesBecome
  <1>8. QED
    BY <1>6, <1>7 DEF Lease!Leave

-----------------------------------------------------------------------------
Reviewed == {h \in Heads : row[h] # "none"}

\* What a handler, the recovery and a job remember is still so when they act: the
\* reviews they are about to write exist, and a job past its start has used a try.
HandlersInformed ==
    \A p \in Handlers :
        /\ hook[p].pc \in {"insert", "requeue"} =>
             hook[p].others \subseteq Reviewed \ {hook[p].head}
        /\ hook[p].pc \in {"requeue", "commit", "enqueue_new", "enqueue", "unlock"} =>
             hook[p].head \in Reviewed
        /\ hook[p].pc = "gate" /\ hook[p].kind # "webhook" => hook[p].head \in Reviewed
StaleReviewed == stale \subseteq Reviewed
TriesCounted == \A j \in Jobs : job[j].stage \notin {"absent", "queued"} => job[j].tries > 0

\* A review's row is never deleted.
LEMMA ReviewedStay == TypeOK /\ [Next]_vars => Reviewed \subseteq Reviewed'
  <1> SUFFICES ASSUME TypeOK, [Next]_vars PROVE Reviewed \subseteq Reviewed'
    OBVIOUS
  <1> USE DEF Reviewed, TypeOK
  <1>1. ASSUME NEW p \in Handlers, HookSkip(p) \/ HookInsert(p) \/ HookRequeue(p)
                                   \/ ApiCommit(p) \/ EnqueueReturnsNone(p)
        PROVE  Reviewed \subseteq Reviewed'
    BY <1>1 DEF HookSkip, PersistSkippedReview, HookInsert, HookRequeue, ApiCommit,
                EnqueueReturnsNone, SupersedeOlderReviews
  <1>2. ASSUME NEW j \in Jobs, JobStart(j) PROVE Reviewed \subseteq Reviewed'
    BY <1>2 DEF JobStart
  <1>3. ASSUME NEW j \in Jobs, JobWrite(j) PROVE Reviewed \subseteq Reviewed'
    <2>1. job[j].outcome \in Outcomes
      BY <1>3, JobTypes DEF JobWrite, Live
    <2>2. QED
      BY <1>3, <2>1 DEF JobWrite, Outcomes
  <1>4. ASSUME RecoverCommit \/ \E h \in Heads : MarkFailed(h)
        PROVE  Reviewed \subseteq Reviewed'
    BY <1>4 DEF MarkFailed, RecoverCommit
  <1>5. CASE UNCHANGED row
    BY <1>5
  <1>6. QED
    BY <1>1, <1>2, <1>3, <1>4, <1>5
    DEF Next, GitHubNext, HandlerNext, HandlerStep, WorkerNext, JobStep, TimeNext, vars,
        Push, Redeliver, HookDrop, HookReceive, ApiRead, HookLock, HookSelect, EnqueueOk,
        EnqueueRaises, HookUnlock, HandlerCrash, JobPreamble, JobFetch, JobReview, JobDeliver, JobFinish,
        JobFinishRaises, JobConclude, JobRelease, Cancel, WorkerCrash, LockExpire,
        LockExpireUnderJob, Expired,
        RecoverRunning, RecoverQueued

LEMMA StaleStep == TypeOK /\ StaleReviewed /\ [Next]_vars => StaleReviewed'
  <1> SUFFICES ASSUME TypeOK, StaleReviewed, [Next]_vars PROVE StaleReviewed'
    OBVIOUS
  <1>1. Reviewed \subseteq Reviewed'
    BY ReviewedStay
  <1>2. ASSUME NEW h \in Heads, RecoverRunning(h) \/ RecoverQueued(h) PROVE StaleReviewed'
    BY <1>1, <1>2 DEF RecoverRunning, RecoverQueued, StaleReviewed, Reviewed
  <1>3. CASE RecoverCommit
    BY <1>3 DEF RecoverCommit, StaleReviewed
  <1>4. CASE UNCHANGED stale
    BY <1>1, <1>4 DEF StaleReviewed
  <1>5. QED
    BY <1>2, <1>3, <1>4
    DEF Next, GitHubNext, HandlerNext, HandlerStep, WorkerNext, JobStep, TimeNext, vars,
        Push, Redeliver, HookDrop, HookReceive, HookSkip, ApiRead, HookLock, HookSelect,
        HookInsert, HookRequeue, ApiCommit, EnqueueOk, EnqueueRaises, EnqueueReturnsNone,
        HookUnlock,
        HandlerCrash, MarkFailed, JobStart, JobPreamble, JobFetch, JobReview, JobDeliver,
        JobFinish, JobWrite, JobFinishRaises, JobConclude, JobRelease, Cancel, WorkerCrash,
        LockExpire, LockExpireUnderJob, Expired

LEMMA InformedStep == TypeOK /\ HandlersInformed /\ [Next]_vars => HandlersInformed'
  <1> SUFFICES ASSUME TypeOK, HandlersInformed, [Next]_vars PROVE HandlersInformed'
    OBVIOUS
  <1> DEFINE Informed(r, rows) ==
               /\ r.pc \in {"insert", "requeue"} => r.others \subseteq rows \ {r.head}
               /\ r.pc \in {"requeue", "commit", "enqueue_new", "enqueue", "unlock"} =>
                    r.head \in rows
               /\ r.pc = "gate" /\ r.kind # "webhook" => r.head \in rows
  <1>1. Reviewed \subseteq Reviewed' /\ \A p \in Handlers : Informed(hook[p], Reviewed)
    BY ReviewedStay DEF HandlersInformed
  <1>2. \A p \in Handlers : Informed(hook[p], Reviewed')
    BY <1>1
  <1>3. ASSUME NEW p \in Handlers, \A q \in Handlers \ {p} : hook'[q] = hook[q],
               Informed(hook'[p], Reviewed')
        PROVE  HandlersInformed'
    BY <1>2, <1>3 DEF HandlersInformed
  <1>4. ASSUME NEW p \in Handlers, hook' = Idle(p) PROVE HandlersInformed'
    BY <1>3, <1>4 DEF Idle, IdleHandler, TypeOK
  <1>5. ASSUME NEW p \in Handlers, HookReceive(p) PROVE HandlersInformed'
    BY <1>3, <1>5 DEF HookReceive, IdleHandler, TypeOK
  <1>6. ASSUME NEW p \in Handlers, NEW h \in Heads, ApiRead(p, h) PROVE HandlersInformed'
    <2>1. h \in Reviewed'
      BY <1>1, <1>6 DEF ApiRead, Reviewed
    <2>2. hook'[p].pc = "gate" /\ hook'[p].head = h /\ \A q \in Handlers \ {p} : hook'[q] = hook[q]
      BY <1>6 DEF ApiRead, IdleHandler, TypeOK
    <2>3. QED
      BY <1>3, <2>1, <2>2
  <1>7. ASSUME NEW p \in Handlers, HookLock(p) PROVE HandlersInformed'
    <2>1. CASE hook' = Idle(p)
      BY <1>4, <2>1
    <2>2. CASE hook' = Goto(p, Locked(p))
      <3>1. /\ hook'[p].pc = Locked(p) /\ hook'[p].head = hook[p].head
            /\ \A q \in Handlers \ {p} : hook'[q] = hook[q]
        BY <1>7, <2>2, HandlerTypes DEF Goto, TypeOK, HookLock, Handler, IdleHandler, BusyHandler
      <3>2. hook[p].pc = "gate"
        BY <1>7 DEF HookLock
      <3>3. QED
        BY <1>2, <1>3, <3>1, <3>2 DEF Locked
    <2>3. QED
      BY <1>7, <2>1, <2>2 DEF HookLock
  <1>8. ASSUME NEW p \in Handlers, HookSelect(p) PROVE HandlersInformed'
    <2>1. hook[p] \in BusyHandler
      BY <1>8 DEF HookSelect, TypeOK, Handler, IdleHandler
    <2>2. CASE row[hook[p].head] \in {"none", "failed"}
      <3>1. /\ hook'[p].pc = (IF row[hook[p].head] = "none" THEN "insert" ELSE "requeue")
            /\ hook'[p].others = OlderReviews(hook[p].head) /\ hook'[p].head = hook[p].head
            /\ \A q \in Handlers \ {p} : hook'[q] = hook[q]
        BY <1>8, <2>1, <2>2 DEF HookSelect, TypeOK, BusyHandler
      <3>2. OlderReviews(hook[p].head) \subseteq Reviewed \ {hook[p].head}
        BY DEF OlderReviews, Reviewed, Active
      <3>3. row[hook[p].head] # "none" => hook[p].head \in Reviewed
        BY <2>1 DEF Reviewed, BusyHandler
      <3>4. QED
        BY <1>1, <1>3, <3>1, <3>2, <3>3
    <2>3. CASE row[hook[p].head] \notin {"none", "failed"}
      BY <1>4, <1>8, <2>3 DEF HookSelect
    <2>4. QED
      BY <2>2, <2>3
  <1>9. ASSUME NEW p \in Handlers, HookInsert(p) \/ HookRequeue(p) \/ ApiCommit(p)
        PROVE  HandlersInformed'
    <2>1. CASE hook' = Idle(p)
      BY <1>4, <2>1
    <2>2. CASE hook' # Idle(p)
      <3>1. PICK pc \in {"enqueue_new", "enqueue"} : hook' = Enqueuing(p, pc)
        BY <1>9, <2>2 DEF HookInsert, HookRequeue, ApiCommit
      <3>2. hook[p] \in BusyHandler
        BY <1>9 DEF HookInsert, HookRequeue, ApiCommit, TypeOK, Handler, IdleHandler
      <3>3. /\ hook'[p].pc = pc /\ hook'[p].head = hook[p].head
            /\ \A q \in Handlers \ {p} : hook'[q] = hook[q]
        BY <3>1, <3>2 DEF Enqueuing, TypeOK, BusyHandler
      <3>4. hook[p].head \in Reviewed'
        <4>1. CASE HookInsert(p)
          BY <2>2, <3>2, <4>1 DEF HookInsert, SupersedeOlderReviews, Reviewed, BusyHandler
        <4>2. CASE HookRequeue(p) \/ ApiCommit(p)
          BY <1>2, <4>2 DEF HookRequeue, ApiCommit
        <4>3. QED
          BY <1>9, <4>1, <4>2
      <3>5. QED
        BY <1>3, <3>3, <3>4
    <2>3. QED
      BY <2>1, <2>2
  <1>10. ASSUME NEW p \in Handlers, EnqueueRaises(p) \/ EnqueueReturnsNone(p)
         PROVE  HandlersInformed'
    <2>1. CASE hook' = Goto(p, "unlock")
      <3>1. /\ hook'[p].pc = "unlock" /\ hook'[p].head = hook[p].head
            /\ \A q \in Handlers \ {p} : hook'[q] = hook[q]
        BY <1>10, <2>1
        DEF Goto, TypeOK, EnqueueRaises, EnqueueReturnsNone, Handler, IdleHandler, BusyHandler
      <3>2. QED
        BY <1>2, <1>3, <1>10, <3>1 DEF EnqueueRaises, EnqueueReturnsNone
    <2>2. CASE hook' = Idle(p)
      BY <1>4, <2>2
    <2>3. QED
      BY <1>10, <2>1, <2>2 DEF EnqueueRaises, EnqueueReturnsNone
  <1>11. CASE UNCHANGED hook
    BY <1>2, <1>11 DEF HandlersInformed
  <1>12. QED
    BY <1>4, <1>5, <1>6, <1>7, <1>8, <1>9, <1>10, <1>11
    DEF Next, GitHubNext, HandlerNext, HandlerStep, WorkerNext, JobStep, TimeNext, vars,
        Push, Redeliver, HookDrop, HookSkip, EnqueueOk, HookUnlock,
        HandlerCrash, MarkFailed, JobStart, JobPreamble, JobFetch, JobReview, JobDeliver,
        JobFinish, JobWrite, JobFinishRaises, JobConclude, JobRelease, Cancel, WorkerCrash,
        RecoverRunning, RecoverQueued, RecoverCommit, LockExpire, LockExpireUnderJob, Expired

\* Every step of a job but its start ends it, or leaves its head and its tries alone.
JobGoesOn(j) == JobPreamble(j) \/ JobFetch(j) \/ JobReview(j) \/ JobDeliver(j) \/ JobFinish(j)
                  \/ JobWrite(j) \/ JobFinishRaises(j) \/ JobConclude(j) \/ JobRelease(j)
                  \/ WorkerCrash(j) \/ \E again \in BOOLEAN : Cancel(j, again)
Moved(j, to) ==
    /\ \A k \in Jobs \ {j} : to[k] = job[k]
    /\ \/ to[j].stage = "absent"
       \/ to[j].stage # "absent" /\ to[j].head = job[j].head /\ to[j].tries = job[j].tries

LEMMA JobMoves ==
    ASSUME TypeOK, NEW j \in Jobs, JobGoesOn(j)
    PROVE  Live(j) /\ job[j].stage # "queued" /\ UNCHANGED hook /\ Moved(j, job')
  <1>1. Live(j) /\ job[j].stage # "queued" /\ UNCHANGED hook
    BY DEF JobGoesOn, JobPreamble, JobFetch, JobReview, JobDeliver, JobFinish, JobWrite,
           JobFinishRaises, JobConclude, JobRelease, WorkerCrash, Cancel, Live, InTry
  <1>2. job \in [Jobs -> Job] /\ job[j] \in JobRecord
    BY <1>1 DEF TypeOK, Job, NoJob, Live
  <1>3. \A stage \in Stages : Moved(j, Step(j, stage))
    BY <1>2 DEF Moved, Step, JobRecord, Stages, InTry
  <1>4. /\ \A o : Moved(j, Conclude(j, o))
        /\ Moved(j, Releasing(j)) /\ Moved(j, Ended(j))
    BY <1>2 DEF Moved, Conclude, Releasing, Ended, NoJob, JobRecord
  <1>5. \A again : /\ Moved(j, [Conclude(j, "failed") EXCEPT ![j].again = again])
                   /\ Moved(j, [Releasing(j) EXCEPT ![j].again = again])
    BY <1>2 DEF Moved, Conclude, Releasing, JobRecord
  <1>6. Moved(j, Interrupted(j))
    BY <1>2, <1>4 DEF Moved, Interrupted, QueuedJob, NoJob
  <1>7. CASE JobFinish(j) \/ JobWrite(j)
    BY <1>1, <1>2, <1>7 DEF JobFinish, JobWrite, Moved, JobRecord
  <1>8. CASE ~(JobFinish(j) \/ JobWrite(j))
    <2>1. \/ \E stage \in Stages : job' = Step(j, stage)
          \/ \E o : job' = Conclude(j, o)
          \/ \E again : job' = [Conclude(j, "failed") EXCEPT ![j].again = again]
          \/ \E again : job' = [Releasing(j) EXCEPT ![j].again = again]
          \/ job' \in {Releasing(j), Ended(j), Interrupted(j)}
      BY <1>8 DEF JobGoesOn, JobPreamble, JobFetch, JobReview, JobDeliver, JobFinishRaises,
                  JobConclude, JobRelease, WorkerCrash, Cancel, Stages, InTry
    <2>2. QED
      BY <1>1, <1>3, <1>4, <1>5, <1>6, <2>1
  <1>9. QED
    BY <1>1, <1>7, <1>8

LEMMA TriesStep == TypeOK /\ TriesCounted /\ [Next]_vars => TriesCounted'
  <1> SUFFICES ASSUME TypeOK, TriesCounted, [Next]_vars PROVE TriesCounted'
    OBVIOUS
  <1>1. ASSUME NEW h \in Heads, Push(h) PROVE TriesCounted'
    BY <1>1, PushKeepsJobs DEF TriesCounted
  <1>2. ASSUME NEW p \in Handlers, EnqueueOk(p) \/ EnqueueRaises(p) PROVE TriesCounted'
    <2>1. CASE UNCHANGED job
      BY <2>1 DEF TriesCounted
    <2>2. CASE \E j \in Jobs : Enqueued(j, hook[p].head)
      BY <2>2 DEF Enqueued, QueuedJob, NoJob, TypeOK, TriesCounted
    <2>3. QED
      BY <1>2, <2>1, <2>2 DEF EnqueueOk, EnqueueRaises
  <1>3. ASSUME NEW j \in Jobs, JobStart(j) PROVE TriesCounted'
    <2>1. job[j] \in JobRecord
      BY <1>3 DEF JobStart, TypeOK, Job, NoJob
    <2>2. job'[j].tries = job[j].tries + 1 /\ \A k \in Jobs \ {j} : job'[k] = job[k]
      BY <1>3, <2>1 DEF JobStart, TypeOK, JobRecord
    <2>3. QED
      BY <2>1, <2>2 DEF JobRecord, TriesCounted
  <1>4. ASSUME NEW j \in Jobs, JobGoesOn(j) PROVE TriesCounted'
    BY <1>4, JobMoves DEF Moved, Live, TriesCounted
  <1>5. CASE UNCHANGED job
    BY <1>5 DEF TriesCounted
  <1>6. QED
    BY <1>1, <1>2, <1>3, <1>4, <1>5
    DEF Next, GitHubNext, HandlerNext, HandlerStep, WorkerNext, JobStep, TimeNext, vars,
        JobGoesOn, Redeliver, HookDrop, HookReceive, HookSkip, ApiRead, HookLock, HookSelect,
        HookInsert, HookRequeue, ApiCommit, EnqueueReturnsNone, HookUnlock, HandlerCrash,
        MarkFailed, RecoverRunning, RecoverQueued, RecoverCommit, LockExpire,
        LockExpireUnderJob, Expired

LEMMA LeaseStep ==
    ASSUME NoOvertaking, LockInv, LockInv', HandlersInformed, StaleReviewed, TriesCounted,
           [Next]_vars
    PROVE  [Lease!Next]_(Lease!vars)
  <1> DEFINE Kept(h) == LeaseOf(h)' = LeaseOf(h) /\ TriesOf(h)' = TriesOf(h)
  <1> USE DEF LockInv
  <1>1. ASSUME \A h \in Heads : Kept(h)
        PROVE  /\ UNCHANGED <<[h \in Heads |-> LeaseOf(h)], [h \in Heads |-> TriesOf(h)]>>
               /\ UNCHANGED row => [Lease!Next]_(Lease!vars)
    BY <1>1, Stutters
  <1>2. ASSUME \A j \in Jobs : /\ job'[j].stage = job[j].stage /\ job'[j].head = job[j].head
                               /\ job'[j].tries = job[j].tries,
               UNCHANGED <<hook, lock>>
        PROVE  \A h \in Heads : Kept(h)
    <2>1. ASSUME NEW h \in Heads PROVE JobsOf(h)' = JobsOf(h) /\ HoldersOf(h)' = HoldersOf(h)
      BY <1>2 DEF JobsOf, HoldersOf, Live, Holds
    <2>2. ASSUME NEW h \in Heads PROVE \A j \in JobsOf(h) : job'[j].tries = job[j].tries
      BY <1>2 DEF JobsOf
    <2>3. QED
      BY <1>2, <2>1, <2>2, LeaseFrame
  <1>3. ASSUME NEW h \in Heads, Push(h) PROVE [Lease!Next]_(Lease!vars)
    BY <1>1, <1>2, <1>3, PushKeepsJobs DEF Push
  <1>4. CASE UNCHANGED <<hook, lock, row, job>>
    BY <1>1, <1>2, <1>4
  <1>5. ASSUME NEW p \in Handlers, ~Holds(p), ~Holds(p)', UNCHANGED <<lock, job>>,
               \A q \in Handlers \ {p} : hook'[q] = hook[q]
        PROVE  \A h \in Heads : Kept(h)
    BY <1>5, HandlerFrame
  <1>6. ASSUME NEW p \in Handlers, HookReceive(p) \/ \E h \in Heads : ApiRead(p, h)
        PROVE  [Lease!Next]_(Lease!vars)
    <2>1. hook[p].pc = "idle" /\ UNCHANGED <<lock, job, row>>
      BY <1>6 DEF HookReceive, ApiRead
    <2>2. hook'[p].pc = "gate" /\ \A q \in Handlers \ {p} : hook'[q] = hook[q]
      <3>1. CASE HookReceive(p)
        BY <3>1 DEF HookReceive, IdleHandler, TypeOK
      <3>2. CASE \E h \in Heads : ApiRead(p, h)
        BY <3>2 DEF ApiRead, IdleHandler, TypeOK
      <3>3. QED
        BY <1>6, <3>1, <3>2
    <2>3. ~Holds(p) /\ ~Holds(p)'
      BY <2>1, <2>2 DEF Holds, Holding
    <2>4. QED
      BY <1>1, <1>5, <2>1, <2>2, <2>3
  <1>7. ASSUME NEW p \in Handlers, HookSkip(p) PROVE [Lease!Next]_(Lease!vars)
    <2>1. /\ ~Holds(p) /\ ~Holds(p)' /\ UNCHANGED <<lock, job>>
          /\ \A q \in Handlers \ {p} : hook'[q] = hook[q]
      BY <1>7 DEF HookSkip, Idle, Holds, Holding, IdleHandler, TypeOK
    <2>2. \A h \in Heads : Kept(h)
      BY <1>5, <2>1
    <2>3. hook[p].head \in Heads
      BY <1>7, HandlerTypes DEF HookSkip
    <2>4. CASE row[hook[p].head] = "none"
      <3>1. Lease!Skip(hook[p].head)
        BY <1>1, <1>7, <2>2, <2>4 DEF HookSkip, PersistSkippedReview, Lease!Skip
      <3>2. QED
        BY <2>3, <3>1 DEF Lease!Next
    <2>5. CASE row[hook[p].head] # "none"
      BY <1>1, <1>7, <2>2, <2>5 DEF HookSkip, PersistSkippedReview
    <2>6. QED
      BY <2>4, <2>5
  <1>8. ASSUME NEW p \in Handlers, HookLock(p) PROVE [Lease!Next]_(Lease!vars)
    <2>1. CASE lock[hook[p].head]
      <3>1. /\ ~Holds(p) /\ ~Holds(p)' /\ UNCHANGED <<lock, job, row>>
            /\ \A q \in Handlers \ {p} : hook'[q] = hook[q]
        BY <1>8, <2>1 DEF HookLock, Idle, Holds, Holding, IdleHandler, TypeOK
      <3>2. QED
        BY <1>1, <1>5, <3>1
    <2>2. CASE ~lock[hook[p].head]
      <3>1. PICK h \in Heads : h = hook[p].head
        BY <1>8, HandlerTypes DEF HookLock
      <3>2. /\ ~Holds(p) /\ Holds(p)' /\ hook'[p].head = h /\ UNCHANGED <<job, row>>
            /\ \A q \in Handlers \ {p} : hook'[q] = hook[q]
            /\ lock' = [lock EXCEPT ![h] = TRUE]
        <4>1. hook[p] \in BusyHandler
          BY <1>8 DEF HookLock, TypeOK, Handler, IdleHandler
        <4>2. QED
          BY <1>8, <2>2, <3>1, <4>1
          DEF HookLock, Goto, Locked, Holds, Holding, TypeOK, BusyHandler
      <3>3. JobsOf(h) = {} /\ HoldersOf(h) = {}
        BY <2>2, <3>1 DEF LockHandover, JobsOf, HoldersOf
      <3>4. LeaseOf(h) = "free" /\ TriesOf(h) = 0
        BY <2>2, <3>1, <3>3, LeaseRead DEF LeaseFacts
      <3>5. LeaseOf(h)' = "handler" /\ TriesOf(h)' = 0
        BY <3>2, LeaseReadNext DEF LeaseFacts
      <3>6. \A g \in Heads \ {h} : Kept(g)
        BY <3>1, <3>2, HandlerFrame DEF TypeOK
      <3>7. Lease!Passes(h, "free", "handler")
        BY <3>4, <3>5, <3>6, Passes
      <3>8. UNCHANGED [g \in Heads |-> TriesOf(g)]
        BY <3>4, <3>5, <3>6
      <3>9. Lease!Take(h)
        BY <3>2, <3>7, <3>8 DEF Lease!Take
      <3>10. QED
        BY <3>9 DEF Lease!Next
    <2>3. QED
      BY <2>1, <2>2
  <1>9. ASSUME NEW p \in Handlers, Holds(p), Holds(p)', hook'[p].head = hook[p].head,
               UNCHANGED <<lock, job>>, \A q \in Handlers \ {p} : hook'[q] = hook[q]
        PROVE  /\ \A h \in Heads : Kept(h)
               /\ UNCHANGED [h \in Heads |-> LeaseOf(h)]
               /\ UNCHANGED [h \in Heads |-> TriesOf(h)]
               /\ hook[p].head \in Heads /\ [h \in Heads |-> LeaseOf(h)][hook[p].head] = "handler"
    <2>1. \A h \in Heads : Kept(h)
      BY <1>9, HandlerFrame
    <2>2. hook[p].head \in Heads
      BY <1>9, HandlerTypes DEF Holds, Holding
    <2>3. LeaseOf(hook[p].head) = "handler"
      BY <1>9, LeaseRead DEF LeaseFacts
    <2>4. QED
      BY <1>1, <2>1, <2>2, <2>3
  <1>10. ASSUME NEW p \in Handlers, Holds(p), hook' = Idle(p), UNCHANGED job,
                \A g \in Heads \ {hook[p].head} : lock'[g] = lock[g],
                row' \in {row, Lease!Failed(Lease!Reviewed \cap {hook[p].head})}
         PROVE  [Lease!Next]_(Lease!vars)
    <2>1. PICK h \in Heads : h = hook[p].head
      BY <1>10, HandlerTypes DEF Holds, Holding
    <2>2. hook'[p].pc = "idle" /\ \A q \in Handlers \ {p} : hook'[q] = hook[q]
      BY <1>10 DEF Idle, IdleHandler, TypeOK
    <2>3. Lease!Withdraw(h)
      BY <1>10, <2>1, <2>2, Withdraws
    <2>4. QED
      BY <2>3 DEF Lease!Next
  <1>11. ASSUME NEW p \in Handlers, HookSelect(p) PROVE [Lease!Next]_(Lease!vars)
    <2>1. Holds(p) /\ UNCHANGED <<lock, row, job>>
      BY <1>11 DEF HookSelect, Holds, Holding
    <2>2. CASE hook' = Idle(p)
      BY <1>10, <2>1, <2>2
    <2>3. CASE hook' # Idle(p)
      <3>1. hook[p] \in BusyHandler
        BY <2>1 DEF Holds, Holding, TypeOK, Handler, IdleHandler
      <3>2. /\ Holds(p)' /\ hook'[p].head = hook[p].head
            /\ \A q \in Handlers \ {p} : hook'[q] = hook[q]
        BY <1>11, <2>3, <3>1 DEF HookSelect, Holds, Holding, TypeOK, BusyHandler
      <3>3. QED
        BY <1>1, <1>9, <2>1, <3>2
    <2>4. QED
      BY <2>2, <2>3
  <1>12. ASSUME NEW p \in Handlers, HookInsert(p) \/ HookRequeue(p) \/ ApiCommit(p)
         PROVE  [Lease!Next]_(Lease!vars)
    <2>1. Holds(p) /\ UNCHANGED <<lock, job>>
      BY <1>12 DEF HookInsert, HookRequeue, ApiCommit, Holds, Holding
    <2>2. CASE hook' = Idle(p)
      <3>1. \A pc \in {"enqueue_new", "enqueue"} : Enqueuing(p, pc) # Idle(p)
        <4>1. hook[p] \in BusyHandler
          BY <2>1 DEF Holds, Holding, TypeOK, Handler, IdleHandler
        <4>2. \A pc : Enqueuing(p, pc)[p].pc = pc /\ Idle(p)[p].pc = "idle"
          BY <4>1 DEF Enqueuing, Idle, IdleHandler, TypeOK, BusyHandler
        <4>3. QED
          BY <4>2
      <3>2. UNCHANGED row
        BY <1>12, <2>2, <3>1 DEF HookInsert, HookRequeue, ApiCommit
      <3>3. QED
        BY <1>10, <2>1, <2>2, <3>2
    <2>3. CASE hook' # Idle(p)
      <3>1. PICK pc \in {"enqueue_new", "enqueue"} : hook' = Enqueuing(p, pc)
        BY <1>12, <2>3 DEF HookInsert, HookRequeue, ApiCommit
      <3>2. hook[p] \in BusyHandler
        BY <2>1 DEF Holds, Holding, TypeOK, Handler, IdleHandler
      <3>3. /\ Holds(p)' /\ hook'[p].head = hook[p].head
            /\ \A q \in Handlers \ {p} : hook'[q] = hook[q]
        BY <3>1, <3>2 DEF Enqueuing, Holds, Holding, TypeOK, BusyHandler
      <3>4. /\ \A h \in Heads : Kept(h)
            /\ UNCHANGED [h \in Heads |-> LeaseOf(h)]
            /\ UNCHANGED [h \in Heads |-> TriesOf(h)]
            /\ hook[p].head \in Heads /\ [h \in Heads |-> LeaseOf(h)][hook[p].head] = "handler"
        BY <1>9, <2>1, <3>3
      <3>5. CASE HookInsert(p) \/ HookRequeue(p)
        <4>1. hook[p].others \in SUBSET (Lease!Reviewed \ {hook[p].head})
          BY <3>5 DEF HandlersInformed, HookInsert, HookRequeue, Reviewed, Lease!Reviewed
        <4>2. row' = SupersedeOlderReviews(p)
          BY <2>3, <3>5 DEF HookInsert, HookRequeue
        <4>3. Lease!Submit(hook[p].head)
          BY <3>4, <4>1, <4>2 DEF Lease!Submit, SupersedeOlderReviews
        <4>4. QED
          BY <3>4, <4>3 DEF Lease!Next
      <3>6. CASE ApiCommit(p)
        <4>1. CASE UNCHANGED row
          BY <1>1, <3>4, <4>1
        <4>2. CASE row' = [row EXCEPT ![hook[p].head] = "queued"]
          <5>1. \E others \in SUBSET (Lease!Reviewed \ {hook[p].head}) :
                  row' = [g \in Heads |-> IF g = hook[p].head THEN "queued"
                                          ELSE IF g \in others THEN "superseded" ELSE row[g]]
            <6>1. row' = [g \in Heads |-> IF g = hook[p].head THEN "queued"
                                          ELSE IF g \in {} THEN "superseded" ELSE row[g]]
              BY <4>2 DEF TypeOK
            <6> WITNESS {} \in SUBSET (Lease!Reviewed \ {hook[p].head})
            <6>2. QED
              BY <6>1
          <5>2. Lease!Submit(hook[p].head)
            BY <3>4, <5>1 DEF Lease!Submit
          <5>3. QED
            BY <3>4, <5>2 DEF Lease!Next
        <4>3. QED
          BY <3>6, <4>1, <4>2 DEF ApiCommit
      <3>7. QED
        BY <1>12, <3>5, <3>6
    <2>4. QED
      BY <2>2, <2>3
  <1>13. ASSUME NEW p \in Handlers, EnqueueOk(p) PROVE [Lease!Next]_(Lease!vars)
    <2>1. PICK h \in Heads : h = hook[p].head
      BY <1>13, HandlerTypes DEF EnqueueOk
    <2>2. PICK j \in Jobs : Enqueued(j, h)
      BY <1>13, <2>1 DEF EnqueueOk
    <2>3. /\ Holds(p) /\ ~Holds(p)' /\ UNCHANGED <<lock, row>>
          /\ \A q \in Handlers \ {p} : hook'[q] = hook[q]
      BY <1>13 DEF EnqueueOk, Holds, Holding, Idle, IdleHandler, TypeOK
    <2>4. /\ ~Live(j) /\ Live(j)' /\ job'[j].head = h /\ job'[j].tries = 0
          /\ \A k \in Jobs \ {j} : job'[k] = job[k]
      BY <2>2 DEF Enqueued, QueuedJob, NoJob, Live, TypeOK
    <2>5. LeaseOf(h) = "handler" /\ TriesOf(h) = 0
      BY <2>1, <2>3, LeaseRead DEF LeaseFacts
    <2>6. LeaseOf(h)' = "job" /\ TriesOf(h)' = 0
      BY <2>4, LeaseReadNext DEF LeaseFacts
    <2>7. ASSUME NEW g \in Heads \ {h} PROVE Kept(g)
      <3>1. HoldersOf(g)' = HoldersOf(g)
        BY <2>1, <2>3 DEF HoldersOf, Holds
      <3>2. JobsOf(g)' = JobsOf(g)
        BY <2>4 DEF JobsOf, Live
      <3>3. \A k \in JobsOf(g) : job'[k].tries = job[k].tries
        BY <2>4 DEF JobsOf
      <3>4. QED
        BY <2>3, <3>1, <3>2, <3>3, LeaseFrame
    <2>8. Lease!Passes(h, "handler", "job")
      BY <2>5, <2>6, <2>7, Passes
    <2>9. UNCHANGED [g \in Heads |-> TriesOf(g)]
      BY <2>5, <2>6, <2>7
    <2>10. row[h] # "none"
      BY <1>13, <2>1 DEF EnqueueOk, HandlersInformed, Reviewed
    <2>11. Lease!HandOver(h)
      BY <2>3, <2>8, <2>9, <2>10 DEF Lease!HandOver
    <2>12. QED
      BY <2>11 DEF Lease!Next
  <1>14. ASSUME NEW p \in Handlers, EnqueueRaises(p) \/ EnqueueReturnsNone(p)
         PROVE  [Lease!Next]_(Lease!vars)
    <2>1. /\ Holds(p) /\ UNCHANGED <<lock, job>> /\ hook[p].head \in Heads
          /\ hook[p].head \in Reviewed
      BY <1>14, HandlerTypes
      DEF EnqueueRaises, EnqueueReturnsNone, NoOvertaking, Overtaking, Holds, Holding,
          HandlersInformed
    <2>2. row' \in {row, Lease!Failed(Lease!Reviewed \cap {hook[p].head})}
      BY <1>14, <2>1
      DEF EnqueueRaises, EnqueueReturnsNone, Lease!Failed, Lease!Reviewed, Reviewed, TypeOK
    <2>3. CASE hook' = Idle(p)
      BY <1>10, <2>1, <2>2, <2>3
    <2>4. CASE hook' = Goto(p, "unlock")
      <3>1. /\ Holds(p)' /\ hook'[p].head = hook[p].head
            /\ \A q \in Handlers \ {p} : hook'[q] = hook[q]
        <4>1. hook[p] \in BusyHandler
          BY <2>1 DEF Holds, Holding, TypeOK, Handler, IdleHandler
        <4>2. QED
          BY <2>4, <4>1 DEF Goto, Holds, Holding, TypeOK, BusyHandler
      <3>2. /\ \A h \in Heads : Kept(h)
            /\ UNCHANGED [h \in Heads |-> LeaseOf(h)]
            /\ UNCHANGED [h \in Heads |-> TriesOf(h)]
        BY <1>9, <2>1, <3>1
      <3>3. CASE UNCHANGED row
        BY <1>1, <3>2, <3>3
      <3>4. CASE row' = Lease!Failed(Lease!Reviewed \cap {hook[p].head})
        <4>1. Lease!Fail(Lease!Reviewed \cap {hook[p].head})
          BY <3>2, <3>4 DEF Lease!Fail
        <4>2. QED
          BY <4>1 DEF Lease!Next
      <3>5. QED
        BY <2>2, <3>3, <3>4
    <2>5. QED
      BY <1>14, <2>3, <2>4 DEF EnqueueRaises, EnqueueReturnsNone
  <1>15. ASSUME NEW p \in Handlers, HookUnlock(p) \/ HandlerCrash(p)
         PROVE  [Lease!Next]_(Lease!vars)
    <2>1. CASE Holds(p)
      <3>1. \A g \in Heads \ {hook[p].head} : lock'[g] = lock[g]
        BY <1>15 DEF HookUnlock, HandlerCrash, TypeOK
      <3>2. QED
        BY <1>10, <1>15, <2>1, <3>1 DEF HookUnlock, HandlerCrash
    <2>2. CASE ~Holds(p)
      <3>1. /\ ~Holds(p)' /\ UNCHANGED <<lock, job, row>>
            /\ \A q \in Handlers \ {p} : hook'[q] = hook[q]
        BY <1>15, <2>2 DEF HookUnlock, HandlerCrash, Idle, Holds, Holding, IdleHandler, TypeOK
      <3>2. QED
        BY <1>1, <1>5, <2>2, <3>1
    <2>3. QED
      BY <2>1, <2>2
  <1>16. ASSUME NEW hs \in SUBSET Reviewed, row' = Lease!Failed(hs), UNCHANGED <<hook, lock, job>>
         PROVE  [Lease!Next]_(Lease!vars)
    <2>1. hs \in SUBSET Lease!Reviewed
      BY DEF Reviewed, Lease!Reviewed
    <2>2. \A h \in Heads : Kept(h)
      BY <1>2, <1>16
    <2>3. Lease!Fail(hs)
      BY <1>1, <1>16, <2>2 DEF Lease!Fail
    <2>4. QED
      BY <2>1, <2>3 DEF Lease!Next
  <1>17. ASSUME NEW h \in Heads, MarkFailed(h) PROVE [Lease!Next]_(Lease!vars)
    <2>1. {h} \in SUBSET Reviewed /\ row' = Lease!Failed({h})
      BY <1>17 DEF MarkFailed, Reviewed, Lease!Failed, TypeOK
    <2>2. QED
      BY <1>16, <1>17, <2>1 DEF MarkFailed
  <1>18. CASE RecoverCommit
    BY <1>16, <1>18 DEF RecoverCommit, StaleReviewed, Lease!Failed
  <1>19. ASSUME NEW j \in Jobs, JobStart(j) PROVE [Lease!Next]_(Lease!vars)
    <2>1. job[j] \in JobRecord /\ job[j].tries < MaxTries
      BY <1>19 DEF JobStart, TypeOK, Job, NoJob
    <2>2. PICK h \in Heads : h = job[j].head
      BY <2>1 DEF JobRecord
    <2>3. /\ Live(j) /\ Live(j)' /\ UNCHANGED <<hook, lock>>
          /\ job'[j].head = h /\ job'[j].tries = job[j].tries + 1
          /\ row' = [row EXCEPT ![h] = "running"]
          /\ \A k \in Jobs \ {j} : job'[k] = job[k]
      BY <1>19, <2>1, <2>2 DEF JobStart, Live, TypeOK, JobRecord
    <2>4. LeaseOf(h) = "job" /\ TriesOf(h) = job[j].tries
      BY <2>2, <2>3, LeaseRead DEF LeaseFacts
    <2>5. LeaseOf(h)' = "job" /\ TriesOf(h)' = TriesOf(h) + 1
      BY <2>3, <2>4, LeaseReadNext DEF LeaseFacts
    <2>6. \A g \in Heads \ {h} : Kept(g)
      BY <2>2, <2>3, JobFrame
    <2>7. UNCHANGED [g \in Heads |-> LeaseOf(g)]
      BY <2>4, <2>5, <2>6
    <2>8. [g \in Heads |-> TriesOf(g)]' = [[g \in Heads |-> TriesOf(g)] EXCEPT ![h] = @ + 1]
      BY <2>5, <2>6
    <2>9. Lease!Start(h)
      BY <2>1, <2>3, <2>4, <2>7, <2>8 DEF Lease!Start
    <2>10. QED
      BY <2>9 DEF Lease!Next
  <1>20. ASSUME NEW j \in Jobs, JobGoesOn(j) PROVE [Lease!Next]_(Lease!vars)
    <2>1. Live(j) /\ job[j].stage # "queued" /\ UNCHANGED hook /\ Moved(j, job')
      BY <1>20, JobMoves
    <2>2. job[j] \in JobRecord
      BY <2>1 DEF TypeOK, Job, NoJob, Live
    <2>3. PICK h \in Heads : h = job[j].head
      BY <2>2 DEF JobRecord
    <2>4. \A g \in Heads \ {h} : lock'[g] = lock[g]
      BY <1>20, <2>3
      DEF JobGoesOn, JobPreamble, JobFetch, JobReview, JobDeliver, JobFinish, JobWrite,
          JobFinishRaises, JobConclude, JobRelease, WorkerCrash, Cancel, TypeOK
    <2>5. CASE ~Live(j)'
      <3>1. UNCHANGED row
        <4>1. ~JobWrite(j)
          BY <2>2, <2>5 DEF JobWrite, Live, TypeOK, JobRecord
        <4>2. QED
          BY <1>20, <4>1
          DEF JobGoesOn, JobPreamble, JobFetch, JobReview, JobDeliver, JobFinish,
              JobFinishRaises, JobConclude, JobRelease, WorkerCrash, Cancel
      <3>2. Lease!Leave(h)
        BY <2>1, <2>3, <2>4, <2>5, <3>1, Leaves DEF Moved, Live
      <3>3. QED
        BY <3>2 DEF Lease!Next
    <2>6. CASE Live(j)'
      <3>1. UNCHANGED lock
        <4>1. ~JobRelease(j)
          BY <2>1, <2>6 DEF JobRelease, Ended, NoJob, Live, LockHandover, TypeOK
        <4>2. QED
          BY <1>20, <4>1
          DEF JobGoesOn, JobPreamble, JobFetch, JobReview, JobDeliver, JobFinish, JobWrite,
              JobFinishRaises, JobConclude, WorkerCrash, Cancel
      <3>2. \A g \in Heads : Kept(g)
        BY <2>1, <2>6, <3>1, JobFrame DEF Moved, Live
      <3>3. CASE UNCHANGED row
        BY <1>1, <3>2, <3>3
      <3>4. CASE row' # row
        <4>1. JobWrite(j)
          BY <1>20, <3>4
          DEF JobGoesOn, JobPreamble, JobFetch, JobReview, JobDeliver, JobFinish,
              JobFinishRaises, JobConclude, JobRelease, WorkerCrash, Cancel
        <4>2. job[j].outcome \in Outcomes /\ row' = [row EXCEPT ![h] = job[j].outcome]
          BY <2>2, <2>3, <3>4, <4>1 DEF JobWrite, JobRecord
        <4>3. LeaseOf(h) = "job" /\ TriesOf(h) > 0
          BY <2>1, <2>3, LeaseRead DEF LeaseFacts, TriesCounted, Live
        <4>4. Lease!Settle(h)
          BY <1>1, <3>2, <4>2, <4>3 DEF Lease!Settle
        <4>5. QED
          BY <4>4 DEF Lease!Next
      <3>5. QED
        BY <3>3, <3>4
    <2>7. QED
      BY <2>5, <2>6
  <1>21. ASSUME NEW h \in Heads, LockExpire(h) PROVE [Lease!Next]_(Lease!vars)
    <2>1. /\ JobsOf(h) = {} /\ HoldersOf(h) = {} /\ UNCHANGED <<hook, job, row>>
          /\ lock[h] /\ lock' = [lock EXCEPT ![h] = FALSE]
      BY <1>21 DEF LockExpire, Expired
    <2>2. JobsOf(h)' = {} /\ HoldersOf(h)' = {}
      BY <2>1 DEF JobsOf, HoldersOf, Live, Holds
    <2>3. LeaseOf(h) = "orphan" /\ TriesOf(h) = 0
      BY <2>1, LeaseRead DEF LeaseFacts
    <2>4. LeaseOf(h)' = "free" /\ TriesOf(h)' = 0
      BY <2>1, <2>2, LeaseReadNext DEF LeaseFacts, TypeOK
    <2>5. ASSUME NEW g \in Heads \ {h} PROVE Kept(g)
      <3>1. JobsOf(g)' = JobsOf(g) /\ HoldersOf(g)' = HoldersOf(g) /\ lock'[g] = lock[g]
        BY <2>1 DEF JobsOf, HoldersOf, Live, Holds, TypeOK
      <3>2. QED
        BY <2>1, <3>1, LeaseFrame
    <2>6. Lease!Passes(h, "orphan", "free")
      BY <2>3, <2>4, <2>5, Passes
    <2>7. UNCHANGED [g \in Heads |-> TriesOf(g)]
      BY <2>3, <2>4, <2>5
    <2>8. Lease!Expire(h)
      BY <2>1, <2>6, <2>7 DEF Lease!Expire
    <2>9. QED
      BY <2>8 DEF Lease!Next
  <1>22. \A h \in Heads : ~LockExpireUnderJob(h)
    BY DEF LockExpireUnderJob, NoOvertaking, Overtaking
  <1>23. QED
    BY <1>3, <1>4, <1>6, <1>7, <1>8, <1>11, <1>12, <1>13, <1>14, <1>15, <1>17, <1>18, <1>19,
       <1>20, <1>21, <1>22
    DEF Next, GitHubNext, HandlerNext, HandlerStep, WorkerNext, JobStep, TimeNext, vars,
        JobGoesOn, Redeliver, HookDrop, RecoverRunning, RecoverQueued

\* While no fault lets a job overtake its lock, the locks, handlers, rows and jobs of
\* the code are a ReviewLease: every step is one of the lease's, or none.
THEOREM LifecycleImplementsLease ==
    ASSUME NoOvertaking
    PROVE  Spec => ImplementsReviewLease
  <1>1. Init => Lease!Init
    <2> SUFFICES ASSUME Init PROVE Lease!Init
      OBVIOUS
    <2>1. \A h \in Heads : JobsOf(h) = {} /\ HoldersOf(h) = {}
      BY DEF Init, JobsOf, HoldersOf, Live, Holds, Holding, NoJob, IdleHandler
    <2>2. \A h \in Heads : LeaseOf(h) = "free" /\ TriesOf(h) = 0
      BY <2>1 DEF Init, LeaseOf, TriesOf
    <2>3. QED
      BY <2>2 DEF Init, Lease!Init
  <1>2. Init => HandlersInformed /\ StaleReviewed /\ TriesCounted
    BY DEF Init, HandlersInformed, StaleReviewed, TriesCounted, NoJob, IdleHandler
  <1>3. TypeOK /\ (HandlersInformed /\ StaleReviewed /\ TriesCounted) /\ [Next]_vars
          => (HandlersInformed /\ StaleReviewed /\ TriesCounted)'
    BY InformedStep, StaleStep, TriesStep
  <1>4. /\ TypeOK /\ OneJobPerHead /\ LockHandover
        /\ (TypeOK /\ OneJobPerHead /\ LockHandover)'
        /\ HandlersInformed /\ StaleReviewed /\ TriesCounted /\ [Next]_vars
        => [Lease!Next]_(Lease!vars)
    BY LeaseStep DEF LockInv
  <1>5. QED
    BY <1>1, <1>2, <1>3, <1>4, TypeCorrect, LockKeepsOneJobPerHead, PTL
    DEF Spec, ImplementsReviewLease, Lease!Spec
=============================================================================
