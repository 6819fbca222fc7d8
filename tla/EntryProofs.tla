----------------------------- MODULE EntryProofs -----------------------------
(***************************************************************************)
(* Proofs about what a request passes until the depth of its review is     *)
(* decided: the deduplication of webhook deliveries, for any number of     *)
(* deliveries, requests and redeliveries; the gates of an installation,    *)
(* for any limits, users and number of requests at the same time; and the  *)
(* routing, for any number of jobs, runs of the tuner and rollbacks, any   *)
(* metrics and any configuration files.                                    *)
(***************************************************************************)
EXTENDS WebhookDelivery, AdmissionGates, ReviewRouting, FiniteSetTheorems, TLAPS

-----------------------------------------------------------------------------
(* Delivery markers: type correctness *)

LEMMA DeliveryInitType == DeliveryInit => DeliveryTypeOK
BY DeliveriesAssumption DEF DeliveryInit, DeliveryTypeOK, Markers

LEMMA DeliveryNextType == DeliveryTypeOK /\ [DeliveryNext]_deliveryVars => DeliveryTypeOK'
<1> SUFFICES ASSUME DeliveryTypeOK, [DeliveryNext]_deliveryVars PROVE DeliveryTypeOK'
  OBVIOUS
<1> USE DeliveriesAssumption DEF DeliveryTypeOK, Markers, Busy, NoRequest, GoOn, Answer
<1>1. ASSUME NEW p \in Requests, NEW d \in Deliveries, Send(p, d) PROVE DeliveryTypeOK'
  BY <1>1 DEF Send
<1>2. ASSUME NEW p \in Requests, IsDuplicateDelivery(p) PROVE DeliveryTypeOK'
  BY <1>2 DEF IsDuplicateDelivery
<1>3. ASSUME NEW p \in Requests, HandlerSucceeds(p) PROVE DeliveryTypeOK'
  BY <1>3 DEF HandlerSucceeds
<1>4. ASSUME NEW p \in Requests, HandlerRaises(p) PROVE DeliveryTypeOK'
  BY <1>4 DEF HandlerRaises
<1>5. ASSUME NEW p \in Requests, ReleaseDelivery(p) PROVE DeliveryTypeOK'
  BY <1>5 DEF ReleaseDelivery
<1>6. ASSUME NEW p \in Requests, MarkDeliveryDone(p) PROVE DeliveryTypeOK'
  BY <1>6 DEF MarkDeliveryDone
<1>7. ASSUME NEW p \in Requests, ProcessDies(p) PROVE DeliveryTypeOK'
  BY <1>7 DEF ProcessDies
<1>8. ASSUME NEW d \in Deliveries, MarkerExpires(d) PROVE DeliveryTypeOK'
  BY <1>8 DEF MarkerExpires
<1>9. CASE UNCHANGED deliveryVars
  BY <1>9 DEF deliveryVars
<1> QED
  BY <1>1, <1>2, <1>3, <1>4, <1>5, <1>6, <1>7, <1>8, <1>9 DEF DeliveryNext, RequestStep

\* Every reachable state has the shapes DeliveryTypeOK describes; in particular only
\* requests that claimed their delivery mark or release it.
THEOREM DeliveryTypeCorrect == DeliverySpec => []DeliveryTypeOK
BY DeliveryInitType, DeliveryNextType, PTL DEF DeliverySpec

-----------------------------------------------------------------------------
(* Done markers *)

\* A request that is about to mark its delivery done has handled it.
MarkMeansHandled ==
    \A p \in Requests : request[p].pc = "mark" => handled[request[p].delivery] > 0

LEMMA NextDone ==
    DeliveryTypeOK /\ MarkMeansHandled /\ DoneMeansHandled /\ [DeliveryNext]_deliveryVars
        => MarkMeansHandled' /\ DoneMeansHandled'
<1> SUFFICES ASSUME DeliveryTypeOK, MarkMeansHandled, DoneMeansHandled, [DeliveryNext]_deliveryVars
             PROVE  MarkMeansHandled' /\ DoneMeansHandled'
  OBVIOUS
<1> USE DEF DeliveryTypeOK, MarkMeansHandled, DoneMeansHandled, Markers, Busy, NoRequest,
            GoOn, Answer
<1>1. ASSUME NEW p \in Requests, NEW d \in Deliveries, Send(p, d)
      PROVE  MarkMeansHandled' /\ DoneMeansHandled'
  BY <1>1 DEF Send
<1>2. ASSUME NEW p \in Requests, IsDuplicateDelivery(p)
      PROVE  MarkMeansHandled' /\ DoneMeansHandled'
  BY <1>2 DEF IsDuplicateDelivery
<1>3. ASSUME NEW p \in Requests, HandlerSucceeds(p)
      PROVE  MarkMeansHandled' /\ DoneMeansHandled'
  BY <1>3 DEF HandlerSucceeds
<1>4. ASSUME NEW p \in Requests, HandlerRaises(p)
      PROVE  MarkMeansHandled' /\ DoneMeansHandled'
  BY <1>4 DEF HandlerRaises
<1>5. ASSUME NEW p \in Requests, ReleaseDelivery(p)
      PROVE  MarkMeansHandled' /\ DoneMeansHandled'
  BY <1>5 DEF ReleaseDelivery
<1>6. ASSUME NEW p \in Requests, MarkDeliveryDone(p)
      PROVE  MarkMeansHandled' /\ DoneMeansHandled'
  BY <1>6 DEF MarkDeliveryDone
<1>7. ASSUME NEW p \in Requests, ProcessDies(p)
      PROVE  MarkMeansHandled' /\ DoneMeansHandled'
  BY <1>7 DEF ProcessDies
<1>8. ASSUME NEW d \in Deliveries, MarkerExpires(d)
      PROVE  MarkMeansHandled' /\ DoneMeansHandled'
  BY <1>8 DEF MarkerExpires
<1>9. CASE UNCHANGED deliveryVars
  BY <1>9 DEF deliveryVars
<1> QED
  BY <1>1, <1>2, <1>3, <1>4, <1>5, <1>6, <1>7, <1>8, <1>9 DEF DeliveryNext, RequestStep

\* Under every fault, a delivery is marked done only after its handler succeeded.
THEOREM DoneDeliveriesHandled == DeliverySpec => []DoneMeansHandled
<1>1. DeliveryInit => MarkMeansHandled /\ DoneMeansHandled
  BY DEF DeliveryInit, MarkMeansHandled, DoneMeansHandled, NoRequest
<1> QED
  BY <1>1, NextDone, DeliveryTypeCorrect, PTL DEF DeliverySpec

-----------------------------------------------------------------------------
(* One request per delivery, and one success *)

DeliveryInv == DeliveryTypeOK /\ OneRequestPerDelivery /\ HandledOnce

LEMMA NextOnce ==
    ASSUME "slow" \notin DeliveryFaults
    PROVE  DeliveryInv /\ [DeliveryNext]_deliveryVars => OneRequestPerDelivery' /\ HandledOnce'
<1> SUFFICES ASSUME DeliveryInv, [DeliveryNext]_deliveryVars
             PROVE  OneRequestPerDelivery' /\ HandledOnce'
  OBVIOUS
<1> USE DEF DeliveryInv, DeliveryTypeOK, OneRequestPerDelivery, HandledOnce, At, Markers,
            Busy, NoRequest, GoOn, Answer
<1>1. ASSUME NEW p \in Requests, NEW d \in Deliveries, Send(p, d)
      PROVE  OneRequestPerDelivery' /\ HandledOnce'
  <2>1. OneRequestPerDelivery'
    BY <1>1 DEF Send
  <2>2. HandledOnce'
    BY <1>1 DEF Send
  <2> QED
    BY <2>1, <2>2
<1>2. ASSUME NEW p \in Requests, IsDuplicateDelivery(p)
      PROVE  OneRequestPerDelivery' /\ HandledOnce'
  <2>1. OneRequestPerDelivery'
    BY <1>2 DEF IsDuplicateDelivery
  <2>2. HandledOnce'
    BY <1>2 DEF IsDuplicateDelivery
  <2> QED
    BY <2>1, <2>2
<1>3. ASSUME NEW p \in Requests, HandlerSucceeds(p)
      PROVE  OneRequestPerDelivery' /\ HandledOnce'
  <2>1. OneRequestPerDelivery'
    BY <1>3 DEF HandlerSucceeds
  <2>2. HandledOnce'
    BY <1>3 DEF HandlerSucceeds
  <2> QED
    BY <2>1, <2>2
<1>4. ASSUME NEW p \in Requests, HandlerRaises(p)
      PROVE  OneRequestPerDelivery' /\ HandledOnce'
  <2>1. OneRequestPerDelivery'
    BY <1>4 DEF HandlerRaises
  <2>2. HandledOnce'
    BY <1>4 DEF HandlerRaises
  <2> QED
    BY <2>1, <2>2
<1>5. ASSUME NEW p \in Requests, ReleaseDelivery(p)
      PROVE  OneRequestPerDelivery' /\ HandledOnce'
  <2>1. OneRequestPerDelivery'
    BY <1>5 DEF ReleaseDelivery
  <2>2. HandledOnce'
    BY <1>5 DEF ReleaseDelivery
  <2> QED
    BY <2>1, <2>2
<1>6. ASSUME NEW p \in Requests, MarkDeliveryDone(p)
      PROVE  OneRequestPerDelivery' /\ HandledOnce'
  <2>1. OneRequestPerDelivery'
    BY <1>6 DEF MarkDeliveryDone
  <2>2. HandledOnce'
    BY <1>6 DEF MarkDeliveryDone
  <2> QED
    BY <2>1, <2>2
<1>7. ASSUME NEW p \in Requests, ProcessDies(p)
      PROVE  OneRequestPerDelivery' /\ HandledOnce'
  <2>1. OneRequestPerDelivery'
    BY <1>7 DEF ProcessDies
  <2>2. HandledOnce'
    BY <1>7 DEF ProcessDies
  <2> QED
    BY <2>1, <2>2
<1>8. ASSUME NEW d \in Deliveries, MarkerExpires(d)
      PROVE  OneRequestPerDelivery' /\ HandledOnce'
  <2>1. OneRequestPerDelivery'
    BY <1>8 DEF MarkerExpires
  <2>2. HandledOnce'
    BY <1>8 DEF MarkerExpires
  <2> QED
    BY <2>1, <2>2
<1>9. CASE UNCHANGED deliveryVars
  BY <1>9 DEF deliveryVars
<1> QED
  BY <1>1, <1>2, <1>3, <1>4, <1>5, <1>6, <1>7, <1>8, <1>9 DEF DeliveryNext, RequestStep

LEMMA Once ==
    ASSUME "slow" \notin DeliveryFaults
    PROVE  DeliverySpec => [](OneRequestPerDelivery /\ HandledOnce)
<1>1. DeliveryInit => OneRequestPerDelivery /\ HandledOnce
  BY DEF DeliveryInit, OneRequestPerDelivery, HandledOnce, At, NoRequest
<1>2. DeliveryTypeOK /\ OneRequestPerDelivery /\ HandledOnce /\ [DeliveryNext]_deliveryVars
        => OneRequestPerDelivery' /\ HandledOnce'
  BY NextOnce DEF DeliveryInv
<1> QED
  BY <1>1, <1>2, DeliveryTypeCorrect, PTL DEF DeliverySpec

\* Unless a handler outlives its marker, at most one request at a time works on
\* a delivery, whatever fails, dies or is sent again.
THEOREM WorkedOnByOneRequest ==
    ASSUME "slow" \notin DeliveryFaults
    PROVE  DeliverySpec => []OneRequestPerDelivery
BY Once, PTL

\* Unless a handler outlives its marker, a delivery is handled with success at
\* most once, as long as the marker of that success is kept.
THEOREM HandledAtMostOnce ==
    ASSUME "slow" \notin DeliveryFaults
    PROVE  DeliverySpec => []HandledOnce
BY Once, PTL

-----------------------------------------------------------------------------
(* Gates: type correctness *)

Todos == Paths \cup {<<u>> : u \in Users}

LEMMA NextGateType ==
    ASSUME NEW r \in Reviews, review[r].todo \in Todos
    PROVE  /\ Head(review[r].todo) \in Keys
           /\ NextGate(r) \in Request
<1>1. CASE review[r].todo = <<Installation>>
  <2>1. Tail(review[r].todo) = <<>>
    BY <1>1
  <2> QED
    BY <1>1, <2>1 DEF NextGate, Request, Keys
<1>2. CASE \E u \in Users : review[r].todo = <<Installation, u>>
  <2>1. PICK u \in Users : review[r].todo = <<Installation, u>>
    BY <1>2
  <2>2. Tail(review[r].todo) = <<u>> /\ <<u>> # <<>>
    BY <2>1
  <2> QED
    BY <2>1, <2>2 DEF NextGate, Request, Keys
<1>3. CASE \E u \in Users : review[r].todo = <<u>>
  <2>1. PICK u \in Users : review[r].todo = <<u>>
    BY <1>3
  <2>2. Tail(review[r].todo) = <<>>
    BY <2>1
  <2> QED
    BY <2>1, <2>2 DEF NextGate, Request, Keys
<1> QED
  BY <1>1, <1>2, <1>3 DEF Todos, Paths

LEMMA TickType ==
    ASSUME TypeOK, Tick
    PROVE  now' \in 0 .. MaxTime /\ used' \in Nat /\ spent' \in Nat /\ skewed' \subseteq Skews
BY ConstantsAssumption DEF TypeOK, Tick

LEMMA InitType == Init => TypeOK
BY ConstantsAssumption DEF Init, TypeOK

LEMMA NextType == TypeOK /\ [Next]_vars => TypeOK'
<1> SUFFICES ASSUME TypeOK, [Next]_vars PROVE TypeOK'
  OBVIOUS
<1> USE ConstantsAssumption
<1>1. CASE Pass
  BY <1>1, TickType DEF Pass, TypeOK
<1>2. ASSUME NEW r \in Reviews, Submit(r) PROVE TypeOK'
  BY <1>2 DEF Submit, TypeOK, Become, Request
<1>3. ASSUME NEW r \in Reviews, ReadTime(r) PROVE TypeOK'
  <2>1. review[r].todo \in Todos /\ now \in 0 .. MaxTime
    BY <1>3 DEF ReadTime, TypeOK, Request, Idle, Todos
  <2>2. review' \in [Reviews -> {Idle} \cup Request]
    BY <1>3, <2>1 DEF ReadTime, TypeOK, Request, Become, Todos
  <2> QED
    BY <1>3, <2>2, TickType DEF ReadTime, TypeOK
<1>4. ASSUME NEW r \in Reviews, CheckWindow(r) PROVE TypeOK'
  <2>1. review[r].todo \in Todos /\ review[r].stamp \in 0 .. MaxTime
    BY <1>4 DEF CheckWindow, TypeOK, Request, Idle, Todos
  <2>2. Head(review[r].todo) \in Keys /\ NextGate(r) \in Request
    BY <2>1, NextGateType
  <2>3. InWindow(Head(review[r].todo), review[r].stamp) \subseteq 0 .. MaxTime
    BY <2>2 DEF InWindow, TypeOK
  <2>4. review' \in [Reviews -> {Idle} \cup Request]
    BY <1>4, <2>2 DEF CheckWindow, TypeOK, Become, End
  <2>5. window' \in [Keys -> SUBSET (0 .. MaxTime)] /\ granted' \in [Keys -> SUBSET (0 .. MaxTime)]
    BY <1>4, <2>1, <2>2, <2>3 DEF CheckWindow, TypeOK
  <2> QED
    BY <1>4, <2>4, <2>5 DEF CheckWindow, TypeOK
<1>5. ASSUME NEW r \in Reviews, CheckBudget(r) PROVE TypeOK'
  BY <1>5 DEF CheckBudget, TypeOK, Request, Idle, Goto, Become, End
<1>6. ASSUME NEW r \in Reviews, Finish(r) PROVE TypeOK'
  <2>1. \A t \in 0 .. MaxTokens :
          [pc |-> "record", tokens |-> t, again |-> FALSE] \in Request
    BY DEF Request
  <2>2. review' \in [Reviews -> {Idle} \cup Request]
    BY <1>6, <2>1 DEF Finish, TypeOK, Become, End
  <2> QED
    BY <1>6, <2>2 DEF Finish, TypeOK
<1>7. ASSUME NEW r \in Reviews, Record(r) PROVE TypeOK'
  <2>1. review[r].tokens \in 0 .. MaxTokens /\ review[r].again \in BOOLEAN
    BY <1>7 DEF Record, TypeOK, Request, Idle
  <2>2. review' \in [Reviews -> {Idle} \cup Request]
    BY <1>7, <2>1 DEF Record, TypeOK, Request, Idle, Goto
  <2>3. used' \in Nat
    BY <1>7, <2>1 DEF Record, TypeOK
  <2>4. spent' \in Nat
    BY <1>7, <2>1 DEF Record, TypeOK
  <2>5. skewed' \subseteq Skews
    BY <1>7 DEF Record, TypeOK, Skews
  <2> QED
    BY <1>7, <2>2, <2>3, <2>4, <2>5 DEF Record, TypeOK
<1>8. ASSUME NEW r \in Reviews, Write(r) PROVE TypeOK'
  BY <1>8 DEF Write, TypeOK, Request, Idle, Become, End
<1>9. CASE UNCHANGED vars
  BY <1>9 DEF vars, TypeOK
<1> QED
  BY <1>1, <1>2, <1>3, <1>4, <1>5, <1>6, <1>7, <1>8, <1>9 DEF Next, Step

\* Every reachable state has the shapes TypeOK describes; a request that waits
\* for a window has one left to pass.
THEOREM TypeCorrect == Spec => []TypeOK
BY InitType, NextType, PTL DEF Spec

-----------------------------------------------------------------------------
(* The budget *)

LEMMA NextBudget ==
    TypeOK /\ UsedWithinLimit /\ UsageExplained /\ [Next]_vars
        => UsedWithinLimit' /\ UsageExplained'
<1> SUFFICES ASSUME TypeOK, UsedWithinLimit, UsageExplained, [Next]_vars
             PROVE  UsedWithinLimit' /\ UsageExplained'
  OBVIOUS
<1> USE ConstantsAssumption DEF UsedWithinLimit, UsageExplained
<1>1. CASE Tick
  BY <1>1 DEF Tick, TypeOK
<1>2. ASSUME NEW r \in Reviews, Record(r) PROVE UsedWithinLimit' /\ UsageExplained'
  <2>1. review[r].tokens \in 0 .. MaxTokens
    BY <1>2 DEF Record, TypeOK, Request, Idle
  <2> QED
    BY <1>2, <2>1 DEF Record, TypeOK, Skews
<1>3. CASE UNCHANGED <<used, spent, skewed>>
  BY <1>3
<1>4. \A r \in Reviews : Step(r) =>
        Tick \/ Record(r) \/ UNCHANGED <<used, spent, skewed>>
  BY DEF Step, Submit, ReadTime, CheckWindow, CheckBudget, Finish, Write
<1> QED
  BY <1>1, <1>2, <1>3, <1>4 DEF Next, Pass, vars

LEMMA Budget == Spec => [](UsedWithinLimit /\ UsageExplained)
<1>1. Init => UsedWithinLimit /\ UsageExplained
  BY ConstantsAssumption DEF Init, UsedWithinLimit, UsageExplained
<1> QED
  BY <1>1, NextBudget, TypeCorrect, PTL DEF Spec

\* The tokens recorded for a day never exceed the budget, however many reviews
\* record at once.
THEOREM BudgetKept == Spec => []UsedWithinLimit
BY Budget, PTL

\* Recorded and spent tokens differ only by records that raised, were made twice
\* or did not fit, and a record fits until one review before the limit.
THEOREM UsageAccounted == Spec => []UsageExplained
BY Budget, PTL
-----------------------------------------------------------------------------
(* The windows *)

\* Requests that have read a time up to t and not yet been checked.
Late(k, t) ==
    {r \in Reviews : /\ review[r].pc = "window" /\ Head(review[r].todo) = k
                     /\ review[r].stamp <= t}

TimeRead == \A r \in Reviews : review[r].pc = "window" => review[r].stamp < now

\* Until a request with a later time is checked, the window still has every request
\* that passed, so the next one counts them all.
Counted(k, t) ==
    Recent(k, t) \subseteq window[k] /\ Cardinality(Recent(k, t)) <= WindowLimit

\* From then on only the requests that read their time before can pass uncounted: all
\* but the one that overtook them, and each once.
Overtaken(k, t) ==
    /\ now > t
    /\ Cardinality(Recent(k, t)) + Cardinality(Late(k, t))
         <= WindowLimit + Cardinality(Reviews) - 1

Limited(k, t) == Counted(k, t) \/ Overtaken(k, t)
WindowInv == TimeRead /\ \A k \in Keys, t \in 0 .. MaxTime : Limited(k, t)

LEMMA Finite ==
    ASSUME TypeOK, NEW k \in Keys, NEW t \in 0 .. MaxTime
    PROVE  /\ IsFiniteSet(Recent(k, t)) /\ Cardinality(Recent(k, t)) \in Nat
           /\ IsFiniteSet(Late(k, t)) /\ Cardinality(Late(k, t)) \in Nat
           /\ Cardinality(Reviews) \in Nat \ {0}
  <1>1. IsFiniteSet(0 .. MaxTime)
    BY ConstantsAssumption, FS_Interval
  <1>2. Recent(k, t) \subseteq 0 .. MaxTime /\ Late(k, t) \subseteq Reviews
    BY DEF Recent, Late, TypeOK
  <1>3. IsFiniteSet(Recent(k, t)) /\ IsFiniteSet(Late(k, t))
    BY <1>1, <1>2, ConstantsAssumption, FS_Subset
  <1>4. Cardinality(Reviews) \in Nat /\ Cardinality(Reviews) # 0
    BY ConstantsAssumption, FS_CardinalityType, FS_EmptySet
  <1>5. QED
    BY <1>3, <1>4, FS_CardinalityType

\* The check of a request keeps the window limited, whichever window and time it is for.
LEMMA CheckLimited ==
    ASSUME TypeOK, TypeOK', TimeRead, NEW r \in Reviews, CheckWindow(r),
           NEW k \in Keys, NEW t \in 0 .. MaxTime, Limited(k, t)
    PROVE  Limited(k, t)'
  <1> DEFINE key == Head(review[r].todo)
             stamp == review[r].stamp
  <1>1. /\ review[r].pc = "window" /\ key \in Keys /\ stamp \in 0 .. MaxTime /\ stamp < now
        /\ now' = now /\ now \in Nat
    BY NextGateType DEF CheckWindow, TypeOK, Request, Idle, Todos, TimeRead
  <1>2. review'[r].pc # "window" /\ \A q \in Reviews \ {r} : review'[q] = review[q]
    BY DEF CheckWindow, NextGate, Become, End, Idle, TypeOK
  <1>3. Late(k, t)' = Late(k, t) \ {r}
    BY <1>1, <1>2 DEF Late
  <1>4. /\ IsFiniteSet(Recent(k, t)) /\ Cardinality(Recent(k, t)) \in Nat
        /\ IsFiniteSet(Late(k, t)) /\ Cardinality(Late(k, t)) \in Nat
        /\ Cardinality(Reviews) \in Nat \ {0}
    BY Finite
  <1>5. IF r \in Late(k, t) THEN Cardinality(Late(k, t)') = Cardinality(Late(k, t)) - 1
                            ELSE Cardinality(Late(k, t)') = Cardinality(Late(k, t))
    BY <1>3, <1>4, FS_RemoveElement
  <1>6. CASE Recent(k, t)' = Recent(k, t)
    <2>1. CASE Overtaken(k, t)
      BY <1>1, <1>4, <1>5, <1>6, <2>1, ConstantsAssumption DEF Overtaken, Limited
    <2>2. CASE Counted(k, t) /\ (key # k \/ stamp <= t)
      <3>1. Recent(k, t) \subseteq window'[k]
        BY <1>1, <2>2, ConstantsAssumption
        DEF CheckWindow, InWindow, Counted, Recent, TypeOK
      <3>2. QED
        BY <1>6, <2>2, <3>1 DEF Counted, Limited
    <2>3. CASE Counted(k, t) /\ stamp > t
      <3>1. Late(k, t)' \subseteq Reviews \ {r}
        BY <1>3 DEF Late
      <3>2. /\ IsFiniteSet(Reviews \ {r})
            /\ Cardinality(Reviews \ {r}) = Cardinality(Reviews) - 1
        BY ConstantsAssumption, FS_RemoveElement
      <3>3. Cardinality(Late(k, t)') <= Cardinality(Reviews) - 1
        BY <3>1, <3>2, FS_Subset
      <3>4. Cardinality(Late(k, t)') \in Nat
        BY <1>4, <1>5, <3>1, <3>2, FS_Subset, FS_CardinalityType
      <3>5. now' > t
        BY <1>1, <2>3
      <3>6. QED
        BY <1>4, <1>6, <2>3, <3>3, <3>4, <3>5, ConstantsAssumption
        DEF Counted, Overtaken, Limited
    <2>4. QED
      BY <1>1, <2>1, <2>2, <2>3 DEF Limited
  <1>7. CASE Recent(k, t)' # Recent(k, t)
    <2>1. /\ key = k /\ stamp <= t /\ stamp + WindowLength > t /\ stamp \notin Recent(k, t)
          /\ Recent(k, t)' = Recent(k, t) \cup {stamp}
          /\ Cardinality(InWindow(k, stamp)) < WindowLimit
      <3>1. CASE granted' = granted
        BY <1>7, <3>1 DEF Recent
      <3>2. CASE /\ granted' = [granted EXCEPT ![key] = @ \cup {stamp}]
                 /\ Cardinality(InWindow(key, stamp)) < WindowLimit
        BY <1>1, <1>7, <3>2 DEF Recent, TypeOK
      <3>3. QED
        BY <3>1, <3>2 DEF CheckWindow
    <2>2. Cardinality(Recent(k, t)') = Cardinality(Recent(k, t)) + 1
      BY <1>4, <2>1, FS_AddElement
    <2>3. r \in Late(k, t)
      BY <1>1, <2>1 DEF Late
    <2>4. CASE Overtaken(k, t)
      BY <1>1, <1>4, <1>5, <2>2, <2>3, <2>4 DEF Overtaken, Limited
    <2>5. CASE Counted(k, t)
      <3>1. Recent(k, t) \subseteq InWindow(k, stamp)
        BY <1>1, <2>1, <2>5, ConstantsAssumption DEF Counted, Recent, InWindow, TypeOK
      <3>2. IsFiniteSet(InWindow(k, stamp)) /\ Cardinality(InWindow(k, stamp)) \in Nat
        <4>1. InWindow(k, stamp) \subseteq 0 .. MaxTime
          BY DEF InWindow, TypeOK
        <4>2. IsFiniteSet(0 .. MaxTime)
          BY ConstantsAssumption, FS_Interval
        <4>3. QED
          BY <4>1, <4>2, FS_Subset, FS_CardinalityType
      <3>3. Cardinality(Recent(k, t)) <= Cardinality(InWindow(k, stamp))
        BY <3>1, <3>2, FS_Subset
      <3>4. Cardinality(Recent(k, t)') <= WindowLimit
        BY <1>4, <2>1, <2>2, <3>2, <3>3, ConstantsAssumption
      <3>5. window'[k] = InWindow(k, stamp) \cup {stamp}
        BY <2>1 DEF CheckWindow, TypeOK
      <3>6. QED
        BY <2>1, <3>1, <3>4, <3>5 DEF Counted, Limited
    <2>6. QED
      BY <2>4, <2>5 DEF Limited
  <1>8. QED
    BY <1>6, <1>7

LEMMA WindowStep == TypeOK /\ TypeOK' /\ WindowInv /\ [Next]_vars => WindowInv'
  <1> SUFFICES ASSUME TypeOK, TypeOK', WindowInv, [Next]_vars PROVE WindowInv'
    OBVIOUS
  <1> USE DEF WindowInv
  <1>1. ASSUME NEW r \in Reviews, CheckWindow(r) PROVE WindowInv'
    <2>1. TimeRead'
      BY <1>1 DEF CheckWindow, NextGate, Become, End, Idle, TimeRead, TypeOK
    <2>2. QED
      BY <1>1, <2>1, CheckLimited
  <1>2. ASSUME UNCHANGED <<window, granted>>, now' >= now, TimeRead',
               \A k \in Keys, t \in 0 .. MaxTime :
                 now > t => Cardinality(Late(k, t)') <= Cardinality(Late(k, t))
        PROVE  WindowInv'
    <2>1. ASSUME NEW k \in Keys, NEW t \in 0 .. MaxTime PROVE Limited(k, t)'
      <3>1. Recent(k, t)' = Recent(k, t)
        BY <1>2 DEF Recent
      <3>2. CASE Counted(k, t)
        BY <1>2, <3>1, <3>2 DEF Counted, Limited
      <3>3. CASE Overtaken(k, t)
        <4>1. now' > t /\ Cardinality(Late(k, t)') <= Cardinality(Late(k, t))
          BY <1>2, <3>3 DEF Overtaken, TypeOK
        <4>2. Cardinality(Late(k, t)') \in Nat
          <5>1. Late(k, t)' \subseteq Reviews
            BY DEF Late
          <5>2. QED
            BY <5>1, ConstantsAssumption, FS_Subset, FS_CardinalityType
        <4>3. /\ Cardinality(Recent(k, t)) \in Nat /\ Cardinality(Late(k, t)) \in Nat
              /\ Cardinality(Reviews) \in Nat
          BY Finite
        <4>4. QED
          BY <3>1, <3>3, <4>1, <4>2, <4>3, ConstantsAssumption DEF Overtaken, Limited
      <3>4. QED
        BY <3>2, <3>3 DEF Limited
    <2>2. QED
      BY <1>2, <2>1
  <1>3. ASSUME NEW r \in Reviews, ReadTime(r) PROVE WindowInv'
    <2>1. /\ UNCHANGED <<window, granted>> /\ now' = now + 1 /\ now \in Nat
          /\ review[r].pc = "clock"
          /\ review'[r].pc = "window" /\ review'[r].stamp = now
          /\ \A q \in Reviews \ {r} : review'[q] = review[q]
      BY <1>3 DEF ReadTime, Tick, Become, TypeOK
    <2>2. TimeRead'
      <3>1. ASSUME NEW q \in Reviews, review'[q].pc = "window" PROVE review'[q].stamp < now'
        <4>1. CASE q = r
          BY <2>1, <4>1
        <4>2. CASE q # r
          <5>1. review[q].pc = "window" /\ review[q].stamp \in Nat
            BY <2>1, <3>1, <4>2 DEF TypeOK, Request, Idle
          <5>2. QED
            BY <2>1, <4>2, <5>1 DEF TimeRead
        <4>3. QED
          BY <4>1, <4>2
      <3>2. QED
        BY <3>1 DEF TimeRead
    <2>3. ASSUME NEW k \in Keys, NEW t \in 0 .. MaxTime, now > t
          PROVE  Late(k, t)' = Late(k, t)
      BY <2>1, <2>3 DEF Late
    <2>4. \A k \in Keys, t \in 0 .. MaxTime :
            now > t => Cardinality(Late(k, t)') <= Cardinality(Late(k, t))
      BY <2>3, Finite
    <2>5. now' >= now
      BY <2>1
    <2>6. QED
      BY <1>2, <2>1, <2>2, <2>4, <2>5
  <1>4. ASSUME UNCHANGED <<window, granted>>, now' >= now,
               \A q \in Reviews : \/ review'[q] = review[q]
                                  \/ review[q].pc # "window" /\ review'[q].pc # "window"
        PROVE  WindowInv'
    <2>1. \A k \in Keys, t \in 0 .. MaxTime : Late(k, t)' = Late(k, t)
      BY <1>4 DEF Late
    <2>2. TimeRead'
      <3>1. ASSUME NEW q \in Reviews, review'[q].pc = "window" PROVE review'[q].stamp < now'
        <4>1. review'[q] = review[q] /\ review[q].stamp \in Nat
          BY <1>4, <3>1 DEF TypeOK, Request, Idle
        <4>2. QED
          BY <1>4, <3>1, <4>1 DEF TimeRead, TypeOK
      <3>2. QED
        BY <3>1 DEF TimeRead
    <2>3. \A k \in Keys, t \in 0 .. MaxTime :
            now > t => Cardinality(Late(k, t)') <= Cardinality(Late(k, t))
      BY <2>1, Finite
    <2>4. QED
      BY <1>2, <1>4, <2>2, <2>3
  <1>5. CASE Pass
    BY <1>4, <1>5 DEF Pass, Tick, TypeOK
  <1>6. ASSUME NEW r \in Reviews, Submit(r) \/ CheckBudget(r) \/ Finish(r) \/ Record(r) \/ Write(r)
        PROVE  WindowInv'
    <2>1. /\ UNCHANGED <<now, window, granted>>
          /\ review[r].pc # "window" /\ review'[r].pc # "window"
          /\ \A q \in Reviews \ {r} : review'[q] = review[q]
      <3>1. CASE Submit(r) \/ CheckBudget(r)
        BY <3>1 DEF Submit, CheckBudget, Become, Goto, End, Idle, Request, TypeOK
      <3>2. CASE Finish(r)
        BY <3>2 DEF Finish, Become, End, Idle, TypeOK
      <3>3. CASE Record(r) \/ Write(r)
        BY <3>3 DEF Record, Write, Become, Goto, End, Idle, Request, TypeOK
      <3>4. QED
        BY <1>6, <3>1, <3>2, <3>3
    <2>2. QED
      BY <1>4, <2>1 DEF TypeOK
  <1>7. CASE UNCHANGED vars
    BY <1>4, <1>7 DEF vars, TypeOK
  <1>8. QED
    BY <1>1, <1>3, <1>5, <1>6, <1>7 DEF Next, Step

\* Requests that pass the window of check_installation_review_rate_limit or of a user
\* exceed its limit by one less than the requests under way, in any window of time.
THEOREM GrantsAreLimited == Spec => []GrantsWithinLimit
  <1>1. Init /\ TypeOK => WindowInv
    <2> SUFFICES ASSUME Init, TypeOK PROVE WindowInv
      OBVIOUS
    <2>1. \A k \in Keys, t \in 0 .. MaxTime : Recent(k, t) = {}
      BY DEF Init, Recent
    <2>2. \A k \in Keys, t \in 0 .. MaxTime : Counted(k, t)
      BY <2>1, FS_EmptySet, ConstantsAssumption DEF Counted
    <2>3. TimeRead
      BY DEF Init, TimeRead, Idle
    <2>4. QED
      BY <2>2, <2>3 DEF WindowInv, Limited
  <1>2. TypeOK /\ WindowInv => GrantsWithinLimit
    <2> SUFFICES ASSUME TypeOK, WindowInv, NEW k \in Keys, NEW t \in 0 .. MaxTime
                 PROVE  Cardinality(Recent(k, t)) <= WindowLimit + Cardinality(Reviews) - 1
      BY DEF GrantsWithinLimit
    <2>1. Limited(k, t)
      BY DEF WindowInv
    <2>2. QED
      BY <2>1, Finite, ConstantsAssumption DEF Limited, Counted, Overtaken
  <1>3. QED
    BY <1>1, <1>2, WindowStep, TypeCorrect, PTL DEF Spec

-----------------------------------------------------------------------------
(* The tuner *)

Levels == Minimum .. 100
Last == history[Len(history)]
Near(a, b) == a - b \in -StepDown .. StepDown

TunerTypes ==
  /\ row \in Levels \union {NoRow}
  /\ history \in Seq([prev : Levels, new : Levels])
  /\ tuner.pc \in {"idle", "commit", "cache"}
  /\ tuner.pc = "commit" =>
       /\ tuner = [pc |-> tuner.pc, prev |-> tuner.prev, new |-> tuner.new, why |-> tuner.why,
                   m |-> tuner.m, judge |-> tuner.judge]
       /\ tuner.prev \in Levels /\ tuner.new \in Levels /\ tuner.m \in Metrics
       /\ tuner.new = DecideNextThreshold(tuner.prev, tuner.m, tuner.judge).new

\* What is read, or about to be cached by the tuner or the rollback, was committed.
Believed ==
  /\ row # NoRow => row \in Committed
  /\ tuner.pc = "cache" => tuner.new \in Committed
  /\ rollback.pc = "cache" => rollback.value \in Committed

\* Only a rollback moves the row while the tuner decides, and it moves it by a step at most:
\* a decision to raise the threshold it read never lowers the row.
OneStepApart ==
  /\ row = NoRow => history = <<>>
  /\ history # <<>> => Near(Last.prev, row)
  /\ tuner.pc = "commit" =>
       IF row = NoRow THEN tuner.prev = Initial
       ELSE /\ row = tuner.prev \/ (history # <<>> /\ row = Last.prev)
            /\ history # <<>> => Near(Last.prev, tuner.prev)

TunerInv == TunerTypes /\ Believed /\ OneStepApart

\* A decision moves the threshold by a step at most and keeps it in its range.
LEMMA DecisionMoves ==
    ASSUME NEW prev \in Levels, NEW m \in Metrics, NEW j
    PROVE  LET new == DecideNextThreshold(prev, m, j).new IN
           /\ new \in Levels /\ Near(prev, new)
           /\ new < prev => /\ m.samples >= MinSamples /\ ~Guardrail(m) /\ m.disagree < Low
                            /\ JudgeAllows(j)
           /\ new < prev \/ new = prev \/ new = Lesser(100, prev + StepDown)
  <1>1. /\ Lesser(100, prev + StepDown) \in Levels /\ Near(prev, Lesser(100, prev + StepDown))
        /\ Lesser(100, prev + StepDown) >= prev
        /\ Greater(Minimum, prev - StepDown) \in Levels /\ Near(prev, Greater(Minimum, prev - StepDown))
        /\ Greater(Minimum, prev - StepDown) <= prev
        /\ prev \in Levels /\ Near(prev, prev)
    <2>1. /\ prev \in Int /\ Minimum \in Int /\ StepDown \in Int
          /\ 0 <= Minimum /\ Minimum <= prev /\ prev <= 100 /\ 1 <= StepDown
      BY ThresholdAssumption DEF Levels
    <2>2. /\ Lesser(100, prev + StepDown) \in Levels /\ Near(prev, Lesser(100, prev + StepDown))
          /\ Lesser(100, prev + StepDown) >= prev
      <3>1. CASE 100 < prev + StepDown
        BY <2>1, <3>1 DEF Lesser, Levels, Near
      <3>2. CASE ~(100 < prev + StepDown)
        BY <2>1, <3>2 DEF Lesser, Levels, Near
      <3>3. QED
        BY <3>1, <3>2
    <2>3. /\ Greater(Minimum, prev - StepDown) \in Levels /\ Near(prev, Greater(Minimum, prev - StepDown))
          /\ Greater(Minimum, prev - StepDown) <= prev
      <3>1. CASE Minimum > prev - StepDown
        BY <2>1, <3>1 DEF Greater, Levels, Near
      <3>2. CASE ~(Minimum > prev - StepDown)
        BY <2>1, <3>2 DEF Greater, Levels, Near
      <3>3. QED
        BY <3>1, <3>2
    <2>4. QED
      BY <2>1, <2>2, <2>3 DEF Levels, Near
  <1>2. {m.samples, m.disagree} \subseteq Nat /\ {MinSamples, Low} \subseteq Nat
    BY ThresholdAssumption
  <1>3. QED
    BY <1>1, <1>2 DEF DecideNextThreshold, Levels

LEMMA HistoryEntries ==
    ASSUME TunerTypes
    PROVE  /\ Len(history) \in Nat /\ DOMAIN history = 1 .. Len(history)
           /\ \A i \in DOMAIN history : history[i] \in [prev : Levels, new : Levels]
           /\ history # <<>> => Len(history) \in DOMAIN history
  <1>1. history \in Seq([prev : Levels, new : Levels])
    BY DEF TunerTypes
  <1>2. PICK S : S = [prev : Levels, new : Levels]
    OBVIOUS
  <1>3. history \in Seq(S)
    BY <1>1, <1>2
  <1>4. /\ Len(history) \in Nat /\ DOMAIN history = 1 .. Len(history)
        /\ \A i \in DOMAIN history : history[i] \in S
        /\ history # <<>> => Len(history) \in DOMAIN history
    BY <1>3
  <1>5. QED
    BY <1>2, <1>4

LEMMA CommittedGrows ==
    ASSUME TunerTypes, NEW e \in [prev : Levels, new : Levels], history' = Append(history, e)
    PROVE  /\ Committed' = Committed \union {e.prev, e.new}
           /\ history' \in Seq([prev : Levels, new : Levels])
           /\ history' # <<>> /\ Last' = e
  <1>1. /\ history \in Seq([prev : Levels, new : Levels]) /\ Len(history) \in Nat
        /\ DOMAIN history = 1 .. Len(history)
    BY DEF TunerTypes
  <1>2. /\ DOMAIN history' = 1 .. Len(history) + 1 /\ Len(history') = Len(history) + 1
        /\ \A i \in DOMAIN history : history'[i] = history[i]
        /\ history'[Len(history) + 1] = e
        /\ history' \in Seq([prev : Levels, new : Levels])
    BY <1>1
  <1>3. DOMAIN history' = DOMAIN history \union {Len(history) + 1}
    BY <1>1, <1>2
  <1>4. {history'[i].new : i \in DOMAIN history'} = {history[i].new : i \in DOMAIN history} \union {e.new}
    BY <1>2, <1>3
  <1>5. {history'[i].prev : i \in DOMAIN history'} = {history[i].prev : i \in DOMAIN history} \union {e.prev}
    BY <1>2, <1>3
  <1>6. QED
    BY <1>1, <1>2, <1>4, <1>5 DEF Committed, Last

\* Every committed threshold is within the range.
LEMMA CommittedLevels ==
    ASSUME TunerTypes
    PROVE  Committed \subseteq Levels /\ Initial \in Committed /\ Initial \in Levels
  <1>1. \A i \in DOMAIN history : history[i] \in [prev : Levels, new : Levels]
    BY HistoryEntries
  <1>2. Initial \in Levels
    BY ThresholdAssumption DEF Levels
  <1>3. QED
    BY <1>1, <1>2 DEF Committed

LEMMA TunerInitInv == TunerInit => TunerInv
  <1> SUFFICES ASSUME TunerInit PROVE TunerInv
    OBVIOUS
  <1>1. tuner.pc = "idle" /\ rollback.pc = "idle"
    BY DEF TunerInit, AtRest
  <1>2. QED
    BY <1>1 DEF TunerInit, TunerInv, TunerTypes, Believed, OneStepApart

LEMMA TunerCommitInv == TunerInv /\ TunerCommits => TunerInv' /\ Committed \subseteq Committed'
  <1> SUFFICES ASSUME TunerInv, TunerCommits PROVE TunerInv' /\ Committed \subseteq Committed'
    OBVIOUS
  <1> USE DEF TunerInv
  <1>1. /\ tuner.pc = "commit" /\ tuner.prev \in Levels /\ tuner.new \in Levels
        /\ tuner.m \in Metrics
        /\ tuner.new = DecideNextThreshold(tuner.prev, tuner.m, tuner.judge).new
        /\ tuner = [pc |-> tuner.pc, prev |-> tuner.prev, new |-> tuner.new, why |-> tuner.why,
                    m |-> tuner.m, judge |-> tuner.judge]
    BY DEF TunerCommits, TunerTypes
  <1>2. /\ Committed' = Committed \union {tuner.prev, tuner.new}
        /\ history' \in Seq([prev : Levels, new : Levels])
        /\ history' # <<>> /\ Last'.prev = tuner.prev
    <2>1. PICK e \in [prev : Levels, new : Levels] :
            e.prev = tuner.prev /\ e.new = tuner.new /\ history' = Append(history, e)
      BY <1>1 DEF TunerCommits
    <2>2. QED
      BY <2>1, CommittedGrows
  <1>3. tuner'.pc = "cache" /\ tuner'.new = tuner.new
    BY <1>1 DEF TunerCommits
  <1>4. Near(tuner.prev, tuner.new)
    BY <1>1, DecisionMoves
  <1>5. row' \in Levels /\ Near(tuner.prev, row') /\ row' \in Committed'
    <2>1. CASE row = NoRow \/ tuner.new # tuner.prev
      BY <1>1, <1>2, <1>4, <2>1 DEF TunerCommits
    <2>2. CASE row # NoRow /\ tuner.new = tuner.prev
      <3>1. row' = row /\ row \in Levels /\ row \in Committed
        BY <2>2 DEF TunerCommits, TunerTypes, Believed
      <3>2. row = tuner.prev \/ Near(row, tuner.prev)
        BY <1>1, <2>2 DEF OneStepApart
      <3>3. Near(tuner.prev, row)
        <4>1. tuner.prev \in Int /\ row \in Int /\ StepDown \in Nat
          BY <1>1, <3>1, ThresholdAssumption DEF Levels
        <4>2. QED
          BY <3>2, <4>1 DEF Near
      <3>4. QED
        BY <1>2, <3>1, <3>3
    <2>3. QED
      BY <2>1, <2>2
  <1>6. row' # NoRow
    BY <1>5, ThresholdAssumption DEF Levels
  <1>7. TunerTypes'
    BY <1>1, <1>2, <1>3, <1>5 DEF TunerTypes
  <1>8. Believed'
    BY <1>2, <1>3, <1>5 DEF TunerCommits, Believed
  <1>9. OneStepApart'
    BY <1>2, <1>3, <1>5, <1>6 DEF OneStepApart
  <1>10. QED
    BY <1>2, <1>7, <1>8, <1>9

\* Where a new entry may come from in a step of the tuner, the rollback or another repository.
EntryStep == entry' \in {entry, NoEntry} \union Committed \union OtherInitials

LEMMA TunerStepInv == TunerInv /\ TunerNext => TunerInv' /\ Committed \subseteq Committed' /\ EntryStep
  <1> SUFFICES ASSUME TunerInv, TunerNext
               PROVE  TunerInv' /\ Committed \subseteq Committed' /\ EntryStep
    OBVIOUS
  <1> USE DEF TunerInv
  <1>1. ASSUME UNCHANGED history PROVE Committed' = Committed /\ Last' = Last
    BY <1>1 DEF Committed, Last
  <1>2. Committed \subseteq Levels /\ Initial \in Levels
    BY CommittedLevels
  <1>3. CASE RefreshWindow \/ WindowExpires
    <2>1. UNCHANGED <<row, history, entry, tuner, rollback>>
      BY <1>3 DEF RefreshWindow, WindowExpires
    <2>2. QED
      BY <1>1, <2>1 DEF TunerTypes, Believed, OneStepApart, EntryStep
  <1>4. CASE EntryExpires \/ OthersFill
    <2>1. UNCHANGED <<row, history, tuner, rollback>> /\ EntryStep
      BY <1>4 DEF EntryExpires, OthersFill, EntryStep
    <2>2. QED
      BY <1>1, <2>1 DEF TunerTypes, Believed, OneStepApart
  <1>5. CASE TunerDecides
    <2>1. PICK m, prev, judge, next :
            /\ m \in Metrics
            /\ prev = IF row = NoRow THEN Initial ELSE row
            /\ next = DecideNextThreshold(prev, m, judge)
            /\ tuner' = [pc |-> "commit", prev |-> prev, new |-> next.new, why |-> next.why,
                         m |-> m, judge |-> judge]
      BY <1>5 DEF TunerDecides
    <2>2. UNCHANGED <<row, history, entry, rollback>>
      BY <1>5 DEF TunerDecides
    <2>3. prev \in Levels
      BY <1>2, <2>1 DEF TunerTypes
    <2>4. next.new \in Levels
      BY <2>1, <2>3, DecisionMoves
    <2>5. TunerTypes'
      BY <2>1, <2>2, <2>3, <2>4 DEF TunerTypes
    <2>6. Believed'
      BY <1>1, <2>1, <2>2 DEF Believed
    <2>7. OneStepApart'
      BY <1>1, <2>1, <2>2 DEF OneStepApart
    <2>8. QED
      BY <1>1, <2>2, <2>5, <2>6, <2>7 DEF EntryStep
  <1>6. CASE TunerCommits
    BY <1>6, TunerCommitInv DEF TunerCommits, EntryStep
  <1>7. CASE TunerFails \/ TunerCaches
    <2>1. tuner'.pc = "idle" /\ UNCHANGED <<row, history, rollback>>
      BY <1>7 DEF TunerFails, TunerCaches, AtRest
    <2>2. EntryStep
      BY <1>7 DEF TunerFails, TunerCaches, Believed, EntryStep
    <2>3. QED
      BY <1>1, <2>1, <2>2 DEF TunerTypes, Believed, OneStepApart
  <1>8. CASE RollbackCommits
    <2>1. /\ history # <<>> /\ row # NoRow /\ row' = Last.prev
          /\ rollback'.pc = "cache" /\ rollback'.value = row'
          /\ UNCHANGED <<history, entry, tuner>>
      BY <1>8 DEF RollbackCommits, Last
    <2>2. Len(history) \in DOMAIN history /\ Last \in [prev : Levels, new : Levels]
      BY <2>1, HistoryEntries DEF Last
    <2>3. Last.prev \in Levels /\ Last.prev \in Committed
      BY <2>2 DEF Committed, Last
    <2>4. row' # NoRow
      BY <2>1, <2>3, ThresholdAssumption DEF Levels
    <2>5. Near(Last.prev, Last.prev)
      BY <2>3, ThresholdAssumption DEF Near, Levels
    <2>6. TunerTypes'
      BY <2>1, <2>3 DEF TunerTypes
    <2>7. Believed'
      BY <1>1, <2>1, <2>3 DEF Believed
    <2>8. OneStepApart'
      BY <1>1, <2>1, <2>4, <2>5 DEF OneStepApart
    <2>9. QED
      BY <1>1, <2>1, <2>6, <2>7, <2>8 DEF EntryStep
  <1>9. CASE RollbackCaches
    <2>1. rollback'.pc = "idle" /\ UNCHANGED <<row, history, tuner>>
      BY <1>9 DEF RollbackCaches, AtRest
    <2>2. EntryStep
      BY <1>9 DEF RollbackCaches, Believed, EntryStep
    <2>3. QED
      BY <1>1, <2>1, <2>2 DEF TunerTypes, Believed, OneStepApart
  <1>10. QED
    BY <1>3, <1>4, <1>5, <1>6, <1>7, <1>8, <1>9 DEF TunerNext

-----------------------------------------------------------------------------
(* The jobs *)

FieldNames == {"pc", "cfg", "thr", "decision", "conf", "label", "route"}
JobFields == /\ DOMAIN jobs = Jobs /\ jobs = [j \in Jobs |-> jobs[j]]
             /\ \A j \in Jobs : FieldNames \subseteq DOMAIN jobs[j]

\* An update changes the fields it names of the job it names.
LEMMA UpdateFields ==
    ASSUME JobFields, NEW j \in Jobs, NEW fields, Update(j, fields)
    PROVE  /\ JobFields'
           /\ \A i \in Jobs \ {j} : jobs'[i] = jobs[i]
           /\ \A f \in FieldNames : jobs'[j][f] = IF f \in DOMAIN fields THEN fields[f] ELSE jobs[j][f]
  BY DEF JobFields, Update, With

LEMMA ConfigShape ==
    ASSUME NEW cfg \in Configs
    PROVE  /\ {"skipMin", "lightMin"} \subseteq DOMAIN cfg.fastPath
           /\ cfg.fastPath.skipMin \in 0 .. 100
           /\ cfg.adaptive.initial \in 0 .. 100
  <1>1. /\ \A s : BoundedInt(Key(s, "skip_min_confidence"), 90, 0, 100) \in 0 .. 100
        /\ \A s : BoundedInt(Key(s, "initial_threshold"), 90, 0, 100) \in 0 .. 100
    BY DEF BoundedInt
  <1>2. ASSUME NEW s
        PROVE  /\ {"skipMin", "lightMin"} \subseteq DOMAIN ParseFastPath(s)
               /\ ParseFastPath(s).skipMin \in 0 .. 100
               /\ ParseAdaptive(s).initial \in 0 .. 100
    BY <1>1 DEF ParseFastPath, ParseAdaptive
  <1>3. PICK file : cfg = ParseConfig(file)
    BY DEF Configs, DefaultConfig
  <1>4. /\ cfg.fastPath = ParseFastPath(Section(file, "fast_path"))
        /\ cfg.adaptive = ParseAdaptive(Section(file, "adaptive_threshold"))
    BY <1>3 DEF ParseConfig
  <1>5. QED
    BY <1>2, <1>4

\* Whatever the type and the value of an answer's confidence, it becomes a percentage or none.
LEMMA ConfidenceIsNumber ==
    ASSUME NEW t, NEW v PROVE ConfidenceOf(t, v) \in Int \union {NoConfidence}
  <1>1. CASE t = "int" /\ v \in 0 .. 10000
    <2>1. v \div 100 \in Int
      BY <1>1
    <2>2. QED
      BY <1>1, <2>1 DEF ConfidenceOf
  <1>2. CASE t \in {"float", "text"} /\ v \in 0 .. 100
    BY <1>2 DEF ConfidenceOf
  <1>3. CASE t \in {"float", "text"} /\ v \in 101 .. 10000
    <2>1. Rounded(v) \in Int
      BY <1>3 DEF Rounded
    <2>2. QED
      BY <1>3, <2>1 DEF ConfidenceOf
  <1>4. CASE v \notin 0 .. 10000
    BY <1>4 DEF ConfidenceOf
  <1>5. CASE t \notin {"int", "float", "text"}
    BY <1>5 DEF ConfidenceOf
  <1>6. QED
    BY <1>1, <1>2, <1>3, <1>4, <1>5

LEMMA RecoveredIsNumber ==
    ASSUME NEW a, NEW p PROVE RecoveredConfidence(a, p) \in Int \union {NoConfidence}
  <1>1. ASSUME NEW raw PROVE NormalizeConfidence(raw) \in Int \union {NoConfidence}
    BY ConfidenceIsNumber DEF NormalizeConfidence
  <1>2. HeuristicConfidence(p) \in Int \union {NoConfidence}
    BY DEF HeuristicConfidence
  <1>3. QED
    BY <1>1, <1>2 DEF RecoveredConfidence

\* What the rules of the fast path leave of an answer that skips the review.
LEMMA DecisionSkips ==
    ASSUME NEW a, NEW p, NEW fp, fp.skipMin \in Int
    PROVE  LET d == NormalizeDecision(a, p, fp) IN
           /\ DOMAIN d = {"decision", "conf", "label"}
           /\ d.decision = "skip_review" =>
                /\ ~HighRisk(p) /\ fp.allowSkip
                /\ d.label = "model" /\ d.conf \in Int /\ d.conf # NoConfidence
                /\ d.conf >= fp.skipMin
  BY RecoveredIsNumber DEF NormalizeDecision, Full

\* Where a threshold may come from, and the lowest it may then be.
Sources == Committed \union Initials

LEMMA SourcesAreFloors ==
    ASSUME TunerTypes, NEW t \in Sources
    PROVE  t \in 0 .. 100 /\ \E floor \in {Minimum} \union Initials : floor \in Int /\ t >= floor
  <1>1. CASE t \in Committed
    <2>1. t \in Levels
      BY <1>1, CommittedLevels
    <2>2. QED
      BY <2>1, ThresholdAssumption DEF Levels
  <1>2. CASE t \in Initials
    <2>1. t \in 0 .. 100
      BY <1>2, ConfigShape, ThresholdAssumption DEF Initials
    <2>2. QED
      BY <1>2, <2>1
  <1>3. QED
    BY <1>1, <1>2 DEF Sources

ToSkip(j) ==
  \/ jobs[j].pc = "route" /\ jobs[j].decision = "skip_review"
  \/ jobs[j].pc = "done" /\ jobs[j].route.depth = "skip_review"

SafeToSkip(j) ==
  /\ ~HighRisk(pr[j])
  /\ jobs[j].cfg.fastPath.allowSkip /\ jobs[j].cfg.fastPath.enabled
  /\ jobs[j].label = "model" /\ jobs[j].conf # NoConfidence
  /\ jobs[j].conf >= InForce(j).skipMin
  /\ jobs[j].cfg.adaptive.enabled =>
       \E floor \in {Minimum} \union Initials : jobs[j].conf >= floor

\* How far a job has come with its configuration and its threshold.
Configured(j) ==
  /\ jobs[j].cfg \in Configs
  /\ jobs[j].pc \in {"threshold", "fill", "classify"} => jobs[j].cfg.fastPath.enabled
  /\ jobs[j].pc \in {"threshold", "fill"} => jobs[j].cfg.adaptive.enabled
  /\ jobs[j].pc \in {"fill", "classify"} /\ jobs[j].cfg.adaptive.enabled =>
       jobs[j].thr \in Sources

JobInv ==
  /\ JobFields
  /\ entry # NoEntry => entry \in Sources
  /\ configEntry \in Configs \union {NoEntry}
  /\ pr \in [Jobs -> PullRequests]
  /\ \A j \in Jobs : Configured(j) /\ (ToSkip(j) => SafeToSkip(j))

RoutingInv == TunerInv /\ JobInv

LEMMA InitRouting == RoutingInit => RoutingInv
  <1> SUFFICES ASSUME RoutingInit PROVE RoutingInv
    OBVIOUS
  <1>1. TunerInv
    BY TunerInitInv DEF RoutingInit
  <1>3. /\ configEntry \in Configs \union {NoEntry} /\ pr \in [Jobs -> PullRequests]
        /\ entry = NoEntry
    BY DEF RoutingInit, TunerInit
  <1>4. JobFields /\ \A j \in Jobs : jobs[j].pc = "config" /\ jobs[j].cfg \in Configs
    BY DEF RoutingInit, JobFields, FieldNames, Configs
  <1>5. QED
    BY <1>1, <1>3, <1>4 DEF RoutingInv, JobInv, Configured, ToSkip

\* Jobs that stay where they are keep what holds of them while thresholds are committed.
LEMMA JobStays ==
    ASSUME NEW j \in Jobs, Configured(j), ToSkip(j) => SafeToSkip(j), UNCHANGED pr,
           jobs'[j] = jobs[j], Committed \subseteq Committed'
    PROVE  Configured(j)' /\ (ToSkip(j)' => SafeToSkip(j)')
  <1>1. Configs' = Configs /\ Initials' = Initials
    BY DEF Configs, Initials
  <1>2. QED
    BY <1>1 DEF Configured, ToSkip, SafeToSkip, InForce, Sources

\* A job's own step leaves the tuner's row and history alone.
LEMMA JobStepInv ==
    ASSUME RoutingInv, NEW j \in Jobs, NEW fields, Update(j, fields),
           UNCHANGED <<row, history, judgeWindow, tuner, rollback, tunes, rollbacks, pr>>,
           entry' # NoEntry => entry' \in Sources,
           configEntry' \in Configs \union {NoEntry},
           Configured(j)', ToSkip(j)' => SafeToSkip(j)'
    PROVE  RoutingInv'
  <1>1. /\ Committed' = Committed /\ Last' = Last
        /\ Configs' = Configs /\ Initials' = Initials /\ Sources' = Sources
    BY DEF Committed, Last, Configs, Initials, Sources
  <1>2. TunerInv'
    BY <1>1 DEF RoutingInv, TunerInv, TunerTypes, Believed, OneStepApart
  <1>3. JobFields' /\ \A i \in Jobs \ {j} : jobs'[i] = jobs[i]
    BY UpdateFields DEF RoutingInv, JobInv
  <1>4. ASSUME NEW i \in Jobs PROVE Configured(i)' /\ (ToSkip(i)' => SafeToSkip(i)')
    BY <1>1, <1>3, JobStays DEF RoutingInv, JobInv
  <1>5. QED
    BY <1>1, <1>2, <1>3, <1>4 DEF RoutingInv, JobInv

LEMMA RoutingStep == RoutingInv /\ [RoutingNext]_allVars => RoutingInv'
  <1> SUFFICES ASSUME RoutingInv, [RoutingNext]_allVars PROVE RoutingInv'
    OBVIOUS
  <1> USE DEF RoutingInv
  <1>0. JobFields
    BY DEF JobInv
  <1>1. ASSUME Committed \subseteq Committed', TunerInv', UNCHANGED <<jobs, pr>>,
               configEntry' \in {configEntry, NoEntry}, EntryStep
        PROVE  RoutingInv'
    <2>0. Configs' = Configs /\ Initials' = Initials
      BY <1>1 DEF Configs, Initials
    <2>1. /\ JobFields' /\ configEntry' \in Configs' \union {NoEntry}
          /\ pr' \in [Jobs -> PullRequests]
          /\ entry' # NoEntry => entry' \in Sources'
      BY <1>1, <2>0 DEF JobInv, JobFields, EntryStep, Sources, Initials
    <2>2. \A j \in Jobs : Configured(j)' /\ (ToSkip(j)' => SafeToSkip(j)')
      BY <1>1, JobStays DEF JobInv
    <2>3. QED
      BY <1>1, <2>1, <2>2 DEF JobInv
  <1>2. CASE TunerNext /\ UNCHANGED routingVars
    BY <1>1, <1>2, TunerStepInv DEF routingVars
  <1>3. CASE UNCHANGED tunerVars /\ (ConfigExpires \/ ZerosExpire \/ UNCHANGED routingVars)
    <2>1. TunerInv' /\ Committed \subseteq Committed' /\ EntryStep
      BY <1>3
      DEF tunerVars, TunerInv, TunerTypes, Believed, OneStepApart, Committed, Last, EntryStep
    <2>2. UNCHANGED <<jobs, pr>> /\ configEntry' \in {configEntry, NoEntry}
      BY <1>3 DEF ConfigExpires, ZerosExpire, routingVars
    <2>3. QED
      BY <1>1, <2>1, <2>2
  <1>4. ASSUME NEW j \in Jobs, JobStep(j) PROVE RoutingInv'
    <2>0. /\ jobs[j].cfg \in Configs /\ Configured(j) /\ (ToSkip(j) => SafeToSkip(j))
          /\ configEntry \in Configs \union {NoEntry}
          /\ entry # NoEntry => entry \in Sources
      BY DEF JobInv, Configured
    <2>1. ASSUME NEW fields, Update(j, fields)
          PROVE  \A f \in FieldNames :
                   jobs'[j][f] = IF f \in DOMAIN fields THEN fields[f] ELSE jobs[j][f]
      BY <1>0, <2>1, UpdateFields
    <2>2. Sources' = Sources /\ Configs' = Configs /\ Initials' = Initials
      <3>1. UNCHANGED <<history, pr>>
        BY <1>4 DEF JobStep, ConfigCached, ConfigMissed, ConfigFetched, Prelude, ThresholdCached,
             ThresholdRead, ThresholdFilled, Classified, ClassificationFails, Route, tunerVars
      <3>2. QED
        BY <3>1 DEF Committed, Sources, Initials, Configs
    <2>3. CASE ConfigCached(j)
      <3>1. jobs'[j].pc = "prelude" /\ jobs'[j].cfg = configEntry /\ configEntry \in Configs
        BY <2>0, <2>1, <2>3 DEF ConfigCached, FieldNames
      <3>2. Configured(j)' /\ ~ToSkip(j)'
        BY <2>2, <3>1 DEF Configured, ToSkip
      <3>3. QED
        BY <2>0, <2>3, <3>2, JobStepInv DEF ConfigCached, tunerVars
    <2>4. CASE ConfigMissed(j)
      <3>1. jobs'[j].pc = "fetch" /\ jobs'[j].cfg = jobs[j].cfg
        BY <2>1, <2>4 DEF ConfigMissed, FieldNames
      <3>2. Configured(j)' /\ ~ToSkip(j)'
        BY <2>0, <2>2, <3>1 DEF Configured, ToSkip
      <3>3. QED
        BY <2>0, <2>4, <3>2, JobStepInv DEF ConfigMissed, tunerVars
    <2>5. CASE ConfigFetched(j)
      <3>1. PICK cfg \in {ParseConfig(pr[j].file), DefaultConfig} :
              /\ Update(j, [pc |-> "prelude", cfg |-> cfg])
              /\ configEntry' \in {cfg, configEntry}
        BY <2>5 DEF ConfigFetched
      <3>2. cfg \in Configs
        BY DEF Configs, JobInv
      <3>3. jobs'[j].pc = "prelude" /\ jobs'[j].cfg = cfg
        BY <2>1, <3>1 DEF FieldNames
      <3>4. Configured(j)' /\ ~ToSkip(j)'
        BY <2>2, <3>2, <3>3 DEF Configured, ToSkip
      <3>5. QED
        BY <2>0, <2>5, <3>1, <3>2, <3>4, JobStepInv DEF ConfigFetched, tunerVars
    <2>6. CASE Prelude(j)
      <3>1. /\ UNCHANGED <<tunerVars, pr, configEntry>>
            /\ jobs[j].pc = "prelude"
        BY <2>6 DEF Prelude
      <3>2. ASSUME NEW depth \in {"draft", "too_large"},
                   Update(j, [pc |-> "done", route |-> [NoRoute EXCEPT !.depth = depth]])
            PROVE  RoutingInv'
        <4>1. /\ jobs'[j].pc = "done" /\ jobs'[j].cfg = jobs[j].cfg
              /\ jobs'[j].route.depth = depth
          BY <2>1, <3>2 DEF FieldNames, NoRoute
        <4>2. Configured(j)' /\ ~ToSkip(j)'
          BY <2>0, <2>2, <4>1 DEF Configured, ToSkip
        <4>3. QED
          BY <2>0, <3>1, <3>2, <4>2, JobStepInv DEF tunerVars
      <3>3. CASE Update(j, With(Full("disabled"), [pc |-> "route"]))
        <4>1. /\ jobs'[j].pc = "route" /\ jobs'[j].cfg = jobs[j].cfg
              /\ jobs'[j].decision = "full_review"
          BY <2>1, <3>3 DEF FieldNames, Full, With
        <4>2. Configured(j)' /\ ~ToSkip(j)'
          BY <2>0, <2>2, <4>1 DEF Configured, ToSkip
        <4>3. QED
          BY <2>0, <3>1, <3>3, <4>2, JobStepInv DEF tunerVars
      <3>4. CASE /\ jobs[j].cfg.fastPath.enabled /\ ~jobs[j].cfg.adaptive.enabled
                 /\ Update(j, [pc |-> "classify", thr |-> jobs[j].cfg.fastPath.skipMin])
        <4>1. jobs'[j].pc = "classify" /\ jobs'[j].cfg = jobs[j].cfg
          BY <2>1, <3>4 DEF FieldNames
        <4>2. Configured(j)' /\ ~ToSkip(j)'
          BY <2>0, <2>2, <3>4, <4>1 DEF Configured, ToSkip
        <4>3. QED
          BY <2>0, <3>1, <3>4, <4>2, JobStepInv DEF tunerVars
      <3>5. CASE /\ jobs[j].cfg.fastPath.enabled /\ jobs[j].cfg.adaptive.enabled
                 /\ Update(j, [pc |-> "threshold"])
        <4>1. jobs'[j].pc = "threshold" /\ jobs'[j].cfg = jobs[j].cfg
          BY <2>1, <3>5 DEF FieldNames
        <4>2. Configured(j)' /\ ~ToSkip(j)'
          BY <2>0, <2>2, <3>5, <4>1 DEF Configured, ToSkip
        <4>3. QED
          BY <2>0, <3>1, <3>5, <4>2, JobStepInv DEF tunerVars
      <3>6. QED
        BY <2>6, <3>2, <3>3, <3>4, <3>5 DEF Prelude
    <2>7. CASE ThresholdCached(j)
      <3>1. /\ jobs[j].pc = "threshold" /\ jobs'[j].pc = "classify"
            /\ jobs'[j].cfg = jobs[j].cfg /\ jobs'[j].thr = entry /\ entry \in Sources
        BY <2>0, <2>1, <2>7 DEF ThresholdCached, FieldNames
      <3>2. Configured(j)' /\ ~ToSkip(j)'
        BY <2>0, <2>2, <3>1 DEF Configured, ToSkip
      <3>3. QED
        BY <2>0, <2>7, <3>2, JobStepInv DEF ThresholdCached, tunerVars
    <2>8. CASE ThresholdRead(j)
      <3>1. PICK value \in {jobs[j].cfg.adaptive.initial} \union ({row} \ {NoRow}) :
              Update(j, [pc |-> "fill", thr |-> value])
        BY <2>8 DEF ThresholdRead
      <3>2. value \in Sources
        BY <2>0, <3>1 DEF TunerInv, Believed, Sources, Initials
      <3>3. /\ jobs[j].pc = "threshold" /\ jobs'[j].pc = "fill"
            /\ jobs'[j].cfg = jobs[j].cfg /\ jobs'[j].thr = value
        BY <2>1, <2>8, <3>1 DEF ThresholdRead, FieldNames
      <3>4. Configured(j)' /\ ~ToSkip(j)'
        BY <2>0, <2>2, <3>2, <3>3 DEF Configured, ToSkip
      <3>5. QED
        BY <2>0, <2>8, <3>1, <3>4, JobStepInv DEF ThresholdRead, tunerVars
    <2>9. CASE ThresholdFilled(j)
      <3>1. /\ jobs[j].pc = "fill" /\ jobs'[j].pc = "classify"
            /\ jobs'[j].cfg = jobs[j].cfg /\ jobs'[j].thr = jobs[j].thr
        BY <2>1, <2>9 DEF ThresholdFilled, FieldNames
      <3>2. jobs[j].thr \in Sources
        BY <2>0, <2>2, <3>1 DEF Configured
      <3>3. Configured(j)' /\ ~ToSkip(j)'
        BY <2>0, <2>2, <3>1, <3>2 DEF Configured, ToSkip
      <3>4. entry' # NoEntry => entry' \in Sources
        BY <2>0, <2>9, <3>2 DEF ThresholdFilled
      <3>5. QED
        BY <2>0, <2>9, <3>3, <3>4, JobStepInv DEF ThresholdFilled
    <2>10. CASE Classified(j)
      <3>1. PICK a, d, flagged :
              /\ a \in Answers
              /\ d = NormalizeDecision(a, pr[j], InForce(j))
              /\ Update(j, With(IF flagged THEN Full("confidence_anomaly") ELSE d,
                                [pc |-> "route"]))
        BY <2>10 DEF Classified
      <3>2. /\ jobs[j].pc = "classify" /\ jobs[j].cfg.fastPath.enabled
            /\ UNCHANGED <<tunerVars, pr, configEntry>>
        BY <2>0, <2>10 DEF Classified, Configured
      <3>3. /\ InForce(j).skipMin \in Int
            /\ InForce(j).allowSkip = jobs[j].cfg.fastPath.allowSkip
            /\ jobs[j].cfg.adaptive.enabled =>
                 \E floor \in {Minimum} \union Initials : floor \in Int /\ InForce(j).skipMin >= floor
        <4>1. /\ {"skipMin", "lightMin"} \subseteq DOMAIN jobs[j].cfg.fastPath
              /\ jobs[j].cfg.fastPath.skipMin \in 0 .. 100
          BY <2>0, ConfigShape
        <4>2. jobs[j].cfg.adaptive.enabled =>
                /\ jobs[j].thr \in 0 .. 100
                /\ \E floor \in {Minimum} \union Initials : floor \in Int /\ jobs[j].thr >= floor
          BY <2>0, <3>2, SourcesAreFloors DEF Configured, TunerInv
        <4>3. jobs[j].cfg.adaptive.enabled => InForce(j).skipMin = jobs[j].thr
          BY <4>1 DEF InForce
        <4>4. /\ InForce(j).allowSkip = jobs[j].cfg.fastPath.allowSkip
              /\ ~jobs[j].cfg.adaptive.enabled => InForce(j).skipMin = jobs[j].cfg.fastPath.skipMin
          BY DEF InForce
        <4>5. QED
          BY <4>1, <4>2, <4>3, <4>4
      <3>4. /\ DOMAIN d = {"decision", "conf", "label"}
            /\ d.decision = "skip_review" =>
                 /\ ~HighRisk(pr[j]) /\ InForce(j).allowSkip
                 /\ d.label = "model" /\ d.conf \in Int /\ d.conf # NoConfidence
                 /\ d.conf >= InForce(j).skipMin
        BY <3>1, <3>3, DecisionSkips
      <3>5. /\ jobs'[j].pc = "route" /\ jobs'[j].cfg = jobs[j].cfg /\ jobs'[j].thr = jobs[j].thr
            /\ jobs'[j].decision = IF flagged THEN "full_review" ELSE d.decision
            /\ ~flagged => jobs'[j].conf = d.conf /\ jobs'[j].label = d.label
        BY <2>1, <3>1, <3>4 DEF FieldNames, Full, With
      <3>6. Configured(j)'
        BY <2>0, <2>2, <3>5 DEF Configured
      <3>7. ToSkip(j)' => SafeToSkip(j)'
        <4>1. SUFFICES ASSUME ToSkip(j)' PROVE SafeToSkip(j)'
          OBVIOUS
        <4>2. d.decision = "skip_review" /\ ~flagged
          BY <3>5, <4>1 DEF ToSkip
        <4>3. InForce(j)' = InForce(j)
          BY <3>5 DEF InForce
        <4>4. ASSUME jobs[j].cfg.adaptive.enabled
              PROVE  \E floor \in {Minimum} \union Initials : d.conf >= floor
          <5>1. PICK floor \in {Minimum} \union Initials : floor \in Int /\ InForce(j).skipMin >= floor
            BY <3>3, <4>4
          <5>2. d.conf \in Int /\ InForce(j).skipMin \in Int /\ d.conf >= InForce(j).skipMin
            BY <3>3, <3>4, <4>2
          <5>3. QED
            BY <5>1, <5>2
        <4>5. QED
          BY <2>2, <3>2, <3>3, <3>4, <3>5, <4>2, <4>3, <4>4 DEF SafeToSkip
      <3>8. QED
        BY <2>0, <3>1, <3>2, <3>6, <3>7, JobStepInv DEF tunerVars
    <2>11. CASE ClassificationFails(j)
      <3>1. PICK label \in {"fast_path_error", "no_provider_available"} :
              Update(j, With(Full(label), [pc |-> "route"]))
        BY <2>11 DEF ClassificationFails
      <3>2. /\ jobs'[j].pc = "route" /\ jobs'[j].cfg = jobs[j].cfg
            /\ jobs'[j].decision = "full_review"
        BY <2>1, <3>1 DEF FieldNames, Full, With
      <3>3. Configured(j)' /\ ~ToSkip(j)'
        BY <2>0, <2>2, <3>2 DEF Configured, ToSkip
      <3>4. QED
        BY <2>0, <2>11, <3>1, <3>3, JobStepInv DEF ClassificationFails, tunerVars
    <2>12. CASE Route(j)
      <3>1. /\ jobs[j].pc = "route" /\ UNCHANGED <<tunerVars, pr, configEntry>>
            /\ Update(j, [pc |-> "done", route |-> IF jobs[j].decision = "skip_review"
                                                   THEN [NoRoute EXCEPT !.depth = "skip_review"]
                                                   ELSE RouteOf(j)])
        BY <2>12 DEF Route
      <3>2. /\ jobs'[j].pc = "done" /\ jobs'[j].cfg = jobs[j].cfg /\ jobs'[j].thr = jobs[j].thr
            /\ jobs'[j].conf = jobs[j].conf /\ jobs'[j].label = jobs[j].label
            /\ jobs'[j].route = IF jobs[j].decision = "skip_review"
                                THEN [NoRoute EXCEPT !.depth = "skip_review"] ELSE RouteOf(j)
        BY <2>1, <3>1 DEF FieldNames
      <3>3. RouteOf(j).depth = jobs[j].decision
        BY DEF RouteOf
      <3>4. Configured(j)'
        BY <2>0, <2>2, <3>2 DEF Configured
      <3>5. ToSkip(j)' => ToSkip(j)
        BY <3>1, <3>2, <3>3 DEF ToSkip
      <3>6. InForce(j)' = InForce(j)
        BY <3>2 DEF InForce
      <3>7. SafeToSkip(j) => SafeToSkip(j)'
        BY <2>2, <3>1, <3>2, <3>6 DEF SafeToSkip
      <3>8. QED
        BY <2>0, <3>1, <3>4, <3>5, <3>7, JobStepInv DEF tunerVars
    <2>13. QED
      BY <1>4, <2>3, <2>4, <2>5, <2>6, <2>7, <2>8, <2>9, <2>10, <2>11, <2>12 DEF JobStep
  <1>5. QED
    BY <1>2, <1>3, <1>4 DEF RoutingNext, allVars, routingVars, ConfigExpires, ZerosExpire

LEMMA RoutingInvInductive == RoutingSpec => []RoutingInv
  BY InitRouting, RoutingStep, PTL DEF RoutingSpec

-----------------------------------------------------------------------------
(* The theorems *)

\* However the lookup, the tuner, the rollback and the expiry of the Redis entry interleave,
\* a job decides with a threshold that was committed for its installation or that one of
\* the installation's repositories starts from, never with one of a tuner's transaction that
\* failed (get_effective_fast_path_threshold).
THEOREM ThresholdsHaveSources == RoutingSpec => []AppliedThresholdHasSource
  <1>1. RoutingInv => AppliedThresholdHasSource
    BY DEF RoutingInv, JobInv, Configured, Sources, AppliedThresholdHasSource
  <1>2. QED
    BY <1>1, RoutingInvInductive, PTL

\* A review is skipped only for a change without high-risk files, if skipping is allowed, on
\* a model's own answer with a confidence of at least the threshold in force and of the
\* tuner's minimum or the lowest initial threshold of the installation's repositories (normalize_fast_path_decision, _run_fast_path_stage).
THEOREM SkipsAreSafe == RoutingSpec => []SkipOnlyWhenSafe
  <1>1. RoutingInv => SkipOnlyWhenSafe
    BY DEF RoutingInv, JobInv, ToSkip, SafeToSkip, SkipOnlyWhenSafe
  <1>2. QED
    BY <1>1, RoutingInvInductive, PTL

Level == IF row = NoRow THEN Initial ELSE row

LEMMA LoweringStep ==
    ASSUME RoutingInv, [RoutingNext]_allVars, Level' < Level
    PROVE  \/ rollback.pc = "idle" /\ rollback'.pc = "cache" /\ row' = rollback'.value
           \/ /\ tuner.pc = "commit" /\ tuner.m.samples >= MinSamples /\ tuner.m.disagree < Low
              /\ tuner.m.dismiss + tuner.m.ignore <= MaxFalseAccept
              /\ tuner.m.dismiss <= MaxDismiss
              /\ JudgeOn => tuner.judge.independent /\ tuner.judge.samples >= MinJudgeSamples
  <1>1. /\ TunerTypes /\ Believed /\ OneStepApart
        /\ Level \in Levels /\ Level \in Int
    BY CommittedLevels, ThresholdAssumption DEF RoutingInv, TunerInv, TunerTypes, Level, Levels
  <1>2. row' # row
    BY <1>1 DEF Level
  <1>3. TunerCommits \/ RollbackCommits
    BY <1>2
    DEF RoutingNext, allVars, tunerVars, routingVars, TunerNext, RefreshWindow, TunerDecides, TunerFails,
        TunerCaches, RollbackCaches, OthersFill, EntryExpires, WindowExpires, ConfigExpires, ZerosExpire,
        JobStep, ConfigCached, ConfigMissed, ConfigFetched, Prelude, ThresholdCached,
        ThresholdRead, ThresholdFilled, Classified, ClassificationFails, Route
  <1>4. CASE RollbackCommits
    BY <1>4 DEF RollbackCommits
  <1>5. CASE TunerCommits
    <2>1. /\ tuner.pc = "commit" /\ tuner.prev \in Levels /\ tuner.m \in Metrics
          /\ tuner.new \in Levels
          /\ tuner.new = DecideNextThreshold(tuner.prev, tuner.m, tuner.judge).new
          /\ row' = tuner.new
      BY <1>1, <1>2, <1>5 DEF TunerCommits, TunerTypes
    <2>2. Level' = tuner.new
      BY <2>1, ThresholdAssumption DEF Level, Levels
    <2>3. Level <= tuner.prev + StepDown
      BY <1>1, <2>1, ThresholdAssumption DEF OneStepApart, Level, Near, Levels
    <2>4. tuner.new < tuner.prev
      <3>1. CASE tuner.new = tuner.prev
        BY <1>1, <1>2, <1>5, <2>1, <2>2, <3>1 DEF TunerCommits, OneStepApart, Level
      <3>2. CASE tuner.new = Lesser(100, tuner.prev + StepDown)
        BY <1>1, <2>1, <2>2, <2>3, <3>2, ThresholdAssumption DEF Lesser, Levels
      <3>3. QED
        BY <2>1, <3>1, <3>2, DecisionMoves
    <2>5. /\ tuner.m.samples >= MinSamples /\ ~Guardrail(tuner.m) /\ tuner.m.disagree < Low
          /\ JudgeAllows(tuner.judge)
      BY <2>1, <2>4, DecisionMoves
    <2>6. /\ tuner.m.dismiss + tuner.m.ignore <= MaxFalseAccept
          /\ tuner.m.dismiss <= MaxDismiss
      BY <2>1, <2>5, ThresholdAssumption DEF Guardrail
    <2>7. QED
      BY <2>1, <2>5, <2>6 DEF JudgeAllows
  <1>6. QED
    BY <1>3, <1>4, <1>5

\* The row goes down only by a rollback or by a run of the tuner that measured enough
\* samples, little disagreement and healthy guardrails and that the judge let pass, though
\* rollbacks move the row between the tuner's read and its commit
\* (tune_fast_path_threshold).
THEOREM LoweringsHaveEvidence == RoutingSpec => LoweringNeedsEvidence
  <1>1. RoutingInv /\ [RoutingNext]_allVars =>
          [ (IF row' = NoRow THEN Initial ELSE row') < (IF row = NoRow THEN Initial ELSE row) =>
              \/ rollback.pc = "idle" /\ rollback'.pc = "cache" /\ row' = rollback'.value
              \/ /\ tuner.pc = "commit" /\ tuner.m.samples >= MinSamples /\ tuner.m.disagree < Low
                 /\ tuner.m.dismiss + tuner.m.ignore <= MaxFalseAccept
                 /\ tuner.m.dismiss <= MaxDismiss
                 /\ JudgeOn => tuner.judge.independent
                               /\ tuner.judge.samples >= MinJudgeSamples ]_allVars
    BY LoweringStep DEF Level
  <1>2. QED
    BY <1>1, RoutingInvInductive, PTL DEF RoutingSpec, LoweringNeedsEvidence

=============================================================================
