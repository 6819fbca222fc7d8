--------------------------- MODULE WebhookDelivery ---------------------------
(***************************************************************************)
(* How the API deduplicates GitHub's webhook deliveries.  A request claims *)
(* the delivery id in Redis with a short-lived marker "processing", runs   *)
(* the handler, and upgrades the marker to "done", or deletes it when the  *)
(* handler raises.  GitHub, or somebody in its settings page, may send a   *)
(* delivery again at any time.                                             *)
(*                                                                         *)
(* Only whether a handler has succeeded is kept of what it does;           *)
(* ReviewLifecycle models the handler of review events.  Signatures,       *)
(* payloads that do not parse before the claim, ignored events and         *)
(* requests without a delivery id change no state and are left out.        *)
(***************************************************************************)
EXTENDS Naturals, FiniteSets

CONSTANTS
    Deliveries,  \* delivery ids
    Closed,      \* those of "closed" events, which the API does not deduplicate
    Requests,    \* slots for requests served at the same time
    MaxSends,    \* bound on deliveries and redeliveries
    DeliveryFaults  \* the faults of this instance, a subset of DeliveryFaultKinds

DeliveryFaultKinds ==
    {"fail",   \* a handler raises, or its request is cancelled
     "crash",  \* an API process dies
     "redis",  \* a command that marks or releases a delivery raises
     "late",   \* a delivery is sent again after its marker's 24 hours
     "slow"}   \* a handler outlives the 120 seconds of its marker

ASSUME DeliveriesAssumption ==
    /\ Closed \subseteq Deliveries
    /\ MaxSends \in Nat
    /\ DeliveryFaults \subseteq DeliveryFaultKinds

VARIABLES
    sends,    \* deliveries GitHub may still send
    marker,   \* Redis: the marker of each delivery id
    request,  \* the requests of the API process
    handled,  \* how often the handler of a delivery succeeded
    lost      \* history: handled deliveries whose marker "done" was not
              \* written, or has expired or been deleted

deliveryVars == <<sends, marker, request, handled, lost>>

Markers == {"none", "processing", "done"}
NoRequest == [pc |-> "idle"]
\* Only a request that claims its delivery marks or releases it.
Busy == [pc : {"handle"}, delivery : Deliveries]
          \cup [pc : {"claim", "mark", "release"}, delivery : Deliveries \ Closed]

GoOn(p, pc) == [request EXCEPT ![p].pc = pc]
Answer(p) == [request EXCEPT ![p] = NoRequest]
At(p, d, pcs) == request[p].pc \in pcs /\ request[p].delivery = d

DeliveryInit ==
    /\ sends = MaxSends
    /\ marker = [d \in Deliveries |-> "none"]
    /\ request = [p \in Requests |-> NoRequest]
    /\ handled = [d \in Deliveries |-> 0]
    /\ lost = {}

-----------------------------------------------------------------------------
Send(p, d) ==
    /\ sends > 0 /\ sends' = sends - 1
    /\ request[p].pc = "idle"
    /\ request' = [request EXCEPT ![p] =
                     [pc |-> IF d \in Closed THEN "handle" ELSE "claim", delivery |-> d]]
    /\ UNCHANGED <<marker, handled, lost>>

\* Mutant: the marker is read, and set by a second command.
IsDuplicateDeliveryUnguarded(p) ==
    LET d == request[p].delivery IN
    /\ request[p].pc = "claim"
    /\ IF marker[d] = "done"
       THEN request' = Answer(p) /\ UNCHANGED marker
       ELSE request' = GoOn(p, "handle") /\ marker' = [marker EXCEPT ![d] = "processing"]
    /\ UNCHANGED <<sends, handled, lost>>

\* _is_duplicate_delivery: SET NX.  A duplicate is answered as ok at once,
\* whether the first request has succeeded or is still at work.
IsDuplicateDelivery(p) ==
    LET d == request[p].delivery IN
    /\ request[p].pc = "claim"
    /\ IF marker[d] # "none"
       THEN request' = Answer(p) /\ UNCHANGED marker
       ELSE request' = GoOn(p, "handle") /\ marker' = [marker EXCEPT ![d] = "processing"]
    /\ UNCHANGED <<sends, handled, lost>>

HandlerSucceeds(p) ==
    LET d == request[p].delivery IN
    /\ request[p].pc = "handle"
    /\ handled' = [handled EXCEPT ![d] = @ + 1]
    /\ request' = IF d \in Closed THEN Answer(p) ELSE GoOn(p, "mark")
    /\ UNCHANGED <<sends, marker, lost>>

\* Mutant: a handler that claimed nothing releases all the same.
HandlerRaisesReleases(p) ==
    /\ "fail" \in DeliveryFaults
    /\ request[p].pc = "handle"
    /\ request' = GoOn(p, "release")
    /\ UNCHANGED <<sends, marker, handled, lost>>

\* BaseException: a cancelled request releases its claim too.
HandlerRaises(p) ==
    /\ "fail" \in DeliveryFaults
    /\ request[p].pc = "handle"
    /\ request' = IF request[p].delivery \in Closed THEN Answer(p) ELSE GoOn(p, "release")
    /\ UNCHANGED <<sends, marker, handled, lost>>

\* Mutant: the handler's failure is swallowed and the delivery marked done.
ReleaseDeliveryMarksDone(p) ==
    /\ request[p].pc = "release"
    /\ marker' = [marker EXCEPT ![request[p].delivery] = "done"]
    /\ request' = Answer(p)
    /\ UNCHANGED <<sends, handled, lost>>

\* _release_delivery: DEL, whoever's marker it is by now; errors are swallowed.
ReleaseDelivery(p) ==
    LET d == request[p].delivery IN
    /\ request[p].pc = "release"
    /\ \/ /\ marker' = [marker EXCEPT ![d] = "none"]
          /\ lost' = IF marker[d] = "done" THEN lost \cup {d} ELSE lost
       \/ "redis" \in DeliveryFaults /\ UNCHANGED <<marker, lost>>
    /\ request' = Answer(p)
    /\ UNCHANGED <<sends, handled>>

\* Mutant: a delivery that is marked done is released at once.
MarkDeliveryDoneAndRelease(p) ==
    /\ request[p].pc = "mark"
    /\ marker' = [marker EXCEPT ![request[p].delivery] = "none"]
    /\ request' = Answer(p)
    /\ UNCHANGED <<sends, handled, lost>>

\* _mark_delivery_done is outside the try: when it raises, or the request is
\* cancelled in it, the handler has succeeded, GitHub is answered an error and
\* the marker "processing" stays.
MarkDeliveryDone(p) ==
    LET d == request[p].delivery IN
    /\ request[p].pc = "mark"
    /\ \/ marker' = [marker EXCEPT ![d] = "done"] /\ UNCHANGED lost
       \/ "redis" \in DeliveryFaults /\ UNCHANGED marker /\ lost' = lost \cup {d}
    /\ request' = Answer(p)
    /\ UNCHANGED <<sends, handled>>

ProcessDies(p) ==
    /\ "crash" \in DeliveryFaults
    /\ request[p].pc # "idle"
    /\ lost' = IF request[p].pc = "mark" THEN lost \cup {request[p].delivery} ELSE lost
    /\ request' = Answer(p)
    /\ UNCHANGED <<sends, marker, handled>>

\* The TTL of "processing" is 120 seconds, that of "done" a day.
MarkerExpires(d) ==
    /\ \/ /\ marker[d] = "processing"
          /\ "slow" \notin DeliveryFaults =>
               \A p \in Requests : ~At(p, d, {"handle", "mark", "release"})
          /\ UNCHANGED lost
       \/ /\ marker[d] = "done" /\ "late" \in DeliveryFaults
          /\ lost' = lost \cup {d}
    /\ marker' = [marker EXCEPT ![d] = "none"]
    /\ UNCHANGED <<sends, request, handled>>

RequestStep(p) ==
    \/ IsDuplicateDelivery(p) \/ HandlerSucceeds(p) \/ HandlerRaises(p)
    \/ ReleaseDelivery(p) \/ MarkDeliveryDone(p)

DeliveryNext ==
    \/ \E p \in Requests : RequestStep(p) \/ ProcessDies(p) \/ \E d \in Deliveries : Send(p, d)
    \/ \E d \in Deliveries : MarkerExpires(d)

DeliverySpec == DeliveryInit /\ [][DeliveryNext]_deliveryVars

-----------------------------------------------------------------------------
DeliveryTypeOK ==
    /\ sends \in Nat
    /\ marker \in [Deliveries -> Markers]
    /\ request \in [Requests -> {NoRequest} \cup Busy]
    /\ handled \in [Deliveries -> Nat]
    /\ lost \subseteq Deliveries

\* Unless a handler outlives its marker, one request at a time works on a
\* delivery that is deduplicated, and it does so under the marker.
OneRequestPerDelivery ==
    \A d \in Deliveries \ Closed, p \in Requests :
        At(p, d, {"handle", "mark", "release"}) =>
            /\ marker[d] = "processing"
            /\ \A q \in Requests : At(q, d, {"handle", "mark", "release"}) => p = q

\* A delivery is marked done only after its handler has succeeded, so GitHub can
\* send one again that failed.
DoneMeansHandled ==
    \A d \in Deliveries : marker[d] = "done" => handled[d] > 0

\* However often a delivery is sent, and in whatever order requests run, its
\* handler succeeds at most once, unless the marker of its success was lost.
HandledOnce ==
    \A d \in Deliveries \ (Closed \cup lost) :
        /\ handled[d] <= 1
        /\ handled[d] = 1 => \/ marker[d] = "done"
                             \/ \E p \in Requests : At(p, d, {"mark"})
=============================================================================
