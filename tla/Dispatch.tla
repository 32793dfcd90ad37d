------------------------------- MODULE Dispatch -------------------------------
(***************************************************************************)
(* The search for a rider and the delivery: the rows of deliveries,        *)
(* delivery_offers and rider_profiles, the BullMQ queue "dispatch", and    *)
(* every handler that writes them (dispatch.service.ts, offers.service.ts, *)
(* rider-deliveries.service.ts, riders.service.ts), from the moment the    *)
(* order is READY_FOR_PICKUP.                                              *)
(*                                                                         *)
(* An order has at most one delivery (orderId is unique), so a delivery is *)
(* named by its order.  Every transaction that writes a delivery or one of *)
(* its offers holds the lock on the delivery's row when it commits, and    *)
(* the riders' handlers also hold the lock on the rider's row: such a      *)
(* transaction is one step.  attemptDispatch is two, because it reads      *)
(* riders it has not locked.  What a handler does after its commit, adding *)
(* jobs to the queue, is a step per job.                                   *)
(*                                                                         *)
(* Left to module Handover: the one-time passwords and the payment, which  *)
(* can refuse a pickup or a completion but move nothing of what is here.   *)
(* KYC and suspension are constant: nothing in the repository writes them. *)
(***************************************************************************)
EXTENDS Naturals, FiniteSets

CONSTANTS
    Orders,                \* the orders that became READY_FOR_PICKUP
    Riders,                \* active users with an approved rider profile
    Slots,                 \* handlers that can be in progress at a time
    MaxDispatchAttempts,   \* DISPATCH_CONFIG.MAX_DISPATCH_ATTEMPTS
    TopCandidates,         \* DISPATCH_CONFIG.TOP_N_CANDIDATES
    NoRider,               \* deliveries.riderId IS NULL
    Failures               \* what may go wrong: "crash" and "redis"

ASSUME NoRiderAssumption == NoRider \notin Riders
ASSUME DispatchConfigAssumption ==
    /\ MaxDispatchAttempts \in Nat
    /\ TopCandidates \in Nat

VARIABLES
    order,          \* orders.status
    event,          \* outbox_events.status of the READY_FOR_PICKUP event
    delivery,       \* deliveries: status, riderId, dispatchAttempts
    due,            \* has expiresAt passed for the last offers made?
    offer,          \* delivery_offers.status
    availability,   \* rider_profiles.availabilityStatus
    queue,          \* the jobs of the queue "dispatch"
    handler         \* what each slot is doing

vars == <<order, event, delivery, due, offer, availability, queue, handler>>

-----------------------------------------------------------------------------
(* Rows and jobs.                                                          *)

DeliveryStatus ==
    {"NONE", "PENDING_DISPATCH", "OFFERING", "ASSIGNED", "REASSIGNING",
     "PICKED_UP", "OUT_FOR_DELIVERY", "ARRIVING", "DELIVERED", "FAILED"}

Active == {"ASSIGNED", "PICKED_UP", "OUT_FOR_DELIVERY", "ARRIVING"}

Dispatchable == {"PENDING_DISPATCH", "REASSIGNING"}

\* The statuses of an order that the handlers of this module read or write.
DeliveredOrderStatus ==
    {"READY_FOR_PICKUP", "RIDER_ASSIGNED", "PICKED_UP", "OUT_FOR_DELIVERY",
     "ARRIVING", "DELIVERED", "DELIVERY_FAILED"}

OfferStatus ==
    {"NONE", "PENDING", "ACCEPTED", "REJECTED", "EXPIRED", "CANCELLED"}

Availability == {"OFFLINE", "ONLINE", "BUSY", "SUSPENDED"}

Attempts == 0 .. MaxDispatchAttempts

\* The n-th attempt makes a rider at most one offer.
OfferIds == [order : Orders, rider : Riders, attempt : 1 .. MaxDispatchAttempts]
OfferId(o, r, n) == [order |-> o, rider |-> r, attempt |-> n]

RetryJob(o, n) ==
    [name |-> "dispatch-retry", order |-> o, expectedAttempt |-> n]
RetryJobs == [name : {"dispatch-retry"}, order : Orders, expectedAttempt : Attempts]

ExpireJob(k) == [name |-> "expire-offer", offer |-> k]
ExpireJobs == [name : {"expire-offer"}, offer : OfferIds]

Jobs == RetryJobs \cup ExpireJobs

\* What a handler answers: a job of this queue, a READY_FOR_PICKUP event, a request.
ReadyEvent(o) == [name |-> "READY_FOR_PICKUP", order |-> o]
Request == [name |-> "request"]
Causes == Jobs \cup [name : {"READY_FOR_PICKUP"}, order : Orders] \cup {Request}

\* A handler in progress holds a delivery's lock, or has committed and adds jobs.
Idle == [pc |-> "idle"]
Dispatching(j, riders) == [pc |-> "dispatching", cause |-> j, riders |-> riders]
Adding(cause, jobs) == [pc |-> "adding", cause |-> cause, jobs |-> jobs]
Handlers ==
    {Idle} \cup [pc : {"dispatching"}, cause : RetryJobs, riders : SUBSET Riders]
           \cup [pc : {"adding"}, cause : Causes, jobs : SUBSET Jobs]

Locked(o) ==
    \E s \in Slots : handler[s].pc = "dispatching" /\ handler[s].cause.order = o

\* Mutant of HasActiveDelivery: only the deliveries still to be picked up count.
HasDeliveryToPickUp(r) ==
    \E o \in Orders : delivery[o].rider = r /\ delivery[o].status = "ASSIGNED"

HasActiveDelivery(r) ==
    \E o \in Orders : delivery[o].rider = r /\ delivery[o].status \in Active

PendingOffers(o) == {k \in OfferIds : k.order = o /\ offer[k] = "PENDING"}

Expired(k) == k.attempt < delivery[k.order].attempts \/ due[k.order]

-----------------------------------------------------------------------------
(* READY_FOR_PICKUP: the order gets its delivery and the search starts.    *)

Init ==
    /\ order = [o \in Orders |-> "READY_FOR_PICKUP"]
    /\ event = [o \in Orders |-> "PENDING"]
    /\ delivery = [o \in Orders |->
                     [status |-> "NONE", rider |-> NoRider, attempts |-> 0]]
    /\ due = [o \in Orders |-> FALSE]
    /\ offer = [k \in OfferIds |-> "NONE"]
    /\ availability \in [Riders -> {"OFFLINE", "ONLINE"}]
    /\ queue = {}
    /\ handler = [s \in Slots |-> Idle]

\* handleReadyForPickup: finds the delivery or creates it, then startDispatch.  BullMQ
\* runs one job per event; the event is PROCESSED once the job has been added.
HandleReadyForPickup(s, o) ==
    /\ handler[s] = Idle
    /\ event[o] = "PENDING"
    /\ ~ \E t \in Slots : handler[t].pc = "adding" /\ handler[t].cause = ReadyEvent(o)
    /\ delivery' = IF delivery[o].status = "NONE"
                   THEN [delivery EXCEPT ![o].status = "PENDING_DISPATCH"]
                   ELSE delivery
    /\ handler' = [handler EXCEPT ![s] = Adding(ReadyEvent(o), {RetryJob(o, 0)})]
    /\ UNCHANGED <<order, event, due, offer, availability, queue>>

-----------------------------------------------------------------------------
(* attemptDispatch, the handler of a dispatch-retry job.                   *)

\* Mutant of MatchesAttempt: expectedAttempt is not compared.
MatchesStatus(j) == delivery[j.order].status \in Dispatchable

MatchesAttempt(j) ==
    /\ delivery[j.order].attempts = j.expectedAttempt
    /\ delivery[j.order].status \in Dispatchable

\* Mutant of AttemptsLeft: one attempt too many.
AttemptsNotExceeded(o) == delivery[o].attempts <= MaxDispatchAttempts

AttemptsLeft(o) == delivery[o].attempts < MaxDispatchAttempts

\* The attempt is stale, or the delivery not in search of a rider.
DispatchSkip(j) ==
    /\ j \in queue \cap RetryJobs
    /\ ~Locked(j.order)
    /\ ~MatchesAttempt(j)
    /\ queue' = queue \ {j}
    /\ UNCHANGED <<order, event, delivery, due, offer, availability, handler>>

\* All attempts are used up.
DispatchGiveUp(j) ==
    /\ j \in queue \cap RetryJobs
    /\ ~Locked(j.order)
    /\ MatchesAttempt(j)
    /\ ~AttemptsLeft(j.order)
    /\ delivery' = [delivery EXCEPT ![j.order].status = "FAILED"]
    /\ queue' = queue \ {j}
    /\ UNCHANGED <<order, event, due, offer, availability, handler>>

\* The riders near the shop with a fresh position, which may be any, that are
\* ONLINE and free; the nearest TopCandidates of them.  Their rows are not locked.
Candidates(riders) ==
    /\ \A r \in riders : availability[r] = "ONLINE" /\ ~HasActiveDelivery(r)
    /\ Cardinality(riders) <= TopCandidates

DispatchStart(s, j) ==
    /\ handler[s] = Idle
    /\ j \in queue \cap RetryJobs
    /\ ~Locked(j.order)
    /\ MatchesAttempt(j)
    /\ AttemptsLeft(j.order)
    /\ \E riders \in SUBSET Riders :
          /\ Candidates(riders)
          /\ handler' = [handler EXCEPT ![s] = Dispatching(j, riders)]
    /\ queue' = queue \ {j}
    /\ UNCHANGED <<order, event, delivery, due, offer, availability>>

\* Mutant of JobsAfter: the retry expects the count of attempts from before this one.
JobsBefore(o, n, riders) ==
    IF riders = {} THEN {RetryJob(o, n - 1)}
    ELSE {ExpireJob(OfferId(o, r, n)) : r \in riders}

\* What is added to the queue after attempt n has made its offers to these riders.
JobsAfter(o, n, riders) ==
    IF riders = {} THEN {RetryJob(o, n)}
    ELSE {ExpireJob(OfferId(o, r, n)) : r \in riders}

\* No candidate: REASSIGNING and, after the commit, another dispatch-retry job.
\* Otherwise OFFERING, an offer for each, and a job to expire each.
DispatchCommit(s) ==
    /\ handler[s].pc = "dispatching"
    /\ LET o == handler[s].cause.order
           n == delivery[o].attempts + 1
           riders == handler[s].riders
           made == {OfferId(o, r, n) : r \in riders}
       IN /\ delivery' = [delivery EXCEPT
                ![o].attempts = n,
                ![o].status = IF riders = {} THEN "REASSIGNING" ELSE "OFFERING"]
          /\ offer' = [k \in OfferIds |-> IF k \in made THEN "PENDING" ELSE offer[k]]
          /\ due' = [due EXCEPT ![o] = FALSE]
          /\ handler' = [handler EXCEPT ![s] =
                Adding(handler[s].cause, JobsAfter(o, n, riders))]
    /\ UNCHANGED <<order, event, availability, queue>>

\* Redis does not answer: the transaction is rolled back and the job is done.
DispatchWithoutRedis(s) ==
    /\ "redis" \in Failures
    /\ handler[s].pc = "dispatching"
    /\ handler' = [handler EXCEPT ![s] = Idle]
    /\ UNCHANGED <<order, event, delivery, due, offer, availability, queue>>

-----------------------------------------------------------------------------
(* After the commit: dispatchQueue.add, job after job.                     *)

AddJob(s, j) ==
    /\ handler[s].pc = "adding"
    /\ j \in handler[s].jobs
    /\ queue' = queue \cup {j}
    /\ handler' = [handler EXCEPT ![s].jobs = @ \ {j}]
    /\ UNCHANGED <<order, event, delivery, due, offer, availability>>

\* All jobs are added.  An event that was handled is marked PROCESSED.
Finish(s) ==
    /\ handler[s].pc = "adding"
    /\ handler[s].jobs = {}
    /\ event' = [o \in Orders |-> IF handler[s].cause = ReadyEvent(o)
                                  THEN "PROCESSED" ELSE event[o]]
    /\ handler' = [handler EXCEPT ![s] = Idle]
    /\ UNCHANGED <<order, delivery, due, offer, availability, queue>>

\* An add throws: the rest is not added, and the job behind it has failed for good
\* (the queue has no attempts option).
AddFails(s) ==
    /\ "redis" \in Failures
    /\ handler[s].pc = "adding"
    /\ handler' = [handler EXCEPT ![s] = Idle]
    /\ UNCHANGED <<order, event, delivery, due, offer, availability, queue>>

\* The process dies, and its transaction with it.
Crash(s) ==
    /\ "crash" \in Failures
    /\ handler[s] # Idle
    /\ handler' = [handler EXCEPT ![s] = Idle]
    /\ UNCHANGED <<order, event, delivery, due, offer, availability, queue>>

\* BullMQ finds a job whose worker has not renewed its lock, because the worker is
\* dead or too busy, and hands it out again.
Stall(s) ==
    /\ "crash" \in Failures
    /\ handler[s] # Idle
    /\ handler[s].cause \in Jobs
    /\ queue' = queue \cup {handler[s].cause}
    /\ UNCHANGED <<order, event, delivery, due, offer, availability, handler>>

-----------------------------------------------------------------------------
(* Offers.                                                                 *)

\* Mutant of IsPending: an accepted offer can still be answered.
IsPendingOrAccepted(k) == offer[k] \in {"PENDING", "ACCEPTED"}

IsPending(k) == offer[k] = "PENDING"

\* Mutant of OffersAfterAccept: the offers to other riders are left alone.
OffersAfterAcceptAlone(k) == [offer EXCEPT ![k] = "ACCEPTED"]

\* The offer is ACCEPTED, the others of the delivery that are PENDING are CANCELLED.
OffersAfterAccept(k) ==
    [i \in OfferIds |-> IF i = k THEN "ACCEPTED"
                       ELSE IF i \in PendingOffers(k.order) THEN "CANCELLED"
                       ELSE offer[i]]

\* acceptOffer, called by the rider the offer was made to.
AcceptOffer(k) ==
    LET o == k.order IN
    /\ ~Locked(o)
    /\ delivery[o].status = "OFFERING"
    /\ IsPending(k)
    /\ ~Expired(k)
    /\ order[o] = "READY_FOR_PICKUP"
    /\ availability[k.rider] = "ONLINE"
    /\ ~HasActiveDelivery(k.rider)
    /\ availability' = [availability EXCEPT ![k.rider] = "BUSY"]
    /\ offer' = OffersAfterAccept(k)
    /\ delivery' = [delivery EXCEPT ![o].status = "ASSIGNED", ![o].rider = k.rider]
    /\ order' = [order EXCEPT ![o] = "RIDER_ASSIGNED"]
    /\ UNCHANGED <<event, due, queue, handler>>

\* Mutant of IsLastPending: the offer itself is counted.
IsNonePending(k) ==
    delivery[k.order].status = "OFFERING" /\ PendingOffers(k.order) = {}

\* Once this offer is answered, none of an OFFERING delivery is PENDING.
IsLastPending(k) ==
    delivery[k.order].status = "OFFERING" /\ PendingOffers(k.order) = {k}

\* An offer is answered with no; the last one sends the delivery back to dispatch.
Decline(s, k, cause, status) ==
    LET o == k.order
    IN /\ handler[s] = Idle
       /\ ~Locked(o)
       /\ IsPending(k)
       /\ offer' = [offer EXCEPT ![k] = status]
       /\ delivery' = IF IsLastPending(k)
                      THEN [delivery EXCEPT ![o].status = "REASSIGNING"]
                      ELSE delivery
       /\ handler' = IF IsLastPending(k)
                     THEN [handler EXCEPT ![s] =
                             Adding(cause, {RetryJob(o, delivery[o].attempts)})]
                     ELSE handler

\* rejectOffer, called by the rider the offer was made to.
RejectOffer(s, k) ==
    /\ Decline(s, k, Request, "REJECTED")
    /\ UNCHANGED <<order, event, due, availability, queue>>

\* expireOffer, the handler of an expire-offer job, which is delayed until expiresAt.
ExpireOffer(s, j) ==
    /\ j \in queue \cap ExpireJobs
    /\ Expired(j.offer)
    /\ Decline(s, j.offer, j, "EXPIRED")
    /\ queue' = queue \ {j}
    /\ UNCHANGED <<order, event, due, availability>>

ExpireSkip(j) ==
    /\ j \in queue \cap ExpireJobs
    /\ Expired(j.offer)
    /\ offer[j.offer] # "PENDING"
    /\ queue' = queue \ {j}
    /\ UNCHANGED <<order, event, delivery, due, offer, availability, handler>>

\* The clock reaches expiresAt.
TimePasses(o) ==
    /\ delivery[o].status = "OFFERING"
    /\ ~due[o]
    /\ due' = [due EXCEPT ![o] = TRUE]
    /\ UNCHANGED <<order, event, delivery, offer, availability, queue, handler>>

-----------------------------------------------------------------------------
(* The rider at work.                                                      *)

\* pickupDelivery, startDelivery, arrivingAtDelivery: the delivery and its order go on.
Advance(o, from, to) ==
    /\ ~Locked(o)
    /\ delivery[o].status = from
    /\ delivery' = [delivery EXCEPT ![o].status = to]
    /\ order' = [order EXCEPT ![o] = to]
    /\ UNCHANGED <<event, due, offer, availability, queue, handler>>

PickupDelivery(o) == Advance(o, "ASSIGNED", "PICKED_UP")
StartDelivery(o) == Advance(o, "PICKED_UP", "OUT_FOR_DELIVERY")
ArrivingAtDelivery(o) == Advance(o, "OUT_FOR_DELIVERY", "ARRIVING")

\* Mutant of FreeRider: the rider stays BUSY.
KeepRider(o) == UNCHANGED availability

FreeRider(o) == availability' = [availability EXCEPT ![delivery[o].rider] = "ONLINE"]

\* completeDelivery and failDelivery: the delivery ends and its rider is ONLINE again,
\* whatever the rider's availability was.
End(o, from, status, orderStatus) ==
    /\ ~Locked(o)
    /\ delivery[o].status \in from
    /\ delivery' = [delivery EXCEPT ![o].status = status]
    /\ order' = [order EXCEPT ![o] = orderStatus]
    /\ FreeRider(o)
    /\ UNCHANGED <<event, due, offer, queue, handler>>

CompleteDelivery(o) == End(o, {"ARRIVING"}, "DELIVERED", "DELIVERED")

\* Mutants of FailDelivery: the order is ready again; another rider is looked for.
FailDeliveryKeepsOrder(o) == End(o, Active, "FAILED", "READY_FOR_PICKUP")
FailDeliveryReassigns(o) == End(o, Active, "REASSIGNING", "READY_FOR_PICKUP")

FailDelivery(o) == End(o, Active, "FAILED", "DELIVERY_FAILED")

\* RiderAvailabilityStateMachine, for a request of the rider's app.
AvailabilityTransitions ==
    {<<"OFFLINE", "ONLINE">>, <<"ONLINE", "OFFLINE">>, <<"BUSY", "ONLINE">>,
     <<"SUSPENDED", "OFFLINE">>}

\* updateAvailability reads the row unlocked and writes it where its version is the one
\* the app knows: a write that succeeds is made on the row it has read.
UpdateAvailability(r, status) ==
    /\ <<availability[r], status>> \in AvailabilityTransitions
    /\ availability' = [availability EXCEPT ![r] = status]
    /\ UNCHANGED <<order, event, delivery, due, offer, queue, handler>>

-----------------------------------------------------------------------------
Worker(s) ==
    \/ \E o \in Orders : HandleReadyForPickup(s, o)
    \/ \E j \in RetryJobs : DispatchStart(s, j)
    \/ \E j \in ExpireJobs : ExpireOffer(s, j)
    \/ DispatchCommit(s)
    \/ \E j \in Jobs : AddJob(s, j)
    \/ Finish(s)

Fault(s) == DispatchWithoutRedis(s) \/ AddFails(s) \/ Crash(s) \/ Stall(s)

Drop(j) == DispatchSkip(j) \/ DispatchGiveUp(j) \/ ExpireSkip(j)

RiderStep ==
    \/ \E k \in OfferIds : AcceptOffer(k)
    \/ \E s \in Slots, k \in OfferIds : RejectOffer(s, k)
    \/ \E o \in Orders :
          \/ PickupDelivery(o) \/ StartDelivery(o) \/ ArrivingAtDelivery(o)
          \/ CompleteDelivery(o) \/ FailDelivery(o)
    \/ \E r \in Riders, status \in Availability : UpdateAvailability(r, status)

Next ==
    \/ \E s \in Slots : Worker(s) \/ Fault(s)
    \/ \E j \in Jobs : Drop(j)
    \/ \E o \in Orders : TimePasses(o)
    \/ RiderStep

Spec == Init /\ [][Next]_vars

\* Requests are the riders' to make.  Whatever has been started goes on, the clock
\* advances, and workers take every job they may take.
Fairness ==
    /\ \A s \in Slots : WF_vars(DispatchCommit(s)) /\ WF_vars(Finish(s))
                        /\ \A j \in Jobs : WF_vars(AddJob(s, j))
    /\ \A o \in Orders : WF_vars(\E s \in Slots : HandleReadyForPickup(s, o))
                         /\ WF_vars(TimePasses(o))
    /\ \A j \in RetryJobs : WF_vars(Drop(j) \/ \E s \in Slots : DispatchStart(s, j))
    /\ \A j \in ExpireJobs : WF_vars(Drop(j) \/ \E s \in Slots : ExpireOffer(s, j))

FairSpec == Spec /\ Fairness

-----------------------------------------------------------------------------
(* Properties.                                                             *)

TypeOK ==
    /\ order \in [Orders -> DeliveredOrderStatus]
    /\ event \in [Orders -> {"PENDING", "PROCESSED"}]
    /\ delivery \in [Orders -> [status : DeliveryStatus, rider : Riders \cup {NoRider},
                                attempts : Attempts]]
    /\ due \in [Orders -> BOOLEAN]
    /\ offer \in [OfferIds -> OfferStatus]
    /\ availability \in [Riders -> Availability]
    /\ queue \subseteq Jobs
    /\ handler \in [Slots -> Handlers]

\* A rider carries one order at a time, although a BUSY rider may set itself ONLINE and
\* be offered another (offers.service.ts:95, IDX_UNIQUE_ACTIVE_DELIVERY_PER_RIDER).
OneActiveDelivery ==
    \A o, p \in Orders :
        /\ delivery[o].status \in Active /\ delivery[p].status \in Active
        /\ delivery[o].rider = delivery[p].rider
        => o = p

\* Two riders who accept at once do not both get the order: a delivery has a rider
\* exactly when one offer of its last attempt is ACCEPTED, and it is that rider's
\* (offers.service.ts:108).
AcceptedIsAssigned ==
    /\ \A k \in OfferIds : offer[k] = "ACCEPTED" =>
          /\ delivery[k.order].rider = k.rider
          /\ delivery[k.order].attempts = k.attempt
    /\ \A o \in Orders : delivery[o].rider # NoRider =>
          \E k \in OfferIds : k.order = o /\ offer[k] = "ACCEPTED"

\* The order tells its customer what the delivery tells its rider; a delivery that has
\* failed for want of riders leaves the order READY_FOR_PICKUP (dispatch.service.ts:48).
OrderFollowsDelivery ==
    \A o \in Orders :
        order[o] = IF delivery[o].rider = NoRider THEN "READY_FOR_PICKUP"
                   ELSE CASE delivery[o].status = "ASSIGNED" -> "RIDER_ASSIGNED"
                          [] delivery[o].status = "FAILED"   -> "DELIVERY_FAILED"
                          [] OTHER                           -> delivery[o].status

\* Offers that can still be answered exist exactly while the delivery is OFFERING, and
\* only those of the last attempt: answers that cross each other, or an expiry, neither
\* leave the delivery waiting for nobody nor an offer that outlives it (offers.service.ts:123,
\* 208, 281).
OfferingIffPending ==
    /\ \A o \in Orders : delivery[o].status = "OFFERING" => PendingOffers(o) # {}
    /\ \A k \in OfferIds : offer[k] = "PENDING" =>
          /\ delivery[k.order].status = "OFFERING"
          /\ delivery[k.order].attempts = k.attempt

\* A rider is BUSY only while carrying an order: no end of a delivery leaves its rider
\* without work and without offers (rider-deliveries.service.ts:365, :485).
BusyCarries ==
    \A r \in Riders : availability[r] = "BUSY" => HasActiveDelivery(r)

\* Someone is about to do the job: it waits in the queue, or a handler adds it.
InHand(j) ==
    \/ j \in queue
    \/ \E s \in Slots : handler[s].pc = "adding" /\ j \in handler[s].jobs

\* Unless something fails, a search is never lost between its commit and its next job:
\* a delivery that needs an attempt has the job for just that attempt, and every offer
\* that may be left unanswered has the job that expires it (dispatch.service.ts:179).
SearchGoesOn ==
    Failures = {} =>
        /\ \A o \in Orders : delivery[o].status \in Dispatchable =>
              \/ InHand(RetryJob(o, delivery[o].attempts))
              \/ Locked(o)
        /\ \A k \in OfferIds : offer[k] = "PENDING" => InHand(ExpireJob(k))

\* An attempt is made once, however often its job is added or handed out again, and never
\* while an offer of an earlier one is open: the count of attempts moves by one, and it is
\* the job for just that count that moves it (dispatch.service.ts:34).
AttemptMadeOnce ==
    [][\A o \in Orders : delivery'[o].attempts # delivery[o].attempts =>
          /\ delivery'[o].attempts = delivery[o].attempts + 1
          /\ PendingOffers(o) = {}
          /\ \E s \in Slots : /\ handler[s].pc = "dispatching"
                             /\ handler[s].cause = RetryJob(o, delivery[o].attempts)]_vars

\* What the properties rest on.  A handler in attemptDispatch has the delivery as it has
\* found it, and to itself.
LockHeld ==
    \A s \in Slots : handler[s].pc = "dispatching" =>
        /\ MatchesAttempt(handler[s].cause)
        /\ AttemptsLeft(handler[s].cause.order)
        /\ \A t \in Slots :
              /\ handler[t].pc = "dispatching"
              /\ handler[t].cause.order = handler[s].cause.order
              => t = s

\* A delivery has a rider from its assignment on, and no attempts before it exists.
RiderFromAssignment ==
    \A o \in Orders :
        /\ delivery[o].status \in Active \cup {"DELIVERED"} => delivery[o].rider # NoRider
        /\ delivery[o].status \in Dispatchable \cup {"NONE", "OFFERING"} =>
              delivery[o].rider = NoRider
        /\ delivery[o].status = "NONE" => delivery[o].attempts = 0

\* The inductive invariant of DispatchProofs: everything above.
IInv ==
    /\ TypeOK
    /\ LockHeld
    /\ RiderFromAssignment
    /\ OneActiveDelivery
    /\ AcceptedIsAssigned
    /\ OrderFollowsDelivery
    /\ OfferingIffPending
    /\ BusyCarries
    /\ SearchGoesOn

\* Every order that is ready gets a rider, or the search for one is given up.
SearchEnds ==
    \A o \in Orders :
        <>(delivery[o].rider # NoRider \/ delivery[o].status = "FAILED")

\* All of this implements RiderAssignment: one rider per order, one order per rider, no
\* second assignment, whatever happens to offers and jobs.
Phase(row) ==
    CASE row.status \in Active      -> "carried"
      [] row.status = "DELIVERED"   -> "delivered"
      [] row.status = "FAILED"      -> IF row.rider = NoRider THEN "unserved" ELSE "failed"
      [] OTHER                      -> "waiting"

Assignment == INSTANCE RiderAssignment WITH
    phase <- [o \in Orders |-> Phase(delivery[o])],
    holder <- [o \in Orders |-> delivery[o].rider]

ImplementsAssignment == Assignment!Spec

=============================================================================
