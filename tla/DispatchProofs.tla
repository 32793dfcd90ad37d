---------------------------- MODULE DispatchProofs ----------------------------
(***************************************************************************)
(* What Dispatch guarantees for any number of orders, riders, handlers and *)
(* attempts, whatever fails.                                               *)
(***************************************************************************)
EXTENDS Dispatch, TLAPS

\* A handler is told by its pc.
LEMMA HandlerByPc ==
    ASSUME NEW h \in Handlers
    PROVE  /\ h.pc = "dispatching" =>
                h \in [pc : {"dispatching"}, cause : RetryJobs, riders : SUBSET Riders]
           /\ h.pc = "adding" =>
                h \in [pc : {"adding"}, cause : Causes, jobs : SUBSET Jobs]
           /\ h.pc = "idle" => h = Idle
  BY DEF Handlers, Idle

LEMMA HandlerTypes ==
    /\ Idle \in Handlers
    /\ \A j \in RetryJobs, riders \in SUBSET Riders : Dispatching(j, riders) \in Handlers
    /\ \A c \in Causes, jobs \in SUBSET Jobs : Adding(c, jobs) \in Handlers
  BY DEF Handlers, Dispatching, Adding

LEMMA JobTypes ==
    /\ \A o \in Orders, n \in Attempts : RetryJob(o, n) \in Jobs
    /\ \A k \in OfferIds : ExpireJob(k) \in Jobs
    /\ \A o \in Orders : ReadyEvent(o) \in Causes
    /\ Request \in Causes
    /\ Jobs \subseteq Causes
  BY DEF Jobs, RetryJobs, RetryJob, ExpireJobs, ExpireJob, Causes, ReadyEvent

\* A delivery's row after its status, or status and rider or count, is written.
LEMMA DeliveryTypes ==
    ASSUME TypeOK, NEW o \in Orders, NEW status \in DeliveryStatus
    PROVE  /\ [delivery EXCEPT ![o].status = status] \in
                 [Orders -> [status : DeliveryStatus, rider : Riders \cup {NoRider},
                             attempts : Attempts]]
           /\ \A r \in Riders :
                 [delivery EXCEPT ![o].status = status, ![o].rider = r] \in
                 [Orders -> [status : DeliveryStatus, rider : Riders \cup {NoRider},
                             attempts : Attempts]]
           /\ \A n \in Attempts :
                 [delivery EXCEPT ![o].attempts = n, ![o].status = status] \in
                 [Orders -> [status : DeliveryStatus, rider : Riders \cup {NoRider},
                             attempts : Attempts]]
  BY DEF TypeOK

LEMMA TypeInit == Init => TypeOK
  BY HandlerTypes, DispatchConfigAssumption
     DEF Init, TypeOK, DeliveredOrderStatus, DeliveryStatus, OfferStatus, Availability,
         Attempts

LEMMA TypeStep ==
    ASSUME TypeOK, LockHeld, RiderFromAssignment, [Next]_vars
    PROVE  TypeOK'
<1> USE DEF TypeOK
<1>1. ASSUME NEW s \in Slots, NEW o \in Orders, HandleReadyForPickup(s, o)
      PROVE  TypeOK'
  <2>1. delivery' \in [Orders -> [status : DeliveryStatus, rider : Riders \cup {NoRider},
                                  attempts : Attempts]]
    BY <1>1, DeliveryTypes DEF HandleReadyForPickup, DeliveryStatus
  <2>2. Adding(ReadyEvent(o), {RetryJob(o, 0)}) \in Handlers
    BY HandlerTypes, JobTypes, DispatchConfigAssumption DEF Attempts
  <2> QED
    BY <1>1, <2>1, <2>2 DEF HandleReadyForPickup
<1>2. ASSUME NEW s \in Slots, NEW j \in RetryJobs, DispatchStart(s, j)
      PROVE  TypeOK'
  BY <1>2, HandlerTypes DEF DispatchStart
<1>3. ASSUME NEW s \in Slots, DispatchCommit(s)
      PROVE  TypeOK'
  <2> DEFINE o == handler[s].cause.order
             n == delivery[o].attempts + 1
             riders == handler[s].riders
  <2>1. handler[s] \in [pc : {"dispatching"}, cause : RetryJobs, riders : SUBSET Riders]
    BY <1>3, HandlerByPc DEF DispatchCommit
  <2>2. o \in Orders /\ riders \in SUBSET Riders
    BY <2>1 DEF RetryJobs
  <2>3. n \in Attempts /\ n \in 1 .. MaxDispatchAttempts
    BY <1>3, <2>2, DispatchConfigAssumption
       DEF DispatchCommit, LockHeld, AttemptsLeft, Attempts
  <2>4. delivery' \in [Orders -> [status : DeliveryStatus, rider : Riders \cup {NoRider},
                                  attempts : Attempts]]
    BY <1>3, <2>2, <2>3, DeliveryTypes DEF DispatchCommit, DeliveryStatus
  <2>5. offer' \in [OfferIds -> OfferStatus]
    BY <1>3 DEF DispatchCommit, OfferStatus
  <2>6. \A r \in riders : OfferId(o, r, n) \in OfferIds
    BY <2>2, <2>3 DEF OfferId, OfferIds
  <2>7. JobsAfter(o, n, riders) \in SUBSET Jobs
    BY <2>2, <2>3, <2>6, JobTypes DEF JobsAfter
  <2>8. handler[s].cause \in Causes
    BY <2>1, JobTypes DEF Jobs
  <2>9. handler' \in [Slots -> Handlers]
    BY <1>3, <2>7, <2>8, HandlerTypes DEF DispatchCommit
  <2>10. due' \in [Orders -> BOOLEAN]
    BY <1>3 DEF DispatchCommit
  <2> QED
    BY <1>3, <2>4, <2>5, <2>9, <2>10 DEF DispatchCommit
<1>4. ASSUME NEW s \in Slots, NEW j \in ExpireJobs, ExpireOffer(s, j)
      PROVE  TypeOK'
  <2>1. j.offer \in OfferIds /\ j.offer.order \in Orders
    BY DEF ExpireJobs, OfferIds
  <2>2. delivery' \in [Orders -> [status : DeliveryStatus, rider : Riders \cup {NoRider},
                                  attempts : Attempts]]
    BY <1>4, <2>1, DeliveryTypes DEF ExpireOffer, Decline, DeliveryStatus
  <2>3. Adding(j, {RetryJob(j.offer.order, delivery[j.offer.order].attempts)}) \in Handlers
    BY <2>1, HandlerTypes, JobTypes DEF Jobs
  <2> QED
    BY <1>4, <2>1, <2>2, <2>3 DEF ExpireOffer, Decline, OfferStatus
<1>5. ASSUME NEW s \in Slots, NEW j \in Jobs, AddJob(s, j)
      PROVE  TypeOK'
  <2>1. handler[s] \in [pc : {"adding"}, cause : Causes, jobs : SUBSET Jobs]
    BY <1>5, HandlerByPc DEF AddJob
  <2>2. [handler[s] EXCEPT !.jobs = @ \ {j}] \in Handlers
    BY <2>1 DEF Handlers
  <2> QED
    BY <1>5, <2>2 DEF AddJob
<1>6. ASSUME NEW s \in Slots, Finish(s)
      PROVE  TypeOK'
  BY <1>6, HandlerTypes DEF Finish
<1>7. ASSUME NEW s \in Slots, Fault(s)
      PROVE  TypeOK'
  BY <1>7, HandlerTypes DEF Fault, DispatchWithoutRedis, AddFails, Crash, Stall
<1>8. ASSUME NEW j \in Jobs, Drop(j)
      PROVE  TypeOK'
  <2>1. CASE DispatchGiveUp(j)
    <3>1. j.order \in Orders
      BY <2>1 DEF DispatchGiveUp, RetryJobs
    <3>2. delivery' \in [Orders -> [status : DeliveryStatus, rider : Riders \cup {NoRider},
                                    attempts : Attempts]]
      BY <2>1, <3>1, DeliveryTypes DEF DispatchGiveUp, DeliveryStatus
    <3> QED
      BY <2>1, <3>2 DEF DispatchGiveUp
  <2> QED
    BY <1>8, <2>1 DEF Drop, DispatchSkip, ExpireSkip
<1>9. ASSUME NEW o \in Orders, TimePasses(o)
      PROVE  TypeOK'
  BY <1>9 DEF TimePasses
<1>10. ASSUME NEW k \in OfferIds, AcceptOffer(k)
       PROVE  TypeOK'
  <2>1. k.order \in Orders /\ k.rider \in Riders
    BY DEF OfferIds
  <2>2. delivery' \in [Orders -> [status : DeliveryStatus, rider : Riders \cup {NoRider},
                                  attempts : Attempts]]
    BY <1>10, <2>1, DeliveryTypes DEF AcceptOffer, DeliveryStatus
  <2>3. offer' \in [OfferIds -> OfferStatus]
    BY <1>10 DEF AcceptOffer, OffersAfterAccept, OfferStatus
  <2> QED
    BY <1>10, <2>1, <2>2, <2>3 DEF AcceptOffer, DeliveredOrderStatus, Availability
<1>11. ASSUME NEW s \in Slots, NEW k \in OfferIds, RejectOffer(s, k)
       PROVE  TypeOK'
  <2>1. k.order \in Orders
    BY DEF OfferIds
  <2>2. delivery' \in [Orders -> [status : DeliveryStatus, rider : Riders \cup {NoRider},
                                  attempts : Attempts]]
    BY <1>11, <2>1, DeliveryTypes DEF RejectOffer, Decline, DeliveryStatus
  <2>3. Adding(Request, {RetryJob(k.order, delivery[k.order].attempts)}) \in Handlers
    BY <2>1, HandlerTypes, JobTypes
  <2> QED
    BY <1>11, <2>1, <2>2, <2>3 DEF RejectOffer, Decline, OfferStatus
<1>12. ASSUME NEW o \in Orders,
              PickupDelivery(o) \/ StartDelivery(o) \/ ArrivingAtDelivery(o)
       PROVE  TypeOK'
  <2>1. PICK from \in {"ASSIGNED", "PICKED_UP", "OUT_FOR_DELIVERY"},
             to \in {"PICKED_UP", "OUT_FOR_DELIVERY", "ARRIVING"} : Advance(o, from, to)
    BY <1>12 DEF PickupDelivery, StartDelivery, ArrivingAtDelivery
  <2>2. delivery' \in [Orders -> [status : DeliveryStatus, rider : Riders \cup {NoRider},
                                  attempts : Attempts]]
    BY <2>1, DeliveryTypes DEF Advance, DeliveryStatus
  <2> QED
    BY <2>1, <2>2 DEF Advance, DeliveredOrderStatus
<1>13. ASSUME NEW o \in Orders, CompleteDelivery(o) \/ FailDelivery(o)
       PROVE  TypeOK'
  <2>1. PICK from \in {{"ARRIVING"}, Active}, to \in {"DELIVERED", "FAILED"},
             status \in {"DELIVERED", "DELIVERY_FAILED"} : End(o, from, to, status)
    BY <1>13 DEF CompleteDelivery, FailDelivery
  <2>2. delivery' \in [Orders -> [status : DeliveryStatus, rider : Riders \cup {NoRider},
                                  attempts : Attempts]]
    BY <2>1, DeliveryTypes DEF End, DeliveryStatus
  <2> QED
    BY <2>1, <2>2 DEF End, FreeRider, DeliveredOrderStatus, Availability
<1>14. ASSUME NEW r \in Riders, NEW status \in Availability, UpdateAvailability(r, status)
       PROVE  TypeOK'
  BY <1>14 DEF UpdateAvailability
<1>15. CASE UNCHANGED vars
  BY <1>15 DEF vars
<1> QED
  BY <1>1, <1>2, <1>3, <1>4, <1>5, <1>6, <1>7, <1>8, <1>9, <1>10, <1>11, <1>12, <1>13,
     <1>14, <1>15 DEF Next, Worker, RiderStep

-----------------------------------------------------------------------------
(* What a step does to the rows, leaving jobs and handlers aside.          *)

Creates(o) ==
    /\ delivery[o].status = "NONE"
    /\ delivery' = [delivery EXCEPT ![o].status = "PENDING_DISPATCH"]
    /\ UNCHANGED <<order, offer, availability>>

GivesUp(o) ==
    /\ delivery[o].status \in Dispatchable
    /\ delivery' = [delivery EXCEPT ![o].status = "FAILED"]
    /\ UNCHANGED <<order, offer, availability>>

Offers(o, riders) ==
    /\ delivery[o].status \in Dispatchable
    /\ delivery[o].attempts + 1 \in 1 .. MaxDispatchAttempts
    /\ delivery' = [delivery EXCEPT
          ![o].attempts = delivery[o].attempts + 1,
          ![o].status = IF riders = {} THEN "REASSIGNING" ELSE "OFFERING"]
    /\ offer' = [k \in OfferIds |->
          IF k \in {OfferId(o, r, delivery[o].attempts + 1) : r \in riders}
          THEN "PENDING" ELSE offer[k]]
    /\ UNCHANGED <<order, availability>>

Declines(k, status) ==
    /\ offer[k] = "PENDING"
    /\ offer' = [offer EXCEPT ![k] = status]
    /\ delivery' = IF IsLastPending(k)
                   THEN [delivery EXCEPT ![k.order].status = "REASSIGNING"]
                   ELSE delivery
    /\ UNCHANGED <<order, availability>>

RowStep ==
    \/ UNCHANGED <<order, delivery, offer, availability>>
    \/ \E r \in Riders, status \in Availability : UpdateAvailability(r, status)
    \/ \E o \in Orders : Creates(o) \/ GivesUp(o)
    \/ \E o \in Orders, riders \in SUBSET Riders : Offers(o, riders)
    \/ \E k \in OfferIds : AcceptOffer(k)
    \/ \E k \in OfferIds, status \in {"REJECTED", "EXPIRED"} : Declines(k, status)
    \/ \E o \in Orders :
          \/ PickupDelivery(o) \/ StartDelivery(o) \/ ArrivingAtDelivery(o)
          \/ CompleteDelivery(o) \/ FailDelivery(o)

LEMMA StepsOnRows ==
    ASSUME TypeOK, LockHeld, [Next]_vars
    PROVE  RowStep
<1>1. ASSUME NEW s \in Slots, NEW o \in Orders, HandleReadyForPickup(s, o)
      PROVE  RowStep
  BY <1>1 DEF HandleReadyForPickup, RowStep, Creates
<1>2. ASSUME NEW s \in Slots, DispatchCommit(s)
      PROVE  RowStep
  <2> DEFINE o == handler[s].cause.order
             n == delivery[o].attempts + 1
             riders == handler[s].riders
  <2>1. handler[s] \in [pc : {"dispatching"}, cause : RetryJobs, riders : SUBSET Riders]
    BY <1>2, HandlerByPc DEF DispatchCommit, TypeOK
  <2>2. o \in Orders /\ riders \in SUBSET Riders
    BY <2>1 DEF RetryJobs
  <2>3. n \in 1 .. MaxDispatchAttempts
    BY <1>2, <2>2, DispatchConfigAssumption
       DEF DispatchCommit, LockHeld, AttemptsLeft, Attempts, TypeOK
  <2>4. delivery[o].status \in Dispatchable
    BY <1>2, <2>2 DEF DispatchCommit, LockHeld, MatchesAttempt
  <2>5. Offers(o, riders)
    BY <1>2, <2>3, <2>4 DEF DispatchCommit, Offers
  <2> QED
    BY <2>2, <2>5 DEF RowStep
<1>3. ASSUME NEW s \in Slots, NEW j \in ExpireJobs, ExpireOffer(s, j)
      PROVE  RowStep
  <2>1. j.offer \in OfferIds
    BY DEF ExpireJobs
  <2>2. Declines(j.offer, "EXPIRED")
    BY <1>3 DEF ExpireOffer, Decline, Declines, IsPending
  <2> QED
    BY <2>1, <2>2 DEF RowStep
<1>4. ASSUME NEW s \in Slots, NEW k \in OfferIds, RejectOffer(s, k)
      PROVE  RowStep
  <2>1. Declines(k, "REJECTED")
    BY <1>4 DEF RejectOffer, Decline, Declines, IsPending
  <2> QED
    BY <2>1 DEF RowStep
<1>5. ASSUME NEW j \in Jobs, Drop(j)
      PROVE  RowStep
  <2>1. CASE DispatchGiveUp(j)
    <3>1. j.order \in Orders
      BY <2>1 DEF DispatchGiveUp, RetryJobs
    <3>2. GivesUp(j.order)
      BY <2>1 DEF DispatchGiveUp, GivesUp, MatchesAttempt
    <3> QED
      BY <3>1, <3>2 DEF RowStep
  <2> QED
    BY <1>5, <2>1 DEF Drop, DispatchSkip, ExpireSkip, RowStep
<1>6. ASSUME NEW s \in Slots,
             \/ \E j \in RetryJobs : DispatchStart(s, j)
             \/ \E j \in Jobs : AddJob(s, j)
             \/ Finish(s)
             \/ Fault(s)
      PROVE  RowStep
  BY <1>6 DEF DispatchStart, AddJob, Finish, Fault, DispatchWithoutRedis, AddFails, Crash,
              Stall, RowStep
<1>7. ASSUME NEW o \in Orders, TimePasses(o)
      PROVE  RowStep
  BY <1>7 DEF TimePasses, RowStep
<1>8. CASE UNCHANGED vars
  BY <1>8 DEF vars, RowStep
<1>9. CASE RiderStep
  BY <1>4, <1>9 DEF RiderStep, RowStep
<1> QED
  BY <1>1, <1>2, <1>3, <1>5, <1>6, <1>7, <1>8, <1>9 DEF Next, Worker

LEMMA RiderFromAssignmentKept ==
    ASSUME TypeOK, RiderFromAssignment, OfferingIffPending, RowStep
    PROVE  RiderFromAssignment'
<1> USE DEF TypeOK, RiderFromAssignment, Dispatchable, Active
<1>1. CASE UNCHANGED delivery
  BY <1>1
<1>2. ASSUME NEW o \in Orders, Creates(o) \/ GivesUp(o)
      PROVE  RiderFromAssignment'
  BY <1>2 DEF Creates, GivesUp
<1>3. ASSUME NEW o \in Orders, NEW riders \in SUBSET Riders, Offers(o, riders)
      PROVE  RiderFromAssignment'
  BY <1>3 DEF Offers
<1>4. ASSUME NEW k \in OfferIds, AcceptOffer(k)
      PROVE  RiderFromAssignment'
  BY <1>4, NoRiderAssumption DEF AcceptOffer, OfferIds
<1>5. ASSUME NEW k \in OfferIds, NEW status \in {"REJECTED", "EXPIRED"}, Declines(k, status)
      PROVE  RiderFromAssignment'
  BY <1>5 DEF Declines, IsLastPending, OfferIds
<1>6. ASSUME NEW o \in Orders,
             PickupDelivery(o) \/ StartDelivery(o) \/ ArrivingAtDelivery(o)
      PROVE  RiderFromAssignment'
  BY <1>6 DEF PickupDelivery, StartDelivery, ArrivingAtDelivery, Advance
<1>7. ASSUME NEW o \in Orders, CompleteDelivery(o) \/ FailDelivery(o)
      PROVE  RiderFromAssignment'
  BY <1>7 DEF CompleteDelivery, FailDelivery, End
<1> QED
  BY <1>1, <1>2, <1>3, <1>4, <1>5, <1>6, <1>7 DEF RowStep, UpdateAvailability

LEMMA OneActiveKept ==
    ASSUME TypeOK, RiderFromAssignment, OneActiveDelivery, RowStep
    PROVE  OneActiveDelivery'
<1> USE DEF TypeOK, OneActiveDelivery, Active
<1>1. CASE UNCHANGED delivery
  BY <1>1
<1>2. ASSUME NEW o \in Orders, Creates(o) \/ GivesUp(o)
      PROVE  OneActiveDelivery'
  BY <1>2 DEF Creates, GivesUp, Dispatchable
<1>3. ASSUME NEW o \in Orders, NEW riders \in SUBSET Riders, Offers(o, riders)
      PROVE  OneActiveDelivery'
  BY <1>3 DEF Offers, Dispatchable
<1>4. ASSUME NEW k \in OfferIds, AcceptOffer(k)
      PROVE  OneActiveDelivery'
  BY <1>4 DEF AcceptOffer, OfferIds, HasActiveDelivery
<1>5. ASSUME NEW k \in OfferIds, NEW status \in {"REJECTED", "EXPIRED"}, Declines(k, status)
      PROVE  OneActiveDelivery'
  BY <1>5 DEF Declines, IsLastPending, OfferIds
<1>6. ASSUME NEW o \in Orders,
             PickupDelivery(o) \/ StartDelivery(o) \/ ArrivingAtDelivery(o)
      PROVE  OneActiveDelivery'
  BY <1>6 DEF PickupDelivery, StartDelivery, ArrivingAtDelivery, Advance
<1>7. ASSUME NEW o \in Orders, CompleteDelivery(o) \/ FailDelivery(o)
      PROVE  OneActiveDelivery'
  BY <1>7 DEF CompleteDelivery, FailDelivery, End
<1> QED
  BY <1>1, <1>2, <1>3, <1>4, <1>5, <1>6, <1>7 DEF RowStep, UpdateAvailability

LEMMA OrderFollowsKept ==
    ASSUME TypeOK, RiderFromAssignment, OrderFollowsDelivery, RowStep
    PROVE  OrderFollowsDelivery'
<1> USE DEF TypeOK, OrderFollowsDelivery, RiderFromAssignment, Active, Dispatchable
<1>1. CASE UNCHANGED <<delivery, order>>
  BY <1>1
<1>2. ASSUME NEW o \in Orders, Creates(o) \/ GivesUp(o)
      PROVE  OrderFollowsDelivery'
  BY <1>2 DEF Creates, GivesUp
<1>3. ASSUME NEW o \in Orders, NEW riders \in SUBSET Riders, Offers(o, riders)
      PROVE  OrderFollowsDelivery'
  BY <1>3 DEF Offers
<1>4. ASSUME NEW k \in OfferIds, AcceptOffer(k)
      PROVE  OrderFollowsDelivery'
  BY <1>4, NoRiderAssumption DEF AcceptOffer, OfferIds
<1>5. ASSUME NEW k \in OfferIds, NEW status \in {"REJECTED", "EXPIRED"}, Declines(k, status)
      PROVE  OrderFollowsDelivery'
  BY <1>5 DEF Declines, IsLastPending, OfferIds
<1>6. ASSUME NEW o \in Orders,
             PickupDelivery(o) \/ StartDelivery(o) \/ ArrivingAtDelivery(o)
      PROVE  OrderFollowsDelivery'
  <2>1. PICK from \in {"ASSIGNED", "PICKED_UP", "OUT_FOR_DELIVERY"},
             to \in {"PICKED_UP", "OUT_FOR_DELIVERY", "ARRIVING"} : Advance(o, from, to)
    BY <1>6 DEF PickupDelivery, StartDelivery, ArrivingAtDelivery
  <2>2. delivery[o].rider # NoRider
    BY <2>1 DEF Advance
  <2>3. delivery'[o].rider = delivery[o].rider /\ delivery'[o].status = to /\ order'[o] = to
    BY <2>1 DEF Advance
  <2>4. \A q \in Orders : q # o => delivery'[q] = delivery[q] /\ order'[q] = order[q]
    BY <2>1 DEF Advance
  <2> QED
    BY <2>2, <2>3, <2>4
<1>7. ASSUME NEW o \in Orders, CompleteDelivery(o) \/ FailDelivery(o)
      PROVE  OrderFollowsDelivery'
  <2>1. delivery[o].rider # NoRider
    BY <1>7 DEF CompleteDelivery, FailDelivery, End
  <2>2. /\ delivery'[o].rider = delivery[o].rider
        /\ \/ delivery'[o].status = "DELIVERED" /\ order'[o] = "DELIVERED"
           \/ delivery'[o].status = "FAILED" /\ order'[o] = "DELIVERY_FAILED"
    BY <1>7 DEF CompleteDelivery, FailDelivery, End
  <2>3. \A q \in Orders : q # o => delivery'[q] = delivery[q] /\ order'[q] = order[q]
    BY <1>7 DEF CompleteDelivery, FailDelivery, End
  <2> QED
    BY <2>1, <2>2, <2>3
<1> QED
  BY <1>1, <1>2, <1>3, <1>4, <1>5, <1>6, <1>7 DEF RowStep, UpdateAvailability

LEMMA BusyKept ==
    ASSUME TypeOK, RiderFromAssignment, OneActiveDelivery, BusyCarries, RowStep
    PROVE  BusyCarries'
<1> USE DEF TypeOK, BusyCarries, HasActiveDelivery, Active
<1>1. CASE UNCHANGED <<delivery, availability>>
  BY <1>1
<1>2. ASSUME NEW o \in Orders, Creates(o) \/ GivesUp(o)
      PROVE  BusyCarries'
  <2>1. \A q \in Orders : delivery[q].status \in Active => delivery'[q] = delivery[q]
    BY <1>2 DEF Creates, GivesUp, Dispatchable
  <2>2. UNCHANGED availability
    BY <1>2 DEF Creates, GivesUp
  <2> QED
    BY <2>1, <2>2
<1>3. ASSUME NEW o \in Orders, NEW riders \in SUBSET Riders, Offers(o, riders)
      PROVE  BusyCarries'
  BY <1>3 DEF Offers, Dispatchable
<1>4. ASSUME NEW k \in OfferIds, AcceptOffer(k)
      PROVE  BusyCarries'
  <2>1. k.order \in Orders /\ k.rider \in Riders
    BY DEF OfferIds
  <2> SUFFICES ASSUME NEW r \in Riders, availability'[r] = "BUSY"
               PROVE  HasActiveDelivery(r)'
    BY DEF BusyCarries
  <2>2. CASE r = k.rider
    BY <1>4, <2>1, <2>2 DEF AcceptOffer
  <2>3. CASE r # k.rider
    BY <1>4, <2>1, <2>3 DEF AcceptOffer
  <2> QED
    BY <2>2, <2>3
<1>5. ASSUME NEW k \in OfferIds, NEW status \in {"REJECTED", "EXPIRED"}, Declines(k, status)
      PROVE  BusyCarries'
  BY <1>5 DEF Declines, IsLastPending, OfferIds
<1>6. ASSUME NEW o \in Orders,
             PickupDelivery(o) \/ StartDelivery(o) \/ ArrivingAtDelivery(o)
      PROVE  BusyCarries'
  BY <1>6 DEF PickupDelivery, StartDelivery, ArrivingAtDelivery, Advance
<1>7. ASSUME NEW o \in Orders, CompleteDelivery(o) \/ FailDelivery(o)
      PROVE  BusyCarries'
  BY <1>7 DEF CompleteDelivery, FailDelivery, End, FreeRider
<1>8. ASSUME NEW r \in Riders, NEW status \in Availability, UpdateAvailability(r, status)
      PROVE  BusyCarries'
  BY <1>8 DEF UpdateAvailability, AvailabilityTransitions
<1> QED
  BY <1>1, <1>2, <1>3, <1>4, <1>5, <1>6, <1>7, <1>8 DEF RowStep

LEMMA AcceptedKept ==
    ASSUME TypeOK, RiderFromAssignment, OfferingIffPending, AcceptedIsAssigned, RowStep
    PROVE  AcceptedIsAssigned'
<1> USE DEF TypeOK, AcceptedIsAssigned
<1>1. CASE UNCHANGED <<delivery, offer>>
  BY <1>1
<1>2. ASSUME NEW o \in Orders, Creates(o) \/ GivesUp(o)
      PROVE  AcceptedIsAssigned'
  <2>1. \A q \in Orders : /\ delivery'[q].rider = delivery[q].rider
                          /\ delivery'[q].attempts = delivery[q].attempts
    BY <1>2 DEF Creates, GivesUp
  <2>2. UNCHANGED offer
    BY <1>2 DEF Creates, GivesUp
  <2> QED
    BY <2>1, <2>2 DEF OfferIds
<1>3. ASSUME NEW o \in Orders, NEW riders \in SUBSET Riders, Offers(o, riders)
      PROVE  AcceptedIsAssigned'
  <2>1. delivery[o].rider = NoRider /\ delivery'[o].rider = NoRider
    BY <1>3 DEF Offers, RiderFromAssignment
  <2>2. \A q \in Orders : q # o => delivery'[q] = delivery[q]
    BY <1>3 DEF Offers
  <2>3. \A k \in OfferIds : k.order \in Orders /\ k.rider \in Riders
    BY DEF OfferIds
  <2>4. \A k \in OfferIds : k.order # o => offer'[k] = offer[k]
    BY <1>3 DEF Offers, OfferId
  <2>5. \A k \in OfferIds : offer'[k] = "ACCEPTED" => offer[k] = "ACCEPTED"
    BY <1>3 DEF Offers
  <2>6. \A k \in OfferIds : offer[k] = "ACCEPTED" => k.order # o
    BY <2>1, <2>3, NoRiderAssumption
  <2>7. \A k \in OfferIds : offer'[k] = "ACCEPTED" =>
          /\ delivery'[k.order].rider = k.rider
          /\ delivery'[k.order].attempts = k.attempt
    BY <2>2, <2>3, <2>5, <2>6
  <2>8. ASSUME NEW q \in Orders, delivery'[q].rider # NoRider
        PROVE  \E k \in OfferIds : k.order = q /\ offer'[k] = "ACCEPTED"
    <3>1. q # o /\ delivery[q].rider # NoRider
      BY <2>1, <2>2, <2>8
    <3>2. PICK k \in OfferIds : k.order = q /\ offer[k] = "ACCEPTED"
      BY <3>1
    <3> QED
      BY <2>4, <3>1, <3>2
  <2> QED
    BY <2>7, <2>8
<1>4. ASSUME NEW k \in OfferIds, AcceptOffer(k)
      PROVE  AcceptedIsAssigned'
  <2>1. k.order \in Orders /\ k.rider \in Riders
    BY DEF OfferIds
  <2>2. delivery[k.order].rider = NoRider
    BY <1>4, <2>1 DEF AcceptOffer, RiderFromAssignment
  <2>3. offer'[k] = "ACCEPTED" /\ delivery'[k.order].rider = k.rider
    BY <1>4, <2>1 DEF AcceptOffer, OffersAfterAccept
  <2>4. delivery[k.order].attempts = k.attempt /\ delivery'[k.order].attempts = k.attempt
    BY <1>4, <2>1 DEF AcceptOffer, IsPending, OfferingIffPending
  <2>5. \A q \in Orders : q # k.order => delivery'[q] = delivery[q]
    BY <1>4 DEF AcceptOffer
  <2>6. \A i \in OfferIds : i # k => (offer'[i] = "ACCEPTED" <=> offer[i] = "ACCEPTED")
    BY <1>4 DEF AcceptOffer, OffersAfterAccept, PendingOffers
  <2>7. \A i \in OfferIds : i.order \in Orders /\ i.rider \in Riders
    BY DEF OfferIds
  <2>8. \A i \in OfferIds : offer[i] = "ACCEPTED" => i.order # k.order
    BY <2>1, <2>2, <2>7, NoRiderAssumption
  <2>9. offer[k] # "ACCEPTED"
    BY <2>8
  <2> QED
    BY <2>1, <2>3, <2>4, <2>5, <2>6, <2>7, <2>8, <2>9
<1>5. ASSUME NEW k \in OfferIds, NEW status \in {"REJECTED", "EXPIRED"}, Declines(k, status)
      PROVE  AcceptedIsAssigned'
  <2>1. \A q \in Orders : /\ delivery'[q].rider = delivery[q].rider
                          /\ delivery'[q].attempts = delivery[q].attempts
    BY <1>5 DEF Declines, OfferIds
  <2>2. \A i \in OfferIds : offer'[i] = "ACCEPTED" <=> offer[i] = "ACCEPTED"
    BY <1>5 DEF Declines
  <2> QED
    BY <2>1, <2>2 DEF OfferIds
<1>6. ASSUME NEW o \in Orders,
             \/ PickupDelivery(o) \/ StartDelivery(o) \/ ArrivingAtDelivery(o)
             \/ CompleteDelivery(o) \/ FailDelivery(o)
      PROVE  AcceptedIsAssigned'
  <2>1. \A q \in Orders : /\ delivery'[q].rider = delivery[q].rider
                          /\ delivery'[q].attempts = delivery[q].attempts
    BY <1>6 DEF PickupDelivery, StartDelivery, ArrivingAtDelivery, Advance,
                CompleteDelivery, FailDelivery, End
  <2>2. UNCHANGED offer
    BY <1>6 DEF PickupDelivery, StartDelivery, ArrivingAtDelivery, Advance,
                CompleteDelivery, FailDelivery, End
  <2> QED
    BY <2>1, <2>2 DEF OfferIds
<1> QED
  BY <1>1, <1>2, <1>3, <1>4, <1>5, <1>6 DEF RowStep, UpdateAvailability

LEMMA OfferingKept ==
    ASSUME TypeOK, OfferingIffPending, RowStep
    PROVE  OfferingIffPending'
<1> USE DEF TypeOK, OfferingIffPending
<1>0. \A k \in OfferIds : k.order \in Orders
  BY DEF OfferIds
<1>1. CASE UNCHANGED <<delivery, offer>>
  BY <1>1 DEF PendingOffers
<1>2. ASSUME NEW o \in Orders, Creates(o) \/ GivesUp(o)
      PROVE  OfferingIffPending'
  <2>1. delivery[o].status # "OFFERING" /\ delivery'[o].status # "OFFERING"
    BY <1>2 DEF Creates, GivesUp, Dispatchable
  <2>2. \A q \in Orders : q # o => delivery'[q] = delivery[q]
    BY <1>2 DEF Creates, GivesUp
  <2>3. UNCHANGED offer
    BY <1>2 DEF Creates, GivesUp
  <2> QED
    BY <1>0, <2>1, <2>2, <2>3 DEF PendingOffers
<1>3. ASSUME NEW o \in Orders, NEW riders \in SUBSET Riders, Offers(o, riders)
      PROVE  OfferingIffPending'
  <2> DEFINE n == delivery[o].attempts + 1
             made == {OfferId(o, r, n) : r \in riders}
  <2>1. \A k \in OfferIds : k.order = o => offer[k] # "PENDING"
    BY <1>3 DEF Offers, Dispatchable
  <2>2. \A q \in Orders : q # o => delivery'[q] = delivery[q]
    BY <1>3 DEF Offers
  <2>3. /\ delivery'[o].attempts = n
        /\ delivery'[o].status = IF riders = {} THEN "REASSIGNING" ELSE "OFFERING"
    BY <1>3 DEF Offers
  <2>4. \A k \in made : k \in OfferIds /\ k.order = o /\ k.attempt = n
    BY <1>3 DEF Offers, OfferId, OfferIds
  <2>5. \A k \in OfferIds : offer'[k] = IF k \in made THEN "PENDING" ELSE offer[k]
    BY <1>3 DEF Offers
  <2>6. riders # {} => \E k \in made : TRUE
    OBVIOUS
  <2> HIDE DEF made
  <2>7. ASSUME NEW q \in Orders, delivery'[q].status = "OFFERING"
        PROVE  \E k \in OfferIds : k.order = q /\ offer'[k] = "PENDING"
    <3>1. CASE q = o
      BY <2>3, <2>4, <2>5, <2>6, <2>7, <3>1
    <3>2. CASE q # o
      <4>1. PICK k \in OfferIds : k.order = q /\ offer[k] = "PENDING"
        BY <2>2, <2>7, <3>2 DEF PendingOffers
      <4> QED
        BY <2>4, <2>5, <3>2, <4>1
    <3> QED
      BY <3>1, <3>2
  <2>8. ASSUME NEW k \in OfferIds, offer'[k] = "PENDING"
        PROVE  /\ delivery'[k.order].status = "OFFERING"
               /\ delivery'[k.order].attempts = k.attempt
    <3>1. CASE k \in made
      BY <2>3, <2>4, <3>1 DEF made
    <3>2. CASE k \notin made
      BY <1>0, <2>1, <2>2, <2>5, <2>8, <3>2
    <3> QED
      BY <3>1, <3>2
  <2> QED
    BY <2>7, <2>8 DEF PendingOffers
<1>4. ASSUME NEW k \in OfferIds, AcceptOffer(k)
      PROVE  OfferingIffPending'
  <2>1. k.order \in Orders
    BY <1>0
  <2>2. delivery'[k.order].status = "ASSIGNED"
    BY <1>4, <2>1 DEF AcceptOffer
  <2>3. \A q \in Orders : q # k.order => delivery'[q] = delivery[q]
    BY <1>4 DEF AcceptOffer
  <2>4. \A i \in OfferIds : i.order = k.order => offer'[i] # "PENDING"
    BY <1>4 DEF AcceptOffer, OffersAfterAccept, PendingOffers
  <2>5. \A i \in OfferIds : i.order # k.order => offer'[i] = offer[i]
    BY <1>4 DEF AcceptOffer, OffersAfterAccept, PendingOffers
  <2> QED
    BY <1>0, <2>1, <2>2, <2>3, <2>4, <2>5 DEF PendingOffers
<1>5. ASSUME NEW k \in OfferIds, NEW status \in {"REJECTED", "EXPIRED"}, Declines(k, status)
      PROVE  OfferingIffPending'
  <2>1. offer'[k] # "PENDING" /\ \A i \in OfferIds : i # k => offer'[i] = offer[i]
    BY <1>5 DEF Declines
  <2>2. \A q \in Orders : q # k.order => delivery'[q] = delivery[q]
    BY <1>5 DEF Declines
  <2>3. delivery[k.order].status = "OFFERING"
    BY <1>5 DEF Declines
  <2>4. CASE IsLastPending(k)
    <3>1. \A i \in OfferIds : i.order = k.order => offer'[i] # "PENDING"
      BY <2>1, <2>4 DEF IsLastPending, PendingOffers
    <3>2. delivery'[k.order].status = "REASSIGNING"
      BY <1>0, <1>5, <2>4 DEF Declines
    <3> QED
      BY <1>0, <2>1, <2>2, <3>1, <3>2 DEF PendingOffers
  <2>5. CASE ~IsLastPending(k)
    <3>1. UNCHANGED delivery
      BY <1>5, <2>5 DEF Declines
    <3>2. PICK i \in OfferIds : i # k /\ i.order = k.order /\ offer[i] = "PENDING"
      BY <1>5, <2>3, <2>5 DEF Declines, IsLastPending, PendingOffers
    <3> QED
      BY <1>0, <2>1, <3>1, <3>2 DEF PendingOffers
  <2> QED
    BY <2>4, <2>5
<1>6. ASSUME NEW o \in Orders,
             \/ PickupDelivery(o) \/ StartDelivery(o) \/ ArrivingAtDelivery(o)
             \/ CompleteDelivery(o) \/ FailDelivery(o)
      PROVE  OfferingIffPending'
  <2>1. \A q \in Orders : q # o => delivery'[q] = delivery[q]
    BY <1>6 DEF PickupDelivery, StartDelivery, ArrivingAtDelivery, Advance,
                CompleteDelivery, FailDelivery, End
  <2>2. delivery[o].status # "OFFERING" /\ delivery'[o].status # "OFFERING"
    BY <1>6 DEF PickupDelivery, StartDelivery, ArrivingAtDelivery, Advance,
                CompleteDelivery, FailDelivery, End, Active
  <2>3. UNCHANGED offer
    BY <1>6 DEF PickupDelivery, StartDelivery, ArrivingAtDelivery, Advance,
                CompleteDelivery, FailDelivery, End
  <2> QED
    BY <1>0, <2>1, <2>2, <2>3 DEF PendingOffers
<1> QED
  BY <1>1, <1>2, <1>3, <1>4, <1>5, <1>6 DEF RowStep, UpdateAvailability

-----------------------------------------------------------------------------
(* Locks and jobs.                                                         *)

\* A handler that is in attemptDispatch, or about to be, and where the others stand.
LEMMA LockKept ==
    ASSUME TypeOK, LockHeld, OfferingIffPending, [Next]_vars
    PROVE  LockHeld'
<1> USE DEF TypeOK, LockHeld, MatchesAttempt, AttemptsLeft, Dispatchable
<1>0. \A s \in Slots : handler[s].pc = "dispatching" => handler[s].cause.order \in Orders
  BY HandlerByPc DEF RetryJobs
\* The handler in s becomes idle or adds jobs, no delivery that is locked moves.
<1>a. ASSUME NEW s \in Slots, handler'[s].pc # "dispatching",
             \A t \in Slots : t # s => handler'[t] = handler[t],
             \A t \in Slots : t # s /\ handler[t].pc = "dispatching" =>
                delivery'[handler[t].cause.order] = delivery[handler[t].cause.order]
      PROVE  LockHeld'
  BY <1>0, <1>a
\* No handler moves, and no delivery that is locked.
<1>b. ASSUME UNCHANGED handler,
             \A t \in Slots : handler[t].pc = "dispatching" =>
                delivery'[handler[t].cause.order] = delivery[handler[t].cause.order]
      PROVE  LockHeld'
  BY <1>0, <1>b
<1>1. ASSUME NEW s \in Slots, NEW o \in Orders, HandleReadyForPickup(s, o)
      PROVE  LockHeld'
  <2>1. handler'[s].pc # "dispatching" /\ \A t \in Slots : t # s => handler'[t] = handler[t]
    BY <1>1 DEF HandleReadyForPickup, Adding
  <2>2. \A t \in Slots : handler[t].pc = "dispatching" =>
           delivery'[handler[t].cause.order] = delivery[handler[t].cause.order]
    BY <1>1 DEF HandleReadyForPickup
  <2> QED
    BY <1>a, <2>1, <2>2
<1>2. ASSUME NEW s \in Slots, NEW j \in RetryJobs, DispatchStart(s, j)
      PROVE  LockHeld'
  <2>1. PICK riders \in SUBSET Riders :
           handler' = [handler EXCEPT ![s] = Dispatching(j, riders)]
    BY <1>2 DEF DispatchStart
  <2>2. handler'[s].pc = "dispatching" /\ handler'[s].cause = j
    BY <2>1 DEF Dispatching
  <2>3. \A t \in Slots : t # s => handler'[t] = handler[t]
    BY <2>1
  <2>4. \A t \in Slots : handler[t].pc = "dispatching" => handler[t].cause.order # j.order
    BY <1>2 DEF DispatchStart, Locked
  <2>5. UNCHANGED delivery /\ MatchesAttempt(j) /\ AttemptsLeft(j.order)
    BY <1>2 DEF DispatchStart
  <2> QED
    BY <1>0, <2>2, <2>3, <2>4, <2>5
<1>3. ASSUME NEW s \in Slots, DispatchCommit(s)
      PROVE  LockHeld'
  <2>1. handler'[s].pc # "dispatching" /\ \A t \in Slots : t # s => handler'[t] = handler[t]
    BY <1>3 DEF DispatchCommit, Adding
  <2>3. \A t \in Slots : t # s /\ handler[t].pc = "dispatching" =>
           handler[t].cause.order # handler[s].cause.order
    BY <1>3 DEF DispatchCommit
  <2>4. \A q \in Orders : q # handler[s].cause.order => delivery'[q] = delivery[q]
    BY <1>3 DEF DispatchCommit
  <2>2. \A t \in Slots : t # s /\ handler[t].pc = "dispatching" =>
           delivery'[handler[t].cause.order] = delivery[handler[t].cause.order]
    BY <1>0, <2>3, <2>4
  <2> QED
    BY <1>a, <2>1, <2>2
<1>4. ASSUME NEW s \in Slots, NEW k \in OfferIds, NEW c, NEW status, Decline(s, k, c, status)
      PROVE  LockHeld'
  <2>1. handler[s].pc # "dispatching"
    BY <1>4 DEF Decline, Idle
  <2>2. handler'[s].pc # "dispatching" /\ \A t \in Slots : t # s => handler'[t] = handler[t]
    BY <1>4, <2>1 DEF Decline, Adding
  <2>3. \A t \in Slots : handler[t].pc = "dispatching" =>
           delivery'[handler[t].cause.order] = delivery[handler[t].cause.order]
    BY <1>4 DEF Decline, Locked
  <2> QED
    BY <1>a, <2>2, <2>3
<1>5. ASSUME NEW s \in Slots,
             Finish(s) \/ DispatchWithoutRedis(s) \/ AddFails(s) \/ Crash(s)
      PROVE  LockHeld'
  <2>1. handler' = [handler EXCEPT ![s] = Idle] /\ UNCHANGED delivery
    BY <1>5 DEF Finish, DispatchWithoutRedis, AddFails, Crash
  <2>2. handler'[s].pc # "dispatching"
    BY <2>1 DEF Idle
  <2> QED
    BY <1>a, <2>1, <2>2
<1>6. ASSUME NEW s \in Slots, NEW j \in Jobs, AddJob(s, j)
      PROVE  LockHeld'
  <2>1. handler[s] \in [pc : {"adding"}, cause : Causes, jobs : SUBSET Jobs]
    BY <1>6, HandlerByPc DEF AddJob
  <2>2. handler'[s].pc # "dispatching" /\ \A t \in Slots : t # s => handler'[t] = handler[t]
    BY <1>6, <2>1 DEF AddJob
  <2> QED
    BY <1>6, <1>a, <2>2 DEF AddJob
<1>7. ASSUME NEW j \in Jobs, DispatchGiveUp(j)
      PROVE  LockHeld'
  <2>1. \A t \in Slots : handler[t].pc = "dispatching" =>
           delivery'[handler[t].cause.order] = delivery[handler[t].cause.order]
    BY <1>7 DEF DispatchGiveUp, Locked
  <2> QED
    BY <1>7, <1>b, <2>1 DEF DispatchGiveUp
<1>8. ASSUME UNCHANGED <<handler, delivery>>
      PROVE  LockHeld'
  BY <1>b, <1>8
<1>9. ASSUME NEW k \in OfferIds, AcceptOffer(k)
      PROVE  LockHeld'
  <2>1. \A t \in Slots : handler[t].pc = "dispatching" =>
           delivery'[handler[t].cause.order] = delivery[handler[t].cause.order]
    <3>1. \A t \in Slots : handler[t].pc = "dispatching" => handler[t].cause.order # k.order
      BY <1>9 DEF AcceptOffer, Locked
    <3>2. \A q \in Orders : q # k.order => delivery'[q] = delivery[q]
      BY <1>9 DEF AcceptOffer
    <3> QED
      BY <1>0, <3>1, <3>2
  <2> QED
    BY <1>9, <1>b, <2>1 DEF AcceptOffer
<1>10. ASSUME NEW o \in Orders,
              \/ PickupDelivery(o) \/ StartDelivery(o) \/ ArrivingAtDelivery(o)
              \/ CompleteDelivery(o) \/ FailDelivery(o)
       PROVE  LockHeld'
  <2>1. \A t \in Slots : handler[t].pc = "dispatching" =>
           delivery'[handler[t].cause.order] = delivery[handler[t].cause.order]
    <3>1. \A t \in Slots : handler[t].pc = "dispatching" => handler[t].cause.order # o
      BY <1>10 DEF PickupDelivery, StartDelivery, ArrivingAtDelivery, Advance,
                   CompleteDelivery, FailDelivery, End, Locked
    <3>2. \A q \in Orders : q # o => delivery'[q] = delivery[q]
      BY <1>10 DEF PickupDelivery, StartDelivery, ArrivingAtDelivery, Advance,
                   CompleteDelivery, FailDelivery, End
    <3> QED
      BY <1>0, <3>1, <3>2
  <2>2. UNCHANGED handler
    BY <1>10 DEF PickupDelivery, StartDelivery, ArrivingAtDelivery, Advance,
                 CompleteDelivery, FailDelivery, End
  <2> QED
    BY <1>b, <2>1, <2>2
<1>11. ASSUME NEW s \in Slots, Worker(s) \/ Fault(s)
       PROVE  LockHeld'
  <2>1. ASSUME NEW j \in ExpireJobs, ExpireOffer(s, j)
        PROVE  LockHeld'
    BY <1>4, <2>1 DEF ExpireOffer, ExpireJobs
  <2>2. CASE Stall(s)
    BY <1>8, <2>2 DEF Stall
  <2> QED
    BY <1>1, <1>2, <1>3, <1>5, <1>6, <1>11, <2>1, <2>2 DEF Worker, Fault
<1>12. ASSUME NEW j \in Jobs, Drop(j)
       PROVE  LockHeld'
  BY <1>7, <1>8, <1>12 DEF Drop, DispatchSkip, ExpireSkip
<1>13. CASE RiderStep
  <2>1. ASSUME NEW s \in Slots, NEW k \in OfferIds, RejectOffer(s, k)
        PROVE  LockHeld'
    BY <1>4, <2>1 DEF RejectOffer
  <2>2. ASSUME NEW r \in Riders, NEW status \in Availability, UpdateAvailability(r, status)
        PROVE  LockHeld'
    BY <1>8, <2>2 DEF UpdateAvailability
  <2> QED
    BY <1>9, <1>10, <1>13, <2>1, <2>2 DEF RiderStep
<1>14. ASSUME NEW o \in Orders, TimePasses(o)
       PROVE  LockHeld'
  BY <1>8, <1>14 DEF TimePasses
<1>15. CASE UNCHANGED vars
  BY <1>8, <1>15 DEF vars
<1> QED
  BY <1>11, <1>12, <1>13, <1>14, <1>15 DEF Next

\* Jobs are told by what they are about.
LEMMA JobsDiffer ==
    /\ \A o, q, n, m : RetryJob(o, n) = RetryJob(q, m) => o = q /\ n = m
    /\ \A i, k : ExpireJob(i) = ExpireJob(k) => i = k
    /\ \A o, n, k : RetryJob(o, n) # ExpireJob(k)
    /\ \A j \in RetryJobs : j = RetryJob(j.order, j.expectedAttempt) /\ j.order \in Orders
    /\ \A j \in ExpireJobs : j = ExpireJob(j.offer) /\ j.offer \in OfferIds
<1>1. \A o, q, n, m : RetryJob(o, n) = RetryJob(q, m) => o = q /\ n = m
  <2> SUFFICES ASSUME NEW o, NEW q, NEW n, NEW m, RetryJob(o, n) = RetryJob(q, m)
               PROVE  o = q /\ n = m
    OBVIOUS
  <2>1. /\ RetryJob(o, n).order = o /\ RetryJob(o, n).expectedAttempt = n
        /\ RetryJob(q, m).order = q /\ RetryJob(q, m).expectedAttempt = m
    BY DEF RetryJob
  <2> QED
    BY <2>1
<1>2. \A i, k : ExpireJob(i) = ExpireJob(k) => i = k
  <2> SUFFICES ASSUME NEW i, NEW k, ExpireJob(i) = ExpireJob(k)
               PROVE  i = k
    OBVIOUS
  <2>1. ExpireJob(i).offer = i /\ ExpireJob(k).offer = k
    BY DEF ExpireJob
  <2> QED
    BY <2>1
<1>3. \A o, n, k : RetryJob(o, n) # ExpireJob(k)
  <2> SUFFICES ASSUME NEW o, NEW n, NEW k
               PROVE  RetryJob(o, n) # ExpireJob(k)
    OBVIOUS
  <2>1. RetryJob(o, n).name = "dispatch-retry" /\ ExpireJob(k).name = "expire-offer"
    BY DEF RetryJob, ExpireJob
  <2> QED
    BY <2>1
<1>4. \A j \in RetryJobs : j = RetryJob(j.order, j.expectedAttempt) /\ j.order \in Orders
  BY DEF RetryJobs, RetryJob
<1>5. \A j \in ExpireJobs : j = ExpireJob(j.offer) /\ j.offer \in OfferIds
  BY DEF ExpireJobs, ExpireJob
<1> QED
  BY <1>1, <1>2, <1>3, <1>4, <1>5

LEMMA SearchKept ==
    ASSUME TypeOK, LockHeld, RiderFromAssignment, OfferingIffPending, SearchGoesOn,
           [Next]_vars
    PROVE  SearchGoesOn'
<1> SUFFICES ASSUME Failures = {}
             PROVE  SearchGoesOn'
  BY DEF SearchGoesOn
<1> DEFINE Searched(o) == delivery[o].status \in Dispatchable =>
                              InHand(RetryJob(o, delivery[o].attempts)) \/ Locked(o)
           Answered(k) == offer[k] = "PENDING" => InHand(ExpireJob(k))
<1>0. /\ \A o \in Orders : Searched(o)
      /\ \A k \in OfferIds : Answered(k)
  BY DEF SearchGoesOn
<1>00. ASSUME \A o \in Orders : Searched(o)', \A k \in OfferIds : Answered(k)'
       PROVE  SearchGoesOn'
  BY <1>00 DEF SearchGoesOn
<1> HIDE DEF Searched, Answered
\* A handler that was idle, or whose jobs are none, may turn to others.
<1>a. ASSUME NEW s \in Slots, ~ (handler[s].pc = "adding" /\ handler[s].jobs # {}),
             \A t \in Slots : t # s => handler'[t] = handler[t],
             NEW j, j \in queue => j \in queue'
      PROVE  InHand(j) => InHand(j)'
  BY <1>a DEF InHand
<1>b. ASSUME NEW s \in Slots, handler[s].pc # "dispatching", NEW o \in Orders,
             \A t \in Slots : t # s => handler'[t] = handler[t]
      PROVE  Locked(o) => Locked(o)'
  BY <1>b DEF Locked
\* A delivery and an offer that stay as they are, with all their jobs.
<1>c. ASSUME NEW o \in Orders, delivery'[o] = delivery[o],
             \A n : InHand(RetryJob(o, n)) => InHand(RetryJob(o, n))',
             Locked(o) => Locked(o)'
      PROVE  Searched(o)'
  <2>1. Searched(o)
    BY <1>0
  <2> QED
    BY <1>c, <2>1 DEF Searched
<1>d. ASSUME NEW k \in OfferIds, offer'[k] = offer[k] \/ offer'[k] # "PENDING",
             offer'[k] = "PENDING" => (InHand(ExpireJob(k)) => InHand(ExpireJob(k))')
      PROVE  Answered(k)'
  <2>1. Answered(k)
    BY <1>0
  <2> QED
    BY <1>d, <2>1 DEF Answered
<1>1. ASSUME NEW s \in Slots, NEW o \in Orders, HandleReadyForPickup(s, o)
      PROVE  SearchGoesOn'
  <2>1. /\ handler[s].pc = "idle"
        /\ handler'[s] = Adding(ReadyEvent(o), {RetryJob(o, 0)})
        /\ \A t \in Slots : t # s => handler'[t] = handler[t]
    BY <1>1 DEF HandleReadyForPickup, Idle, TypeOK
  <2>2. UNCHANGED <<queue, offer>>
    BY <1>1 DEF HandleReadyForPickup
  <2>3. \A j : InHand(j) => InHand(j)'
    BY <1>a, <2>1, <2>2
  <2>4. \A q \in Orders : Locked(q) => Locked(q)'
    BY <1>b, <2>1
  <2>5. \A q \in Orders : q # o => delivery'[q] = delivery[q]
    BY <1>1 DEF HandleReadyForPickup
  <2>6. delivery'[o] = delivery[o] \/ delivery'[o].attempts = 0
    BY <1>1 DEF HandleReadyForPickup, RiderFromAssignment, TypeOK
  <2>7. InHand(RetryJob(o, 0))'
    BY <2>1 DEF InHand, Adding
  <2>8. Searched(o)'
    <3>1. CASE delivery'[o].attempts = 0
      BY <2>7, <3>1 DEF Searched
    <3> QED
      BY <1>c, <2>3, <2>4, <2>6, <3>1
  <2>9. \A q \in Orders : Searched(q)'
    BY <1>c, <2>3, <2>4, <2>5, <2>8
  <2> QED
    BY <1>00, <1>d, <2>2, <2>3, <2>9
<1>2. ASSUME NEW s \in Slots, NEW j \in RetryJobs, DispatchStart(s, j)
      PROVE  SearchGoesOn'
  <2>1. PICK riders \in SUBSET Riders :
           handler' = [handler EXCEPT ![s] = Dispatching(j, riders)]
    BY <1>2 DEF DispatchStart
  <2>2. /\ handler[s].pc = "idle"
        /\ handler'[s] = Dispatching(j, riders)
        /\ \A t \in Slots : t # s => handler'[t] = handler[t]
        /\ UNCHANGED <<delivery, offer>>
        /\ queue' = queue \ {j}
    BY <1>2, <2>1 DEF DispatchStart, Idle, TypeOK
  <2>3. \A i : i # j => (InHand(i) => InHand(i)')
    BY <1>a, <2>2
  <2>4. \A q \in Orders : Locked(q) => Locked(q)'
    BY <1>b, <2>2
  <2>5. Locked(j.order)'
    BY <2>2 DEF Locked, Dispatching
  <2>6. \A q \in Orders : Searched(q)'
    <3> TAKE q \in Orders
    <3>1. CASE q = j.order
      BY <2>5, <3>1 DEF Searched
    <3>2. CASE q # j.order
      BY <1>c, <2>2, <2>3, <2>4, <3>2, JobsDiffer
    <3> QED
      BY <3>1, <3>2
  <2>7. \A k \in OfferIds : Answered(k)'
    BY <1>d, <2>2, <2>3, JobsDiffer
  <2> QED
    BY <1>00, <2>6, <2>7
<1>3. ASSUME NEW s \in Slots, DispatchCommit(s)
      PROVE  SearchGoesOn'
  <2> DEFINE o == handler[s].cause.order
             n == delivery[o].attempts + 1
             riders == handler[s].riders
  <2>1. handler[s] \in [pc : {"dispatching"}, cause : RetryJobs, riders : SUBSET Riders]
    BY <1>3, HandlerByPc DEF DispatchCommit, TypeOK
  <2>2. o \in Orders
    BY <2>1 DEF RetryJobs
  <2>3. /\ handler[s].pc = "dispatching"
        /\ handler'[s] = Adding(handler[s].cause, JobsAfter(o, n, riders))
        /\ \A t \in Slots : t # s => handler'[t] = handler[t]
        /\ UNCHANGED queue
    BY <1>3 DEF DispatchCommit, TypeOK
  <2>4. \A j : InHand(j) => InHand(j)'
    BY <1>a, <2>3
  <2>5. \A q \in Orders : q # o /\ Locked(q) => Locked(q)'
    BY <2>3 DEF Locked
  <2>6. /\ \A q \in Orders : q # o => delivery'[q] = delivery[q]
        /\ delivery'[o].attempts = n
        /\ delivery'[o].status = IF riders = {} THEN "REASSIGNING" ELSE "OFFERING"
    BY <1>3, <2>2 DEF DispatchCommit, TypeOK
  <2>7. \A j \in JobsAfter(o, n, riders) : InHand(j)'
    BY <2>3 DEF InHand, Adding
  <2>8. \A q \in Orders : Searched(q)'
    <3> TAKE q \in Orders
    <3>1. CASE q = o /\ riders = {}
      <4>1. RetryJob(o, n) \in JobsAfter(o, n, riders)
        BY <3>1 DEF JobsAfter
      <4> QED
        BY <2>6, <2>7, <3>1, <4>1 DEF Searched
    <3>2. CASE q = o /\ riders # {}
      BY <2>6, <3>2 DEF Searched, Dispatchable
    <3>3. CASE q # o
      BY <1>c, <2>4, <2>5, <2>6, <3>3
    <3> QED
      BY <3>1, <3>2, <3>3
  <2>9. \A k \in OfferIds : Answered(k)'
    <3> TAKE k \in OfferIds
    <3>1. CASE k \in {OfferId(o, r, n) : r \in riders}
      <4>1. ExpireJob(k) \in JobsAfter(o, n, riders)
        BY <3>1 DEF JobsAfter
      <4> QED
        BY <2>7, <4>1 DEF Answered
    <3>2. CASE k \notin {OfferId(o, r, n) : r \in riders}
      <4>1. offer'[k] = offer[k]
        BY <1>3, <3>2 DEF DispatchCommit
      <4> QED
        BY <1>d, <2>4, <4>1
    <3> QED
      BY <3>1, <3>2
  <2> QED
    BY <1>00, <2>8, <2>9
<1>4. ASSUME NEW s \in Slots, NEW k \in OfferIds, NEW c,
             NEW status \in {"REJECTED", "EXPIRED"},
             Decline(s, k, c, status), \A j : j # ExpireJob(k) /\ j \in queue => j \in queue'
      PROVE  SearchGoesOn'
  <2>1. handler[s].pc = "idle" /\ \A t \in Slots : t # s => handler'[t] = handler[t]
    BY <1>4 DEF Decline, Idle, TypeOK
  <2>2. \A j : j # ExpireJob(k) => (InHand(j) => InHand(j)')
    BY <1>4, <1>a, <2>1
  <2>3. \A q \in Orders : Locked(q) => Locked(q)'
    BY <1>b, <2>1
  <2>4. k.order \in Orders
    BY DEF OfferIds
  <2>5. \A q \in Orders : q # k.order => delivery'[q] = delivery[q]
    BY <1>4 DEF Decline
  <2>6. Searched(k.order)'
    <3>1. CASE IsLastPending(k)
      <4>1. handler'[s].pc = "adding"
            /\ handler'[s].jobs = {RetryJob(k.order, delivery[k.order].attempts)}
        BY <1>4, <3>1 DEF Decline, Adding, TypeOK
      <4>2. delivery'[k.order].attempts = delivery[k.order].attempts
        BY <1>4, <2>4, <3>1 DEF Decline, TypeOK
      <4> QED
        BY <4>1, <4>2 DEF Searched, InHand
    <3>2. CASE ~IsLastPending(k)
      <4>1. UNCHANGED delivery
        BY <1>4, <3>2 DEF Decline
      <4> QED
        BY <1>c, <2>2, <2>3, <2>4, <4>1, JobsDiffer
    <3> QED
      BY <3>1, <3>2
  <2>7. \A q \in Orders : Searched(q)'
    BY <1>c, <2>2, <2>3, <2>5, <2>6, JobsDiffer
  <2>8. \A i \in OfferIds : Answered(i)'
    <3> TAKE i \in OfferIds
    <3>1. CASE i = k
      BY <1>4, <1>d, <3>1 DEF Decline, TypeOK
    <3>2. CASE i # k
      <4>1. offer'[i] = offer[i]
        BY <1>4, <3>2 DEF Decline, TypeOK
      <4> QED
        BY <1>d, <2>2, <3>2, <4>1, JobsDiffer
    <3> QED
      BY <3>1, <3>2
  <2> QED
    BY <1>00, <2>7, <2>8
<1>5. ASSUME NEW s \in Slots, NEW j \in Jobs, AddJob(s, j)
      PROVE  SearchGoesOn'
  <2>1. handler[s] \in [pc : {"adding"}, cause : Causes, jobs : SUBSET Jobs]
    BY <1>5, HandlerByPc DEF AddJob, TypeOK
  <2>2. /\ handler'[s].pc = "adding" /\ handler'[s].jobs = handler[s].jobs \ {j}
        /\ \A t \in Slots : t # s => handler'[t] = handler[t]
        /\ queue' = queue \cup {j}
        /\ UNCHANGED <<delivery, offer>>
    BY <1>5, <2>1 DEF AddJob, TypeOK
  <2>3. \A i : InHand(i) => InHand(i)'
    BY <2>2 DEF InHand
  <2>4. \A q \in Orders : Locked(q) => Locked(q)'
    BY <1>b, <2>1, <2>2
  <2> QED
    BY <1>00, <1>c, <1>d, <2>2, <2>3, <2>4
<1>6. ASSUME NEW s \in Slots, Finish(s)
      PROVE  SearchGoesOn'
  <2>1. /\ handler[s].pc = "adding" /\ handler[s].jobs = {}
        /\ \A t \in Slots : t # s => handler'[t] = handler[t]
        /\ UNCHANGED <<queue, delivery, offer>>
    BY <1>6 DEF Finish, TypeOK
  <2>2. \A j : InHand(j) => InHand(j)'
    BY <1>a, <2>1
  <2>3. \A q \in Orders : Locked(q) => Locked(q)'
    BY <1>b, <2>1
  <2> QED
    BY <1>00, <1>c, <1>d, <2>1, <2>2, <2>3
\* The remaining steps leave the handlers alone.
<1>e. ASSUME UNCHANGED handler, NEW j, j \in queue => j \in queue'
      PROVE  InHand(j) => InHand(j)'
  BY <1>e DEF InHand
<1>f. ASSUME UNCHANGED handler, NEW o \in Orders
      PROVE  Locked(o) => Locked(o)'
  BY <1>f DEF Locked
<1>7. ASSUME NEW j \in Jobs, Drop(j)
      PROVE  SearchGoesOn'
  <2>1. UNCHANGED <<handler, offer>> /\ queue' = queue \ {j}
    BY <1>7 DEF Drop, DispatchSkip, DispatchGiveUp, ExpireSkip
  <2>2. \A i : i # j => (InHand(i) => InHand(i)')
    BY <1>e, <2>1
  <2>3. \A q \in Orders : Locked(q) => Locked(q)'
    BY <1>f, <2>1
  <2>4. CASE DispatchSkip(j)
    <3>1. j \in RetryJobs /\ UNCHANGED delivery /\ ~MatchesAttempt(j)
      BY <2>4 DEF DispatchSkip
    <3>2. \A q \in Orders : Searched(q)'
      <4> TAKE q \in Orders
      <4>1. CASE RetryJob(q, delivery[q].attempts) = j
        <5>1. q = j.order /\ delivery[q].attempts = j.expectedAttempt
          BY <3>1, <4>1, JobsDiffer
        <5> QED
          BY <3>1, <5>1 DEF MatchesAttempt, Searched
      <4>2. CASE RetryJob(q, delivery[q].attempts) # j
        <5>1. Searched(q)
          BY <1>0
        <5> QED
          BY <2>2, <2>3, <3>1, <4>2, <5>1 DEF Searched
      <4> QED
        BY <4>1, <4>2
    <3>3. \A k \in OfferIds : Answered(k)'
      BY <1>d, <2>1, <2>2, <3>1, JobsDiffer
    <3> QED
      BY <1>00, <3>2, <3>3
  <2>5. CASE DispatchGiveUp(j)
    <3>1. j \in RetryJobs
      BY <2>5 DEF DispatchGiveUp
    <3>2. delivery'[j.order].status = "FAILED"
          /\ \A q \in Orders : q # j.order => delivery'[q] = delivery[q]
      BY <2>5, <3>1, JobsDiffer DEF DispatchGiveUp, TypeOK
    <3>3. \A q \in Orders : Searched(q)'
      <4> TAKE q \in Orders
      <4>1. CASE q = j.order
        BY <3>2, <4>1 DEF Searched, Dispatchable
      <4>2. CASE q # j.order
        BY <1>c, <2>2, <2>3, <3>1, <3>2, <4>2, JobsDiffer
      <4> QED
        BY <4>1, <4>2
    <3>4. \A k \in OfferIds : Answered(k)'
      BY <1>d, <2>1, <2>2, <3>1, JobsDiffer
    <3> QED
      BY <1>00, <3>3, <3>4
  <2>6. CASE ExpireSkip(j)
    <3>1. j \in ExpireJobs /\ UNCHANGED delivery /\ offer[j.offer] # "PENDING"
      BY <2>6 DEF ExpireSkip
    <3>2. \A q \in Orders : Searched(q)'
      BY <1>c, <2>2, <2>3, <3>1, JobsDiffer
    <3>3. \A k \in OfferIds : Answered(k)'
      <4> TAKE k \in OfferIds
      <4>1. CASE k = j.offer
        BY <2>1, <3>1, <4>1 DEF Answered
      <4>2. CASE k # j.offer
        BY <1>d, <2>1, <2>2, <3>1, <4>2, JobsDiffer
      <4> QED
        BY <4>1, <4>2
    <3> QED
      BY <1>00, <3>2, <3>3
  <2> QED
    BY <1>7, <2>4, <2>5, <2>6 DEF Drop
<1>8. ASSUME UNCHANGED <<handler, queue>>,
             \A q \in Orders : \/ delivery'[q] = delivery[q]
                               \/ delivery'[q].status \notin Dispatchable,
             \A k \in OfferIds : offer'[k] = offer[k] \/ offer'[k] # "PENDING"
      PROVE  SearchGoesOn'
  <2>1. \A j : InHand(j) => InHand(j)'
    BY <1>8, <1>e
  <2>2. \A q \in Orders : Locked(q) => Locked(q)'
    BY <1>8, <1>f
  <2>3. \A q \in Orders : Searched(q)'
    <3> TAKE q \in Orders
    <3>1. CASE delivery'[q] = delivery[q]
      BY <1>c, <2>1, <2>2, <3>1
    <3>2. CASE delivery'[q].status \notin Dispatchable
      BY <3>2 DEF Searched
    <3> QED
      BY <1>8, <3>1, <3>2
  <2> QED
    BY <1>00, <1>8, <1>d, <2>1, <2>3
<1>9. ASSUME NEW k \in OfferIds, AcceptOffer(k)
      PROVE  SearchGoesOn'
  <2>1. \A q \in Orders : \/ delivery'[q] = delivery[q]
                          \/ delivery'[q].status \notin Dispatchable
    BY <1>9 DEF AcceptOffer, Dispatchable, TypeOK
  <2>2. \A i \in OfferIds : offer'[i] = offer[i] \/ offer'[i] # "PENDING"
    BY <1>9 DEF AcceptOffer, OffersAfterAccept
  <2> QED
    BY <1>8, <1>9, <2>1, <2>2 DEF AcceptOffer
<1>10. ASSUME NEW o \in Orders,
              \/ PickupDelivery(o) \/ StartDelivery(o) \/ ArrivingAtDelivery(o)
              \/ CompleteDelivery(o) \/ FailDelivery(o)
       PROVE  SearchGoesOn'
  <2>1. \A q \in Orders : \/ delivery'[q] = delivery[q]
                          \/ delivery'[q].status \notin Dispatchable
    BY <1>10 DEF PickupDelivery, StartDelivery, ArrivingAtDelivery, Advance,
                 CompleteDelivery, FailDelivery, End, Dispatchable, TypeOK
  <2>2. UNCHANGED <<handler, queue, offer>>
    BY <1>10 DEF PickupDelivery, StartDelivery, ArrivingAtDelivery, Advance,
                 CompleteDelivery, FailDelivery, End
  <2> QED
    BY <1>8, <2>1, <2>2
<1>11. ASSUME UNCHANGED <<handler, queue, delivery, offer>>
       PROVE  SearchGoesOn'
  BY <1>8, <1>11
<1>12. ASSUME NEW s \in Slots, Worker(s) \/ Fault(s)
       PROVE  SearchGoesOn'
  <2>1. ASSUME NEW j \in ExpireJobs, ExpireOffer(s, j)
        PROVE  SearchGoesOn'
    <3>1. j.offer \in OfferIds /\ j = ExpireJob(j.offer)
      BY JobsDiffer
    <3>2. Decline(s, j.offer, j, "EXPIRED") /\ queue' = queue \ {j}
      BY <2>1 DEF ExpireOffer
    <3>3. \A i : i # ExpireJob(j.offer) /\ i \in queue => i \in queue'
      BY <3>1, <3>2
    <3> QED
      BY <1>4, <3>1, <3>2, <3>3
  <2>2. ~Fault(s)
    BY DEF Fault, DispatchWithoutRedis, AddFails, Crash, Stall
  <2> QED
    BY <1>1, <1>2, <1>3, <1>5, <1>6, <1>12, <2>1, <2>2 DEF Worker
<1>13. CASE RiderStep
  <2>1. ASSUME NEW s \in Slots, NEW k \in OfferIds, RejectOffer(s, k)
        PROVE  SearchGoesOn'
    BY <1>4, <2>1 DEF RejectOffer
  <2>2. ASSUME NEW r \in Riders, NEW status \in Availability, UpdateAvailability(r, status)
        PROVE  SearchGoesOn'
    BY <1>11, <2>2 DEF UpdateAvailability
  <2> QED
    BY <1>9, <1>10, <1>13, <2>1, <2>2 DEF RiderStep
<1>14. ASSUME NEW o \in Orders, TimePasses(o)
       PROVE  SearchGoesOn'
  BY <1>11, <1>14 DEF TimePasses
<1>15. CASE UNCHANGED vars
  BY <1>11, <1>15 DEF vars
<1> QED
  BY <1>7, <1>12, <1>13, <1>14, <1>15 DEF Next

-----------------------------------------------------------------------------
(* The invariants.                                                         *)

LEMMA IInvInit == Init => IInv
<1> SUFFICES ASSUME Init PROVE IInv
  OBVIOUS
<1>1. TypeOK
  BY TypeInit
<1>2. \A s \in Slots : handler[s].pc = "idle"
  BY DEF Init, Idle
<1>3. \A o \in Orders : delivery[o].status = "NONE" /\ delivery[o].rider = NoRider
                        /\ delivery[o].attempts = 0
  BY DEF Init
<1>4. \A k \in OfferIds : offer[k] = "NONE"
  BY DEF Init
<1>5. \A r \in Riders : availability[r] # "BUSY"
  BY DEF Init
<1>6. LockHeld /\ BusyCarries
  BY <1>2, <1>5 DEF LockHeld, BusyCarries
<1>7. RiderFromAssignment /\ OneActiveDelivery /\ SearchGoesOn
  BY <1>3, <1>4 DEF RiderFromAssignment, OneActiveDelivery, SearchGoesOn, Active, Dispatchable
<1>8. AcceptedIsAssigned /\ OfferingIffPending
  BY <1>3, <1>4 DEF AcceptedIsAssigned, OfferingIffPending, PendingOffers
<1>9. OrderFollowsDelivery
  BY <1>3 DEF OrderFollowsDelivery, Init
<1> QED
  BY <1>1, <1>6, <1>7, <1>8, <1>9 DEF IInv

LEMMA IInvStep == IInv /\ [Next]_vars => IInv'
<1> SUFFICES ASSUME IInv, [Next]_vars PROVE IInv'
  OBVIOUS
<1>1. TypeOK /\ LockHeld /\ RiderFromAssignment /\ OneActiveDelivery /\ AcceptedIsAssigned
      /\ OrderFollowsDelivery /\ OfferingIffPending /\ BusyCarries /\ SearchGoesOn
  BY DEF IInv
<1>2. RowStep
  BY <1>1, StepsOnRows
<1>3. TypeOK' /\ LockHeld' /\ SearchGoesOn'
  BY <1>1, TypeStep, LockKept, SearchKept
<1>4. RiderFromAssignment' /\ OneActiveDelivery' /\ OrderFollowsDelivery'
  BY <1>1, <1>2, RiderFromAssignmentKept, OneActiveKept, OrderFollowsKept
<1>5. BusyCarries' /\ AcceptedIsAssigned' /\ OfferingIffPending'
  BY <1>1, <1>2, BusyKept, AcceptedKept, OfferingKept
<1> QED
  BY <1>3, <1>4, <1>5 DEF IInv

\* The inductive invariant holds: it starts with the first event and no step of a worker,
\* a rider or a fault breaks it.
THEOREM Inductive == Spec => []IInv
  BY IInvInit, IInvStep, PTL DEF Spec

\* Rows, jobs and handlers have their types; no delivery counts more attempts than
\* MAX_DISPATCH_ATTEMPTS (dispatch.service.ts:47).
THEOREM TypesCorrect == Spec => []TypeOK
  BY Inductive, PTL DEF IInv

\* No rider ever carries two orders, although its availability may say ONLINE while it
\* carries one and offers may be made and accepted at any moment (offers.service.ts:95).
THEOREM OneDeliveryPerRider == Spec => []OneActiveDelivery
  BY Inductive, PTL DEF IInv

\* The rider of a delivery is the one whose offer of the last attempt is ACCEPTED, and
\* no other offer of it is (offers.service.ts:108).
THEOREM AcceptanceAssigns == Spec => []AcceptedIsAssigned
  BY Inductive, PTL DEF IInv

\* The status of the order and that of its delivery never disagree
\* (offers.service.ts:137, rider-deliveries.service.ts:243).
THEOREM OrderInStep == Spec => []OrderFollowsDelivery
  BY Inductive, PTL DEF IInv

\* A delivery is OFFERING exactly while an offer of its last attempt can be answered
\* (offers.service.ts:123, 208, 281).
THEOREM OffersMatchDelivery == Spec => []OfferingIffPending
  BY Inductive, PTL DEF IInv

\* Only a rider with an order is BUSY (rider-deliveries.service.ts:365, 485).
THEOREM BusyRidersCarry == Spec => []BusyCarries
  BY Inductive, PTL DEF IInv

\* When nothing fails, a delivery that needs another attempt has its job in the queue or
\* in a handler's hands, and so does every offer's expiry (dispatch.service.ts:179).
THEOREM SearchNeverLost == Spec => []SearchGoesOn
  BY Inductive, PTL DEF IInv

-----------------------------------------------------------------------------
(* What no step does.                                                      *)

\* Attempts change only where an attempt commits, which holds the lock.
LEMMA AttemptStep ==
    ASSUME TypeOK, LockHeld, OfferingIffPending, [Next]_vars,
           NEW o \in Orders, delivery'[o].attempts # delivery[o].attempts
    PROVE  /\ delivery'[o].attempts = delivery[o].attempts + 1
           /\ PendingOffers(o) = {}
           /\ \E s \in Slots : /\ handler[s].pc = "dispatching"
                              /\ handler[s].cause = RetryJob(o, delivery[o].attempts)
<1>1. PICK s \in Slots : DispatchCommit(s)
  <2>1. ASSUME NEW q \in Orders, NEW status,
               delivery' = [delivery EXCEPT ![q].status = status]
        PROVE  FALSE
    BY <2>1 DEF TypeOK
  <2>2. ASSUME NEW s \in Slots, Worker(s) \/ Fault(s), ~DispatchCommit(s)
        PROVE  FALSE
    <3>1. CASE \E q \in Orders : HandleReadyForPickup(s, q)
      BY <2>1, <3>1 DEF HandleReadyForPickup
    <3>2. CASE \E j \in ExpireJobs : ExpireOffer(s, j)
      BY <2>1, <3>2 DEF ExpireOffer, Decline, ExpireJobs, OfferIds
    <3> QED
      BY <2>2, <3>1, <3>2 DEF Worker, Fault, DispatchStart, AddJob, Finish,
                              DispatchWithoutRedis, AddFails, Crash, Stall
  <2>3. ASSUME NEW j \in Jobs, Drop(j)
        PROVE  FALSE
    BY <2>1, <2>3 DEF Drop, DispatchSkip, DispatchGiveUp, ExpireSkip, RetryJobs
  <2>4. ASSUME NEW k \in OfferIds, AcceptOffer(k)
        PROVE  FALSE
    BY <2>4 DEF AcceptOffer, TypeOK
  <2>5. ASSUME RiderStep
        PROVE  FALSE
    <3>1. CASE \E t \in Slots, k \in OfferIds : RejectOffer(t, k)
      BY <2>1, <3>1 DEF RejectOffer, Decline, OfferIds
    <3>2. CASE \E q \in Orders :
                  \/ PickupDelivery(q) \/ StartDelivery(q) \/ ArrivingAtDelivery(q)
                  \/ CompleteDelivery(q) \/ FailDelivery(q)
      BY <2>1, <3>2 DEF PickupDelivery, StartDelivery, ArrivingAtDelivery, Advance,
                        CompleteDelivery, FailDelivery, End
    <3> QED
      BY <2>4, <2>5, <3>1, <3>2 DEF RiderStep, UpdateAvailability
  <2>6. ~UNCHANGED vars /\ ~\E q \in Orders : TimePasses(q)
    BY DEF vars, TimePasses
  <2> QED
    BY <2>2, <2>3, <2>5, <2>6 DEF Next
<1>2. handler[s] \in [pc : {"dispatching"}, cause : RetryJobs, riders : SUBSET Riders]
  BY <1>1, HandlerByPc DEF DispatchCommit, TypeOK
<1>3. handler[s].cause.order = o
  BY <1>1, <1>2 DEF DispatchCommit, TypeOK, RetryJobs
<1>4. MatchesAttempt(handler[s].cause)
  BY <1>2 DEF LockHeld
<1>5. delivery'[o].attempts = delivery[o].attempts + 1
  BY <1>1, <1>3 DEF DispatchCommit, TypeOK
<1>6. PendingOffers(o) = {}
  BY <1>3, <1>4 DEF MatchesAttempt, Dispatchable, OfferingIffPending, PendingOffers
<1>7. handler[s].cause = RetryJob(o, delivery[o].attempts)
  BY <1>2, <1>3, <1>4 DEF MatchesAttempt, RetryJob, RetryJobs
<1> QED
  BY <1>2, <1>5, <1>6, <1>7

\* However often a dispatch-retry job is added, handed out again or run beside another,
\* each attempt is made once, by the job for it, with no offer open
\* (dispatch.service.ts:34).
THEOREM AttemptsOnce == Spec => AttemptMadeOnce
<1>1. IInv /\ [Next]_vars =>
        [\A o \in Orders : delivery'[o].attempts # delivery[o].attempts =>
            /\ delivery'[o].attempts = delivery[o].attempts + 1
            /\ PendingOffers(o) = {}
            /\ \E s \in Slots : /\ handler[s].pc = "dispatching"
                               /\ handler[s].cause = RetryJob(o, delivery[o].attempts)]_vars
  BY AttemptStep DEF IInv
<1> QED
  BY <1>1, Inductive, PTL DEF Spec, AttemptMadeOnce

-----------------------------------------------------------------------------
(* The implementation of RiderAssignment.                                  *)

PhaseMap == [o \in Orders |-> Phase(delivery[o])]
HolderMap == [o \in Orders |-> delivery[o].rider]

LEMMA PhaseCases ==
    ASSUME NEW row
    PROVE  /\ row.status \in Active => Phase(row) = "carried"
           /\ row.status = "DELIVERED" => Phase(row) = "delivered"
           /\ row.status = "FAILED" =>
                Phase(row) = IF row.rider = NoRider THEN "unserved" ELSE "failed"
           /\ row.status \notin Active \cup {"DELIVERED", "FAILED"} => Phase(row) = "waiting"
  BY DEF Phase, Active

LEMMA AssignmentInit == Init => Assignment!Init
  BY PhaseCases DEF Init, Assignment!Init, Active

\* A step that leaves every other row alone and keeps the phase and the rider of one.
LEMMA SamePhase ==
    ASSUME NEW o \in Orders,
           Phase(delivery'[o]) = Phase(delivery[o]), delivery'[o].rider = delivery[o].rider,
           \A q \in Orders : q # o => delivery'[q] = delivery[q]
    PROVE  UNCHANGED <<PhaseMap, HolderMap>>
<1>1. \A q \in Orders : /\ Phase(delivery'[q]) = Phase(delivery[q])
                        /\ delivery'[q].rider = delivery[q].rider
  OBVIOUS
<1>2. PhaseMap' = [q \in Orders |-> Phase(delivery'[q])]
      /\ HolderMap' = [q \in Orders |-> delivery'[q].rider]
  BY DEF PhaseMap, HolderMap, Phase
<1> QED
  BY <1>1, <1>2 DEF PhaseMap, HolderMap

\* A step that moves one row to another phase and keeps its rider.
LEMMA NewPhase ==
    ASSUME NEW o \in Orders, NEW phase,
           Phase(delivery'[o]) = phase, delivery'[o].rider = delivery[o].rider,
           \A q \in Orders : q # o => delivery'[q] = delivery[q]
    PROVE  PhaseMap' = [PhaseMap EXCEPT ![o] = phase] /\ UNCHANGED HolderMap
<1>1. PhaseMap' = [q \in Orders |-> Phase(delivery'[q])]
      /\ HolderMap' = [q \in Orders |-> delivery'[q].rider]
  BY DEF PhaseMap, HolderMap, Phase
<1> QED
  BY <1>1 DEF PhaseMap, HolderMap

LEMMA AssignmentStep ==
    ASSUME TypeOK, RiderFromAssignment, OfferingIffPending, RowStep
    PROVE  Assignment!Next \/ UNCHANGED <<PhaseMap, HolderMap>>
<1> USE DEF TypeOK
<1>1. CASE UNCHANGED delivery
  BY <1>1 DEF PhaseMap, HolderMap, Phase
<1>2. ASSUME NEW o \in Orders, Creates(o)
      PROVE  UNCHANGED <<PhaseMap, HolderMap>>
  <2>1. /\ delivery[o].status = "NONE" /\ delivery'[o].status = "PENDING_DISPATCH"
        /\ delivery'[o].rider = delivery[o].rider
        /\ \A q \in Orders : q # o => delivery'[q] = delivery[q]
    BY <1>2 DEF Creates
  <2>2. Phase(delivery'[o]) = Phase(delivery[o])
    BY <2>1, PhaseCases DEF Active
  <2> QED
    BY <2>1, <2>2, SamePhase
<1>3. ASSUME NEW o \in Orders, GivesUp(o)
      PROVE  Assignment!Next
  <2>1. /\ delivery[o].status \in Dispatchable /\ delivery'[o].status = "FAILED"
        /\ delivery'[o].rider = delivery[o].rider
        /\ \A q \in Orders : q # o => delivery'[q] = delivery[q]
    BY <1>3 DEF GivesUp
  <2>2. delivery[o].rider = NoRider
    BY <2>1 DEF RiderFromAssignment
  <2>3. Phase(delivery[o]) = "waiting" /\ Phase(delivery'[o]) = "unserved"
    BY <2>1, <2>2, PhaseCases DEF Active, Dispatchable
  <2>4. Assignment!GiveUp(o)
    BY <2>1, <2>3, NewPhase DEF Assignment!GiveUp, PhaseMap, HolderMap
  <2> QED
    BY <2>4 DEF Assignment!Next
<1>4. ASSUME NEW o \in Orders, NEW riders \in SUBSET Riders, Offers(o, riders)
      PROVE  UNCHANGED <<PhaseMap, HolderMap>>
  <2>1. /\ delivery[o].status \in Dispatchable
        /\ delivery'[o].status \in {"REASSIGNING", "OFFERING"}
        /\ delivery'[o].rider = delivery[o].rider
        /\ \A q \in Orders : q # o => delivery'[q] = delivery[q]
    BY <1>4 DEF Offers
  <2>2. Phase(delivery'[o]) = Phase(delivery[o])
    BY <2>1, PhaseCases DEF Active, Dispatchable
  <2> QED
    BY <2>1, <2>2, SamePhase
<1>5. ASSUME NEW k \in OfferIds, AcceptOffer(k)
      PROVE  Assignment!Next
  <2> DEFINE o == k.order
  <2>1. o \in Orders /\ k.rider \in Riders
    BY DEF OfferIds
  <2>2. /\ delivery[o].status = "OFFERING" /\ delivery'[o].status = "ASSIGNED"
        /\ delivery'[o].rider = k.rider
        /\ \A q \in Orders : q # o => delivery'[q] = delivery[q]
        /\ ~HasActiveDelivery(k.rider)
    BY <1>5, <2>1 DEF AcceptOffer
  <2>3. Phase(delivery[o]) = "waiting" /\ Phase(delivery'[o]) = "carried"
    BY <2>2, PhaseCases DEF Active
  <2>4. \A q \in Orders : Phase(delivery[q]) = "carried" => delivery[q].status \in Active
    BY DEF Phase
  <2>5. ~Assignment!Carries(k.rider)
    BY <2>2, <2>4 DEF Assignment!Carries, HasActiveDelivery
  <2>6. PhaseMap' = [PhaseMap EXCEPT ![o] = "carried"]
        /\ HolderMap' = [HolderMap EXCEPT ![o] = k.rider]
    <3>1. PhaseMap' = [q \in Orders |-> Phase(delivery'[q])]
          /\ HolderMap' = [q \in Orders |-> delivery'[q].rider]
      BY DEF PhaseMap, HolderMap, Phase
    <3> QED
      BY <2>1, <2>2, <2>3, <3>1 DEF PhaseMap, HolderMap
  <2>7. Assignment!Assign(o, k.rider)
    BY <2>1, <2>3, <2>5, <2>6 DEF Assignment!Assign, PhaseMap, HolderMap
  <2> QED
    BY <2>1, <2>7 DEF Assignment!Next
<1>6. ASSUME NEW k \in OfferIds, NEW status \in {"REJECTED", "EXPIRED"}, Declines(k, status)
      PROVE  UNCHANGED <<PhaseMap, HolderMap>>
  <2>1. k.order \in Orders /\ delivery[k.order].status = "OFFERING"
    BY <1>6 DEF Declines, OfferIds, OfferingIffPending
  <2>2. CASE UNCHANGED delivery
    BY <1>1, <2>2 DEF PhaseMap, HolderMap, Phase
  <2>3. CASE delivery' = [delivery EXCEPT ![k.order].status = "REASSIGNING"]
    <3>1. /\ delivery'[k.order].status = "REASSIGNING"
          /\ delivery'[k.order].rider = delivery[k.order].rider
          /\ \A q \in Orders : q # k.order => delivery'[q] = delivery[q]
      BY <2>1, <2>3
    <3>2. Phase(delivery'[k.order]) = Phase(delivery[k.order])
      BY <2>1, <3>1, PhaseCases DEF Active
    <3> QED
      BY <2>1, <3>1, <3>2, SamePhase
  <2> QED
    BY <1>6, <2>2, <2>3 DEF Declines
<1>7. ASSUME NEW o \in Orders,
             PickupDelivery(o) \/ StartDelivery(o) \/ ArrivingAtDelivery(o)
      PROVE  UNCHANGED <<PhaseMap, HolderMap>>
  <2>1. /\ delivery[o].status \in Active /\ delivery'[o].status \in Active
        /\ delivery'[o].rider = delivery[o].rider
        /\ \A q \in Orders : q # o => delivery'[q] = delivery[q]
    BY <1>7 DEF PickupDelivery, StartDelivery, ArrivingAtDelivery, Advance, Active
  <2>2. Phase(delivery'[o]) = Phase(delivery[o])
    BY <2>1, PhaseCases
  <2> QED
    BY <2>1, <2>2, SamePhase
<1>8. ASSUME NEW o \in Orders, CompleteDelivery(o) \/ FailDelivery(o)
      PROVE  Assignment!Next
  <2>1. /\ delivery[o].status \in Active
        /\ delivery'[o].status \in {"DELIVERED", "FAILED"}
        /\ delivery'[o].rider = delivery[o].rider
        /\ \A q \in Orders : q # o => delivery'[q] = delivery[q]
    BY <1>8 DEF CompleteDelivery, FailDelivery, End, Active
  <2>2. delivery[o].rider # NoRider
    BY <2>1 DEF RiderFromAssignment
  <2>3. Phase(delivery[o]) = "carried" /\ Phase(delivery'[o]) \in {"delivered", "failed"}
    BY <2>1, <2>2, PhaseCases
  <2>4. PICK outcome \in {"delivered", "failed"} : Phase(delivery'[o]) = outcome
    BY <2>3
  <2>5. Assignment!Close(o, outcome)
    BY <2>1, <2>3, <2>4, NewPhase DEF Assignment!Close, PhaseMap, HolderMap
  <2> QED
    BY <2>5 DEF Assignment!Next
<1> QED
  BY <1>1, <1>2, <1>3, <1>4, <1>5, <1>6, <1>7, <1>8 DEF RowStep, UpdateAvailability

\* Whatever the offers, jobs, retries and faults, the riders' deliveries are those of
\* RiderAssignment: an order waits, gets one rider who is free, keeps that rider, and
\* ends once (offers.service.ts:26, rider-deliveries.service.ts:271).
THEOREM ImplementsRiderAssignment == Spec => ImplementsAssignment
<1>1. IInv /\ [Next]_vars => [Assignment!Next]_<<PhaseMap, HolderMap>>
  BY StepsOnRows, AssignmentStep DEF IInv
<1>2. Init => Assignment!Init
  BY AssignmentInit
<1>3. Spec => [][Assignment!Next]_<<PhaseMap, HolderMap>>
  BY <1>1, Inductive, PTL DEF Spec
<1> QED
  BY <1>2, <1>3, PTL DEF Spec, ImplementsAssignment, Assignment!Spec, PhaseMap, HolderMap

===============================================================================
