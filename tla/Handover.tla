------------------------------- MODULE Handover -------------------------------
(***************************************************************************)
(* A delivery that a rider has accepted: one password to take the order    *)
(* over at the shop, another to hand it to the customer, wrong passwords,  *)
(* and cash on delivery (rider-deliveries.service.ts).  A request locks    *)
(* order, delivery, rider and payment, so it is one step.                  *)
(*                                                                         *)
(* Which rows of payments an order may have by then is what Payments       *)
(* allows.  A refusal that changes no row is left out.                     *)
(***************************************************************************)
EXTENDS Naturals

CONSTANTS
    Deliveries,
    MaxOtpAttempts    \* MAX_OTP_ATTEMPTS

ASSUME HandoverAssumption == MaxOtpAttempts \in Nat \ {0}

VARIABLES
    delivery,    \* the rows of deliveries
    payments     \* the rows of payments of each delivery's order

handoverVars == <<delivery, payments>>

-----------------------------------------------------------------------------
\* otp: the hash, and whether it has expired; lock: LockedUntil, and whether it is over.
NoPassword == [otp |-> "none", attempts |-> 0, lock |-> "none", support |-> FALSE]
FreshPassword == [NoPassword EXCEPT !.otp = "valid"]

Password ==
    [otp : {"none", "valid", "expired"}, attempts : Nat,
     lock : {"none", "locked", "over"}, support : BOOLEAN]

Active == {"ASSIGNED", "PICKED_UP", "OUT_FOR_DELIVERY", "ARRIVING"}

Delivery ==
    [status : Active \cup {"DELIVERED", "FAILED"}, pickup : Password, dropoff : Password]

IsActive(d) == delivery[d].status \in Active

Payment ==
    [method : {"COD", "ONLINE", "none"},
     status : {"PENDING", "AUTHORIZED", "CAPTURED", "FAILED", "none"}]

Rows == 1..2

NoPayment == [method |-> "none", status |-> "none"]
Cash == [method |-> "COD", status |-> "PENDING"]
Online(status) == [method |-> "ONLINE", status |-> status]

\* Cash; one of two online sessions; or cash with an online session that was being
\* opened at the same time (payments.service.ts:91, :112).
PaidWith ==
    {<<Cash, NoPayment>>, <<Online("CAPTURED"), NoPayment>>,
     <<Online("FAILED"), Online("CAPTURED")>>, <<Online("PENDING"), Online("CAPTURED")>>,
     <<Cash, Online("PENDING")>>}

\* IDX_unique_successful_payment.
WithinIndex(rows) ==
    \A r, q \in Rows :
        {rows[r].status, rows[q].status} \subseteq {"AUTHORIZED", "CAPTURED"} => r = q

\* A row gets a status, when the index lets it.
Settle(d, r, status) ==
    /\ payments' = [payments EXCEPT ![d][r].status = status]
    /\ WithinIndex(payments'[d])

-----------------------------------------------------------------------------
(* Passwords.                                                              *)

\* A request that is looked at.
MayTry(password) ==
    /\ ~password.support
    /\ password.lock # "locked"
    /\ password.otp = "valid"

\* Mutant of AfterWrong: the lock that is over is forgotten.
AfterWrongForgiving(password) ==
    LET attempts == password.attempts + 1 IN
    [password EXCEPT !.attempts = attempts,
                     !.lock = IF attempts >= MaxOtpAttempts THEN "locked" ELSE @]

\* Too many lock it for a while; one more after that needs support.
AfterWrong(password) ==
    LET attempts == password.attempts + 1
        wasLocked == password.lock = "over" IN
    [password EXCEPT
        !.attempts = attempts,
        !.support = attempts >= MaxOtpAttempts /\ wasLocked,
        !.lock = IF attempts >= MaxOtpAttempts /\ ~wasLocked THEN "locked" ELSE @]

LockEnds(password) == [password EXCEPT !.lock = "over"]
OtpExpires(password) == [password EXCEPT !.otp = "expired"]

\* The clock moves past lockedUntil or expiresAt.
PasswordTimes(password) ==
    {LockEnds(p) : p \in {q \in {password} : q.lock = "locked"}}
    \cup {OtpExpires(p) : p \in {q \in {password} : q.otp = "valid"}}

-----------------------------------------------------------------------------
(* Requests of the rider.                                                  *)

\* Nothing in the repository but a test sets the password of the shop.
SetPickupOtp(d) ==
    /\ delivery[d].status = "ASSIGNED"
    /\ delivery[d].pickup = NoPassword
    /\ delivery' = [delivery EXCEPT ![d].pickup = FreshPassword]
    /\ UNCHANGED payments

\* pickupDelivery with the right password makes the one of the customer.
PickupDelivery(d) ==
    /\ delivery[d].status = "ASSIGNED"
    /\ MayTry(delivery[d].pickup)
    /\ delivery' = [delivery EXCEPT ![d] = [status |-> "PICKED_UP", pickup |-> NoPassword,
                                            dropoff |-> FreshPassword]]
    /\ UNCHANGED payments

PickupDeliveryWrong(d) ==
    /\ delivery[d].status = "ASSIGNED"
    /\ MayTry(delivery[d].pickup)
    /\ delivery' = [delivery EXCEPT ![d].pickup = AfterWrong(@)]
    /\ UNCHANGED payments

Transition(d, old, new) ==
    /\ delivery[d].status = old
    /\ delivery' = [delivery EXCEPT ![d].status = new]
    /\ UNCHANGED payments

StartDelivery(d) == Transition(d, "PICKED_UP", "OUT_FOR_DELIVERY")
ArrivingAtDelivery(d) == Transition(d, "OUT_FOR_DELIVERY", "ARRIVING")

\* Whichever row of the order comes first.
Looked(d, r) ==
    /\ delivery[d].status = "ARRIVING"
    /\ payments[d][r] # NoPayment
    /\ payments[d][r].method = "COD" => payments[d][r].status \in {"PENDING", "AUTHORIZED"}
    /\ MayTry(delivery[d].dropoff)

\* Mutant of CompleteDelivery: a payment in cash is left as it is.
CompleteDeliveryUnpaid(d) ==
    /\ \E r \in Rows : Looked(d, r)
    /\ delivery' = [delivery EXCEPT ![d].status = "DELIVERED", ![d].dropoff = NoPassword]
    /\ UNCHANGED payments

CompleteDelivery(d) ==
    \E r \in Rows :
        /\ Looked(d, r)
        /\ delivery' = [delivery EXCEPT ![d].status = "DELIVERED", ![d].dropoff = NoPassword]
        /\ IF payments[d][r].method = "COD" THEN Settle(d, r, "CAPTURED")
           ELSE UNCHANGED payments

CompleteDeliveryWrong(d) ==
    /\ \E r \in Rows : Looked(d, r)
    /\ delivery' = [delivery EXCEPT ![d].dropoff = AfterWrong(@)]
    /\ UNCHANGED payments

\* Every status has a reason that fits: a breakdown fits them all.
FailDelivery(d) ==
    /\ IsActive(d)
    /\ delivery' = [delivery EXCEPT ![d].status = "FAILED"]
    /\ UNCHANGED payments

-----------------------------------------------------------------------------
(* Time, and the payment provider.                                         *)

Pass(d) ==
    /\ \/ \E password \in PasswordTimes(delivery[d].pickup) :
             delivery' = [delivery EXCEPT ![d].pickup = password]
       \/ \E password \in PasswordTimes(delivery[d].dropoff) :
             delivery' = [delivery EXCEPT ![d].dropoff = password]
    /\ UNCHANGED payments

\* An event of an online session that is not stale.
Webhook(d) ==
    \E r \in Rows, status \in {"AUTHORIZED", "CAPTURED", "FAILED"} :
        /\ payments[d][r].method = "ONLINE"
        /\ ~(payments[d][r].status = "CAPTURED" /\ status = "FAILED")
        /\ payments[d][r].status # status
        /\ Settle(d, r, status)
        /\ UNCHANGED delivery

-----------------------------------------------------------------------------
HandoverInit ==
    /\ delivery = [d \in Deliveries |-> [status |-> "ASSIGNED", pickup |-> NoPassword,
                                         dropoff |-> NoPassword]]
    /\ payments \in [Deliveries -> PaidWith]

\* Requests that end a delivery, and the others.
Ends(d) == CompleteDelivery(d) \/ FailDelivery(d)

GoesOn(d) ==
    \/ SetPickupOtp(d) \/ PickupDelivery(d) \/ PickupDeliveryWrong(d)
    \/ StartDelivery(d) \/ ArrivingAtDelivery(d) \/ CompleteDeliveryWrong(d)
    \/ Pass(d) \/ Webhook(d)

HandoverNext == \E d \in Deliveries : Ends(d) \/ GoesOn(d)

HandoverSpec == HandoverInit /\ [][HandoverNext]_handoverVars

-----------------------------------------------------------------------------
HandoverTypeOK ==
    /\ delivery \in [Deliveries -> Delivery]
    /\ payments \in [Deliveries -> [Rows -> Payment]]

\* The counts, the lock and the flag agree.
Counts(password) ==
    /\ password.support => password.attempts = MaxOtpAttempts + 1
    /\ password.lock # "none" <=> password.attempts >= MaxOtpAttempts
    /\ ~password.support => password.attempts <= MaxOtpAttempts

\* However the tries are spread over locks and their ends, one password is compared
\* with no more than MaxOtpAttempts + 1 wrong ones
\* (rider-deliveries.service.ts:115, :331).
WrongTriesAreBounded ==
    \A d \in Deliveries :
        /\ delivery[d].pickup.attempts <= MaxOtpAttempts + 1
        /\ delivery[d].dropoff.attempts <= MaxOtpAttempts + 1

\* Cash is captured together with the delivery and never before; only an order that
\* has an online session besides may be delivered with its cash still open
\* (rider-deliveries.service.ts:300).
CashIsCaptured ==
    \A d \in Deliveries, r \in Rows :
        payments[d][r].method = "COD" =>
            /\ payments[d][r].status \in {"PENDING", "CAPTURED"}
            /\ payments[d][r].status = "CAPTURED" => delivery[d].status = "DELIVERED"
            /\ delivery[d].status = "DELIVERED" =>
                  \/ payments[d][r].status = "CAPTURED"
                  \/ \E q \in Rows : payments[d][q].method = "ONLINE"

\* There is one row in cash at most, and the second row is the one that may be missing.
OneCashRow ==
    \A d \in Deliveries :
        /\ payments[d][1] # NoPayment
        /\ payments[d][2].method # "COD"
        /\ \A r \in Rows : payments[d][r].method = "none" => payments[d][r] = NoPayment

HandoverInv ==
    /\ HandoverTypeOK
    /\ \A d \in Deliveries : Counts(delivery[d].pickup) /\ Counts(delivery[d].dropoff)
    /\ OneCashRow
    /\ CashIsCaptured

=============================================================================
