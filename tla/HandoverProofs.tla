---------------------------- MODULE HandoverProofs ----------------------------
(***************************************************************************)
(* Proofs of the safety properties of Handover, as LiveTracking goes       *)
(* through it, for any number of deliveries, sockets and handlers.         *)
(***************************************************************************)
EXTENDS LiveTracking, FiniteSetTheorems, TLAPS

\* The tries of a password in the invariant are bounded.
LEMMA CountsBound ==
    ASSUME NEW password \in Password, Counts(password)
    PROVE  password.attempts <= MaxOtpAttempts + 1
  BY HandoverAssumption DEF Password, Counts

\* A record of these four fields.
LEMMA AfterWrongFields ==
    ASSUME NEW password \in Password,
           AfterWrong(password).attempts \in Nat,
           AfterWrong(password).lock \in {"none", "locked", "over"},
           AfterWrong(password).support \in BOOLEAN
    PROVE  AfterWrong(password) \in Password
<1> DEFINE wrong == AfterWrong(password)
<1>1. DOMAIN password = {"otp", "attempts", "lock", "support"}
  BY DEF Password
<1>2. DOMAIN wrong = DOMAIN password /\ wrong.otp = password.otp
  BY DEF AfterWrong, Password
<1>3. wrong = [x \in {"otp", "attempts", "lock", "support"} |-> wrong[x]]
  BY <1>1, <1>2, Zenon DEF AfterWrong
<1> QED
  BY <1>1, <1>2, <1>3 DEF Password

\* A wrong try on a password that is looked at keeps the counts.
LEMMA AfterWrongCounts ==
    ASSUME NEW password \in Password, Counts(password), MayTry(password)
    PROVE  AfterWrong(password) \in Password /\ Counts(AfterWrong(password))
<1> DEFINE wrong == AfterWrong(password)
           enough == password.attempts + 1 >= MaxOtpAttempts
<1>1. /\ password.attempts \in Nat
      /\ password.lock \in {"none", "over"}
      /\ password.support = FALSE
      /\ password.otp = "valid"
  BY DEF Password, MayTry
<1>2. /\ password.attempts <= MaxOtpAttempts
      /\ password.lock = "over" <=> password.attempts = MaxOtpAttempts
      /\ MaxOtpAttempts \in Nat \ {0}
  BY <1>1, HandoverAssumption DEF Counts
<1>3. /\ wrong.otp = "valid"
      /\ wrong.attempts = password.attempts + 1
      /\ wrong.support = (enough /\ password.lock = "over")
      /\ wrong.lock = IF enough /\ password.lock # "over" THEN "locked" ELSE password.lock
  <2>1. wrong.otp = "valid" /\ wrong.attempts = password.attempts + 1
    BY <1>1 DEF Password, AfterWrong
  <2>2. wrong.support = (enough /\ password.lock = "over")
    BY <1>1, Zenon DEF Password, AfterWrong
  <2>3. wrong.lock = IF enough /\ password.lock # "over" THEN "locked" ELSE password.lock
    BY <1>1 DEF Password, AfterWrong
  <2> QED
    BY <2>1, <2>2, <2>3
<1>4. CASE password.lock = "over"
  <2>1. enough
    BY <1>1, <1>2, <1>4
  <2>2. wrong.support = TRUE /\ wrong.lock = "over"
    BY <1>3, <1>4, <2>1
  <2>3. wrong.attempts = MaxOtpAttempts + 1
    BY <1>2, <1>3, <1>4
  <2>4. Counts(wrong)
    BY <1>2, <2>2, <2>3 DEF Counts
  <2>5. wrong.attempts \in Nat
    BY <1>1, <1>3
  <2>6. wrong \in Password
    BY <2>2, <2>5, AfterWrongFields
  <2> QED
    BY <2>4, <2>6
<1>5. CASE password.lock = "none"
  <2>1. wrong.support = FALSE /\ wrong.lock = IF enough THEN "locked" ELSE "none"
    BY <1>3, <1>5
  <2>2. wrong.attempts <= MaxOtpAttempts
    BY <1>1, <1>2, <1>3, <1>5
  <2>3. Counts(wrong)
    BY <1>1, <1>2, <1>3, <2>1, <2>2 DEF Counts
  <2>4. wrong \in Password
    BY <1>1, <1>3, <2>1, AfterWrongFields DEF Password
  <2> QED
    BY <2>3, <2>4
<1> QED
  BY <1>1, <1>4, <1>5

\* Time does not change the count.
LEMMA PasswordTimesCounts ==
    ASSUME NEW password \in Password, Counts(password), NEW q \in PasswordTimes(password)
    PROVE  q \in Password /\ Counts(q)
  BY DEF Password, Counts, PasswordTimes, LockEnds, OtpExpires

\* A password that is gone, and a new one.
LEMMA NewCounts ==
    /\ NoPassword \in Password /\ Counts(NoPassword)
    /\ FreshPassword \in Password /\ Counts(FreshPassword)
<1>1. ~(0 >= MaxOtpAttempts) /\ 0 <= MaxOtpAttempts
  BY HandoverAssumption
<1>2. NoPassword \in Password /\ FreshPassword \in Password
  BY DEF NoPassword, FreshPassword, Password
<1>3. /\ NoPassword.support = FALSE /\ NoPassword.attempts = 0 /\ NoPassword.lock = "none"
      /\ FreshPassword.support = FALSE /\ FreshPassword.attempts = 0
      /\ FreshPassword.lock = "none"
  BY DEF NoPassword, FreshPassword
<1> QED
  BY <1>1, <1>2, <1>3 DEF Counts

-----------------------------------------------------------------------------
AllCount == \A d \in Deliveries : Counts(delivery[d].pickup) /\ Counts(delivery[d].dropoff)

\* The invariant holds at first.
LEMMA HandoverInitInv == HandoverInit => HandoverInv
<1> SUFFICES ASSUME HandoverInit
             PROVE  HandoverInv
  OBVIOUS
<1>1. \A d \in Deliveries : payments[d] \in PaidWith
  BY DEF HandoverInit
<1>2. PaidWith \subseteq [Rows -> Payment]
  BY DEF PaidWith, Rows, Payment, Cash, Online, NoPayment
<1>3. HandoverTypeOK
  <2>1. delivery \in [Deliveries -> Delivery]
    BY NewCounts DEF HandoverInit, Delivery, Active
  <2>2. payments \in [Deliveries -> [Rows -> Payment]]
    BY <1>2 DEF HandoverInit
  <2> QED
    BY <2>1, <2>2 DEF HandoverTypeOK
<1>4. AllCount
  BY NewCounts DEF HandoverInit, AllCount
<1>5. OneCashRow
  <2> SUFFICES ASSUME NEW d \in Deliveries
               PROVE  /\ payments[d][1] # NoPayment
                      /\ payments[d][2].method # "COD"
                      /\ \A r \in Rows :
                            payments[d][r].method = "none" => payments[d][r] = NoPayment
    BY DEF OneCashRow
  <2>1. payments[d] \in PaidWith
    BY <1>1
  <2>2. payments[d][1] # NoPayment /\ payments[d][2].method # "COD"
    BY <2>1 DEF PaidWith, Cash, Online, NoPayment
  <2>3. ASSUME NEW r \in Rows, payments[d][r].method = "none"
        PROVE  payments[d][r] = NoPayment
    <3>1. r = 1 \/ r = 2
      BY DEF Rows
    <3> QED
      BY <2>1, <2>3, <3>1 DEF PaidWith, Cash, Online, NoPayment
  <2> QED
    BY <2>2, <2>3
<1>6. CashIsCaptured
  <2> SUFFICES ASSUME NEW d \in Deliveries, NEW r \in Rows, payments[d][r].method = "COD"
               PROVE  payments[d][r].status = "PENDING" /\ delivery[d].status = "ASSIGNED"
    BY DEF CashIsCaptured
  <2> QED
    BY <1>1 DEF HandoverInit, PaidWith, Rows, Cash, Online, NoPayment
<1> QED
  BY <1>3, <1>4, <1>5, <1>6 DEF HandoverInv, AllCount

\* A step that changes one delivery and no payment, and does not deliver it.
LEMMA DeliveryOnly ==
    ASSUME HandoverInv, NEW d \in Deliveries, NEW new \in Delivery,
           Counts(new.pickup), Counts(new.dropoff),
           delivery[d].status \in Active, new.status # "DELIVERED",
           delivery' = [delivery EXCEPT ![d] = new], payments' = payments
    PROVE  HandoverInv'
<1> USE DEF HandoverInv
<1>1. HandoverTypeOK'
  BY DEF HandoverTypeOK
<1>2. AllCount'
  BY DEF HandoverTypeOK, AllCount
<1>3. OneCashRow'
  BY DEF OneCashRow
<1>4. CashIsCaptured'
  BY DEF CashIsCaptured, HandoverTypeOK, Active
<1> QED
  BY <1>1, <1>2, <1>3, <1>4 DEF AllCount

\* A step that changes no status and no payment.
LEMMA PassInv ==
    ASSUME HandoverInv, NEW d \in Deliveries, NEW new \in Delivery,
           Counts(new.pickup), Counts(new.dropoff), new.status = delivery[d].status,
           delivery' = [delivery EXCEPT ![d] = new], payments' = payments
    PROVE  HandoverInv'
<1> USE DEF HandoverInv
<1>1. HandoverTypeOK'
  BY DEF HandoverTypeOK
<1>2. AllCount'
  BY DEF HandoverTypeOK, AllCount
<1>3. OneCashRow'
  BY DEF OneCashRow
<1>4. CashIsCaptured'
  BY DEF CashIsCaptured, HandoverTypeOK
<1> QED
  BY <1>1, <1>2, <1>3, <1>4 DEF AllCount

\* A step of the payments alone.
LEMMA OnlineOnly ==
    ASSUME HandoverInv, NEW d \in Deliveries, Webhook(d)
    PROVE  HandoverInv'
<1> USE DEF HandoverInv
<1>0. PICK r \in Rows, status \in {"AUTHORIZED", "CAPTURED", "FAILED"} :
         /\ payments[d][r].method = "ONLINE"
         /\ Settle(d, r, status)
         /\ UNCHANGED delivery
  BY DEF Webhook
<1>1. /\ payments' = [payments EXCEPT ![d] = [payments[d] EXCEPT ![r] =
                          [payments[d][r] EXCEPT !.status = status]]]
      /\ delivery' = delivery
      /\ payments[d][r] \in Payment
      /\ payments[d] \in [Rows -> Payment]
  BY <1>0 DEF Settle, HandoverTypeOK
<1>2. [payments[d][r] EXCEPT !.status = status] \in Payment
  BY <1>1 DEF Payment
<1>3. HandoverTypeOK'
  BY <1>1, <1>2 DEF HandoverTypeOK
<1>4. AllCount'
  BY <1>1 DEF AllCount
<1>5. \A e \in Deliveries, q \in Rows :
         /\ payments'[e][q].method = payments[e][q].method
         /\ payments[e][q].method # "ONLINE" => payments'[e][q] = payments[e][q]
  BY <1>0, <1>1 DEF HandoverTypeOK, Payment
<1>6. OneCashRow'
  <2>1. 1 \in Rows /\ 2 \in Rows
    BY DEF Rows
  <2>2. \A e \in Deliveries : payments'[e][1] # NoPayment
    <3> TAKE e \in Deliveries
    <3>1. payments[e][1] \in Payment /\ payments'[e][1] \in Payment
      BY <1>3, <2>1 DEF HandoverTypeOK
    <3>2. CASE payments[e][1].method = "ONLINE"
      BY <1>5, <2>1, <3>2 DEF NoPayment
    <3>3. CASE payments[e][1].method # "ONLINE"
      BY <1>5, <2>1, <3>3 DEF OneCashRow
    <3> QED
      BY <3>2, <3>3
  <2>3. \A e \in Deliveries : payments'[e][2].method # "COD"
    BY <1>5, <2>1 DEF OneCashRow
  <2>4. \A e \in Deliveries, q \in Rows :
           payments'[e][q].method = "none" => payments'[e][q] = NoPayment
    BY <1>5 DEF OneCashRow
  <2> QED
    BY <2>2, <2>3, <2>4 DEF OneCashRow
<1>7. CashIsCaptured'
  <2> SUFFICES ASSUME NEW e \in Deliveries, NEW q \in Rows, payments'[e][q].method = "COD"
               PROVE  /\ payments'[e][q].status \in {"PENDING", "CAPTURED"}
                      /\ payments'[e][q].status = "CAPTURED" => delivery'[e].status = "DELIVERED"
                      /\ delivery'[e].status = "DELIVERED" =>
                            \/ payments'[e][q].status = "CAPTURED"
                            \/ \E p \in Rows : payments'[e][p].method = "ONLINE"
    BY DEF CashIsCaptured
  <2>1. payments'[e][q] = payments[e][q] /\ payments[e][q].method = "COD"
    BY <1>5
  <2>2. /\ payments[e][q].status \in {"PENDING", "CAPTURED"}
        /\ payments[e][q].status = "CAPTURED" => delivery[e].status = "DELIVERED"
        /\ delivery[e].status = "DELIVERED" =>
              \/ payments[e][q].status = "CAPTURED"
              \/ \E p \in Rows : payments[e][p].method = "ONLINE"
    BY <2>1 DEF CashIsCaptured
  <2>3. (\E p \in Rows : payments[e][p].method = "ONLINE") =>
           \E p \in Rows : payments'[e][p].method = "ONLINE"
    BY <1>5
  <2> QED
    BY <1>1, <2>1, <2>2, <2>3
<1> QED
  BY <1>3, <1>4, <1>6, <1>7 DEF AllCount

\* Cash is captured in the transaction that delivers the order.
LEMMA CompleteDeliveryInv ==
    ASSUME HandoverInv, NEW d \in Deliveries, CompleteDelivery(d)
    PROVE  HandoverInv'
<1> USE DEF HandoverInv
<1>0. PICK r \in Rows :
         /\ Looked(d, r)
         /\ delivery' = [delivery EXCEPT ![d].status = "DELIVERED", ![d].dropoff = NoPassword]
         /\ IF payments[d][r].method = "COD" THEN Settle(d, r, "CAPTURED")
            ELSE UNCHANGED payments
  BY DEF CompleteDelivery
<1> DEFINE new == [delivery[d] EXCEPT !.status = "DELIVERED", !.dropoff = NoPassword]
<1>1. /\ new \in Delivery
      /\ new.status = "DELIVERED"
      /\ new.pickup = delivery[d].pickup
      /\ new.dropoff = NoPassword
      /\ delivery' = [delivery EXCEPT ![d] = new]
  BY <1>0, NewCounts DEF HandoverTypeOK, Delivery
<1>2. AllCount'
  BY <1>1, NewCounts DEF AllCount, HandoverTypeOK
<1>3. CASE payments[d][r].method # "COD"
  <2>1. payments' = payments /\ payments[d][r].method = "ONLINE"
    BY <1>0, <1>3 DEF HandoverTypeOK, Payment, OneCashRow, Looked
  <2>2. HandoverTypeOK'
    BY <1>1, <2>1 DEF HandoverTypeOK
  <2>3. OneCashRow'
    BY <2>1 DEF OneCashRow
  <2>4. CashIsCaptured'
    BY <1>1, <2>1 DEF CashIsCaptured, HandoverTypeOK
  <2> QED
    BY <1>2, <2>2, <2>3, <2>4 DEF AllCount
<1>4. CASE payments[d][r].method = "COD"
  <2> DEFINE paid == [payments[d][r] EXCEPT !.status = "CAPTURED"]
  <2>1. /\ payments' = [payments EXCEPT ![d] = [payments[d] EXCEPT ![r] = paid]]
        /\ payments[d][r] \in Payment
        /\ payments[d] \in [Rows -> Payment]
    BY <1>0, <1>4 DEF Settle, HandoverTypeOK
  <2>2. paid \in Payment /\ paid.method = "COD" /\ paid.status = "CAPTURED"
    BY <1>4, <2>1 DEF Payment
  <2>3. HandoverTypeOK'
    BY <1>1, <2>1, <2>2 DEF HandoverTypeOK
  <2>4. r = 1
    BY <1>4 DEF OneCashRow, Rows
  <2>5. /\ payments'[d][1] = paid
        /\ payments'[d][2] = payments[d][2]
        /\ \A e \in Deliveries \ {d} : payments'[e] = payments[e]
    BY <2>1, <2>4 DEF HandoverTypeOK, Rows
  <2>6. OneCashRow'
    <3> SUFFICES ASSUME NEW e \in Deliveries
                 PROVE  /\ payments'[e][1] # NoPayment
                        /\ payments'[e][2].method # "COD"
                        /\ \A q \in Rows :
                              payments'[e][q].method = "none" => payments'[e][q] = NoPayment
      BY DEF OneCashRow
    <3>1. CASE e = d
      <4>1. payments'[e][1] # NoPayment
        BY <2>2, <2>5, <3>1 DEF NoPayment
      <4>2. 1 \in Rows /\ 2 \in Rows /\ \A q \in Rows : q = 1 \/ q = 2
        BY DEF Rows
      <4>3. payments'[e][2].method # "COD"
        BY <2>5, <3>1 DEF OneCashRow
      <4>4. ASSUME NEW q \in Rows, payments'[e][q].method = "none"
            PROVE  payments'[e][q] = NoPayment
        <5>1. q = 2
          BY <2>2, <2>5, <3>1, <4>2, <4>4
        <5> QED
          BY <2>5, <3>1, <4>2, <4>4, <5>1 DEF OneCashRow
      <4> QED
        BY <4>1, <4>3, <4>4
    <3>2. CASE e # d
      BY <2>5, <3>2 DEF OneCashRow
    <3> QED
      BY <3>1, <3>2
  <2>7. CashIsCaptured'
    <3> SUFFICES ASSUME NEW e \in Deliveries, NEW q \in Rows, payments'[e][q].method = "COD"
                 PROVE  /\ payments'[e][q].status \in {"PENDING", "CAPTURED"}
                        /\ payments'[e][q].status = "CAPTURED" => delivery'[e].status = "DELIVERED"
                        /\ delivery'[e].status = "DELIVERED" =>
                              \/ payments'[e][q].status = "CAPTURED"
                              \/ \E p \in Rows : payments'[e][p].method = "ONLINE"
      BY DEF CashIsCaptured
    <3>1. CASE e = d
      <4>1. q = 1
        BY <2>6, <3>1 DEF OneCashRow, Rows
      <4> QED
        BY <1>1, <2>2, <2>5, <3>1, <4>1 DEF HandoverTypeOK
    <3>2. CASE e # d
      <4>1. delivery'[e] = delivery[e] /\ payments'[e] = payments[e]
        BY <1>1, <2>5, <3>2 DEF HandoverTypeOK
      <4> QED
        BY <4>1 DEF CashIsCaptured
    <3> QED
      BY <3>1, <3>2
  <2> QED
    BY <1>2, <2>3, <2>6, <2>7 DEF AllCount
<1> QED
  BY <1>3, <1>4

\* No request and no passing of time leaves the invariant.
LEMMA HandoverNextInv ==
    ASSUME HandoverInv, NEW d \in Deliveries, Ends(d) \/ GoesOn(d)
    PROVE  HandoverInv'
<1> DEFINE row == delivery[d]
<1>1. /\ row \in Delivery
      /\ row.pickup \in Password /\ Counts(row.pickup)
      /\ row.dropoff \in Password /\ Counts(row.dropoff)
      /\ delivery \in [Deliveries -> Delivery]
  BY DEF HandoverInv, HandoverTypeOK, Delivery
<1>2. CASE SetPickupOtp(d)
  <2> DEFINE new == [row EXCEPT !.pickup = FreshPassword]
  <2>1. /\ new \in Delivery /\ Counts(new.pickup) /\ Counts(new.dropoff)
        /\ row.status \in Active /\ new.status # "DELIVERED"
        /\ delivery' = [delivery EXCEPT ![d] = new] /\ payments' = payments
    BY <1>1, <1>2, NewCounts DEF SetPickupOtp, Delivery, Active
  <2> QED
    BY <2>1, DeliveryOnly
<1>3. CASE PickupDelivery(d)
  <2> DEFINE new == [status |-> "PICKED_UP", pickup |-> NoPassword, dropoff |-> FreshPassword]
  <2>1. /\ new \in Delivery /\ Counts(new.pickup) /\ Counts(new.dropoff)
        /\ row.status \in Active /\ new.status # "DELIVERED"
        /\ delivery' = [delivery EXCEPT ![d] = new] /\ payments' = payments
    BY <1>1, <1>3, NewCounts DEF PickupDelivery, Delivery, Active
  <2> QED
    BY <2>1, DeliveryOnly
<1>4. CASE PickupDeliveryWrong(d)
  <2> DEFINE new == [row EXCEPT !.pickup = AfterWrong(row.pickup)]
  <2>1. AfterWrong(row.pickup) \in Password /\ Counts(AfterWrong(row.pickup))
    BY <1>1, <1>4, AfterWrongCounts DEF PickupDeliveryWrong
  <2>2. /\ new \in Delivery /\ Counts(new.pickup) /\ Counts(new.dropoff)
        /\ row.status \in Active /\ new.status # "DELIVERED"
        /\ delivery' = [delivery EXCEPT ![d] = new] /\ payments' = payments
    BY <1>1, <1>4, <2>1 DEF PickupDeliveryWrong, Delivery, Active
  <2> QED
    BY <2>2, DeliveryOnly
<1>5. CASE StartDelivery(d) \/ ArrivingAtDelivery(d)
  <2>1. PICK status \in {"OUT_FOR_DELIVERY", "ARRIVING"} :
           /\ row.status \in Active
           /\ delivery' = [delivery EXCEPT ![d].status = status]
           /\ payments' = payments
    BY <1>5 DEF StartDelivery, ArrivingAtDelivery, Transition, Active
  <2> DEFINE new == [row EXCEPT !.status = status]
  <2>2. /\ new \in Delivery /\ Counts(new.pickup) /\ Counts(new.dropoff)
        /\ new.status # "DELIVERED"
        /\ delivery' = [delivery EXCEPT ![d] = new]
    BY <1>1, <2>1 DEF Delivery, Active
  <2> QED
    BY <2>1, <2>2, DeliveryOnly
<1>6. CASE CompleteDeliveryWrong(d)
  <2> DEFINE new == [row EXCEPT !.dropoff = AfterWrong(row.dropoff)]
  <2>1. AfterWrong(row.dropoff) \in Password /\ Counts(AfterWrong(row.dropoff))
    BY <1>1, <1>6, AfterWrongCounts DEF CompleteDeliveryWrong, Looked
  <2>2. /\ new \in Delivery /\ Counts(new.pickup) /\ Counts(new.dropoff)
        /\ row.status \in Active /\ new.status # "DELIVERED"
        /\ delivery' = [delivery EXCEPT ![d] = new] /\ payments' = payments
    BY <1>1, <1>6, <2>1 DEF CompleteDeliveryWrong, Looked, Delivery, Active
  <2> QED
    BY <2>2, DeliveryOnly
<1>7. CASE FailDelivery(d)
  <2> DEFINE new == [row EXCEPT !.status = "FAILED"]
  <2>1. /\ new \in Delivery /\ Counts(new.pickup) /\ Counts(new.dropoff)
        /\ row.status \in Active /\ new.status # "DELIVERED"
        /\ delivery' = [delivery EXCEPT ![d] = new] /\ payments' = payments
    BY <1>1, <1>7 DEF FailDelivery, IsActive, Delivery, Active
  <2> QED
    BY <2>1, DeliveryOnly
<1>8. CASE Pass(d)
  <2>1. CASE \E password \in PasswordTimes(row.pickup) :
                delivery' = [delivery EXCEPT ![d].pickup = password]
    <3>1. PICK password \in PasswordTimes(row.pickup) :
             delivery' = [delivery EXCEPT ![d].pickup = password]
      BY <2>1
    <3>2. password \in Password /\ Counts(password)
      BY <1>1, <3>1, PasswordTimesCounts
    <3> DEFINE new == [row EXCEPT !.pickup = password]
    <3>3. /\ new \in Delivery /\ Counts(new.pickup) /\ Counts(new.dropoff)
          /\ new.status = row.status /\ new.dropoff = row.dropoff
          /\ delivery' = [delivery EXCEPT ![d] = new] /\ payments' = payments
      BY <1>1, <1>8, <3>1, <3>2 DEF Delivery, Pass
    <3> QED
      BY <3>3, PassInv
  <2>2. CASE \E password \in PasswordTimes(row.dropoff) :
                delivery' = [delivery EXCEPT ![d].dropoff = password]
    <3>1. PICK password \in PasswordTimes(row.dropoff) :
             delivery' = [delivery EXCEPT ![d].dropoff = password]
      BY <2>2
    <3>2. password \in Password /\ Counts(password)
      BY <1>1, <3>1, PasswordTimesCounts
    <3> DEFINE new == [row EXCEPT !.dropoff = password]
    <3>3. /\ new \in Delivery /\ Counts(new.pickup) /\ Counts(new.dropoff)
          /\ new.status = row.status
          /\ delivery' = [delivery EXCEPT ![d] = new] /\ payments' = payments
      BY <1>1, <1>8, <3>1, <3>2 DEF Delivery, Pass
    <3> QED
      BY <3>3, PassInv
  <2> QED
    BY <1>8, <2>1, <2>2 DEF Pass
<1>9. CASE Webhook(d)
  BY <1>9, OnlineOnly
<1>10. CASE CompleteDelivery(d)
  BY <1>10, CompleteDeliveryInv
<1> QED
  BY <1>2, <1>3, <1>4, <1>5, <1>6, <1>7, <1>8, <1>9, <1>10 DEF Ends, GoesOn

-----------------------------------------------------------------------------
\* A step of LiveTracking is a request of Handover or leaves its rows alone.
LEMMA StepOfHandover ==
    ASSUME [Next]_vars
    PROVE  HandoverNext \/ UNCHANGED handoverVars
  BY DEF Next, vars, handoverVars, HandoverNext, EndDelivery, TerminateDeliveryTracking, Emit,
         CheckDelivery, UpdatePosition, Publish, ClientStep, Subscribe, Disconnect,
         AskToSubscribe, Unsubscribe, Restart

\* The invariant of the rows holds in the composition.
THEOREM RowsInvariance == Spec => []HandoverInv
<1>1. Init => HandoverInv
  BY HandoverInitInv DEF Init
<1>2. HandoverInv /\ [Next]_vars => HandoverInv'
  <2> SUFFICES ASSUME HandoverInv, [Next]_vars
               PROVE  HandoverInv'
    OBVIOUS
  <2>1. CASE HandoverNext
    BY <2>1, HandoverNextInv DEF HandoverNext
  <2>2. CASE UNCHANGED handoverVars
    BY <2>2 DEF handoverVars, HandoverInv, HandoverTypeOK, OneCashRow, CashIsCaptured
  <2> QED
    BY <2>1, <2>2, StepOfHandover
<1> QED
  BY <1>1, <1>2, PTL DEF Spec

\* The types of rooms, handlers and channels.
LEMMA TypeStep ==
    ASSUME HandoverInv, TypeOK, [Next]_vars
    PROVE  TypeOK'
<1> USE DEF TypeOK
<1>1. ASSUME NEW d \in Deliveries, GoesOn(d) /\ UNCHANGED trackingVars
      PROVE  TypeOK'
  BY <1>1 DEF trackingVars
<1>2. ASSUME NEW d \in Deliveries, EndDelivery(d) \/ TerminateDeliveryTracking(d)
      PROVE  TypeOK'
  BY <1>2 DEF EndDelivery, TerminateDeliveryTracking
<1>3. ASSUME NEW d \in Deliveries, Emit(d)
      PROVE  TypeOK'
  BY <1>3, LiveTrackingAssumption DEF Emit
<1>4. ASSUME NEW d \in Deliveries, NEW h \in Handlers, CheckDelivery(h, d)
      PROVE  TypeOK'
  BY <1>4 DEF CheckDelivery, HandlerRecord
<1>5. ASSUME NEW h \in Handlers, UpdatePosition(h)
      PROVE  TypeOK'
  <2>1. PICK d \in Deliveries : handler[h] = [pc |-> "checked", delivery |-> d]
    BY <1>5 DEF UpdatePosition, HandlerRecord, Idle
  <2>2. [handler[h] EXCEPT !.pc = "accepted"] = [pc |-> "accepted", delivery |-> d]
    BY <2>1
  <2> QED
    BY <1>5, <2>2 DEF UpdatePosition, HandlerRecord
<1>6. ASSUME NEW h \in Handlers, Publish(h)
      PROVE  TypeOK'
  <2>1. handler[h].delivery \in Deliveries
    BY <1>6 DEF Publish, HandlerRecord, Idle
  <2> QED
    BY <1>6, <2>1, LiveTrackingAssumption DEF Publish, HandlerRecord
<1>7. ASSUME NEW c \in Clients, ClientStep(c)
      PROVE  TypeOK'
  BY <1>7 DEF ClientStep, Subscribe, Disconnect, AskToSubscribe, Unsubscribe
<1>8. CASE Restart
  BY <1>8, LiveTrackingAssumption DEF Restart, HandlerRecord
<1>9. CASE UNCHANGED vars
  BY <1>9 DEF vars
<1> QED
  BY <1>1, <1>2, <1>3, <1>4, <1>5, <1>6, <1>7, <1>8, <1>9 DEF Next

\* A delivery that has ended stays so.
LEMMA EndedStays ==
    ASSUME HandoverInv, [Next]_vars, NEW d \in Deliveries, ~IsActive(d)
    PROVE  ~IsActive(d)'
<1>1. CASE UNCHANGED handoverVars
  BY <1>1 DEF handoverVars, IsActive
<1>2. CASE HandoverNext
  <2>1. PICK e \in Deliveries : Ends(e) \/ GoesOn(e)
    BY <1>2 DEF HandoverNext
  <2>2. delivery \in [Deliveries -> Delivery]
    BY DEF HandoverInv, HandoverTypeOK
  <2>3. CASE Pass(e) \/ Webhook(e)
    <3>1. \A f \in Deliveries : delivery'[f].status = delivery[f].status
      BY <2>2, <2>3 DEF Pass, Webhook, Delivery
    <3> QED
      BY <3>1 DEF IsActive
  <2>4. CASE ~(Pass(e) \/ Webhook(e))
    <3>1. IsActive(e)
      BY <2>1, <2>4 DEF Ends, GoesOn, SetPickupOtp, PickupDelivery, PickupDeliveryWrong,
         StartDelivery, ArrivingAtDelivery, Transition, CompleteDeliveryWrong,
         CompleteDelivery, FailDelivery, Looked, IsActive, Active
    <3>2. \A f \in Deliveries \ {e} : delivery'[f] = delivery[f]
      BY <2>1, <2>2, <2>4 DEF Ends, GoesOn, SetPickupOtp, PickupDelivery, PickupDeliveryWrong,
         StartDelivery, ArrivingAtDelivery, Transition, CompleteDeliveryWrong,
         CompleteDelivery, FailDelivery
    <3> QED
      BY <3>1, <3>2 DEF IsActive
  <2> QED
    BY <2>3, <2>4
<1> QED
  BY <1>1, <1>2, StepOfHandover

\* Only a delivery that has ended is terminated.
LEMMA TerminatedStep ==
    ASSUME HandoverInv, TypeOK, TerminatedHasEnded, [Next]_vars
    PROVE  TerminatedHasEnded'
<1>1. \A d \in Deliveries : ~IsActive(d) => ~IsActive(d)'
  BY EndedStays
<1>2. ASSUME NEW d \in Deliveries, EndDelivery(d)
      PROVE  TerminatedHasEnded'
  <2>1. ~IsActive(d)'
    <3>1. delivery \in [Deliveries -> Delivery]
      BY DEF HandoverInv, HandoverTypeOK
    <3>2. delivery'[d].status \in {"DELIVERED", "FAILED"}
      BY <1>2, <3>1 DEF EndDelivery, Ends, CompleteDelivery, FailDelivery, Delivery
    <3> QED
      BY <3>2 DEF IsActive, Active
  <2> QED
    BY <1>1, <1>2, <2>1 DEF EndDelivery, TerminatedHasEnded, TypeOK
<1>3. CASE terminating' \subseteq terminating
  BY <1>1, <1>3 DEF TerminatedHasEnded, TypeOK
<1>4. (\E d \in Deliveries : EndDelivery(d)) \/ terminating' \subseteq terminating
  BY DEF Next, vars, trackingVars, TerminateDeliveryTracking, Emit,
         CheckDelivery, UpdatePosition, Publish, ClientStep, Subscribe, Disconnect,
         AskToSubscribe, Unsubscribe, Restart
<1> QED
  BY <1>2, <1>3, <1>4

\* The inductive invariant of deliveries and of those who follow them.
THEOREM Invariance == Spec => []TrackingInv
<1>1. Init => TrackingInv
  BY HandoverInitInv, LiveTrackingAssumption
     DEF Init, TrackingInv, TypeOK, HandlerRecord, TerminatedHasEnded
<1>2. TrackingInv /\ [Next]_vars => TypeOK' /\ TerminatedHasEnded'
  BY TypeStep, TerminatedStep DEF TrackingInv
<1>3. TypeOK' /\ TerminatedHasEnded' /\ HandoverInv' => TrackingInv'
  BY DEF TrackingInv
<1> QED
  BY <1>1, <1>2, <1>3, RowsInvariance, PTL DEF Spec

-----------------------------------------------------------------------------
(* What happens after the end.                                             *)

\* Nobody comes to follow a delivery that has ended.
LEMMA NoFollowerComes ==
    ASSUME TypeOK, [Next]_vars, NEW d \in Deliveries, ~IsActive(d)
    PROVE  Followers(d)' \subseteq Followers(d)
<1> SUFFICES ASSUME NEW c \in Clients, c \in room'[d] \/ asking'[c] = d
             PROVE  c \in room[d] \/ asking[c] = d
  BY DEF Followers
<1> USE DEF TypeOK
<1>1. CASE UNCHANGED <<room, asking>>
  BY <1>1
<1>2. ASSUME NEW b \in Clients, ClientStep(b)
      PROVE  c \in room[d] \/ asking[c] = d
  <2>1. CASE Subscribe(b)
    BY <2>1, LiveTrackingAssumption DEF Subscribe
  <2>2. CASE Disconnect(b)
    BY <2>2, LiveTrackingAssumption DEF Disconnect
  <2>3. ASSUME NEW e \in Deliveries, AskToSubscribe(b, e)
        PROVE  c \in room[d] \/ asking[c] = d
    BY <2>3 DEF AskToSubscribe
  <2>4. ASSUME NEW e \in Deliveries, Unsubscribe(b, e)
        PROVE  c \in room[d] \/ asking[c] = d
    BY <2>4 DEF Unsubscribe
  <2> QED
    BY <1>2, <2>1, <2>2, <2>3, <2>4 DEF ClientStep
<1>3. ASSUME NEW e \in Deliveries, TerminateDeliveryTracking(e)
      PROVE  c \in room[d] \/ asking[c] = d
  BY <1>3 DEF TerminateDeliveryTracking
<1>4. CASE Restart
  BY <1>4, LiveTrackingAssumption DEF Restart
<1> QED
  BY <1>1, <1>2, <1>3, <1>4 DEF Next, vars, trackingVars, EndDelivery, Emit, CheckDelivery,
     UpdatePosition, Publish

\* No position of a delivery that has ended sets out; one that is published is no
\* more in its handler.
LEMMA NoPositionComes ==
    ASSUME TypeOK, [Next]_vars, NEW d \in Deliveries, ~IsActive(d)
    PROVE  UnderWay(d)' <= UnderWay(d)
<1> USE DEF TypeOK
<1>1. /\ IsFiniteSet(OnTheirWay(d)) /\ Cardinality(OnTheirWay(d)) \in Nat
      /\ channel[d] \in Nat
  BY LiveTrackingAssumption, FS_Subset, FS_CardinalityType DEF OnTheirWay
<1>2. ASSUME OnTheirWay(d)' \subseteq OnTheirWay(d), channel'[d] \in Nat,
             channel'[d] <= channel[d]
      PROVE  UnderWay(d)' <= UnderWay(d)
  <2>1. /\ IsFiniteSet(OnTheirWay(d)')
        /\ Cardinality(OnTheirWay(d)') <= Cardinality(OnTheirWay(d))
    BY <1>1, <1>2, FS_Subset
  <2>2. Cardinality(OnTheirWay(d)') \in Nat
    BY <2>1, FS_CardinalityType
  <2>3. UnderWay(d)' = Cardinality(OnTheirWay(d)') + channel'[d]
    BY DEF UnderWay
  <2> QED
    BY <1>1, <1>2, <2>1, <2>2, <2>3 DEF UnderWay
<1>3. CASE UNCHANGED <<handler, channel>>
  <2>1. OnTheirWay(d)' = OnTheirWay(d)
    BY <1>3 DEF OnTheirWay
  <2> QED
    BY <1>1, <1>2, <1>3, <2>1
<1>4. ASSUME NEW e \in Deliveries, Emit(e)
      PROVE  UnderWay(d)' <= UnderWay(d)
  <2>1. OnTheirWay(d)' = OnTheirWay(d)
    BY <1>4 DEF Emit, OnTheirWay
  <2>2. channel'[d] \in Nat /\ channel'[d] <= channel[d]
    BY <1>4, LiveTrackingAssumption DEF Emit
  <2> QED
    BY <1>2, <2>1, <2>2
<1>5. ASSUME NEW e \in Deliveries, NEW h \in Handlers, CheckDelivery(h, e)
      PROVE  UnderWay(d)' <= UnderWay(d)
  <2>1. e # d
    BY <1>5 DEF CheckDelivery
  <2>2. OnTheirWay(d)' \subseteq OnTheirWay(d)
    BY <1>5, <2>1 DEF CheckDelivery, OnTheirWay
  <2> QED
    BY <1>1, <1>2, <1>5, <2>2 DEF CheckDelivery
<1>6. ASSUME NEW h \in Handlers, UpdatePosition(h)
      PROVE  UnderWay(d)' <= UnderWay(d)
  <2>1. PICK e \in Deliveries : handler[h] = [pc |-> "checked", delivery |-> e]
    BY <1>6 DEF UpdatePosition, HandlerRecord, Idle
  <2>2. [handler[h] EXCEPT !.pc = "accepted"] = [pc |-> "accepted", delivery |-> e]
    BY <2>1
  <2>3. OnTheirWay(d)' \subseteq OnTheirWay(d)
    BY <1>6, <2>1, <2>2 DEF UpdatePosition, OnTheirWay, Idle
  <2> QED
    BY <1>1, <1>2, <1>6, <2>3 DEF UpdatePosition
<1>7. ASSUME NEW h \in Handlers, Publish(h)
      PROVE  UnderWay(d)' <= UnderWay(d)
  <2>1. handler' = [handler EXCEPT ![h] = Idle] /\ handler[h] # Idle
    BY <1>7 DEF Publish, Idle
  <2>2. handler[h].delivery \in Deliveries
    BY <1>7 DEF Publish, HandlerRecord, Idle
  <2>3. CASE handler[h].delivery = d
    <3>1. h \in OnTheirWay(d)
      BY <2>1, <2>3 DEF OnTheirWay
    <3>2. OnTheirWay(d)' = OnTheirWay(d) \ {h}
      BY <2>1 DEF OnTheirWay
    <3>3. Cardinality(OnTheirWay(d)') = Cardinality(OnTheirWay(d)) - 1
      BY <1>1, <3>1, <3>2, FS_RemoveElement
    <3>4. channel'[d] = channel[d] + 1
      BY <1>7, <2>3 DEF Publish
    <3>5. UnderWay(d)' = Cardinality(OnTheirWay(d)') + channel'[d]
      BY DEF UnderWay
    <3> QED
      BY <1>1, <3>3, <3>4, <3>5 DEF UnderWay
  <2>4. CASE handler[h].delivery # d
    <3>1. OnTheirWay(d)' \subseteq OnTheirWay(d)
      BY <2>1 DEF OnTheirWay
    <3>2. channel'[d] = channel[d]
      BY <1>7, <2>2, <2>4 DEF Publish
    <3> QED
      BY <1>1, <1>2, <3>1, <3>2
  <2> QED
    BY <2>3, <2>4
<1>8. CASE Restart
  <2>1. channel'[d] = 0 /\ OnTheirWay(d)' = {}
    BY <1>8 DEF Restart, OnTheirWay
  <2> QED
    BY <1>1, <1>2, <2>1
<1> QED
  BY <1>3, <1>4, <1>5, <1>6, <1>7, <1>8 DEF Next, vars, trackingVars, EndDelivery,
     TerminateDeliveryTracking, ClientStep, Subscribe, Disconnect, AskToSubscribe, Unsubscribe

\* After its end a delivery winds down (tracking.gateway.ts:139, :183).
THEOREM WindsDown == Spec => EndedWindsDown
<1>1. TrackingInv /\ [Next]_vars =>
        [\A d \in Deliveries : ~IsActive(d) =>
            /\ ~IsActive(d)'
            /\ Followers(d)' \subseteq Followers(d)
            /\ UnderWay(d)' <= UnderWay(d)]_vars
  BY EndedStays, NoFollowerComes, NoPositionComes DEF TrackingInv
<1> QED
  BY <1>1, Invariance, PTL DEF Spec, EndedWindsDown

-----------------------------------------------------------------------------
\* However the tries are spread, they are bounded (rider-deliveries.service.ts:115).
THEOREM WrongTriesAreBoundedAlways == Spec => []WrongTriesAreBounded
<1>1. HandoverInv => WrongTriesAreBounded
  <2> SUFFICES ASSUME HandoverInv, NEW d \in Deliveries
               PROVE  /\ delivery[d].pickup.attempts <= MaxOtpAttempts + 1
                      /\ delivery[d].dropoff.attempts <= MaxOtpAttempts + 1
    BY DEF WrongTriesAreBounded
  <2>1. /\ delivery[d].pickup \in Password /\ Counts(delivery[d].pickup)
        /\ delivery[d].dropoff \in Password /\ Counts(delivery[d].dropoff)
    BY DEF HandoverInv, HandoverTypeOK, Delivery
  <2> QED
    BY <2>1, CountsBound
<1> QED
  BY <1>1, RowsInvariance, PTL

\* Cash is captured with the delivery (rider-deliveries.service.ts:300).
THEOREM CashIsCapturedAlways == Spec => []CashIsCaptured
<1>1. HandoverInv => CashIsCaptured
  BY DEF HandoverInv
<1> QED
  BY <1>1, RowsInvariance, PTL

=============================================================================
