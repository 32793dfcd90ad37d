------------------------------ MODULE Payments ------------------------------
(***************************************************************************)
(* From checkout to the shop counter: the rows of the tables orders and    *)
(* payments, and every handler that writes to them until an order is ready *)
(* for pickup.                                                             *)
(*                                                                         *)
(*   initiatePayment   payments.service.ts     (customer)                  *)
(*   processWebhook    webhooks.service.ts     (payment provider)          *)
(*   reconcilePayment  reconciliation.service.ts (cron)                    *)
(*   cancelOrder       orders.service.ts       (customer)                  *)
(*   accept/reject/prepare/readyOrder  shopkeeper-orders.service.ts        *)
(*   initiateRefund    payments.service.ts     (outbox worker)             *)
(*                                                                         *)
(* Handlers run concurrently and none of them reads and writes in one      *)
(* piece.  A handler in progress occupies a slot of Calls, which holds     *)
(* what it has read; a statement that reads outside a transaction, and a   *)
(* transaction with its row locks, is one step.  Rows written by a         *)
(* transaction change together or not at all.                              *)
(***************************************************************************)
EXTENDS OrderStateMachine, Naturals, FiniteSets

CONSTANTS
    Orders,     \* orders, created by createOrder
    Payments,   \* primary keys of the table payments
    Keys,       \* Idempotency-Key headers that clients send
    Events,     \* event ids of the provider's webhooks
    Calls,      \* slots for handlers in progress
    RefundKey,  \* the key `refund:<orderId>` of initiateRefund
    NoRow,      \* the primary key is not in use
    NoEvent     \* the event id is not in use

ASSUME RefundKeyAssumption == RefundKey \notin Keys

VARIABLES
    order,      \* table orders: status and version
    payment,    \* table payments
    provider,   \* the provider's order behind a payment row (external)
    refunds,    \* refunds the provider has accepted, per order (external)
    webhook,    \* webhooks the provider has emitted; any number of deliveries
    eventRow,   \* table webhook_events: status per event id
    outbox,     \* the order's refund.initiated event in outbox_events
    call        \* handlers in progress

vars ==
    <<order, payment, provider, refunds, webhook, eventRow, outbox, call>>

-----------------------------------------------------------------------------
(* Types *)

PaymentStatus ==
    {"CREATED", "PENDING", "AUTHORIZED", "CAPTURED", "FAILED", "CANCELLED",
     "REFUND_PENDING", "REFUNDED", "PARTIALLY_REFUNDED"}

\* The statuses under the partial index IDX_unique_successful_payment.
Successful ==
    {"AUTHORIZED", "CAPTURED", "REFUND_PENDING", "REFUNDED",
     "PARTIALLY_REFUNDED"}

Method == {"ONLINE", "COD"}

PaymentRow ==
    [order : Orders, key : Keys \cup {RefundKey}, method : Method,
     session : BOOLEAN, status : PaymentStatus]

\* What webhook[e] holds of an emitted event: the session it is about and what
\* mapRazorpayEventToStatus makes of it.  "PENDING" stands for every event the
\* mapping has no case for (refund.created, payment.dispute.created, ...).
EventStatus == {"AUTHORIZED", "CAPTURED", "FAILED", "REFUNDED", "PENDING"}
ProviderEvent == [payment : Payments, status : EventStatus]

ASSUME NoRowAssumption == NoRow \notin PaymentRow /\ NoEvent \notin ProviderEvent

\* Razorpay's order: how far the customer got with it.  "paid" and "refunded"
\* are both reported as `paid` by orders.fetch.
ProviderState ==
    {"none", "created", "attempted", "authorized", "paid", "refunded"}

Idle == [op |-> "idle"]

InitiateCall ==
    [op : {"initiate"}, pc : {"checkPaid", "checkKey", "commit"},
     order : Orders, key : Keys, method : Method, seen : OrderStatus]
UpdateCall ==
    [op : {"update"}, order : Orders, to : OrderStatus,
     seen : OrderStatus, version : Nat]
WebhookCall == [op : {"webhook"}, pc : {"apply", "fail"}, event : Events]
ReconcileCall ==
    [op : {"reconcile"}, payment : Payments, status : {"CAPTURED"}]
RefundCall ==
    [op : {"refund"}, pc : {"existing", "captured", "done"}, order : Orders]
RefundInsertCall == [op : {"refundInsert"}, order : Orders, paid : Payments]
RefundRowCall ==
    [op : {"refundRow"}, pc : {"provider", "save", "fail"},
     order : Orders, paid : Payments, row : Payments,
     result : {"CREATED", "REFUNDED", "REFUND_PENDING"}]

\* What a slot of Calls may hold.
CallState ==
    {Idle} \cup InitiateCall \cup UpdateCall \cup WebhookCall
        \cup ReconcileCall \cup RefundCall \cup RefundInsertCall
        \cup RefundRowCall

TypeOK ==
    /\ order \in [Orders -> [status : OrderStatus, version : Nat]]
    /\ payment \in [Payments -> PaymentRow \cup {NoRow}]
    /\ provider \in [Payments -> ProviderState]
    /\ refunds \in [Orders -> Nat]
    /\ webhook \in [Events -> ProviderEvent \cup {NoEvent}]
    /\ eventRow \in [Events -> {"absent", "VERIFIED", "PROCESSED", "FAILED"}]
    /\ outbox \in [Orders -> {"absent", "PENDING", "PROCESSED"}]
    /\ call \in [Calls -> CallState]

-----------------------------------------------------------------------------
(* Tables *)

Rows(o) == {p \in Payments : payment[p] # NoRow /\ payment[p].order = o}

\* Mutant of WithinIndexes: the index on (orderId, idempotencyKey) is missing.
WithinSuccessIndex(table) ==
    \A p, q \in Payments :
        /\ p # q
        /\ table[p] # NoRow
        /\ table[q] # NoRow
        /\ table[p].order = table[q].order
        => ~ (table[p].status \in Successful /\ table[q].status \in Successful)

\* The unique indexes of the table payments, of a table that a transaction is
\* about to commit.
WithinIndexes(table) ==
    \A p, q \in Payments :
        /\ p # q
        /\ table[p] # NoRow
        /\ table[q] # NoRow
        /\ table[p].order = table[q].order
        => /\ table[p].key # table[q].key
           /\ ~ (table[p].status \in Successful /\ table[q].status \in Successful)

\* TypeORM bumps the @VersionColumn of the row it writes.
SetStatus(o, s) ==
    order' = [order EXCEPT ![o] = [status |-> s, version |-> @.version + 1]]

\* Orders as createOrder leaves them.  (Audit rows, which no handler reads, are
\* left out here and below.)
Init ==
    /\ order = [o \in Orders |-> [status |-> "CREATED", version |-> 1]]
    /\ payment = [p \in Payments |-> NoRow]
    /\ provider = [p \in Payments |-> "none"]
    /\ refunds = [o \in Orders |-> 0]
    /\ webhook = [e \in Events |-> NoEvent]
    /\ eventRow = [e \in Events |-> "absent"]
    /\ outbox = [o \in Orders |-> "absent"]
    /\ call = [c \in Calls |-> Idle]

At(c, op, pc) == call[c].op = op /\ call[c].pc = pc

Become(c, next) == call' = [call EXCEPT ![c] = next]

\* A request that throws, or the death of the process that runs it.  Whatever
\* transaction it had open is rolled back; what it has committed stays.
Abandon(c) ==
    /\ call[c] # Idle
    /\ Become(c, Idle)
    /\ UNCHANGED <<order, payment, provider, refunds, webhook, eventRow,
                   outbox>>

-----------------------------------------------------------------------------
(* initiatePayment *)

\* Step 1: the order, without a lock.
InitiateRead(c, o, k, m) ==
    /\ call[c] = Idle
    /\ Become(c, [op |-> "initiate", pc |-> "checkPaid", order |-> o,
                  key |-> k, method |-> m, seen |-> order[o].status])
    /\ UNCHANGED <<order, payment, provider, refunds, webhook, eventRow,
                   outbox>>

\* Step 2: an order with a successful payment is refused.
InitiateCheckPaid(c) ==
    /\ At(c, "initiate", "checkPaid")
    /\ IF \E p \in Rows(call[c].order) : payment[p].status \in Successful
       THEN Become(c, Idle)
       ELSE Become(c, [call[c] EXCEPT !.pc = "checkKey"])
    /\ UNCHANGED <<order, payment, provider, refunds, webhook, eventRow,
                   outbox>>

\* Steps 3 and 4: a known key is answered from its row (or refused when the
\* method differs); otherwise the status read in step 1 decides.
InitiateCheckKey(c) ==
    LET mine == call[c]
        known == \E p \in Rows(mine.order) : payment[p].key = mine.key
    IN  /\ At(c, "initiate", "checkKey")
        /\ IF known \/ mine.seen \notin {"CREATED", "PAYMENT_PENDING"}
           THEN Become(c, Idle)
           ELSE Become(c, [mine EXCEPT !.pc = "commit"])
        /\ UNCHANGED <<order, payment, provider, refunds, webhook, eventRow,
                       outbox>>

\* Step 5, ONLINE: with the order locked, a provider session and a PENDING row;
\* only a CREATED order moves, every other status is left as it is.
CommitOnline(c, p) ==
    LET mine == call[c]
        o == mine.order
        row == [order |-> o, key |-> mine.key, method |-> "ONLINE",
                session |-> TRUE, status |-> "PENDING"]
        table == [payment EXCEPT ![p] = row]
    IN  /\ At(c, "initiate", "commit")
        /\ mine.method = "ONLINE"
        /\ payment[p] = NoRow
        /\ WithinIndexes(table)
        /\ payment' = table
        /\ provider' = [provider EXCEPT ![p] = "created"]
        /\ IF order[o].status = "CREATED"
           THEN SetStatus(o, "PAYMENT_PENDING")
           ELSE UNCHANGED order
        /\ Become(c, Idle)
        /\ UNCHANGED <<refunds, webhook, eventRow, outbox>>

\* Mutant of CommitCod: the status that step 1 has read is validated.
CommitCodSeen(c, p) ==
    LET mine == call[c]
        o == mine.order
        row == [order |-> o, key |-> mine.key, method |-> "COD",
                session |-> FALSE, status |-> "PENDING"]
        table == [payment EXCEPT ![p] = row]
    IN  /\ At(c, "initiate", "commit")
        /\ mine.method = "COD"
        /\ ValidTransition(mine.seen, "PAYMENT_PENDING")
        /\ ValidTransition("PAYMENT_PENDING", "PLACED")
        /\ payment[p] = NoRow
        /\ WithinIndexes(table)
        /\ payment' = table
        /\ SetStatus(o, "PLACED")
        /\ Become(c, Idle)
        /\ UNCHANGED <<provider, refunds, webhook, eventRow, outbox>>

\* Step 5, COD: both transitions validated against the locked status, then the
\* order is PLACED; the row has no provider session.
CommitCod(c, p) ==
    LET mine == call[c]
        o == mine.order
        row == [order |-> o, key |-> mine.key, method |-> "COD",
                session |-> FALSE, status |-> "PENDING"]
        table == [payment EXCEPT ![p] = row]
    IN  /\ At(c, "initiate", "commit")
        /\ mine.method = "COD"
        /\ ValidTransition(order[o].status, "PAYMENT_PENDING")
        /\ ValidTransition("PAYMENT_PENDING", "PLACED")
        /\ payment[p] = NoRow
        /\ WithinIndexes(table)
        /\ payment' = table
        /\ SetStatus(o, "PLACED")
        /\ Become(c, Idle)
        /\ UNCHANGED <<provider, refunds, webhook, eventRow, outbox>>

-----------------------------------------------------------------------------
(* The payment provider (external) *)

\* The customer pays, or fails to, through a session of the provider; the money
\* may be authorized first and captured later.  A failed attempt does not close
\* the session.
ProviderMoves(p, from, to) ==
    /\ provider[p] \in from
    /\ provider' = [provider EXCEPT ![p] = to]
    /\ UNCHANGED <<order, payment, refunds, webhook, eventRow, outbox, call>>

CustomerFails(p) == ProviderMoves(p, {"created"}, "attempted")
CustomerAuthorizes(p) == ProviderMoves(p, {"created", "attempted"}, "authorized")
CustomerPays(p) ==
    ProviderMoves(p, {"created", "attempted", "authorized"}, "paid")

\* The statuses a session in the given state has had a webhook for.
Emittable(state) ==
    CASE state = "attempted" -> {"FAILED"}
      [] state = "authorized" -> {"AUTHORIZED"}
      [] state = "paid" -> {"AUTHORIZED", "CAPTURED"}
      [] state = "refunded" -> {"CAPTURED", "REFUNDED", "PENDING"}
      [] OTHER -> {}

\* A webhook is emitted; it stays in the set and may be delivered late, never,
\* or several times.
Emit(e, p, s) ==
    /\ webhook[e] = NoEvent
    /\ s \in Emittable(provider[p])
    /\ webhook' = [webhook EXCEPT ![e] = [payment |-> p, status |-> s]]
    /\ UNCHANGED <<order, payment, provider, refunds, eventRow, outbox, call>>

-----------------------------------------------------------------------------
(* processWebhook *)

\* Signature verified, event parsed, duplicates of a PROCESSED event dropped, a
\* new event inserted as VERIFIED.  Of two deliveries that insert at the same
\* time one fails on the unique index, which is a lost delivery.
WebhookReceive(c, e) ==
    /\ call[c] = Idle
    /\ webhook[e] # NoEvent
    /\ eventRow[e] # "PROCESSED"
    /\ eventRow' = [eventRow EXCEPT ![e] = IF @ = "absent" THEN "VERIFIED" ELSE @]
    /\ Become(c, [op |-> "webhook", pc |-> "apply", event |-> e])
    /\ UNCHANGED <<order, payment, provider, refunds, webhook, outbox>>

\* The stale-event guard: does an event with status s leave a row alone?
Stale(status, s) ==
    /\ status \in {"CAPTURED", "REFUNDED", "REFUND_PENDING"}
    /\ s \in {"FAILED", "PENDING"}

\* Mutants of Settle: authorized money is taken for captured money; only a
\* capture settles an order.
SettleAuthorized(o, s) ==
    IF order[o].status = "PAYMENT_PENDING" /\ s # "PENDING"
    THEN SetStatus(o, IF s = "FAILED" THEN "PAYMENT_FAILED" ELSE "PLACED")
    ELSE UNCHANGED order
SettleCaptured(o, s) ==
    IF order[o].status = "PAYMENT_PENDING" /\ s = "CAPTURED"
    THEN SetStatus(o, "PLACED")
    ELSE UNCHANGED order

\* What a payment that becomes s does to its order: PAYMENT_PENDING is settled,
\* every other status is left alone.
Settle(o, s) ==
    IF order[o].status = "PAYMENT_PENDING" /\ s \in {"CAPTURED", "FAILED"}
    THEN SetStatus(o, IF s = "CAPTURED" THEN "PLACED" ELSE "PAYMENT_FAILED")
    ELSE UNCHANGED order

Applied(e) ==
    LET p == webhook[e].payment
        s == webhook[e].status
    IN  [payment EXCEPT ![p].status = IF Stale(@, s) THEN @ ELSE s]

\* The transaction: payment and order locked, both rows and the event written.
WebhookApply(c) ==
    LET e == call[c].event
    IN  /\ At(c, "webhook", "apply")
        /\ WithinIndexes(Applied(e))
        /\ payment' = Applied(e)
        /\ Settle(payment[webhook[e].payment].order, webhook[e].status)
        /\ eventRow' = [eventRow EXCEPT ![e] = "PROCESSED"]
        /\ Become(c, Idle)
        /\ UNCHANGED <<provider, refunds, webhook, outbox>>

\* A second successful payment of the order violates the index: rollback.
WebhookReject(c) ==
    /\ At(c, "webhook", "apply")
    /\ ~ WithinIndexes(Applied(call[c].event))
    /\ Become(c, [call[c] EXCEPT !.pc = "fail"])
    /\ UNCHANGED <<order, payment, provider, refunds, webhook, eventRow,
                   outbox>>

\* The catch block marks the event FAILED, whatever it has become meanwhile.
WebhookFail(c) ==
    /\ At(c, "webhook", "fail")
    /\ eventRow' = [eventRow EXCEPT ![call[c].event] = "FAILED"]
    /\ Become(c, Idle)
    /\ UNCHANGED <<order, payment, provider, refunds, webhook, outbox>>

-----------------------------------------------------------------------------
(* reconcilePayment *)

\* The cron finds a PENDING row that is old enough and has a session, and asks
\* the provider, outside any transaction.  Every answer but `paid` maps to
\* CREATED or PENDING, on which it stops.
ReconcileFetch(c, p) ==
    /\ call[c] = Idle
    /\ payment[p] # NoRow
    /\ payment[p].status = "PENDING"
    /\ payment[p].session
    /\ provider[p] \in {"paid", "refunded"}
    /\ Become(c, [op |-> "reconcile", payment |-> p, status |-> "CAPTURED"])
    /\ UNCHANGED <<order, payment, provider, refunds, webhook, eventRow,
                   outbox>>

\* Mutant of StillPending: the status of a row that was never sent to the
\* provider.
StillCreated(p) == payment[p].status = "CREATED"

\* Only a row that is still PENDING is written.
StillPending(p) == payment[p].status = "PENDING"

\* The transaction: it stops unless the row is still PENDING; an index
\* violation is logged and swallowed, which leaves everything as it was.
ReconcileCommit(c) ==
    LET p == call[c].payment
        s == call[c].status
        table == [payment EXCEPT ![p].status = s]
    IN  /\ call[c].op = "reconcile"
        /\ IF StillPending(p) /\ WithinIndexes(table)
           THEN payment' = table /\ Settle(payment[p].order, s)
           ELSE UNCHANGED <<payment, order>>
        /\ Become(c, Idle)
        /\ UNCHANGED <<provider, refunds, webhook, eventRow, outbox>>

-----------------------------------------------------------------------------
(* cancelOrder, acceptOrder, rejectOrder, prepareOrder, readyOrder *)

\* The transitions that the shop's four endpoints ask for.
ShopTransitions ==
    {<<"PLACED", "SHOP_ACCEPTED">>, <<"PLACED", "REJECTED">>,
     <<"SHOP_ACCEPTED", "PREPARING">>, <<"PREPARING", "READY_FOR_PICKUP">>}

\* The order is read without a lock and its status checked.
UpdateRead(c, o, to) ==
    /\ call[c] = Idle
    /\ Become(c, [op |-> "update", order |-> o, to |-> to,
                  seen |-> order[o].status, version |-> order[o].version])
    /\ UNCHANGED <<order, payment, provider, refunds, webhook, eventRow,
                   outbox>>

CancelRead(c, o) ==
    /\ order[o].status \in CustomerCancellable
    /\ ValidTransition(order[o].status, "CANCELLED")
    /\ UpdateRead(c, o, "CANCELLED")

ShopRead(c, o, to) ==
    /\ <<order[o].status, to>> \in ShopTransitions
    /\ UpdateRead(c, o, to)

\* Mutants of Matches: the update does not compare the version; nor the status.
MatchesStatus(o, mine) ==
    mine.to # "CANCELLED" => order[o].status = mine.seen
MatchesId(o, mine) == TRUE

\* UPDATE ... WHERE id AND version (and status, for the shop's endpoints).
Matches(o, mine) ==
    /\ order[o].version = mine.version
    /\ mine.to # "CANCELLED" => order[o].status = mine.seen

\* Mutant of UpdateCommit: the refund event is not part of the transaction.
UpdateCommitApart(c) ==
    LET mine == call[c]
        o == mine.order
    IN  /\ mine.op = "update"
        /\ Become(c, Idle)
        /\ IF Matches(o, mine) THEN SetStatus(o, mine.to) ELSE UNCHANGED order
        /\ outbox' = IF mine.to = "CANCELLED"
                     THEN [outbox EXCEPT ![o] = "PENDING"]
                     ELSE outbox
        /\ UNCHANGED <<payment, provider, refunds, webhook, eventRow>>

\* The transaction of either: the versioned update, and for a cancellation the
\* refund.initiated event.  No matching row is a conflict.
UpdateCommit(c) ==
    LET mine == call[c]
        o == mine.order
    IN  /\ mine.op = "update"
        /\ Become(c, Idle)
        /\ IF Matches(o, mine)
           THEN /\ SetStatus(o, mine.to)
                /\ outbox' = IF mine.to = "CANCELLED"
                             THEN [outbox EXCEPT ![o] = "PENDING"]
                             ELSE outbox
           ELSE UNCHANGED <<order, outbox>>
        /\ UNCHANGED <<payment, provider, refunds, webhook, eventRow>>

-----------------------------------------------------------------------------
(* initiateRefund, called by the outbox worker *)

\* The worker takes a refund.initiated event that is not PROCESSED; retries and
\* stalled jobs may have it at work in more than one slot.
RefundStart(c, o) ==
    /\ call[c] = Idle
    /\ outbox[o] = "PENDING"
    /\ Become(c, [op |-> "refund", pc |-> "existing", order |-> o])
    /\ UNCHANGED <<order, payment, provider, refunds, webhook, eventRow,
                   outbox>>

\* The rows that count as an existing refund.
RefundRows(o) ==
    {p \in Rows(o) : \/ payment[p].status \in {"REFUNDED", "REFUND_PENDING"}
                     \/ payment[p].key = RefundKey}

\* One of them, in no particular order, decides: a FAILED one is to be retried;
\* REFUNDED and REFUND_PENDING are answered, and the 409 that any other status
\* gets is swallowed by handleRefund.
RefundExisting(c) ==
    LET o == call[c].order
    IN  /\ At(c, "refund", "existing")
        /\ \/ /\ RefundRows(o) = {}
              /\ Become(c, [call[c] EXCEPT !.pc = "captured"])
           \/ \E p \in RefundRows(o) :
                 Become(c, [call[c] EXCEPT
                     !.pc = IF payment[p].status = "FAILED"
                            THEN "captured" ELSE "done"])
        /\ UNCHANGED <<order, payment, provider, refunds, webhook, eventRow,
                       outbox>>

\* Without a CAPTURED payment there is nothing to refund.
RefundCaptured(c) ==
    LET o == call[c].order
        captured == {p \in Rows(o) : payment[p].status = "CAPTURED"}
    IN  /\ At(c, "refund", "captured")
        /\ \/ /\ captured = {}
              /\ Become(c, [call[c] EXCEPT !.pc = "done"])
           \/ \E p \in captured :
                 Become(c, [op |-> "refundInsert", order |-> o, paid |-> p])
        /\ UNCHANGED <<order, payment, provider, refunds, webhook, eventRow,
                       outbox>>

\* The refund is a payment row of its own, inserted as CREATED.  The insert
\* fails when the key is taken, and the job with it (Abandon).
RefundInsert(c, p) ==
    LET mine == call[c]
        row == [order |-> mine.order, key |-> RefundKey,
                method |-> payment[mine.paid].method,
                session |-> FALSE, status |-> "CREATED"]
        table == [payment EXCEPT ![p] = row]
    IN  /\ mine.op = "refundInsert"
        /\ payment[p] = NoRow
        /\ WithinIndexes(table)
        /\ payment' = table
        /\ Become(c, [op |-> "refundRow", pc |-> "provider",
                      order |-> mine.order, paid |-> mine.paid,
                      row |-> p, result |-> "CREATED"])
        /\ UNCHANGED <<order, provider, refunds, webhook, eventRow, outbox>>

\* The provider accepts the refund of the captured payment; it is not relied on
\* to notice that it has refunded that payment before ...
RefundAccepted(c, result) ==
    LET mine == call[c]
    IN  /\ At(c, "refundRow", "provider")
        /\ provider[mine.paid] \in {"paid", "refunded"}
        /\ provider' = [provider EXCEPT ![mine.paid] = "refunded"]
        /\ refunds' = [refunds EXCEPT ![mine.order] = @ + 1]
        /\ Become(c, [mine EXCEPT !.pc = "save", !.result = result])
        /\ UNCHANGED <<order, payment, webhook, eventRow, outbox>>

\* ... or refuses it, or cannot be reached.
RefundRefused(c) ==
    /\ At(c, "refundRow", "provider")
    /\ Become(c, [call[c] EXCEPT !.pc = "fail"])
    /\ UNCHANGED <<order, payment, provider, refunds, webhook, eventRow,
                   outbox>>

\* The refund row takes the provider's answer, unless the index has another
\* successful payment of the order, such as the one being refunded.
RefundSave(c) ==
    LET mine == call[c]
        table == [payment EXCEPT ![mine.row].status = mine.result]
    IN  /\ At(c, "refundRow", "save")
        /\ IF WithinIndexes(table)
           THEN /\ payment' = table
                /\ Become(c, [op |-> "refund", pc |-> "done",
                              order |-> mine.order])
           ELSE /\ Become(c, [mine EXCEPT !.pc = "fail"])
                /\ UNCHANGED payment
        /\ UNCHANGED <<order, provider, refunds, webhook, eventRow, outbox>>

\* The catch block: the row is FAILED and the job throws.
RefundFail(c) ==
    /\ At(c, "refundRow", "fail")
    /\ payment' = [payment EXCEPT ![call[c].row].status = "FAILED"]
    /\ Become(c, Idle)
    /\ UNCHANGED <<order, provider, refunds, webhook, eventRow, outbox>>

\* The worker marks the event PROCESSED.
RefundDone(c) ==
    /\ At(c, "refund", "done")
    /\ outbox' = [outbox EXCEPT ![call[c].order] = "PROCESSED"]
    /\ Become(c, Idle)
    /\ UNCHANGED <<order, payment, provider, refunds, webhook, eventRow>>

-----------------------------------------------------------------------------

Initiate(c) ==
    \/ \E o \in Orders, k \in Keys, m \in Method : InitiateRead(c, o, k, m)
    \/ InitiateCheckPaid(c)
    \/ InitiateCheckKey(c)
    \/ \E p \in Payments : CommitOnline(c, p) \/ CommitCod(c, p)

Webhook(c) ==
    \/ \E e \in Events : WebhookReceive(c, e)
    \/ WebhookApply(c)
    \/ WebhookReject(c)
    \/ WebhookFail(c)

Reconcile(c) ==
    \/ \E p \in Payments : ReconcileFetch(c, p)
    \/ ReconcileCommit(c)

Update(c) ==
    \/ \E o \in Orders : CancelRead(c, o)
    \/ \E o \in Orders, to \in OrderStatus : ShopRead(c, o, to)
    \/ UpdateCommit(c)

Refund(c) ==
    \/ \E o \in Orders : RefundStart(c, o)
    \/ RefundExisting(c)
    \/ RefundCaptured(c)
    \/ \E p \in Payments : RefundInsert(c, p)
    \/ \E s \in {"REFUNDED", "REFUND_PENDING"} : RefundAccepted(c, s)
    \/ RefundRefused(c)
    \/ RefundSave(c)
    \/ RefundFail(c)
    \/ RefundDone(c)

Provider ==
    \/ \E p \in Payments : CustomerFails(p) \/ CustomerAuthorizes(p)
                           \/ CustomerPays(p)
    \/ \E e \in Events, p \in Payments, s \in EventStatus : Emit(e, p, s)

Next ==
    \/ \E c \in Calls : Initiate(c) \/ Webhook(c) \/ Reconcile(c)
                        \/ Update(c) \/ Refund(c) \/ Abandon(c)
    \/ Provider

Spec == Init /\ [][Next]_vars

\* A handler that has started and is not interrupted goes on; the cron comes
\* round again, and not every one of its runs is interrupted.  Nothing makes the
\* customer pay, or a webhook or a request arrive.
Progress(c) ==
    \/ InitiateCheckPaid(c) \/ InitiateCheckKey(c)
    \/ \E p \in Payments : CommitOnline(c, p) \/ CommitCod(c, p)
    \/ WebhookApply(c) \/ WebhookReject(c) \/ WebhookFail(c)
    \/ UpdateCommit(c)
    \/ RefundExisting(c) \/ RefundCaptured(c)
    \/ \E p \in Payments : RefundInsert(c, p)
    \/ RefundRefused(c) \/ RefundSave(c) \/ RefundFail(c) \/ RefundDone(c)

FairSpec ==
    /\ Spec
    /\ \A c \in Calls : WF_vars(Progress(c) \/ Abandon(c))
    /\ \A c \in Calls : SF_vars(ReconcileCommit(c))
    /\ \A p \in Payments : SF_vars(\E c \in Calls : ReconcileFetch(c, p))

-----------------------------------------------------------------------------
(* Properties *)

\* An order reaches the shop only when its customer pays on delivery or the
\* provider holds the money: no interleaving of webhooks, reconciliation and
\* initiations places an order nobody pays for.
PlacedIsPaid ==
    \A o \in Orders : order[o].status \in InFulfilment =>
        \E p \in Rows(o) : \/ payment[p].method = "COD"
                          \/ provider[p] \in {"paid", "refunded"}

\* However often the refund event is retried, and in however many workers at
\* once, the provider is made to refund an order at most once.
RefundOnce == \A o \in Orders : refunds[o] <= 1

\* Money goes back only for an order that is CANCELLED for good: a cancellation
\* that loses the race against the shop leaves no refund event behind.
RefundOnlyCancelled ==
    \A o \in Orders : refunds[o] > 0 => order[o].status = "CANCELLED"

\* An order that waits for its payment can still be settled: it has a payment,
\* and each is PENDING with a session, which the cron asks the provider about, or
\* AUTHORIZED, which a webhook will capture or fail.  No step leaves the order
\* waiting behind a payment that is over (webhooks.service.ts:94,
\* reconciliation.service.ts:30).
WaitingIsVisible ==
    \A o \in Orders : order[o].status = "PAYMENT_PENDING" =>
        /\ Rows(o) # {}
        /\ \A p \in Rows(o) :
               payment[p].session /\ payment[p].status \in {"PENDING", "AUTHORIZED"}

\* What the rider finds at the door (rider-deliveries.service.ts, Handover's
\* PaidWith): cash is due on one payment at most and has not been taken, and no
\* payment of the order is, or is part of, a refund.
HandedOver ==
    \A o \in Orders : order[o].status \in InFulfilment =>
        /\ \A p, q \in Rows(o) :
               payment[p].method = "COD" =>
                   /\ payment[p].status = "PENDING"
                   /\ payment[q].method = "COD" => p = q
        /\ \A p \in Rows(o) :
               payment[p].status \in {"PENDING", "AUTHORIZED", "CAPTURED", "FAILED"}

\* Every write to an order, whatever its handler had read before, is a
\* transition of the state machine from the status that it overwrites.
Lifecycle ==
    INSTANCE OrderLifecycle WITH status <- [o \in Orders |-> order[o].status]
FollowsLifecycle == Lifecycle!Spec

\* The same handlers seen from the customer's money: placed for cash or against
\* money that is held, returned once, and only when the order was cancelled
\* before the shop prepared it.
StageOf(status) ==
    CASE status \in {"CREATED", "PAYMENT_PENDING"} -> "open"
      [] status \in {"PLACED", "SHOP_ACCEPTED"} -> "placed"
      [] status \in InFulfilment \ {"PLACED", "SHOP_ACCEPTED"} -> "prepared"
      [] status = "REJECTED" -> "rejected"
      [] status = "CANCELLED" -> "cancelled"
      [] OTHER -> "failed"

ForCash(o) == \E p \in Rows(o) : payment[p].method = "COD"

FundsOf(o) ==
    IF refunds[o] > 0 THEN "returned"
    ELSE IF \E p \in Rows(o) : provider[p] = "paid" THEN "held"
    ELSE "none"

Money ==
    INSTANCE Settlement WITH
        stage <- [o \in Orders |-> StageOf(order[o].status)],
        cash <- [o \in Orders |-> ForCash(o)],
        funds <- [o \in Orders |-> FundsOf(o)]
SettlesMoney == Money!Spec

-----------------------------------------------------------------------------
(* The inductive invariant behind them *)

\* Rows are never deleted, so what points to one keeps pointing to one; and who
\* is about to write CAPTURED knows it from the provider.
EventReference(e) ==
    webhook[e] # NoEvent =>
        /\ payment[webhook[e].payment] # NoRow
        /\ provider[webhook[e].payment] # "none"
        /\ webhook[e].status = "CAPTURED" =>
               provider[webhook[e].payment] \in {"paid", "refunded"}
        /\ webhook[e].status \in {"REFUNDED", "PENDING"} =>
               provider[webhook[e].payment] = "refunded"

CallReference(c) ==
    /\ call[c].op = "webhook" => webhook[call[c].event] # NoEvent
    /\ call[c].op = "reconcile" =>
           /\ payment[call[c].payment] # NoRow
           /\ provider[call[c].payment] \in {"paid", "refunded"}
    /\ call[c].op \in {"refundInsert", "refundRow"} =>
           /\ payment[call[c].paid] # NoRow
           /\ payment[call[c].paid].order = call[c].order
           /\ payment[call[c].paid].method = "ONLINE"
    /\ call[c].op = "refundRow" =>
           /\ payment[call[c].row] # NoRow
           /\ payment[call[c].row].order = call[c].order
           /\ payment[call[c].row].key = RefundKey

ReferencesHold ==
    /\ \A p \in Payments : provider[p] # "none" => payment[p] # NoRow
    /\ \A e \in Events : EventReference(e)
    /\ \A c \in Calls : CallReference(c)

\* The version that an update has read stands for the status it has read.
ReadIsVersioned(c) ==
    call[c].op = "update" =>
        LET mine == call[c]
            o == mine.order
        IN  /\ mine.version <= order[o].version
            /\ mine.version = order[o].version => mine.seen = order[o].status
            /\ \/ <<mine.seen, mine.to>> \in ShopTransitions
               \/ mine.seen \in CustomerCancellable /\ mine.to = "CANCELLED"

ReadsAreVersioned == \A c \in Calls : ReadIsVersioned(c)

\* A refund row has one owner, and the provider has not been asked before the
\* owner asks.
RefundRowsOwned ==
    /\ \A c, d \in Calls :
           c # d /\ call[c].op = "refundRow" /\ call[d].op = "refundRow"
           => call[c].row # call[d].row
    /\ \A o \in Orders : refunds[o] > 0 =>
           \E p \in Rows(o) : payment[p].key = RefundKey
    /\ \A c \in Calls : At(c, "refundRow", "provider") =>
           refunds[call[c].order] = 0

\* What a row's columns say of each other and of the order.  Rows are inserted by
\* initiatePayment (ONLINE, with a session, or COD) and by initiateRefund.
RowStands(p) ==
    LET row == payment[p]
        status == order[row.order].status
    IN  payment[p] # NoRow =>
            /\ row.session <=> provider[p] # "none"
            /\ status # "CREATED"
            /\ IF row.key = RefundKey
               THEN ~ row.session /\ row.method = "ONLINE" /\ status = "CANCELLED"
               ELSE row.session <=> row.method = "ONLINE"
            /\ row.method = "COD" =>
                   /\ row.status = "PENDING"
                   /\ status \notin {"PAYMENT_PENDING", "PAYMENT_FAILED"}
            /\ status # "CANCELLED" =>
                   row.status \in {"PENDING", "AUTHORIZED", "CAPTURED", "FAILED"}
            /\ status = "PAYMENT_PENDING" =>
                   row.status \in {"PENDING", "AUTHORIZED"}
            /\ provider[p] = "refunded" => refunds[row.order] > 0

RowsStand ==
    /\ \A p \in Payments : RowStands(p)
    /\ \A p, q \in Payments :
           /\ payment[p] # NoRow /\ payment[p].method = "COD"
           /\ payment[q] # NoRow /\ payment[q].method = "COD"
           /\ payment[p].order = payment[q].order
           => p = q
    /\ \A o \in Orders : order[o].status = "PAYMENT_PENDING" => Rows(o) # {}

RefundOps == {"refund", "refundInsert", "refundRow"}

\* Whoever works on a refund works for a CANCELLED order.
RefundsAreForCancelled ==
    /\ \A o \in Orders : outbox[o] # "absent" => order[o].status = "CANCELLED"
    /\ \A c \in Calls : call[c].op \in RefundOps =>
           order[call[c].order].status = "CANCELLED"

IInv ==
    /\ TypeOK
    /\ WithinIndexes(payment)
    /\ ReferencesHold
    /\ ReadsAreVersioned
    /\ RowsStand
    /\ RefundRowsOwned
    /\ RefundsAreForCancelled
    /\ PlacedIsPaid
    /\ RefundOnce
    /\ RefundOnlyCancelled

-----------------------------------------------------------------------------
(* Liveness *)

AwaitsSettlement(o, p) ==
    /\ order[o].status = "PAYMENT_PENDING"
    /\ p \in Rows(o)
    /\ provider[p] = "paid"

\* When every webhook is lost, reconciliation still settles an order whose
\* money the provider holds; unless a payment of the order is AUTHORIZED, which
\* hides it from the cron (see NeverStuck).
ReconciliationSettles ==
    \A o \in Orders, p \in Payments :
        AwaitsSettlement(o, p) ~>
            \/ order[o].status # "PAYMENT_PENDING"
            \/ \E q \in Rows(o) : payment[q].status = "AUTHORIZED"

\* docs/DECISIONS.md: no payment is stuck in PAYMENT_PENDING because a webhook
\* is missed.
NeverStuck ==
    \A o \in Orders, p \in Payments :
        AwaitsSettlement(o, p) ~> order[o].status # "PAYMENT_PENDING"

=============================================================================
