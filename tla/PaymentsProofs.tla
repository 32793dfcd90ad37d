--------------------------- MODULE PaymentsProofs ---------------------------
(***************************************************************************)
(* What Payments guarantees for any number of orders, payments, webhooks   *)
(* and concurrent handlers.                                                *)
(***************************************************************************)
EXTENDS Payments, TLAPS

\* A slot is told by its op.
LEMMA CallByOp ==
    ASSUME NEW s \in CallState
    PROVE  /\ s.op = "initiate" => s \in InitiateCall
           /\ s.op = "update" => s \in UpdateCall
           /\ s.op = "webhook" => s \in WebhookCall
           /\ s.op = "reconcile" => s \in ReconcileCall
           /\ s.op = "refund" => s \in RefundCall
           /\ s.op = "refundInsert" => s \in RefundInsertCall
           /\ s.op = "refundRow" => s \in RefundRowCall
  BY DEF CallState, Idle, InitiateCall, UpdateCall, WebhookCall,
         ReconcileCall, RefundCall, RefundInsertCall, RefundRowCall

\* A step of a handler writes its own slot.
LEMMA BecomeWrites ==
    ASSUME call \in [Calls -> CallState], NEW c \in Calls,
           NEW s \in CallState, Become(c, s)
    PROVE  /\ call' \in [Calls -> CallState]
           /\ call'[c] = s
           /\ \A d \in Calls : d # c => call'[d] = call[d]
  BY DEF Become

LEMMA IdleIsCall == Idle \in CallState
  BY DEF CallState

LEMMA TypeInit == Init => TypeOK
  BY IdleIsCall DEF Init, TypeOK, OrderStatus, ProviderState

LEMMA SetStatusType ==
    ASSUME order \in [Orders -> [status : OrderStatus, version : Nat]],
           NEW o \in Orders, NEW s \in OrderStatus, SetStatus(o, s)
    PROVE  /\ order' \in [Orders -> [status : OrderStatus, version : Nat]]
           /\ order'[o].status = s
           /\ order'[o].version = order[o].version + 1
           /\ \A q \in Orders : q # o => order'[q] = order[q]
  BY DEF SetStatus

\* Writing the status of a row leaves the rest of the table alone.
LEMMA SetRowStatus ==
    ASSUME payment \in [Payments -> PaymentRow \cup {NoRow}],
           NEW p \in Payments, payment[p] \in PaymentRow,
           NEW s \in PaymentStatus,
           NEW table, table = [payment EXCEPT ![p].status = s]
    PROVE  /\ table \in [Payments -> PaymentRow \cup {NoRow}]
           /\ table[p] = [payment[p] EXCEPT !.status = s]
           /\ \A q \in Payments : q # p => table[q] = payment[q]
<1>1. table[p] = [payment[p] EXCEPT !.status = s]
  OBVIOUS
<1>2. [payment[p] EXCEPT !.status = s] \in PaymentRow
  BY DEF PaymentRow
<1>3. \A q \in Payments : q # p => table[q] = payment[q]
  OBVIOUS
<1>4. table = [q \in Payments |-> table[q]]
  OBVIOUS
<1> QED
  BY <1>1, <1>2, <1>3, <1>4

LEMMA TypeInitiate ==
    ASSUME TypeOK, NEW c \in Calls, Initiate(c)
    PROVE  TypeOK'
<1> USE DEF TypeOK
<1>0. call[c].op = "initiate" => call[c] \in InitiateCall
  BY CallByOp
<1>1. CASE \E o \in Orders, k \in Keys, m \in Method : InitiateRead(c, o, k, m)
  <2> PICK o \in Orders, k \in Keys, m \in Method : InitiateRead(c, o, k, m)
    BY <1>1
  <2> DEFINE s == [op |-> "initiate", pc |-> "checkPaid", order |-> o,
                   key |-> k, method |-> m, seen |-> order[o].status]
  <2>1. s \in CallState
    BY DEF InitiateCall, CallState
  <2>2. Become(c, s)
    BY DEF InitiateRead
  <2> QED
    BY <2>1, <2>2, BecomeWrites DEF InitiateRead
<1>2. CASE InitiateCheckPaid(c)
  <2> DEFINE s == [call[c] EXCEPT !.pc = "checkKey"]
  <2>1. s \in CallState
    BY <1>0, <1>2 DEF InitiateCheckPaid, At, InitiateCall, CallState
  <2>2. Become(c, s) \/ Become(c, Idle)
    BY <1>2 DEF InitiateCheckPaid
  <2> QED
    BY <1>2, <2>1, <2>2, BecomeWrites, IdleIsCall DEF InitiateCheckPaid
<1>3. CASE InitiateCheckKey(c)
  <2> DEFINE s == [call[c] EXCEPT !.pc = "commit"]
  <2>1. s \in CallState
    BY <1>0, <1>3 DEF InitiateCheckKey, At, InitiateCall, CallState
  <2>2. Become(c, s) \/ Become(c, Idle)
    BY <1>3 DEF InitiateCheckKey
  <2> QED
    BY <1>3, <2>1, <2>2, BecomeWrites, IdleIsCall DEF InitiateCheckKey
<1>4. CASE \E p \in Payments : CommitOnline(c, p)
  <2> PICK p \in Payments : CommitOnline(c, p)
    BY <1>4
  <2> call[c] \in InitiateCall
    BY <1>0 DEF CommitOnline, At
  <2>1. [order |-> call[c].order, key |-> call[c].key, method |-> "ONLINE",
         session |-> TRUE, status |-> "PENDING"] \in PaymentRow
    BY DEF InitiateCall, PaymentRow, Method, PaymentStatus
  <2>2. payment' \in [Payments -> PaymentRow \cup {NoRow}]
    BY <2>1 DEF CommitOnline
  <2>3. order' \in [Orders -> [status : OrderStatus, version : Nat]]
    BY SetStatusType DEF CommitOnline, InitiateCall, OrderStatus
  <2>4. provider' \in [Payments -> ProviderState]
    BY DEF CommitOnline, ProviderState
  <2>5. call' \in [Calls -> CallState]
    BY BecomeWrites, IdleIsCall DEF CommitOnline
  <2> QED
    BY <2>2, <2>3, <2>4, <2>5 DEF CommitOnline
<1>5. CASE \E p \in Payments : CommitCod(c, p)
  <2> PICK p \in Payments : CommitCod(c, p)
    BY <1>5
  <2> call[c] \in InitiateCall
    BY <1>0 DEF CommitCod, At
  <2>1. [order |-> call[c].order, key |-> call[c].key, method |-> "COD",
         session |-> FALSE, status |-> "PENDING"] \in PaymentRow
    BY DEF InitiateCall, PaymentRow, Method, PaymentStatus
  <2>2. payment' \in [Payments -> PaymentRow \cup {NoRow}]
    BY <2>1 DEF CommitCod
  <2>3. order' \in [Orders -> [status : OrderStatus, version : Nat]]
    BY SetStatusType DEF CommitCod, InitiateCall, OrderStatus
  <2>4. call' \in [Calls -> CallState]
    BY BecomeWrites, IdleIsCall DEF CommitCod
  <2> QED
    BY <2>2, <2>3, <2>4 DEF CommitCod
<1> QED
  BY <1>1, <1>2, <1>3, <1>4, <1>5 DEF Initiate

LEMMA TypeWebhook ==
    ASSUME TypeOK, ReferencesHold, NEW c \in Calls, Webhook(c)
    PROVE  TypeOK'
<1> USE DEF TypeOK
<1>0. call[c].op = "webhook" => call[c] \in WebhookCall
  BY CallByOp
<1>1. CASE \E e \in Events : WebhookReceive(c, e)
  <2> PICK e \in Events : WebhookReceive(c, e)
    BY <1>1
  <2> DEFINE s == [op |-> "webhook", pc |-> "apply", event |-> e]
  <2>1. s \in CallState
    BY DEF WebhookCall, CallState
  <2>2. Become(c, s)
    BY DEF WebhookReceive
  <2> QED
    BY <2>1, <2>2, BecomeWrites DEF WebhookReceive
<1>2. CASE WebhookApply(c)
  <2> DEFINE e == call[c].event
             p == webhook[e].payment
             s == webhook[e].status
  <2>1. /\ e \in Events
        /\ webhook[e] \in ProviderEvent
        /\ payment[p] \in PaymentRow
    BY <1>0, <1>2 DEF WebhookApply, At, WebhookCall,
              ProviderEvent, ReferencesHold, EventReference, CallReference
  <2>2. call' \in [Calls -> CallState]
    BY <1>2, BecomeWrites, IdleIsCall DEF WebhookApply
  <2>3. payment' \in [Payments -> PaymentRow \cup {NoRow}]
    <3> DEFINE t == IF Stale(payment[p].status, s) THEN payment[p].status ELSE s
    <3>1. t \in PaymentStatus
      BY <2>1 DEF PaymentRow, PaymentStatus, EventStatus, ProviderEvent
    <3>2. payment' = [payment EXCEPT ![p].status = t]
      BY <1>2, <2>1 DEF WebhookApply, Applied
    <3> HIDE DEF t
    <3> QED
      BY <2>1, <3>1, <3>2, SetRowStatus
  <2>4. order' \in [Orders -> [status : OrderStatus, version : Nat]]
    <3>1. payment[p].order \in Orders
      BY <2>1 DEF PaymentRow
    <3>2. Settle(payment[p].order, s)
      BY <1>2 DEF WebhookApply
    <3> QED
      BY <3>1, <3>2, SetStatusType DEF Settle, OrderStatus
  <2> QED
    BY <1>2, <2>1, <2>2, <2>3, <2>4 DEF WebhookApply
<1>3. CASE WebhookReject(c)
  <2> DEFINE s == [call[c] EXCEPT !.pc = "fail"]
  <2>1. s \in CallState
    BY <1>0, <1>3 DEF WebhookReject, At, WebhookCall, CallState
  <2>2. Become(c, s)
    BY <1>3 DEF WebhookReject
  <2> QED
    BY <1>3, <2>1, <2>2, BecomeWrites DEF WebhookReject
<1>4. CASE WebhookFail(c)
  <2>1. call' \in [Calls -> CallState]
    BY <1>4, BecomeWrites, IdleIsCall DEF WebhookFail
  <2> QED
    BY <1>4, <2>1 DEF WebhookFail
<1> QED
  BY <1>1, <1>2, <1>3, <1>4 DEF Webhook

LEMMA TypeReconcile ==
    ASSUME TypeOK, ReferencesHold, NEW c \in Calls, Reconcile(c)
    PROVE  TypeOK'
<1> USE DEF TypeOK
<1>1. CASE \E p \in Payments : ReconcileFetch(c, p)
  <2> PICK p \in Payments : ReconcileFetch(c, p)
    BY <1>1
  <2> DEFINE s == [op |-> "reconcile", payment |-> p, status |-> "CAPTURED"]
  <2>1. s \in CallState
    BY DEF ReconcileCall, CallState
  <2>2. Become(c, s)
    BY DEF ReconcileFetch
  <2> QED
    BY <2>1, <2>2, BecomeWrites DEF ReconcileFetch
<1>2. CASE ReconcileCommit(c)
  <2> DEFINE p == call[c].payment
  <2>1. p \in Payments /\ payment[p] \in PaymentRow /\ call[c].status = "CAPTURED"
    BY <1>2, CallByOp DEF ReconcileCommit, ReconcileCall, ReferencesHold, EventReference, CallReference
  <2>2. call' \in [Calls -> CallState]
    BY <1>2, BecomeWrites, IdleIsCall DEF ReconcileCommit
  <2>3. payment' \in [Payments -> PaymentRow \cup {NoRow}]
    <3>1. \/ payment' = payment
          \/ payment' = [payment EXCEPT ![p].status = "CAPTURED"]
      BY <1>2, <2>1 DEF ReconcileCommit
    <3> QED
      BY <2>1, <3>1, SetRowStatus DEF PaymentStatus
  <2>4. order' \in [Orders -> [status : OrderStatus, version : Nat]]
    <3>1. payment[p].order \in Orders
      BY <2>1 DEF PaymentRow
    <3>2. Settle(payment[p].order, "CAPTURED") \/ UNCHANGED order
      BY <1>2, <2>1 DEF ReconcileCommit
    <3> QED
      BY <3>1, <3>2, SetStatusType DEF Settle, OrderStatus
  <2> QED
    BY <1>2, <2>2, <2>3, <2>4 DEF ReconcileCommit
<1> QED
  BY <1>1, <1>2 DEF Reconcile

LEMMA TypeUpdate ==
    ASSUME TypeOK, NEW c \in Calls, Update(c)
    PROVE  TypeOK'
<1> USE DEF TypeOK
<1>1. ASSUME NEW o \in Orders, NEW to \in OrderStatus, UpdateRead(c, o, to)
      PROVE  TypeOK'
  <2> DEFINE s == [op |-> "update", order |-> o, to |-> to,
                   seen |-> order[o].status, version |-> order[o].version]
  <2>1. s \in CallState
    BY DEF UpdateCall, CallState
  <2>2. Become(c, s)
    BY <1>1 DEF UpdateRead
  <2> QED
    BY <1>1, <2>1, <2>2, BecomeWrites DEF UpdateRead
<1>2. CASE \E o \in Orders : CancelRead(c, o)
  BY <1>1, <1>2 DEF CancelRead, OrderStatus
<1>3. CASE \E o \in Orders, to \in OrderStatus : ShopRead(c, o, to)
  BY <1>1, <1>3 DEF ShopRead
<1>4. CASE UpdateCommit(c)
  <2>1. call[c] \in UpdateCall
    BY <1>4, CallByOp DEF UpdateCommit
  <2>2. call' \in [Calls -> CallState]
    BY <1>4, BecomeWrites, IdleIsCall DEF UpdateCommit
  <2>3. order' \in [Orders -> [status : OrderStatus, version : Nat]]
    BY <1>4, <2>1, SetStatusType DEF UpdateCommit, UpdateCall
  <2>4. outbox' \in [Orders -> {"absent", "PENDING", "PROCESSED"}]
    BY <1>4, <2>1 DEF UpdateCommit, UpdateCall
  <2> QED
    BY <1>4, <2>2, <2>3, <2>4 DEF UpdateCommit
<1> QED
  BY <1>2, <1>3, <1>4 DEF Update

LEMMA TypeRefund ==
    ASSUME TypeOK, ReferencesHold, NEW c \in Calls, Refund(c)
    PROVE  TypeOK'
<1> USE DEF TypeOK
<1>0. /\ call[c].op = "refund" => call[c] \in RefundCall
      /\ call[c].op = "refundInsert" => call[c] \in RefundInsertCall
      /\ call[c].op = "refundRow" => call[c] \in RefundRowCall
  BY CallByOp
<1>1. CASE \E o \in Orders : RefundStart(c, o)
  <2> PICK o \in Orders : RefundStart(c, o)
    BY <1>1
  <2> DEFINE s == [op |-> "refund", pc |-> "existing", order |-> o]
  <2>1. s \in CallState
    BY DEF RefundCall, CallState
  <2>2. Become(c, s)
    BY DEF RefundStart
  <2> QED
    BY <2>1, <2>2, BecomeWrites DEF RefundStart
<1>2. CASE RefundExisting(c)
  <2>1. ASSUME NEW pc \in {"captured", "done"}
        PROVE  [call[c] EXCEPT !.pc = pc] \in CallState
    BY <1>0, <1>2 DEF RefundExisting, At, RefundCall, CallState
  <2>2. Become(c, [call[c] EXCEPT !.pc = "captured"])
        \/ Become(c, [call[c] EXCEPT !.pc = "done"])
    BY <1>2 DEF RefundExisting
  <2>3. call' \in [Calls -> CallState]
    BY <2>1, <2>2, BecomeWrites
  <2> QED
    BY <1>2, <2>3 DEF RefundExisting
<1>3. CASE RefundCaptured(c)
  <2>1. call[c] \in RefundCall
    BY <1>0, <1>3 DEF RefundCaptured, At
  <2>2. [call[c] EXCEPT !.pc = "done"] \in CallState
    BY <2>1 DEF RefundCall, CallState
  <2>3. ASSUME NEW p \in Payments
        PROVE  [op |-> "refundInsert", order |-> call[c].order, paid |-> p]
                  \in CallState
    BY <2>1 DEF RefundCall, RefundInsertCall, CallState
  <2>4. \/ Become(c, [call[c] EXCEPT !.pc = "done"])
        \/ \E p \in Payments : Become(c, [op |-> "refundInsert",
                                         order |-> call[c].order, paid |-> p])
    BY <1>3 DEF RefundCaptured, Rows
  <2>5. call' \in [Calls -> CallState]
    BY <2>2, <2>3, <2>4, BecomeWrites
  <2> QED
    BY <1>3, <2>5 DEF RefundCaptured
<1>4. CASE \E p \in Payments : RefundInsert(c, p)
  <2> PICK p \in Payments : RefundInsert(c, p)
    BY <1>4
  <2>1. call[c] \in RefundInsertCall /\ payment[call[c].paid] \in PaymentRow
    BY <1>0 DEF RefundInsert, RefundInsertCall, ReferencesHold, EventReference, CallReference
  <2> DEFINE row == [order |-> call[c].order, key |-> RefundKey,
                     method |-> payment[call[c].paid].method,
                     session |-> FALSE, status |-> "CREATED"]
             s == [op |-> "refundRow", pc |-> "provider",
                   order |-> call[c].order, paid |-> call[c].paid,
                   row |-> p, result |-> "CREATED"]
  <2>2. row \in PaymentRow
    BY <2>1 DEF RefundInsertCall, PaymentRow, PaymentStatus
  <2>3. s \in CallState
    BY <2>1 DEF RefundInsertCall, RefundRowCall, CallState
  <2>4. Become(c, s) /\ payment' = [payment EXCEPT ![p] = row]
    BY DEF RefundInsert
  <2>5. call' \in [Calls -> CallState]
    BY <2>3, <2>4, BecomeWrites
  <2>6. payment' \in [Payments -> PaymentRow \cup {NoRow}]
    BY <2>2, <2>4
  <2> QED
    BY <2>5, <2>6 DEF RefundInsert
<1>5. CASE \E s \in {"REFUNDED", "REFUND_PENDING"} : RefundAccepted(c, s)
  <2> PICK result \in {"REFUNDED", "REFUND_PENDING"} : RefundAccepted(c, result)
    BY <1>5
  <2>1. call[c] \in RefundRowCall
    BY <1>0 DEF RefundAccepted, At
  <2>2. [call[c] EXCEPT !.pc = "save", !.result = result] \in CallState
    BY <2>1 DEF RefundRowCall, CallState
  <2>3. call' \in [Calls -> CallState]
    BY <2>2, BecomeWrites DEF RefundAccepted
  <2>4. provider' \in [Payments -> ProviderState]
    BY <2>1 DEF RefundAccepted, ProviderState
  <2>5. refunds' \in [Orders -> Nat]
    BY <2>1 DEF RefundAccepted, RefundRowCall
  <2> QED
    BY <2>3, <2>4, <2>5 DEF RefundAccepted
<1>6. CASE RefundRefused(c)
  <2>1. [call[c] EXCEPT !.pc = "fail"] \in CallState
    BY <1>0, <1>6 DEF RefundRefused, At, RefundRowCall, CallState
  <2>2. call' \in [Calls -> CallState]
    BY <1>6, <2>1, BecomeWrites DEF RefundRefused
  <2> QED
    BY <1>6, <2>2 DEF RefundRefused
<1>7. CASE RefundSave(c)
  <2>1. call[c] \in RefundRowCall /\ payment[call[c].row] \in PaymentRow
    BY <1>0, <1>7 DEF RefundSave, At, RefundRowCall, ReferencesHold, EventReference, CallReference
  <2>2. /\ [call[c] EXCEPT !.pc = "fail"] \in CallState
        /\ [op |-> "refund", pc |-> "done", order |-> call[c].order] \in CallState
    BY <2>1 DEF RefundRowCall, RefundCall, CallState
  <2>3. \/ Become(c, [call[c] EXCEPT !.pc = "fail"])
        \/ Become(c, [op |-> "refund", pc |-> "done", order |-> call[c].order])
    BY <1>7 DEF RefundSave
  <2>4. call' \in [Calls -> CallState]
    BY <2>2, <2>3, BecomeWrites
  <2>5. payment' \in [Payments -> PaymentRow \cup {NoRow}]
    <3>1. call[c].row \in Payments /\ call[c].result \in PaymentStatus
      BY <2>1 DEF RefundRowCall, PaymentStatus
    <3>2. \/ payment' = payment
          \/ payment' = [payment EXCEPT ![call[c].row].status = call[c].result]
      BY <1>7 DEF RefundSave
    <3> QED
      BY <2>1, <3>1, <3>2, SetRowStatus
  <2> QED
    BY <1>7, <2>4, <2>5 DEF RefundSave
<1>8. CASE RefundFail(c)
  <2>1. call[c] \in RefundRowCall /\ payment[call[c].row] \in PaymentRow
    BY <1>0, <1>8 DEF RefundFail, At, RefundRowCall, ReferencesHold, EventReference, CallReference
  <2>2. call' \in [Calls -> CallState]
    BY <1>8, BecomeWrites, IdleIsCall DEF RefundFail
  <2>3. payment' \in [Payments -> PaymentRow \cup {NoRow}]
    BY <1>8, <2>1 DEF RefundFail, PaymentRow, PaymentStatus
  <2> QED
    BY <1>8, <2>2, <2>3 DEF RefundFail
<1>9. CASE RefundDone(c)
  <2>1. call[c] \in RefundCall
    BY <1>0, <1>9 DEF RefundDone, At
  <2>2. call' \in [Calls -> CallState]
    BY <1>9, BecomeWrites, IdleIsCall DEF RefundDone
  <2> QED
    BY <1>9, <2>1, <2>2 DEF RefundDone
<1> QED
  BY <1>1, <1>2, <1>3, <1>4, <1>5, <1>6, <1>7, <1>8, <1>9 DEF Refund

LEMMA TypeProvider ==
    ASSUME TypeOK, Provider
    PROVE  TypeOK'
<1> USE DEF TypeOK
<1>1. CASE \E p \in Payments : CustomerFails(p) \/ CustomerAuthorizes(p)
                                \/ CustomerPays(p)
  BY <1>1 DEF CustomerFails, CustomerAuthorizes, CustomerPays, ProviderMoves,
              ProviderState
<1>2. CASE \E e \in Events, p \in Payments, s \in EventStatus : Emit(e, p, s)
  BY <1>2 DEF Emit, ProviderEvent
<1> QED
  BY <1>1, <1>2 DEF Provider

LEMMA TypeAbandon ==
    ASSUME TypeOK, NEW c \in Calls, Abandon(c)
    PROVE  TypeOK'
  BY BecomeWrites, IdleIsCall DEF Abandon, TypeOK

\* TypeOK is preserved wherever the references between the tables hold.
LEMMA TypeStep ==
    ASSUME TypeOK, ReferencesHold, [Next]_vars
    PROVE  TypeOK'
<1>1. CASE UNCHANGED vars
  BY <1>1 DEF vars, TypeOK
<1> QED
  BY <1>1, TypeInitiate, TypeWebhook, TypeReconcile, TypeUpdate, TypeRefund,
     TypeProvider, TypeAbandon DEF Next

-----------------------------------------------------------------------------
(* Effects that hold of every step *)

\* The two ways to write to the table payments.
Inserter(q) ==
    \E c \in Calls : CommitOnline(c, q) \/ CommitCod(c, q) \/ RefundInsert(c, q)
Inserts(q, row) ==
    /\ Inserter(q)
    /\ payment[q] = NoRow
    /\ payment' = [payment EXCEPT ![q] = row]
    /\ WithinIndexes(payment')
SetsStatus(q, s) ==
    /\ payment[q] # NoRow
    /\ payment' = [payment EXCEPT ![q].status = s]
    /\ WithinIndexes(payment') \/ s \notin Successful

LEMMA PaymentWrites ==
    ASSUME TypeOK, ReferencesHold, [Next]_vars
    PROVE  \/ payment' = payment
           \/ \E q \in Payments, row \in PaymentRow : Inserts(q, row)
           \/ \E q \in Payments, s \in PaymentStatus : SetsStatus(q, s)
<1> USE DEF TypeOK
<1>1. CASE \E c \in Calls : Initiate(c)
  <2> PICK c \in Calls : Initiate(c)
    BY <1>1
  <2>0. call[c].op = "initiate" => call[c] \in InitiateCall
    BY CallByOp
  <2>1. ASSUME NEW p \in Payments, CommitOnline(c, p)
        PROVE  \E q \in Payments, row \in PaymentRow : Inserts(q, row)
    <3> DEFINE row == [order |-> call[c].order, key |-> call[c].key,
                       method |-> "ONLINE", session |-> TRUE,
                       status |-> "PENDING"]
    <3>1. row \in PaymentRow
      BY <2>0, <2>1 DEF CommitOnline, At, InitiateCall, PaymentRow, Method,
                        PaymentStatus
    <3>2. Inserter(p)
      BY <2>1 DEF Inserter
    <3>4. Inserts(p, row)
      BY <2>1, <3>2 DEF CommitOnline, Inserts
    <3> QED
      BY <3>1, <3>4
  <2>2. ASSUME NEW p \in Payments, CommitCod(c, p)
        PROVE  \E q \in Payments, row \in PaymentRow : Inserts(q, row)
    <3> DEFINE row == [order |-> call[c].order, key |-> call[c].key,
                       method |-> "COD", session |-> FALSE,
                       status |-> "PENDING"]
    <3>1. row \in PaymentRow
      BY <2>0, <2>2 DEF CommitCod, At, InitiateCall, PaymentRow, Method,
                        PaymentStatus
    <3>2. Inserter(p)
      BY <2>2 DEF Inserter
    <3>4. Inserts(p, row)
      BY <2>2, <3>2 DEF CommitCod, Inserts
    <3> QED
      BY <3>1, <3>4
  <2> QED
    BY <2>1, <2>2 DEF Initiate, InitiateRead, InitiateCheckPaid, InitiateCheckKey
<1>2. CASE \E c \in Calls : Webhook(c)
  <2> PICK c \in Calls : Webhook(c)
    BY <1>2
  <2>1. ASSUME WebhookApply(c)
        PROVE  \E q \in Payments, s \in PaymentStatus : SetsStatus(q, s)
    <3> DEFINE e == call[c].event
               p == webhook[e].payment
               s == webhook[e].status
               t == IF Stale(payment[p].status, s) THEN payment[p].status ELSE s
    <3>1. /\ e \in Events
          /\ webhook[e] \in ProviderEvent
          /\ payment[p] # NoRow
      BY <2>1, CallByOp DEF WebhookApply, At, WebhookCall,
                        ReferencesHold, EventReference, CallReference
    <3>2. p \in Payments /\ t \in PaymentStatus
      BY <3>1 DEF PaymentRow, PaymentStatus, EventStatus, ProviderEvent
    <3>3. payment' = [payment EXCEPT ![p].status = t] /\ WithinIndexes(payment')
      BY <2>1, <3>1 DEF WebhookApply, Applied
    <3> HIDE DEF t, p
    <3> QED
      BY <3>1, <3>2, <3>3 DEF SetsStatus
  <2> QED
    BY <2>1 DEF Webhook, WebhookReceive, WebhookReject, WebhookFail
<1>3. CASE \E c \in Calls : Reconcile(c)
  <2> PICK c \in Calls : Reconcile(c)
    BY <1>3
  <2>1. ASSUME ReconcileCommit(c)
        PROVE  payment' = payment \/ SetsStatus(call[c].payment, "CAPTURED")
    <3>1. call[c].status = "CAPTURED" /\ payment[call[c].payment] # NoRow
      BY <2>1, CallByOp DEF ReconcileCommit, ReconcileCall,
                        ReferencesHold, CallReference
    <3> QED
      BY <2>1, <3>1 DEF ReconcileCommit, SetsStatus
  <2>2. call[c].op = "reconcile" => call[c].payment \in Payments
    BY CallByOp DEF ReconcileCall
  <2> QED
    BY <2>1, <2>2 DEF Reconcile, ReconcileFetch, ReconcileCommit, PaymentStatus
<1>4. CASE \E c \in Calls : Update(c)
  BY <1>4 DEF Update, CancelRead, ShopRead, UpdateRead, UpdateCommit
<1>5. CASE \E c \in Calls : Refund(c)
  <2> PICK c \in Calls : Refund(c)
    BY <1>5
  <2>0. call[c].op = "refundRow" =>
           /\ call[c].row \in Payments
           /\ payment[call[c].row] # NoRow
           /\ call[c].result \in PaymentStatus
    BY CallByOp DEF RefundRowCall, PaymentStatus, ReferencesHold, CallReference
  <2>1. ASSUME NEW p \in Payments, RefundInsert(c, p)
        PROVE  \E q \in Payments, row \in PaymentRow : Inserts(q, row)
    <3> DEFINE row == [order |-> call[c].order, key |-> RefundKey,
                       method |-> payment[call[c].paid].method,
                       session |-> FALSE, status |-> "CREATED"]
    <3>1. call[c] \in RefundInsertCall /\ payment[call[c].paid] \in PaymentRow
      BY <2>1, CallByOp DEF RefundInsert, RefundInsertCall,
                        ReferencesHold, CallReference
    <3>2. row \in PaymentRow
      BY <3>1 DEF RefundInsertCall, PaymentRow, PaymentStatus
    <3>3. Inserter(p)
      BY <2>1 DEF Inserter
    <3>4. Inserts(p, row)
      BY <2>1, <3>3 DEF RefundInsert, Inserts
    <3> QED
      BY <3>2, <3>4
  <2>2. ASSUME RefundSave(c)
        PROVE  payment' = payment \/ SetsStatus(call[c].row, call[c].result)
    BY <2>0, <2>2 DEF RefundSave, At, SetsStatus
  <2>3. ASSUME RefundFail(c)
        PROVE  SetsStatus(call[c].row, "FAILED")
    BY <2>0, <2>3 DEF RefundFail, At, SetsStatus, Successful
  <2>4. CASE RefundSave(c)
    BY <2>0, <2>2, <2>4 DEF RefundSave, At
  <2>5. CASE RefundFail(c)
    BY <2>0, <2>3, <2>5 DEF RefundFail, At, PaymentStatus
  <2> QED
    BY <2>1, <2>4, <2>5 DEF Refund, RefundStart, RefundExisting, RefundCaptured,
                            RefundAccepted, RefundRefused, RefundDone
<1>6. CASE Provider \/ UNCHANGED vars
  BY <1>6 DEF Provider, CustomerFails, CustomerAuthorizes, CustomerPays,
              ProviderMoves, Emit, vars
<1>7. CASE \E c \in Calls : Abandon(c)
  BY <1>7 DEF Abandon
<1> QED
  BY <1>1, <1>2, <1>3, <1>4, <1>5, <1>6, <1>7 DEF Next

\* Rows are never deleted, and only their status is ever overwritten.
LEMMA RowsStay ==
    ASSUME TypeOK, ReferencesHold, [Next]_vars, NEW p \in Payments,
           payment[p] # NoRow
    PROVE  /\ payment'[p] # NoRow
           /\ payment'[p].order = payment[p].order
           /\ payment'[p].key = payment[p].key
           /\ payment'[p].method = payment[p].method
<1>0. payment \in [Payments -> PaymentRow \cup {NoRow}]
  BY DEF TypeOK
<1>1. ASSUME NEW q \in Payments, NEW row \in PaymentRow, Inserts(q, row)
      PROVE  payment'[p] = payment[p]
  BY <1>0, <1>1 DEF Inserts
<1>2. ASSUME NEW q \in Payments, NEW s \in PaymentStatus, SetsStatus(q, s)
      PROVE  /\ payment'[p] # NoRow
             /\ payment'[p].order = payment[p].order
             /\ payment'[p].key = payment[p].key
             /\ payment'[p].method = payment[p].method
  <2>1. payment[p] \in PaymentRow /\ payment[q] \in PaymentRow
    BY <1>0, <1>2 DEF SetsStatus
  <2>2. /\ payment'[q] = [payment[q] EXCEPT !.status = s]
        /\ \A r \in Payments : r # q => payment'[r] = payment[r]
    <3>1. payment' = [payment EXCEPT ![q].status = s]
      BY <1>2 DEF SetsStatus
    <3> QED
      BY <1>0, <2>1, <3>1, SetRowStatus
  <2>3. [payment[q] EXCEPT !.status = s] \in PaymentRow
    BY <2>1 DEF PaymentRow
  <2> QED
    BY <2>1, <2>2, <2>3, NoRowAssumption DEF PaymentRow
<1> QED
  BY <1>1, <1>2, PaymentWrites

LEMMA IndexesKept ==
    ASSUME TypeOK, ReferencesHold, WithinIndexes(payment), [Next]_vars
    PROVE  WithinIndexes(payment')
<1>1. ASSUME NEW q \in Payments, NEW s \in PaymentStatus, SetsStatus(q, s),
             s \notin Successful
      PROVE  WithinIndexes(payment')
  <2>1. payment[q] \in PaymentRow
    BY <1>1 DEF SetsStatus, TypeOK
  <2>2. /\ payment'[q] = [payment[q] EXCEPT !.status = s]
        /\ \A p \in Payments : p # q => payment'[p] = payment[p]
    BY <1>1, <2>1, SetRowStatus DEF SetsStatus, TypeOK
  <2>3. /\ payment'[q].order = payment[q].order
        /\ payment'[q].key = payment[q].key
        /\ payment'[q].status = s
        /\ payment[q] # NoRow
    BY <1>1, <2>1, <2>2 DEF PaymentRow, SetsStatus
  <2>4. ASSUME NEW p \in Payments, payment'[p] # NoRow
        PROVE  /\ payment[p] # NoRow
               /\ payment'[p].order = payment[p].order
               /\ payment'[p].key = payment[p].key
               /\ payment'[p].status \in Successful
                  => payment[p].status \in Successful
    BY <1>1, <2>2, <2>3, <2>4
  <2> HIDE <1>1, <2>2, <2>3
  <2> QED
    BY <2>4 DEF WithinIndexes
<1> QED
  BY <1>1, PaymentWrites DEF Inserts, SetsStatus

\* The moves of an order that some handler of this module makes.
Moves ==
    {<<"CREATED", "PAYMENT_PENDING">>, <<"CREATED", "PLACED">>,
     <<"PAYMENT_PENDING", "PLACED">>, <<"PAYMENT_PENDING", "PAYMENT_FAILED">>}
    \cup ShopTransitions
    \cup {<<s, "CANCELLED">> : s \in CustomerCancellable}

OrderMoves(o, s) == SetStatus(o, s) /\ <<order[o].status, s>> \in Moves

\* At most one order moves, and by one of these moves from the status that the
\* step overwrites, not from the one its handler has read.
LEMMA OrdersMove ==
    ASSUME TypeOK, ReferencesHold, ReadsAreVersioned, [Next]_vars
    PROVE  \/ order' = order
           \/ \E o \in Orders, s \in OrderStatus : OrderMoves(o, s)
<1> USE DEF TypeOK
<1>0. ASSUME NEW o \in Orders, NEW s, Settle(o, s)
      PROVE  \/ order' = order
             \/ \E t \in OrderStatus : OrderMoves(o, t)
  BY <1>0 DEF Settle, OrderMoves, Moves, OrderStatus
<1>1. CASE \E c \in Calls : Initiate(c)
  <2> PICK c \in Calls : Initiate(c)
    BY <1>1
  <2>0. call[c].op = "initiate" => call[c].order \in Orders
    BY CallByOp DEF InitiateCall
  <2>1. ASSUME NEW p \in Payments, CommitOnline(c, p)
        PROVE  order' = order \/ OrderMoves(call[c].order, "PAYMENT_PENDING")
    BY <2>0, <2>1 DEF CommitOnline, At, OrderMoves, Moves
  <2>2. ASSUME NEW p \in Payments, CommitCod(c, p)
        PROVE  OrderMoves(call[c].order, "PLACED")
    BY <2>0, <2>2 DEF CommitCod, At, OrderMoves, Moves, ValidTransition,
                      ValidTransitions
  <2>3. CASE \E p \in Payments : CommitOnline(c, p)
    BY <2>0, <2>1, <2>3 DEF CommitOnline, At, OrderStatus
  <2>4. CASE \E p \in Payments : CommitCod(c, p)
    BY <2>0, <2>2, <2>4 DEF CommitCod, At, OrderStatus
  <2> QED
    BY <2>3, <2>4 DEF Initiate, InitiateRead, InitiateCheckPaid, InitiateCheckKey
<1>2. CASE \E c \in Calls : Webhook(c)
  <2> PICK c \in Calls : Webhook(c)
    BY <1>2
  <2>1. CASE WebhookApply(c)
    <3> DEFINE e == call[c].event
    <3>1. e \in Events /\ webhook[e] # NoEvent
      BY <2>1, CallByOp DEF WebhookApply, At, WebhookCall, ReferencesHold,
                            CallReference
    <3>2. payment[webhook[e].payment].order \in Orders
      BY <3>1 DEF ReferencesHold, EventReference, ProviderEvent, PaymentRow
    <3> QED
      BY <1>0, <2>1, <3>2 DEF WebhookApply
  <2> QED
    BY <2>1 DEF Webhook, WebhookReceive, WebhookReject, WebhookFail
<1>3. CASE \E c \in Calls : Reconcile(c)
  <2> PICK c \in Calls : Reconcile(c)
    BY <1>3
  <2>1. CASE ReconcileCommit(c)
    <3>1. payment[call[c].payment].order \in Orders
      BY <2>1, CallByOp DEF ReconcileCommit, ReconcileCall, ReferencesHold,
                            CallReference, PaymentRow
    <3> QED
      BY <1>0, <2>1, <3>1 DEF ReconcileCommit
  <2> QED
    BY <2>1 DEF Reconcile, ReconcileFetch
<1>4. CASE \E c \in Calls : Update(c)
  <2> PICK c \in Calls : Update(c)
    BY <1>4
  <2>1. CASE UpdateCommit(c)
    <3> DEFINE o == call[c].order
    <3>1. call[c] \in UpdateCall
      BY <2>1, CallByOp DEF UpdateCommit
    <3>2. o \in Orders /\ call[c].to \in OrderStatus
      BY <3>1 DEF UpdateCall
    <3>3. ASSUME Matches(o, call[c])
          PROVE  <<order[o].status, call[c].to>> \in Moves
      BY <2>1, <3>1, <3>3 DEF UpdateCommit, Matches, ReadsAreVersioned,
                            ReadIsVersioned, Moves
    <3> QED
      BY <2>1, <3>2, <3>3 DEF UpdateCommit, OrderMoves
  <2> QED
    BY <2>1 DEF Update, CancelRead, ShopRead, UpdateRead
<1>5. CASE \E c \in Calls : Refund(c)
  BY <1>5 DEF Refund, RefundStart, RefundExisting, RefundCaptured, RefundInsert,
              RefundAccepted, RefundRefused, RefundSave, RefundFail, RefundDone
<1>6. CASE Provider \/ UNCHANGED vars
  BY <1>6 DEF Provider, CustomerFails, CustomerAuthorizes, CustomerPays,
              ProviderMoves, Emit, vars
<1>7. CASE \E c \in Calls : Abandon(c)
  BY <1>7 DEF Abandon
<1> QED
  BY <1>1, <1>2, <1>3, <1>4, <1>5, <1>6, <1>7 DEF Next

\* Nothing moves a CANCELLED order.
LEMMA CancelledStays ==
    ASSUME TypeOK, ReferencesHold, ReadsAreVersioned, [Next]_vars,
           NEW o \in Orders, order[o].status = "CANCELLED"
    PROVE  order'[o].status = "CANCELLED"
<1>1. ASSUME NEW q \in Orders, NEW s \in OrderStatus, OrderMoves(q, s)
      PROVE  order'[o].status = "CANCELLED"
  <2>1. q # o
    BY <1>1 DEF OrderMoves, Moves, ShopTransitions, CustomerCancellable
  <2> QED
    BY <1>1, <2>1, SetStatusType DEF OrderMoves, TypeOK
<1> QED
  BY <1>1, OrdersMove

\* What the provider holds it keeps or gives back; and it has an order only for
\* a row.
LEMMA MoneyStays ==
    ASSUME TypeOK, ReferencesHold, [Next]_vars, NEW p \in Payments
    PROVE  /\ provider[p] \in {"paid", "refunded"}
              => provider'[p] \in {"paid", "refunded"}
           /\ provider[p] = "refunded" => provider'[p] = "refunded"
           /\ payment[p] # NoRow => (provider[p] = "none" <=> provider'[p] = "none")
           /\ provider'[p] # "none" => payment'[p] # NoRow
<1> USE DEF TypeOK
<1>0. provider[p] # "none" => payment'[p] # NoRow
  BY RowsStay DEF ReferencesHold
<1>1. CASE provider'[p] = provider[p]
  BY <1>0, <1>1
<1>2. CASE \E c \in Calls, q \in Payments : CommitOnline(c, q)
  <2> PICK c \in Calls, q \in Payments : CommitOnline(c, q)
    BY <1>2
  <2>1. call[c] \in InitiateCall
    BY CallByOp DEF CommitOnline, At
  <2>2. payment'[q] \in PaymentRow /\ provider[q] = "none" /\ payment[q] = NoRow
    BY <2>1 DEF CommitOnline, InitiateCall, PaymentRow, Method, PaymentStatus,
                ReferencesHold
  <2>3. p # q => provider'[p] = provider[p]
    BY DEF CommitOnline
  <2> QED
    BY <1>1, <2>2, <2>3, NoRowAssumption
<1>3. CASE \E c \in Calls, s \in {"REFUNDED", "REFUND_PENDING"} :
             RefundAccepted(c, s)
  BY <1>0, <1>3 DEF RefundAccepted
<1>4. CASE Provider
  BY <1>0, <1>4 DEF Provider, CustomerFails, CustomerAuthorizes, CustomerPays,
                    ProviderMoves, Emit
<1>5. ASSUME ~ UNCHANGED provider
      PROVE  \/ \E c \in Calls, q \in Payments : CommitOnline(c, q)
             \/ \E c \in Calls, s \in {"REFUNDED", "REFUND_PENDING"} :
                   RefundAccepted(c, s)
             \/ Provider
  BY <1>5 DEF Next, vars, Abandon,
      Initiate, InitiateRead, InitiateCheckPaid, InitiateCheckKey, CommitCod,
      Webhook, WebhookReceive, WebhookApply, WebhookReject, WebhookFail,
      Reconcile, ReconcileFetch, ReconcileCommit,
      Update, CancelRead, ShopRead, UpdateRead, UpdateCommit,
      Refund, RefundStart, RefundExisting, RefundCaptured, RefundInsert,
      RefundRefused, RefundSave, RefundFail, RefundDone
<1> QED
  BY <1>1, <1>2, <1>3, <1>4, <1>5

-----------------------------------------------------------------------------
(* The parts of the inductive invariant, one by one *)

LEMMA EventsStay ==
    ASSUME TypeOK, [Next]_vars, NEW e \in Events
    PROVE  \/ webhook'[e] = webhook[e]
           \/ \E p \in Payments, s \in EventStatus : Emit(e, p, s)
<1>1. CASE webhook' = webhook
  BY <1>1
<1>2. ASSUME NEW f \in Events, NEW p \in Payments, NEW s \in EventStatus,
             Emit(f, p, s)
      PROVE  webhook'[e] = webhook[e] \/ e = f
  BY <1>2 DEF Emit, TypeOK
<1>3. ASSUME NEW c \in Calls,
             Initiate(c) \/ Webhook(c) \/ Reconcile(c) \/ Update(c) \/ Refund(c)
                \/ Abandon(c)
      PROVE  webhook' = webhook
  <2>1. CASE Initiate(c) \/ Webhook(c)
    BY <2>1 DEF Initiate, InitiateRead, InitiateCheckPaid, InitiateCheckKey,
      CommitOnline, CommitCod, Webhook, WebhookReceive, WebhookApply,
      WebhookReject, WebhookFail
  <2>2. CASE Reconcile(c) \/ Update(c) \/ Abandon(c)
    BY <2>2 DEF Reconcile, ReconcileFetch, ReconcileCommit, Update, CancelRead,
      ShopRead, UpdateRead, UpdateCommit, Abandon
  <2>3. CASE Refund(c)
    BY <2>3 DEF Refund, RefundStart, RefundExisting, RefundCaptured,
      RefundInsert, RefundAccepted, RefundRefused, RefundSave, RefundFail,
      RefundDone
  <2> QED
    BY <1>3, <2>1, <2>2, <2>3
<1>4. CASE Provider
  BY <1>1, <1>2, <1>4 DEF Provider, CustomerFails, CustomerAuthorizes,
                          CustomerPays, ProviderMoves
<1> QED
  BY <1>1, <1>3, <1>4 DEF Next, vars

LEMMA EventReferenceStep ==
    ASSUME TypeOK, ReferencesHold, [Next]_vars, NEW e \in Events
    PROVE  EventReference(e)'
<1> USE DEF TypeOK
<1>1. CASE webhook'[e] = webhook[e] /\ webhook[e] # NoEvent
  <2>1. webhook[e].payment \in Payments /\ payment[webhook[e].payment] # NoRow
    BY <1>1 DEF ProviderEvent, ReferencesHold, EventReference
  <2> QED
    BY <1>1, <2>1, RowsStay, MoneyStays DEF ReferencesHold, EventReference
<1>2. CASE \E p \in Payments, s \in EventStatus : Emit(e, p, s)
  <2> PICK p \in Payments, s \in EventStatus : Emit(e, p, s)
    BY <1>2
  <2>1. webhook'[e].payment = p /\ webhook'[e].status = s
    BY DEF Emit
  <2>2. /\ provider[p] # "none"
        /\ s = "CAPTURED" => provider[p] \in {"paid", "refunded"}
        /\ s \in {"REFUNDED", "PENDING"} => provider[p] = "refunded"
    BY DEF Emit, Emittable, ProviderState
  <2>3. payment' = payment /\ provider' = provider
    BY DEF Emit
  <2> QED
    BY <2>1, <2>2, <2>3 DEF ReferencesHold, EventReference
<1> QED
  BY <1>1, <1>2, EventsStay DEF EventReference

\* A slot that a step leaves alone keeps its references.
LEMMA CallReferenceStays ==
    ASSUME TypeOK, ReferencesHold, [Next]_vars, NEW d \in Calls,
           call'[d] = call[d]
    PROVE  CallReference(d)'
<1> USE DEF TypeOK
<1>1. call[d].op = "webhook" => webhook'[call[d].event] # NoEvent
  <2> SUFFICES ASSUME call[d].op = "webhook"
               PROVE  webhook'[call[d].event] # NoEvent
    OBVIOUS
  <2>1. call[d].event \in Events /\ webhook[call[d].event] # NoEvent
    BY CallByOp DEF WebhookCall, ReferencesHold, CallReference
  <2> QED
    BY <2>1, EventsStay DEF Emit
<1>2. call[d].op = "reconcile" =>
         /\ payment'[call[d].payment] # NoRow
         /\ provider'[call[d].payment] \in {"paid", "refunded"}
  BY CallByOp, RowsStay, MoneyStays DEF ReconcileCall, ReferencesHold, CallReference
<1>3. call[d].op \in {"refundInsert", "refundRow"} =>
         /\ payment'[call[d].paid] # NoRow
         /\ payment'[call[d].paid].order = call[d].order
         /\ payment'[call[d].paid].method = "ONLINE"
  BY CallByOp, RowsStay
     DEF RefundInsertCall, RefundRowCall, ReferencesHold, CallReference
<1>4. call[d].op = "refundRow" =>
         /\ payment'[call[d].row] # NoRow
         /\ payment'[call[d].row].order = call[d].order
         /\ payment'[call[d].row].key = RefundKey
  BY CallByOp, RowsStay DEF RefundRowCall, ReferencesHold, CallReference
<1> QED
  BY <1>1, <1>2, <1>3, <1>4 DEF CallReference

\* What a step puts into a slot: nothing that refers to anything, or one of the
\* references that CallReference is about.
LEMMA CallChanges ==
    ASSUME TypeOK, [Next]_vars, NEW d \in Calls
    PROVE  \/ call'[d] = call[d]
           \/ call'[d].op \in {"idle", "initiate"}
           \/ \E o \in Orders, to \in OrderStatus :
                 UpdateRead(d, o, to) /\ (CancelRead(d, o) \/ ShopRead(d, o, to))
           \/ \E e \in Events : WebhookReceive(d, e)
           \/ WebhookReject(d)
           \/ \E p \in Payments : ReconcileFetch(d, p)
           \/ \E o \in Orders : RefundStart(d, o)
           \/ RefundExisting(d)
           \/ RefundCaptured(d)
           \/ \E p \in Payments : RefundInsert(d, p)
           \/ \E s \in {"REFUNDED", "REFUND_PENDING"} : RefundAccepted(d, s)
           \/ RefundRefused(d)
           \/ RefundSave(d)
<1>1. ASSUME NEW c \in Calls, NEW s, Become(c, s), c # d
      PROVE  call'[d] = call[d]
  BY <1>1 DEF Become, TypeOK
<1>2. ASSUME Become(d, Idle)
      PROVE  call'[d].op \in {"idle", "initiate"}
  BY <1>2 DEF Become, TypeOK, Idle
<1>3. ASSUME NEW c \in Calls, Initiate(c)
      PROVE  call'[d] = call[d] \/ call'[d].op \in {"idle", "initiate"}
  <2>1. CASE \E o \in Orders, k \in Keys, m \in Method : InitiateRead(c, o, k, m)
    BY <2>1, <1>1 DEF InitiateRead, Become, TypeOK
  <2>2. CASE InitiateCheckPaid(c)
    <3>1. Become(c, Idle) \/ Become(c, [call[c] EXCEPT !.pc = "checkKey"])
      BY <2>2 DEF InitiateCheckPaid
    <3>2. call[c] \in InitiateCall
      BY <2>2, CallByOp DEF InitiateCheckPaid, At, TypeOK
    <3>3. [call[c] EXCEPT !.pc = "checkKey"].op = "initiate"
      BY <3>2 DEF InitiateCall
    <3> QED
      BY <3>1, <3>3, <1>1, <1>2 DEF Become, TypeOK
  <2>3. CASE InitiateCheckKey(c)
    <3>1. Become(c, Idle) \/ Become(c, [call[c] EXCEPT !.pc = "commit"])
      BY <2>3 DEF InitiateCheckKey
    <3>2. call[c] \in InitiateCall
      BY <2>3, CallByOp DEF InitiateCheckKey, At, TypeOK
    <3>3. [call[c] EXCEPT !.pc = "commit"].op = "initiate"
      BY <3>2 DEF InitiateCall
    <3> QED
      BY <3>1, <3>3, <1>1, <1>2 DEF Become, TypeOK
  <2>4. CASE \E p \in Payments : CommitOnline(c, p) \/ CommitCod(c, p)
    BY <2>4, <1>1, <1>2 DEF CommitOnline, CommitCod
  <2> QED
    BY <1>3, <2>1, <2>2, <2>3, <2>4 DEF Initiate
<1>4. ASSUME NEW c \in Calls, Webhook(c)
      PROVE  \/ call'[d] = call[d]
             \/ call'[d].op \in {"idle", "initiate"}
             \/ \E e \in Events : WebhookReceive(d, e)
             \/ WebhookReject(d)
  BY <1>1, <1>2, <1>4
     DEF Webhook, WebhookReceive, WebhookApply, WebhookReject, WebhookFail
<1>5. ASSUME NEW c \in Calls, Reconcile(c)
      PROVE  \/ call'[d] = call[d]
             \/ call'[d].op \in {"idle", "initiate"}
             \/ \E p \in Payments : ReconcileFetch(d, p)
  BY <1>1, <1>2, <1>5 DEF Reconcile, ReconcileFetch, ReconcileCommit
<1>6. ASSUME NEW c \in Calls, Update(c)
      PROVE  \/ call'[d] = call[d]
             \/ call'[d].op \in {"idle", "initiate"}
             \/ \E o \in Orders, to \in OrderStatus :
                   /\ UpdateRead(d, o, to)
                   /\ CancelRead(d, o) \/ ShopRead(d, o, to)
  <2>1. CASE \E o \in Orders : CancelRead(c, o)
    <3> PICK o \in Orders : CancelRead(c, o)
      BY <2>1
    <3>1. UpdateRead(c, o, "CANCELLED") /\ "CANCELLED" \in OrderStatus
      BY DEF CancelRead, OrderStatus
    <3> QED
      BY <3>1, <1>1 DEF UpdateRead
  <2>2. CASE \E o \in Orders, to \in OrderStatus : ShopRead(c, o, to)
    BY <2>2, <1>1 DEF ShopRead, UpdateRead
  <2>3. CASE UpdateCommit(c)
    BY <2>3, <1>1, <1>2 DEF UpdateCommit
  <2> QED
    BY <1>6, <2>1, <2>2, <2>3 DEF Update
<1>7. ASSUME NEW c \in Calls, Refund(c)
      PROVE  \/ call'[d] = call[d]
             \/ call'[d].op \in {"idle", "initiate"}
             \/ c = d /\ ~ RefundFail(d) /\ ~ RefundDone(d)
  BY <1>1, <1>2, <1>7
     DEF Refund, RefundStart, RefundExisting, RefundCaptured, RefundInsert,
         RefundAccepted, RefundRefused, RefundSave, RefundFail, RefundDone
<1>8. ASSUME NEW c \in Calls, Abandon(c)
      PROVE  call'[d] = call[d] \/ call'[d].op \in {"idle", "initiate"}
  BY <1>1, <1>2, <1>8 DEF Abandon
<1>9. CASE Provider \/ UNCHANGED vars
  BY <1>9 DEF Provider, CustomerFails, CustomerAuthorizes, CustomerPays,
              ProviderMoves, Emit, vars
<1> QED
  BY <1>3, <1>4, <1>5, <1>6, <1>7, <1>8, <1>9 DEF Next, Refund

\* The slot of a refund in progress keeps its op and its order, or moves on to
\* the next one with the same order.
LEMMA RefundCallChanges ==
    ASSUME TypeOK, NEW d \in Calls
    PROVE  /\ RefundExisting(d) =>
                /\ call[d].op = "refund"
                /\ call'[d].op = "refund"
                /\ call'[d].order = call[d].order
           /\ RefundCaptured(d) =>
                /\ call[d].op = "refund"
                /\ call'[d].order = call[d].order
                /\ \/ call'[d].op = "refund"
                   \/ /\ call'[d].op = "refundInsert"
                      /\ call'[d].paid \in Rows(call[d].order)
                      /\ payment[call'[d].paid].status = "CAPTURED"
           /\ RefundSave(d) \/ RefundRefused(d)
              \/ (\E s \in {"REFUNDED", "REFUND_PENDING"} : RefundAccepted(d, s)) =>
                /\ call[d] \in RefundRowCall
                /\ call'[d].order = call[d].order
                /\ \/ call'[d].op = "refund"
                   \/ /\ call'[d].op = "refundRow"
                      /\ call'[d].pc # "provider"
                      /\ call'[d].row = call[d].row
                      /\ call'[d].paid = call[d].paid
<1> USE DEF TypeOK
<1>1. ASSUME RefundExisting(d)
      PROVE  /\ call[d].op = "refund"
             /\ call'[d].op = "refund"
             /\ call'[d].order = call[d].order
  <2>1. call[d] \in RefundCall
    BY <1>1, CallByOp DEF RefundExisting, At
  <2>2. \E pc \in {"captured", "done"} : call'[d] = [call[d] EXCEPT !.pc = pc]
    BY <1>1 DEF RefundExisting, Become
  <2> QED
    BY <2>1, <2>2 DEF RefundCall
<1>2. ASSUME RefundCaptured(d)
      PROVE  /\ call[d].op = "refund"
             /\ call'[d].order = call[d].order
             /\ \/ call'[d].op = "refund"
                \/ /\ call'[d].op = "refundInsert"
                   /\ call'[d].paid \in Rows(call[d].order)
                   /\ payment[call'[d].paid].status = "CAPTURED"
  <2>1. call[d] \in RefundCall
    BY <1>2, CallByOp DEF RefundCaptured, At
  <2>2. \/ call'[d] = [call[d] EXCEPT !.pc = "done"]
        \/ \E p \in Rows(call[d].order) :
              /\ payment[p].status = "CAPTURED"
              /\ call'[d] = [op |-> "refundInsert", order |-> call[d].order,
                             paid |-> p]
    BY <1>2 DEF RefundCaptured, Become
  <2>3. CASE call'[d] = [call[d] EXCEPT !.pc = "done"]
    BY <2>1, <2>3 DEF RefundCall
  <2>4. ASSUME NEW p \in Rows(call[d].order),
               call'[d] = [op |-> "refundInsert", order |-> call[d].order,
                           paid |-> p]
        PROVE  /\ call'[d].order = call[d].order
               /\ call'[d].op = "refundInsert"
               /\ call'[d].paid = p
    BY <2>4
  <2>5. call[d].op = "refund"
    BY <2>1 DEF RefundCall
  <2> QED
    BY <2>2, <2>3, <2>4, <2>5
<1>3. ASSUME \/ RefundSave(d)
             \/ RefundRefused(d)
             \/ \E s \in {"REFUNDED", "REFUND_PENDING"} : RefundAccepted(d, s)
      PROVE  /\ call[d] \in RefundRowCall
             /\ call'[d].order = call[d].order
             /\ \/ call'[d].op = "refund"
                \/ /\ call'[d].op = "refundRow"
                   /\ call'[d].pc # "provider"
                   /\ call'[d].row = call[d].row
                   /\ call'[d].paid = call[d].paid
  <2>1. call[d] \in RefundRowCall
    BY <1>3, CallByOp DEF RefundSave, RefundRefused, RefundAccepted, At
  <2>2. CASE RefundSave(d)
    <3>1. \/ call'[d] = [call[d] EXCEPT !.pc = "fail"]
          \/ call'[d] = [op |-> "refund", pc |-> "done", order |-> call[d].order]
      BY <2>2 DEF RefundSave, Become
    <3> QED
      BY <2>1, <3>1 DEF RefundRowCall
  <2>3. CASE RefundRefused(d)
    <3>1. call'[d] = [call[d] EXCEPT !.pc = "fail"]
      BY <2>3 DEF RefundRefused, Become
    <3> QED
      BY <2>1, <3>1 DEF RefundRowCall
  <2>4. CASE \E s \in {"REFUNDED", "REFUND_PENDING"} : RefundAccepted(d, s)
    <3>1. \E s \in {"REFUNDED", "REFUND_PENDING"} :
             call'[d] = [call[d] EXCEPT !.pc = "save", !.result = s]
      BY <2>4 DEF RefundAccepted, Become
    <3> QED
      BY <2>1, <3>1 DEF RefundRowCall
  <2> QED
    BY <1>3, <2>1, <2>2, <2>3, <2>4
<1> QED
  BY <1>1, <1>2, <1>3

LEMMA CallReferenceStep ==
    ASSUME TypeOK, ReferencesHold, RowsStand, [Next]_vars, NEW d \in Calls
    PROVE  CallReference(d)'
<1> USE DEF TypeOK
<1>1. CASE call'[d] = call[d]
  BY <1>1, CallReferenceStays
<1>2. CASE call'[d].op \in {"idle", "initiate", "update", "refund"}
  BY <1>2 DEF CallReference
<1>3. CASE \E o \in Orders, to \in OrderStatus : UpdateRead(d, o, to)
  BY <1>2, <1>3 DEF UpdateRead, Become
<1>4. CASE \E e \in Events : WebhookReceive(d, e)
  BY <1>4 DEF WebhookReceive, Become, CallReference
<1>5. CASE WebhookReject(d)
  <2>1. call[d] \in WebhookCall
    BY <1>5, CallByOp DEF WebhookReject, At
  <2>2. call'[d].op = "webhook" /\ call'[d].event = call[d].event
    BY <1>5, <2>1 DEF WebhookReject, Become, WebhookCall
  <2>3. webhook[call[d].event] # NoEvent /\ webhook' = webhook
    BY <1>5, <2>1 DEF WebhookReject, ReferencesHold, CallReference, WebhookCall
  <2> QED
    BY <2>2, <2>3 DEF CallReference
<1>6. CASE \E p \in Payments : ReconcileFetch(d, p)
  BY <1>6 DEF ReconcileFetch, Become, CallReference
<1>7. CASE (\E o \in Orders : RefundStart(d, o)) \/ RefundExisting(d)
  BY <1>2, <1>7, RefundCallChanges DEF RefundStart, Become
<1>8. CASE RefundCaptured(d)
  <2>1. payment' = payment
    BY <1>8 DEF RefundCaptured
  <2>2. ASSUME NEW p \in Rows(call[d].order), payment[p].status = "CAPTURED"
        PROVE  payment[p].method = "ONLINE"
    BY <2>2 DEF Rows, RowsStand, RowStands, PaymentRow, Method
  <2> QED
    BY <1>2, <1>8, <2>1, <2>2, RefundCallChanges DEF CallReference, Rows
<1>9. CASE \E p \in Payments : RefundInsert(d, p)
  <2> PICK p \in Payments : RefundInsert(d, p)
    BY <1>9
  <2>1. /\ call'[d].op = "refundRow"
        /\ call'[d].row = p
        /\ call'[d].order = call[d].order
        /\ call'[d].paid = call[d].paid
    BY DEF RefundInsert, Become
  <2>2. call[d] \in RefundInsertCall /\ payment[call[d].paid] \in PaymentRow
    BY CallByOp DEF RefundInsert, RefundInsertCall, ReferencesHold, CallReference
  <2>3. /\ payment'[p] = [order |-> call[d].order, key |-> RefundKey,
                          method |-> payment[call[d].paid].method,
                          session |-> FALSE, status |-> "CREATED"]
        /\ payment'[p] \in PaymentRow
    BY <2>2 DEF RefundInsert, RefundInsertCall, PaymentRow, PaymentStatus
  <2>4. /\ payment'[p] # NoRow
        /\ payment'[p].order = call[d].order
        /\ payment'[p].key = RefundKey
    <3>1. payment'[p] # NoRow
      BY <2>3, NoRowAssumption, Zenon
    <3> HIDE DEF TypeOK
    <3> QED
      BY <2>3, <3>1
  <2>5. /\ payment'[call[d].paid] # NoRow
        /\ payment'[call[d].paid].order = call[d].order
        /\ payment'[call[d].paid].method = "ONLINE"
    <3>1. /\ call[d].paid \in Payments
          /\ payment[call[d].paid] # NoRow
          /\ payment[call[d].paid].order = call[d].order
          /\ payment[call[d].paid].method = "ONLINE"
      BY <2>2 DEF RefundInsert, RefundInsertCall, ReferencesHold, CallReference
    <3> QED
      BY <3>1, RowsStay
  <2> QED
    BY <2>1, <2>4, <2>5 DEF CallReference
<1>10. CASE \/ \E s \in {"REFUNDED", "REFUND_PENDING"} : RefundAccepted(d, s)
            \/ RefundRefused(d)
            \/ RefundSave(d)
  <2>1. /\ call[d].row \in Payments /\ call[d].paid \in Payments
        /\ call[d].op = "refundRow"
    BY <1>10, RefundCallChanges DEF RefundRowCall
  <2>2. /\ payment'[call[d].paid] # NoRow
        /\ payment'[call[d].paid].order = call[d].order
        /\ payment'[call[d].paid].method = "ONLINE"
        /\ payment'[call[d].row] # NoRow
        /\ payment'[call[d].row].order = call[d].order
        /\ payment'[call[d].row].key = RefundKey
    BY <2>1, RowsStay DEF CallReference, ReferencesHold
  <2> QED
    BY <1>2, <1>10, <2>2, RefundCallChanges DEF CallReference
<1> QED
  BY <1>1, <1>2, <1>3, <1>4, <1>5, <1>6, <1>7, <1>8, <1>9, <1>10, CallChanges

LEMMA ReferencesStep ==
    ASSUME TypeOK, ReferencesHold, RowsStand, [Next]_vars
    PROVE  ReferencesHold'
  BY MoneyStays, EventReferenceStep, CallReferenceStep DEF ReferencesHold

LEMMA ReadsStep ==
    ASSUME TypeOK, ReferencesHold, ReadsAreVersioned, [Next]_vars,
           NEW d \in Calls
    PROVE  ReadIsVersioned(d)'
<1> USE DEF TypeOK
<1>1. CASE call'[d] = call[d] /\ call[d].op = "update"
  <2> DEFINE mine == call[d]
             o == mine.order
  <2>1. mine \in UpdateCall
    BY <1>1, CallByOp
  <2>2. /\ o \in Orders
        /\ mine.version \in Nat
        /\ order[o].version \in Nat
    BY <2>1 DEF UpdateCall
  <2>3. order'[o] = order[o] \/ order'[o].version = order[o].version + 1
    <3>1. ASSUME NEW q \in Orders, NEW s \in OrderStatus, OrderMoves(q, s)
          PROVE  order'[o] = order[o] \/ order'[o].version = order[o].version + 1
      BY <2>2, <3>1, SetStatusType DEF OrderMoves
    <3> QED
      BY <3>1, OrdersMove
  <2> QED
    BY <1>1, <2>2, <2>3 DEF ReadsAreVersioned, ReadIsVersioned
<1>2. CASE call'[d].op # "update"
  BY <1>2 DEF ReadIsVersioned
<1>3. ASSUME NEW o \in Orders, NEW to \in OrderStatus, UpdateRead(d, o, to),
             CancelRead(d, o) \/ ShopRead(d, o, to)
      PROVE  ReadIsVersioned(d)'
  <2>1. /\ call'[d].order = o
        /\ call'[d].to = to
        /\ call'[d].seen = order[o].status
        /\ call'[d].version = order[o].version
        /\ order' = order
    BY <1>3 DEF UpdateRead, Become
  <2>2. \/ <<order[o].status, to>> \in ShopTransitions
        \/ order[o].status \in CustomerCancellable /\ to = "CANCELLED"
    <3>1. CASE CancelRead(d, o)
      <4>1. call'[d].to = "CANCELLED"
        BY <3>1 DEF CancelRead, UpdateRead, Become
      <4> QED
        BY <2>1, <3>1, <4>1 DEF CancelRead
    <3>2. CASE ShopRead(d, o, to)
      BY <3>2 DEF ShopRead
    <3> QED
      BY <1>3, <3>1, <3>2
  <2>3. order[o].version \in Nat
    OBVIOUS
  <2> QED
    BY <2>1, <2>2, <2>3 DEF ReadIsVersioned
<1>4. \/ call'[d] = call[d]
      \/ call'[d].op # "update"
      \/ \E o \in Orders, to \in OrderStatus :
            UpdateRead(d, o, to) /\ (CancelRead(d, o) \/ ShopRead(d, o, to))
  <2>1. ASSUME WebhookReject(d)
        PROVE  call'[d].op # "update"
    <3>1. call[d] \in WebhookCall
      BY <2>1, CallByOp DEF WebhookReject, At
    <3>2. call'[d] = [call[d] EXCEPT !.pc = "fail"]
      BY <2>1 DEF WebhookReject, Become
    <3> QED
      BY <3>1, <3>2 DEF WebhookCall
  <2>2. ASSUME \/ \E e \in Events : WebhookReceive(d, e)
               \/ \E p \in Payments : ReconcileFetch(d, p)
               \/ \E o \in Orders : RefundStart(d, o)
               \/ \E p \in Payments : RefundInsert(d, p)
        PROVE  call'[d].op # "update"
    <3>1. CASE \E e \in Events : WebhookReceive(d, e)
      BY <3>1 DEF WebhookReceive, Become
    <3>2. CASE \E p \in Payments : ReconcileFetch(d, p)
      BY <3>2 DEF ReconcileFetch, Become
    <3>3. CASE \E o \in Orders : RefundStart(d, o)
      BY <3>3 DEF RefundStart, Become
    <3>4. CASE \E p \in Payments : RefundInsert(d, p)
      BY <3>4 DEF RefundInsert, Become
    <3> QED
      BY <2>2, <3>1, <3>2, <3>3, <3>4
  <2> QED
    BY <2>1, <2>2, CallChanges, RefundCallChanges
<1> QED
  BY <1>1, <1>2, <1>3, <1>4

\* Where a refund in a slot comes from.
LEMMA RefundCallOrigin ==
    ASSUME TypeOK, [Next]_vars, NEW d \in Calls, call'[d].op \in RefundOps
    PROVE  \/ call[d].op \in RefundOps /\ call'[d].order = call[d].order
           \/ \E o \in Orders : RefundStart(d, o)
<1> USE DEF RefundOps
<1>1. CASE WebhookReject(d)
  <2>1. call[d] \in WebhookCall
    BY <1>1, CallByOp DEF WebhookReject, At, TypeOK
  <2>2. call'[d] = [call[d] EXCEPT !.pc = "fail"]
    BY <1>1 DEF WebhookReject, Become, TypeOK
  <2> QED
    BY <2>1, <2>2 DEF WebhookCall
<1>2. CASE \E o \in Orders, to \in OrderStatus : UpdateRead(d, o, to)
  BY <1>2 DEF UpdateRead, Become, TypeOK
<1>3. CASE \E e \in Events : WebhookReceive(d, e)
  BY <1>3 DEF WebhookReceive, Become, TypeOK
<1>4. CASE \E p \in Payments : ReconcileFetch(d, p)
  BY <1>4 DEF ReconcileFetch, Become, TypeOK
<1>5. CASE \E p \in Payments : RefundInsert(d, p)
  BY <1>5 DEF RefundInsert, Become, TypeOK
<1>6. CASE \/ RefundExisting(d) \/ RefundCaptured(d) \/ RefundSave(d)
           \/ RefundRefused(d)
           \/ \E s \in {"REFUNDED", "REFUND_PENDING"} : RefundAccepted(d, s)
  BY <1>6, RefundCallChanges DEF RefundRowCall
<1> QED
  BY <1>1, <1>2, <1>3, <1>4, <1>5, <1>6, CallChanges

LEMMA RefundRowOrigin ==
    ASSUME TypeOK, [Next]_vars, NEW d \in Calls, call'[d].op = "refundRow"
    PROVE  \/ /\ call[d].op = "refundRow"
              /\ call'[d].row = call[d].row
              /\ call'[d].order = call[d].order
              /\ call'[d].pc = "provider" => call'[d] = call[d]
           \/ \E p \in Payments : RefundInsert(d, p)
<1>1. CASE WebhookReject(d)
  <2>1. call[d] \in WebhookCall
    BY <1>1, CallByOp DEF WebhookReject, At, TypeOK
  <2>2. call'[d] = [call[d] EXCEPT !.pc = "fail"]
    BY <1>1 DEF WebhookReject, Become, TypeOK
  <2> QED
    BY <2>1, <2>2 DEF WebhookCall
<1>2. CASE \E o \in Orders, to \in OrderStatus : UpdateRead(d, o, to)
  BY <1>2 DEF UpdateRead, Become, TypeOK
<1>3. CASE \E e \in Events : WebhookReceive(d, e)
  BY <1>3 DEF WebhookReceive, Become, TypeOK
<1>4. CASE \E p \in Payments : ReconcileFetch(d, p)
  BY <1>4 DEF ReconcileFetch, Become, TypeOK
<1>5. CASE \E o \in Orders : RefundStart(d, o)
  BY <1>5 DEF RefundStart, Become, TypeOK
<1>6. CASE \/ RefundExisting(d) \/ RefundCaptured(d) \/ RefundSave(d)
           \/ RefundRefused(d)
           \/ \E s \in {"REFUNDED", "REFUND_PENDING"} : RefundAccepted(d, s)
  BY <1>6, RefundCallChanges DEF RefundRowCall
<1> QED
  BY <1>1, <1>2, <1>3, <1>4, <1>5, <1>6, CallChanges

\* Only an accepted refund is counted.
LEMMA RefundsCounted ==
    ASSUME TypeOK, [Next]_vars
    PROVE  \/ refunds' = refunds
           \/ \E c \in Calls, s \in {"REFUNDED", "REFUND_PENDING"} :
                 RefundAccepted(c, s)
<1>1. ASSUME NEW c \in Calls,
             Initiate(c) \/ Webhook(c) \/ Reconcile(c) \/ Update(c) \/ Abandon(c)
      PROVE  refunds' = refunds
  <2>1. CASE Initiate(c) \/ Webhook(c)
    BY <2>1 DEF Initiate, InitiateRead, InitiateCheckPaid, InitiateCheckKey,
      CommitOnline, CommitCod, Webhook, WebhookReceive, WebhookApply,
      WebhookReject, WebhookFail
  <2>2. CASE Reconcile(c) \/ Update(c) \/ Abandon(c)
    BY <2>2 DEF Reconcile, ReconcileFetch, ReconcileCommit, Update, CancelRead,
      ShopRead, UpdateRead, UpdateCommit, Abandon
  <2> QED
    BY <1>1, <2>1, <2>2
<1>2. ASSUME NEW c \in Calls, Refund(c)
      PROVE  \/ refunds' = refunds
             \/ \E s \in {"REFUNDED", "REFUND_PENDING"} : RefundAccepted(c, s)
  BY <1>2 DEF Refund, RefundStart, RefundExisting, RefundCaptured,
      RefundInsert, RefundRefused, RefundSave, RefundFail, RefundDone
<1>3. CASE Provider \/ UNCHANGED vars
  BY <1>3 DEF Provider, CustomerFails, CustomerAuthorizes, CustomerPays,
              ProviderMoves, Emit, vars
<1> QED
  BY <1>1, <1>2, <1>3 DEF Next

\* An accepted refund is the first one of its order.
LEMMA RefundAcceptedOnce ==
    ASSUME IInv, NEW c \in Calls, NEW s, RefundAccepted(c, s)
    PROVE  /\ call[c] \in RefundRowCall
           /\ refunds' \in [Orders -> Nat]
           /\ refunds[call[c].order] = 0
           /\ refunds'[call[c].order] = 1
           /\ \A o \in Orders : o # call[c].order => refunds'[o] = refunds[o]
           /\ payment' = payment
           /\ call'[c].pc # "provider"
           /\ \A d \in Calls : d # c => call'[d] = call[d]
<1> USE DEF IInv, TypeOK
<1>1. call[c] \in RefundRowCall
  BY CallByOp DEF RefundAccepted, At
<1>2. refunds[call[c].order] = 0 /\ call[c].order \in Orders
  BY <1>1 DEF RefundAccepted, RefundRowsOwned, RefundRowCall
<1>3. refunds' = [refunds EXCEPT ![call[c].order] = @ + 1]
  BY DEF RefundAccepted
<1>4. call'[c] = [call[c] EXCEPT !.pc = "save", !.result = s]
  BY DEF RefundAccepted, Become
<1>5. call'[c].pc = "save"
  BY <1>1, <1>4 DEF RefundRowCall
<1>6. \A d \in Calls : d # c => call'[d] = call[d]
  BY DEF RefundAccepted, Become
<1> QED
  BY <1>1, <1>2, <1>3, <1>5, <1>6 DEF RefundAccepted

-----------------------------------------------------------------------------
(* Rows stand *)

\* Who writes to the table payments.
LEMMA PaymentWriters ==
    ASSUME [Next]_vars
    PROVE  \/ payment' = payment
           \/ \E c \in Calls :
                 \/ \E p \in Payments :
                       CommitOnline(c, p) \/ CommitCod(c, p) \/ RefundInsert(c, p)
                 \/ WebhookApply(c)
                 \/ ReconcileCommit(c)
                 \/ RefundSave(c)
                 \/ RefundFail(c)
<1>1. CASE \E c \in Calls : Initiate(c)
  BY <1>1 DEF Initiate, InitiateRead, InitiateCheckPaid, InitiateCheckKey
<1>2. CASE \E c \in Calls : Webhook(c) \/ Reconcile(c)
  BY <1>2 DEF Webhook, WebhookReceive, WebhookReject, WebhookFail, Reconcile,
              ReconcileFetch
<1>3. CASE \E c \in Calls : Update(c) \/ Abandon(c)
  BY <1>3 DEF Update, CancelRead, ShopRead, UpdateRead, UpdateCommit, Abandon
<1>4. CASE \E c \in Calls : Refund(c)
  BY <1>4 DEF Refund, RefundStart, RefundExisting, RefundCaptured,
              RefundAccepted, RefundRefused, RefundDone
<1>5. CASE Provider \/ UNCHANGED vars
  BY <1>5 DEF Provider, CustomerFails, CustomerAuthorizes, CustomerPays,
              ProviderMoves, Emit, vars
<1> QED
  BY <1>1, <1>2, <1>3, <1>4, <1>5 DEF Next

\* A change of status leaves the other columns, and the other rows, alone.
LEMMA StatusWritten ==
    ASSUME TypeOK, NEW q \in Payments, NEW s \in PaymentStatus, SetsStatus(q, s)
    PROVE  /\ payment'[q] \in PaymentRow
           /\ payment[q] \in PaymentRow
           /\ payment'[q].order = payment[q].order
           /\ payment'[q].key = payment[q].key
           /\ payment'[q].method = payment[q].method
           /\ payment'[q].session = payment[q].session
           /\ payment'[q].status = s
           /\ \A p \in Payments : p # q => payment'[p] = payment[p]
<1>1. payment[q] \in PaymentRow
  BY DEF TypeOK, SetsStatus
<1>2. /\ payment'[q] = [payment[q] EXCEPT !.status = s]
      /\ \A p \in Payments : p # q => payment'[p] = payment[p]
  BY <1>1, SetRowStatus DEF SetsStatus, TypeOK
<1> QED
  BY <1>1, <1>2 DEF PaymentRow

\* Where an order may have come from.
LEMMA OrderBefore ==
    ASSUME IInv, [Next]_vars, NEW o \in Orders
    PROVE  /\ order'[o].status = "CREATED" => order[o].status = "CREATED"
           /\ order'[o].status = "PAYMENT_PENDING"
              => order[o].status \in {"CREATED", "PAYMENT_PENDING"}
           /\ order'[o].status = "PAYMENT_FAILED"
              => order[o].status \in {"PAYMENT_PENDING", "PAYMENT_FAILED"}
           /\ order[o].status = "CANCELLED" => order'[o].status = "CANCELLED"
<1> USE DEF IInv
<1>1. ASSUME NEW q \in Orders, NEW s \in OrderStatus, OrderMoves(q, s)
      PROVE  order'[o] = order[o] \/ <<order[o].status, order'[o].status>> \in Moves
  BY <1>1, SetStatusType DEF OrderMoves, TypeOK
<1>2. order'[o] = order[o] \/ <<order[o].status, order'[o].status>> \in Moves
  BY <1>1, OrdersMove
<1> HIDE DEF IInv
<1> QED
  BY <1>2 DEF Moves, ShopTransitions, CustomerCancellable

\* A session the provider has refunded is counted for the order of its row.
LEMMA RefundedIsCounted ==
    ASSUME IInv, [Next]_vars, NEW p \in Payments, provider'[p] = "refunded",
           payment[p] # NoRow
    PROVE  refunds'[payment[p].order] > 0
<1> USE DEF IInv, TypeOK
<1>0. payment[p].order \in Orders
  BY DEF PaymentRow
<1>1. ASSUME NEW o \in Orders, refunds[o] > 0
      PROVE  refunds'[o] > 0
  BY <1>1, RefundsCounted, RefundAcceptedOnce
<1>2. CASE provider[p] = "refunded"
  BY <1>0, <1>1, <1>2 DEF RowsStand, RowStands
<1>3. ASSUME NEW c \in Calls, NEW s \in {"REFUNDED", "REFUND_PENDING"},
             RefundAccepted(c, s), provider[p] # "refunded"
      PROVE  refunds'[payment[p].order] > 0
  <2>1. call[c].paid = p
    BY <1>3 DEF RefundAccepted
  <2>2. payment[p].order = call[c].order
    BY <1>3, <2>1 DEF RefundAccepted, At, ReferencesHold, CallReference
  <2> QED
    BY <1>3, <2>2, RefundAcceptedOnce
<1>4. ASSUME provider[p] # "refunded"
      PROVE  \E c \in Calls, s \in {"REFUNDED", "REFUND_PENDING"} :
                RefundAccepted(c, s)
  <2>1. provider'[p] # provider[p]
    BY <1>4
  <2>2. CASE Provider
    BY <2>1, <2>2 DEF Provider, CustomerFails, CustomerAuthorizes, CustomerPays,
                      ProviderMoves, Emit
  <2>3. CASE \E c \in Calls, q \in Payments : CommitOnline(c, q)
    BY <2>1, <2>3 DEF CommitOnline
  <2> QED
    BY <2>1, <2>2, <2>3 DEF Next, vars, Abandon,
      Initiate, InitiateRead, InitiateCheckPaid, InitiateCheckKey, CommitCod,
      Webhook, WebhookReceive, WebhookApply, WebhookReject, WebhookFail,
      Reconcile, ReconcileFetch, ReconcileCommit,
      Update, CancelRead, ShopRead, UpdateRead, UpdateCommit,
      Refund, RefundStart, RefundExisting, RefundCaptured, RefundInsert,
      RefundRefused, RefundSave, RefundFail, RefundDone
<1> QED
  BY <1>2, <1>3, <1>4

\* A row keeps standing while no step writes to it.
LEMMA UntouchedStands ==
    ASSUME IInv, [Next]_vars, NEW p \in Payments, payment'[p] = payment[p]
    PROVE  RowStands(p)'
<1> SUFFICES ASSUME payment[p] # NoRow
             PROVE  RowStands(p)'
  BY DEF RowStands
<1> DEFINE o == payment[p].order
<1>1. RowStands(p) /\ payment[p] \in PaymentRow /\ o \in Orders
  BY DEF IInv, RowsStand, TypeOK, PaymentRow
<1>2. provider[p] = "none" <=> provider'[p] = "none"
  BY MoneyStays DEF IInv
<1>3. provider'[p] = "refunded" => refunds'[o] > 0
  BY RefundedIsCounted
<1> HIDE DEF o
<1> QED
  BY <1>1, <1>2, <1>3, OrderBefore DEF RowStands, o

\* ... and when its status becomes one that suits the order.
LEMMA WrittenStands ==
    ASSUME IInv, [Next]_vars, NEW q \in Payments, NEW s \in PaymentStatus,
           SetsStatus(q, s),
           payment[q].method = "ONLINE",
           order'[payment[q].order].status # "CANCELLED" =>
              s \in {"PENDING", "AUTHORIZED", "CAPTURED", "FAILED"},
           order'[payment[q].order].status = "PAYMENT_PENDING" =>
              s \in {"PENDING", "AUTHORIZED"},
           NEW p \in Payments
    PROVE  RowStands(p)'
<1>1. CASE p # q
  BY <1>1, UntouchedStands, StatusWritten DEF IInv
<1>2. CASE p = q
  <2> DEFINE o == payment[q].order
  <2>0. payment[q] # NoRow
    BY DEF SetsStatus
  <2>1. RowStands(q) /\ o \in Orders
    BY StatusWritten DEF IInv, RowsStand, PaymentRow
  <2>2. provider[q] = "none" <=> provider'[q] = "none"
    BY <2>0, MoneyStays DEF IInv
  <2>3. provider'[q] = "refunded" => refunds'[o] > 0
    BY <2>0, RefundedIsCounted
  <2>4. /\ payment'[q].order = o
        /\ payment'[q].key = payment[q].key
        /\ payment'[q].method = payment[q].method
        /\ payment'[q].session = payment[q].session
        /\ payment'[q].status = s
    BY StatusWritten DEF IInv
  <2> QED
    BY <1>2, <2>0, <2>1, <2>2, <2>3, <2>4, OrderBefore DEF RowStands
<1> QED
  BY <1>1, <1>2

\* The three rows that are ever inserted.
LEMMA OnlineStands ==
    ASSUME IInv, [Next]_vars, NEW c \in Calls, NEW q \in Payments,
           CommitOnline(c, q), NEW p \in Payments
    PROVE  /\ RowStands(p)'
           /\ payment'[q] # NoRow
           /\ payment'[q].order = call[c].order
           /\ payment'[q].method = "ONLINE"
<1> DEFINE o == call[c].order
           row == [order |-> o, key |-> call[c].key, method |-> "ONLINE",
                   session |-> TRUE, status |-> "PENDING"]
<1>1. call[c] \in InitiateCall /\ o \in Orders
  BY CallByOp DEF IInv, TypeOK, CommitOnline, At, InitiateCall
<1>2. /\ payment[q] = NoRow
      /\ payment' = [payment EXCEPT ![q] = row]
      /\ provider' = [provider EXCEPT ![q] = "created"]
  BY DEF CommitOnline
<1>3. payment'[q] = row /\ provider'[q] = "created"
  BY <1>2 DEF IInv, TypeOK
<1>4. row \in PaymentRow /\ row.key # RefundKey
  BY <1>1, RefundKeyAssumption
     DEF InitiateCall, PaymentRow, Method, PaymentStatus
<1>5. row # NoRow
  BY <1>4, NoRowAssumption, Zenon
<1>6. order'[o].status # "CREATED"
  BY <1>1, SetStatusType DEF CommitOnline, OrderStatus, IInv, TypeOK
<1>7. ASSUME p # q PROVE RowStands(p)'
  <2>1. payment'[p] = payment[p]
    BY <1>2, <1>7 DEF IInv, TypeOK
  <2> QED
    BY <2>1, UntouchedStands
<1>8. ASSUME p = q PROVE RowStands(p)'
  BY <1>3, <1>4, <1>5, <1>6, <1>8 DEF RowStands
<1> QED
  BY <1>3, <1>5, <1>7, <1>8

LEMMA CodStands ==
    ASSUME IInv, [Next]_vars, NEW c \in Calls, NEW q \in Payments,
           CommitCod(c, q), NEW p \in Payments
    PROVE  /\ RowStands(p)'
           /\ order[call[c].order].status = "CREATED"
           /\ payment'[q] # NoRow
           /\ payment'[q].order = call[c].order
           /\ payment'[q].method = "COD"
<1> DEFINE o == call[c].order
           row == [order |-> o, key |-> call[c].key, method |-> "COD",
                   session |-> FALSE, status |-> "PENDING"]
<1>1. call[c] \in InitiateCall /\ o \in Orders
  BY CallByOp DEF IInv, TypeOK, CommitCod, At, InitiateCall
<1>2. /\ payment[q] = NoRow
      /\ payment' = [payment EXCEPT ![q] = row]
      /\ provider' = provider
  BY DEF CommitCod
<1>3. payment'[q] = row /\ provider'[q] = "none"
  BY <1>2 DEF IInv, TypeOK, ReferencesHold
<1>4. row \in PaymentRow /\ row.key # RefundKey
  BY <1>1, RefundKeyAssumption
     DEF InitiateCall, PaymentRow, Method, PaymentStatus
<1>5. row # NoRow
  BY <1>4, NoRowAssumption, Zenon
<1>6. order'[o].status = "PLACED"
  BY <1>1, SetStatusType DEF CommitCod, OrderStatus, IInv, TypeOK
<1>7. ASSUME p # q PROVE RowStands(p)'
  <2>1. payment'[p] = payment[p]
    BY <1>2, <1>7 DEF IInv, TypeOK
  <2> QED
    BY <2>1, UntouchedStands
<1>8. ASSUME p = q PROVE RowStands(p)'
  <2>1. /\ payment'[p].order = o
        /\ payment'[p].key # RefundKey
        /\ payment'[p].method = "COD"
        /\ payment'[p].session = FALSE
        /\ payment'[p].status = "PENDING"
        /\ provider'[p] = "none"
    BY <1>3, <1>4, <1>8
  <2> HIDE DEF row, o
  <2> QED
    BY <1>6, <2>1 DEF RowStands
<1>9. order[o].status = "CREATED"
  BY <1>1 DEF CommitCod, ValidTransition, ValidTransitions
<1> QED
  BY <1>3, <1>5, <1>7, <1>8, <1>9

LEMMA RefundRowStands ==
    ASSUME IInv, [Next]_vars, NEW c \in Calls, NEW q \in Payments,
           RefundInsert(c, q), NEW p \in Payments
    PROVE  /\ RowStands(p)'
           /\ payment'[q].method = "ONLINE"
<1> DEFINE o == call[c].order
           row == [order |-> o, key |-> RefundKey,
                   method |-> payment[call[c].paid].method,
                   session |-> FALSE, status |-> "CREATED"]
<1>1. call[c] \in RefundInsertCall /\ o \in Orders
  BY CallByOp DEF IInv, TypeOK, RefundInsert, RefundInsertCall
<1>2. /\ payment[q] = NoRow
      /\ payment' = [payment EXCEPT ![q] = row]
      /\ provider' = provider
  BY DEF RefundInsert
<1>3. payment'[q] = row /\ provider'[q] = "none"
  BY <1>2 DEF IInv, TypeOK, ReferencesHold
<1>4. payment[call[c].paid].method = "ONLINE"
  BY DEF RefundInsert, IInv, ReferencesHold, CallReference
<1>5. order'[o].status = "CANCELLED"
  BY <1>1, OrderBefore
     DEF RefundInsert, IInv, RefundsAreForCancelled, RefundOps
<1>6. ASSUME p # q PROVE RowStands(p)'
  <2>1. payment'[p] = payment[p]
    BY <1>2, <1>6 DEF IInv, TypeOK
  <2> QED
    BY <2>1, UntouchedStands
<1>7. ASSUME p = q PROVE RowStands(p)'
  BY <1>3, <1>4, <1>5, <1>7 DEF RowStands
<1> QED
  BY <1>3, <1>4, <1>6, <1>7

\* The webhook, and its effect on the order.
LEMMA WebhookStands ==
    ASSUME IInv, [Next]_vars, NEW c \in Calls, WebhookApply(c), NEW p \in Payments
    PROVE  RowStands(p)'
<1> USE DEF IInv
<1> DEFINE e == call[c].event
           q == webhook[e].payment
           o == payment[q].order
           s == webhook[e].status
           t == IF Stale(payment[q].status, s) THEN payment[q].status ELSE s
<1>1. e \in Events /\ webhook[e] # NoEvent
  BY CallByOp DEF WebhookApply, At, WebhookCall, TypeOK, ReferencesHold,
                  CallReference
<1>2. /\ q \in Payments /\ s \in EventStatus
      /\ payment[q] # NoRow
      /\ provider[q] # "none"
      /\ s \in {"REFUNDED", "PENDING"} => provider[q] = "refunded"
  BY <1>1 DEF TypeOK, ReferencesHold, EventReference, ProviderEvent
<1>3. RowStands(q) /\ payment[q] \in PaymentRow /\ o \in Orders
  BY <1>2 DEF RowsStand, TypeOK, PaymentRow
<1>4. payment' = [payment EXCEPT ![q].status = t] /\ WithinIndexes(payment')
  BY <1>1, <1>2 DEF WebhookApply, Applied
<1>5. t \in PaymentStatus
  BY <1>2, <1>3 DEF PaymentRow, PaymentStatus, EventStatus
<1>6. Settle(o, s)
  BY DEF WebhookApply
<1>7. payment[q].method = "ONLINE"
  BY <1>2, <1>3 DEF RowStands, PaymentRow, Method
<1>8. s \in {"REFUNDED", "PENDING"} => order[o].status = "CANCELLED"
  BY <1>2, <1>3 DEF RowStands, RefundOnlyCancelled
<1>9. order'[o].status # "CANCELLED" =>
         t \in {"PENDING", "AUTHORIZED", "CAPTURED", "FAILED"}
  BY <1>2, <1>3, <1>8, OrderBefore DEF RowStands, EventStatus
<1>10. order'[o].status = "PAYMENT_PENDING" => t \in {"PENDING", "AUTHORIZED"}
  <2> SUFFICES ASSUME order'[o].status = "PAYMENT_PENDING"
               PROVE  t \in {"PENDING", "AUTHORIZED"}
    OBVIOUS
  <2>1. order[o].status = "PAYMENT_PENDING"
    BY <1>2, <1>3, OrderBefore DEF RowStands
  <2>2. payment[q].status \in {"PENDING", "AUTHORIZED"}
    BY <1>2, <1>3, <2>1 DEF RowStands
  <2>3. s \notin {"CAPTURED", "FAILED"}
    BY <1>3, <1>6, <2>1, SetStatusType DEF Settle, OrderStatus, TypeOK
  <2> QED
    BY <1>2, <1>8, <2>1, <2>2, <2>3 DEF EventStatus
<1> HIDE DEF IInv, t, s, q
<1>11. SetsStatus(q, t)
  BY <1>2, <1>4 DEF SetsStatus
<1> QED
  BY <1>2, <1>5, <1>7, <1>9, <1>10, <1>11, WrittenStands

\* The cron.
LEMMA ReconcileStands ==
    ASSUME IInv, [Next]_vars, NEW c \in Calls, ReconcileCommit(c),
           NEW p \in Payments
    PROVE  RowStands(p)'
<1> USE DEF IInv
<1> DEFINE q == call[c].payment
           o == payment[q].order
<1>1. /\ q \in Payments /\ call[c].status = "CAPTURED"
      /\ payment[q] # NoRow
      /\ provider[q] # "none"
  BY CallByOp DEF ReconcileCommit, ReconcileCall, TypeOK, ReferencesHold,
                  CallReference
<1>2. RowStands(q) /\ payment[q] \in PaymentRow /\ o \in Orders
  BY <1>1 DEF RowsStand, TypeOK, PaymentRow
<1>3. payment[q].method = "ONLINE"
  BY <1>1, <1>2 DEF RowStands, PaymentRow, Method
<1>4. CASE payment' = payment
  BY <1>4, UntouchedStands
<1>5. CASE payment' # payment
  <2>1. SetsStatus(q, "CAPTURED") /\ Settle(o, "CAPTURED")
    BY <1>1, <1>5 DEF ReconcileCommit, SetsStatus
  <2>2. order'[o].status # "PAYMENT_PENDING"
    BY <1>1, <1>2, <2>1, OrderBefore, SetStatusType
       DEF Settle, OrderStatus, TypeOK, RowStands
  <2> HIDE DEF IInv, q
  <2> QED
    BY <1>1, <1>3, <2>1, <2>2, WrittenStands DEF PaymentStatus
<1> QED
  BY <1>4, <1>5

\* The two saves of a refund row.
LEMMA RefundSaveStands ==
    ASSUME IInv, [Next]_vars, NEW c \in Calls, RefundSave(c) \/ RefundFail(c),
           NEW p \in Payments
    PROVE  RowStands(p)'
<1> USE DEF IInv
<1> DEFINE q == call[c].row
<1>1. /\ call[c] \in RefundRowCall
      /\ q \in Payments
      /\ payment[q] # NoRow
      /\ payment[q].order = call[c].order
      /\ payment[q].key = RefundKey
  BY CallByOp DEF RefundSave, RefundFail, At, RefundRowCall, TypeOK,
                  ReferencesHold, CallReference
<1>2. payment[q].method = "ONLINE" /\ payment[q].order \in Orders
  BY <1>1 DEF RowsStand, RowStands, RefundRowCall
<1>3. order'[payment[q].order].status = "CANCELLED"
  BY <1>1, <1>2, OrderBefore
     DEF RefundsAreForCancelled, RefundOps, RefundSave, RefundFail, At
<1>4. CASE payment' = payment
  BY <1>4, UntouchedStands
<1>5. CASE payment' # payment
  <2>1. \E s \in PaymentStatus : SetsStatus(q, s)
    BY <1>1, <1>5 DEF RefundSave, RefundFail, RefundRowCall, SetsStatus,
                      PaymentStatus, Successful
  <2> HIDE DEF IInv, q
  <2> QED
    BY <1>1, <1>2, <1>3, <2>1, WrittenStands
<1> QED
  BY <1>4, <1>5

\* Who makes an order wait for its payment.
LEMMA NewlyWaiting ==
    ASSUME IInv, [Next]_vars, NEW o \in Orders,
           order[o].status = "CREATED", order'[o].status = "PAYMENT_PENDING"
    PROVE  \E c \in Calls, q \in Payments :
              CommitOnline(c, q) /\ call[c].order = o
<1> USE DEF IInv
<1>1. ASSUME NEW c \in Calls, NEW q \in Payments, CommitOnline(c, q)
      PROVE  call[c].order = o
  <2>1. call[c].order \in Orders
    BY <1>1, CallByOp DEF CommitOnline, At, InitiateCall, TypeOK
  <2> QED
    BY <1>1, <2>1, SetStatusType DEF CommitOnline, OrderStatus, TypeOK
<1>2. ASSUME NEW c \in Calls, NEW q \in Payments, CommitCod(c, q)
      PROVE  FALSE
  <2>1. call[c].order \in Orders
    BY <1>2, CallByOp DEF CommitCod, At, InitiateCall, TypeOK
  <2> QED
    BY <1>2, <2>1, SetStatusType DEF CommitCod, OrderStatus, TypeOK
<1>3. ASSUME NEW q \in Orders, NEW s, Settle(q, s)
      PROVE  FALSE
  BY <1>3, SetStatusType DEF Settle, OrderStatus, TypeOK
<1>4. ASSUME NEW c \in Calls, WebhookApply(c)
      PROVE  FALSE
  <2>1. call[c].event \in Events /\ webhook[call[c].event] # NoEvent
    BY <1>4, CallByOp DEF WebhookApply, At, WebhookCall, TypeOK, ReferencesHold,
                          CallReference
  <2>2. payment[webhook[call[c].event].payment].order \in Orders
    BY <2>1 DEF TypeOK, ReferencesHold, EventReference, ProviderEvent, PaymentRow
  <2> QED
    BY <1>3, <1>4, <2>2 DEF WebhookApply
<1>5. ASSUME NEW c \in Calls, ReconcileCommit(c)
      PROVE  FALSE
  <2>1. payment[call[c].payment].order \in Orders
    BY <1>5, CallByOp DEF ReconcileCommit, ReconcileCall, TypeOK, ReferencesHold,
                          CallReference, PaymentRow
  <2> QED
    BY <1>3, <1>5, <2>1 DEF ReconcileCommit
<1>6. ASSUME NEW c \in Calls, UpdateCommit(c)
      PROVE  FALSE
  <2>1. call[c] \in UpdateCall /\ call[c].order \in Orders
    BY <1>6, CallByOp DEF UpdateCommit, UpdateCall, TypeOK
  <2>2. Matches(call[c].order, call[c]) /\ SetStatus(call[c].order, call[c].to)
    BY <1>6 DEF UpdateCommit
  <2>3. call[c].to \in OrderStatus /\ call[c].to # "PAYMENT_PENDING"
    BY <1>6, <2>1 DEF UpdateCommit, UpdateCall, ReadsAreVersioned,
                      ReadIsVersioned, ShopTransitions
  <2> QED
    BY <2>1, <2>2, <2>3, SetStatusType DEF TypeOK
<1>7. order' # order
  OBVIOUS
<1>8. CASE \E c \in Calls : Initiate(c)
  BY <1>1, <1>2, <1>7, <1>8 DEF Initiate, InitiateRead, InitiateCheckPaid,
                                InitiateCheckKey
<1>9. CASE \E c \in Calls : Webhook(c) \/ Reconcile(c)
  BY <1>4, <1>5, <1>7, <1>9 DEF Webhook, WebhookReceive, WebhookReject,
                                WebhookFail, Reconcile, ReconcileFetch
<1>10. CASE \E c \in Calls : Update(c) \/ Abandon(c)
  BY <1>6, <1>7, <1>10 DEF Update, CancelRead, ShopRead, UpdateRead, Abandon
<1>11. CASE \E c \in Calls : Refund(c)
  BY <1>7, <1>11 DEF Refund, RefundStart, RefundExisting, RefundCaptured,
     RefundInsert, RefundAccepted, RefundRefused, RefundSave, RefundFail,
     RefundDone
<1>12. CASE Provider \/ UNCHANGED vars
  BY <1>7, <1>12 DEF Provider, CustomerFails, CustomerAuthorizes, CustomerPays,
                     ProviderMoves, Emit, vars
<1> QED
  BY <1>8, <1>9, <1>10, <1>11, <1>12 DEF Next

\* A new row has been inserted by one of the three, and no other row with it.
LEMMA NewRow ==
    ASSUME IInv, [Next]_vars, NEW r \in Payments,
           payment[r] = NoRow, payment'[r] # NoRow
    PROVE  /\ \E c \in Calls :
                 CommitOnline(c, r) \/ CommitCod(c, r) \/ RefundInsert(c, r)
           /\ \A u \in Payments : u # r => payment'[u] = payment[u]
<1>1. payment'[r] # payment[r] /\ payment' # payment
  OBVIOUS
<1>2. ASSUME NEW w \in Payments, NEW s \in PaymentStatus, SetsStatus(w, s)
      PROVE  FALSE
  BY <1>1, <1>2, StatusWritten DEF IInv, SetsStatus
<1>3. PICK w \in Payments, row \in PaymentRow : Inserts(w, row)
  BY <1>1, <1>2, PaymentWrites DEF IInv
<1>4. w = r /\ \A u \in Payments : u # r => payment'[u] = payment[u]
  BY <1>1, <1>3 DEF Inserts, IInv, TypeOK
<1> QED
  BY <1>3, <1>4 DEF Inserts, Inserter

LEMMA RowsStandStep ==
    ASSUME IInv, [Next]_vars
    PROVE  RowsStand'
<1>1. ASSUME NEW p \in Payments
      PROVE  RowStands(p)'
  BY PaymentWriters, UntouchedStands, OnlineStands, CodStands, RefundRowStands,
     WebhookStands, ReconcileStands, RefundSaveStands
<1>2. ASSUME NEW p \in Payments, NEW q \in Payments,
             payment'[p] # NoRow, payment'[p].method = "COD",
             payment'[q] # NoRow, payment'[q].method = "COD",
             payment'[p].order = payment'[q].order
      PROVE  p = q
  <2>1. ASSUME payment[p] # NoRow, payment[q] # NoRow
        PROVE  p = q
    <3>1. /\ payment'[p].order = payment[p].order
          /\ payment'[q].order = payment[q].order
          /\ payment'[p].method = payment[p].method
          /\ payment'[q].method = payment[q].method
      BY <2>1, RowsStay DEF IInv
    <3> QED
      BY <1>2, <2>1, <3>1 DEF IInv, RowsStand
  <2>2. ASSUME NEW r \in Payments, NEW u \in Payments,
               payment[r] = NoRow, payment'[r] # NoRow,
               payment'[r].method = "COD", u # r, payment'[u] # NoRow,
               payment'[u].order = payment'[r].order
        PROVE  FALSE
    <3>1. PICK c \in Calls :
             CommitOnline(c, r) \/ CommitCod(c, r) \/ RefundInsert(c, r)
      BY <2>2, NewRow
    <3>2. payment'[u] = payment[u]
      BY <2>2, NewRow
    <3>3. CommitCod(c, r)
      BY <2>2, <3>1, OnlineStands, RefundRowStands
    <3>4. /\ payment[u] # NoRow
          /\ payment[u].order = call[c].order
          /\ order[call[c].order].status = "CREATED"
      BY <2>2, <3>2, <3>3, CodStands
    <3> QED
      BY <3>4 DEF IInv, RowsStand, RowStands
  <2> QED
    BY <1>2, <2>1, <2>2
<1>3. ASSUME NEW o \in Orders, order'[o].status = "PAYMENT_PENDING"
      PROVE  \E p \in Payments : payment'[p] # NoRow /\ payment'[p].order = o
  <2>1. CASE order[o].status = "PAYMENT_PENDING"
    <3>1. PICK p \in Payments : payment[p] # NoRow /\ payment[p].order = o
      BY <2>1 DEF IInv, RowsStand, Rows
    <3> QED
      BY <3>1, RowsStay DEF IInv
  <2>2. CASE order[o].status = "CREATED"
    BY <1>3, <2>2, NewlyWaiting, OnlineStands
  <2> QED
    BY <1>3, <2>1, <2>2, OrderBefore
<1> QED
  BY <1>1, <1>2, <1>3 DEF RowsStand, Rows

LEMMA RefundRowsStep ==
    ASSUME IInv, [Next]_vars
    PROVE  RefundRowsOwned' /\ RefundOnce'
<1> USE DEF IInv
<1>0. TypeOK' /\ ReferencesHold' /\ WithinIndexes(payment')
  BY TypeStep, ReferencesStep, IndexesKept
<1>1. ASSUME NEW c \in Calls, NEW d \in Calls, c # d,
             call'[c].op = "refundRow", call'[d].op = "refundRow"
      PROVE  call'[c].row # call'[d].row
  <2>1. ASSUME NEW e \in Calls, NEW f \in Calls, e # f,
               call'[e].op = "refundRow", call'[f].op = "refundRow",
               NEW p \in Payments, RefundInsert(e, p)
        PROVE  call'[e].row # call'[f].row
    <3>1. call'[e].row = p /\ call'[f] = call[f] /\ payment[p] = NoRow
      BY <2>1 DEF RefundInsert, Become, TypeOK
    <3>2. payment[call[f].row] # NoRow
      BY <2>1, <3>1 DEF ReferencesHold, CallReference
    <3> QED
      BY <3>1, <3>2
  <2>2. CASE \/ \E p \in Payments : RefundInsert(c, p)
             \/ \E p \in Payments : RefundInsert(d, p)
    BY <1>1, <2>1, <2>2
  <2>3. CASE /\ call[c].op = "refundRow" /\ call'[c].row = call[c].row
             /\ call[d].op = "refundRow" /\ call'[d].row = call[d].row
    BY <1>1, <2>3 DEF RefundRowsOwned
  <2> QED
    BY <1>1, <2>2, <2>3, RefundRowOrigin
<1>2. ASSUME NEW o \in Orders, refunds'[o] > 0
      PROVE  \E p \in Rows(o)' : payment'[p].key = RefundKey
  <2>1. CASE refunds'[o] = refunds[o]
    <3>1. PICK p \in Payments : /\ payment[p] # NoRow
                               /\ payment[p].order = o
                               /\ payment[p].key = RefundKey
      BY <1>2, <2>1 DEF RefundRowsOwned, Rows
    <3> QED
      BY <3>1, RowsStay DEF Rows
  <2>2. CASE \E c \in Calls, s \in {"REFUNDED", "REFUND_PENDING"} :
               RefundAccepted(c, s)
    <3> PICK c \in Calls, s \in {"REFUNDED", "REFUND_PENDING"} :
               RefundAccepted(c, s)
      BY <2>2
    <3>1. CASE o = call[c].order
      <4>1. call[c].row \in Payments /\ call[c].op = "refundRow"
        BY RefundAcceptedOnce DEF RefundRowCall
      <4> QED
        BY <3>1, <4>1, RefundAcceptedOnce
           DEF ReferencesHold, CallReference, Rows
    <3>2. CASE o # call[c].order
      BY <2>1, <3>2, RefundAcceptedOnce
    <3> QED
      BY <3>1, <3>2
  <2> QED
    BY <2>1, <2>2, RefundsCounted
<1>3. ASSUME NEW d \in Calls, call'[d].op = "refundRow", call'[d].pc = "provider"
      PROVE  refunds'[call'[d].order] = 0
  <2>0. call'[d] \in RefundRowCall
    BY <1>0, <1>3, CallByOp DEF TypeOK
  <2>1. CASE \E p \in Payments : RefundInsert(d, p)
    <3> PICK p \in Payments : RefundInsert(d, p)
      BY <2>1
    <3> DEFINE o == call'[d].order
    <3>1. refunds' = refunds /\ payment[p] = NoRow /\ o \in Orders
      BY <2>0 DEF RefundInsert, RefundRowCall
    <3>2. call'[d].row = p
      BY DEF RefundInsert, Become, TypeOK
    <3>3. /\ payment'[p] # NoRow
          /\ payment'[p].order = o
          /\ payment'[p].key = RefundKey
      BY <1>0, <1>3, <3>2 DEF ReferencesHold, CallReference
    <3>4. ASSUME NEW q \in Rows(o), payment[q].key = RefundKey
          PROVE  FALSE
      <4>1. /\ q \in Payments
            /\ q # p
            /\ payment'[q] # NoRow
            /\ payment'[q].order = o
            /\ payment'[q].key = RefundKey
        BY <3>1, <3>4, RowsStay DEF Rows
      <4> QED
        BY <1>0, <3>3, <4>1 DEF WithinIndexes
    <3>5. ~ (refunds[o] > 0) /\ refunds[o] \in Nat
      BY <3>1, <3>4 DEF RefundRowsOwned, TypeOK
    <3> QED
      BY <3>1, <3>5
  <2>2. CASE call'[d] = call[d] /\ call[d].op = "refundRow"
    <3>1. refunds[call[d].order] = 0 /\ call[d].order \in Orders
      BY <1>3, <2>0, <2>2 DEF RefundRowsOwned, At, RefundRowCall
    <3>2. ASSUME NEW c \in Calls, NEW s \in {"REFUNDED", "REFUND_PENDING"},
                 RefundAccepted(c, s), call[c].order = call[d].order
          PROVE  FALSE
      <4>1. c # d
        BY <1>3, <2>2, <3>2, RefundAcceptedOnce
      <4>2. /\ call[c].op = "refundRow"
            /\ call[c].row \in Payments /\ call[d].row \in Payments
        BY <2>0, <2>2, <3>2, RefundAcceptedOnce DEF RefundRowCall
      <4>3. call[c].row # call[d].row
        BY <2>2, <4>1, <4>2 DEF RefundRowsOwned
      <4> QED
        BY <2>2, <3>2, <4>2, <4>3 DEF ReferencesHold, CallReference, WithinIndexes
    <3> QED
      BY <2>2, <3>1, <3>2, RefundsCounted, RefundAcceptedOnce
  <2> QED
    BY <1>3, <2>1, <2>2, RefundRowOrigin
<1>4. ASSUME NEW o \in Orders
      PROVE  refunds'[o] <= 1
  BY RefundsCounted, RefundAcceptedOnce DEF RefundOnce
<1> QED
  BY <1>1, <1>2, <1>3, <1>4 DEF RefundRowsOwned, RefundOnce, At

\* A refund event appears with the cancellation of its order.
LEMMA OutboxChanges ==
    ASSUME TypeOK, [Next]_vars, NEW o \in Orders, outbox[o] = "absent",
           outbox'[o] # "absent"
    PROVE  \/ order'[o].status = "CANCELLED"
           \/ \E c \in Calls : At(c, "refund", "done") /\ call[c].order = o
<1> USE DEF TypeOK
<1>1. ASSUME NEW c \in Calls, Initiate(c) \/ Webhook(c) \/ Reconcile(c)
      PROVE  outbox' = outbox
  <2>1. CASE Initiate(c)
    BY <2>1 DEF Initiate, InitiateRead, InitiateCheckPaid, InitiateCheckKey,
      CommitOnline, CommitCod
  <2>2. CASE Webhook(c) \/ Reconcile(c)
    BY <2>2 DEF Webhook, WebhookReceive, WebhookApply, WebhookReject,
      WebhookFail, Reconcile, ReconcileFetch, ReconcileCommit
  <2> QED
    BY <1>1, <2>1, <2>2
<1>2. ASSUME NEW c \in Calls, Update(c)
      PROVE  outbox' = outbox \/ order'[o].status = "CANCELLED"
                \/ outbox'[o] = outbox[o]
  <2>1. CASE UpdateCommit(c)
    <3>1. call[c] \in UpdateCall
      BY <2>1, CallByOp DEF UpdateCommit
    <3>2. call[c].order \in Orders /\ call[c].to \in OrderStatus
      BY <3>1 DEF UpdateCall
    <3>3. CASE Matches(call[c].order, call[c])
      <4>1. order'[call[c].order].status = call[c].to
        BY <2>1, <3>2, <3>3, SetStatusType DEF UpdateCommit
      <4> QED
        BY <2>1, <3>2, <3>3, <4>1 DEF UpdateCommit
    <3> QED
      BY <2>1, <3>3 DEF UpdateCommit
  <2> QED
    BY <1>2, <2>1 DEF Update, CancelRead, ShopRead, UpdateRead
<1>3. ASSUME NEW c \in Calls, Refund(c) \/ Abandon(c)
      PROVE  \/ outbox' = outbox
             \/ outbox' = [outbox EXCEPT ![call[c].order] = "PROCESSED"]
                /\ At(c, "refund", "done")
  BY <1>3 DEF Abandon, Refund, RefundStart, RefundExisting, RefundCaptured,
      RefundInsert, RefundAccepted, RefundRefused, RefundSave, RefundFail,
      RefundDone
<1>4. CASE Provider \/ UNCHANGED vars
  BY <1>4 DEF Provider, CustomerFails, CustomerAuthorizes, CustomerPays,
              ProviderMoves, Emit, vars
<1> QED
  BY <1>1, <1>2, <1>3, <1>4 DEF Next

LEMMA RefundsCancelledStep ==
    ASSUME IInv, [Next]_vars
    PROVE  RefundsAreForCancelled' /\ RefundOnlyCancelled'
<1> USE DEF IInv
<1>1. ASSUME NEW c \in Calls, call[c].op \in RefundOps
      PROVE  call[c].order \in Orders
  BY <1>1, CallByOp DEF TypeOK, RefundOps, RefundCall, RefundInsertCall,
                        RefundRowCall
<1>2. ASSUME NEW o \in Orders, outbox'[o] # "absent"
      PROVE  order'[o].status = "CANCELLED"
  <2>1. CASE outbox[o] # "absent"
    BY <2>1, CancelledStays DEF RefundsAreForCancelled
  <2>2. ASSUME NEW c \in Calls, At(c, "refund", "done"), call[c].order = o
        PROVE  order'[o].status = "CANCELLED"
    BY <2>2, CancelledStays DEF RefundsAreForCancelled, RefundOps, At
  <2> QED
    BY <1>2, <2>1, <2>2, OutboxChanges
<1>3. ASSUME NEW d \in Calls, call'[d].op \in RefundOps
      PROVE  order'[call'[d].order].status = "CANCELLED"
  <2>1. CASE call[d].op \in RefundOps /\ call'[d].order = call[d].order
    BY <1>1, <2>1, CancelledStays DEF RefundsAreForCancelled
  <2>2. ASSUME NEW o \in Orders, RefundStart(d, o)
        PROVE  order'[call'[d].order].status = "CANCELLED"
    <3>1. call'[d].order = o /\ outbox[o] # "absent"
      BY <2>2 DEF RefundStart, Become, TypeOK
    <3> QED
      BY <3>1, CancelledStays DEF RefundsAreForCancelled
  <2> QED
    BY <1>3, <2>1, <2>2, RefundCallOrigin
<1>4. ASSUME NEW o \in Orders, refunds'[o] > 0
      PROVE  order'[o].status = "CANCELLED"
  <2>1. CASE refunds'[o] = refunds[o]
    BY <1>4, <2>1, CancelledStays DEF RefundOnlyCancelled
  <2>2. ASSUME NEW c \in Calls, NEW s \in {"REFUNDED", "REFUND_PENDING"},
               RefundAccepted(c, s), call[c].order = o
        PROVE  order'[o].status = "CANCELLED"
    BY <2>2, CancelledStays DEF RefundsAreForCancelled, RefundOps,
                                RefundAccepted, At
  <2> QED
    BY <2>1, <2>2, RefundsCounted, RefundAcceptedOnce
<1> QED
  BY <1>2, <1>3, <1>4 DEF RefundsAreForCancelled, RefundOnlyCancelled

\* Who places an order has the payment for it.
LEMMA NewlyPlaced ==
    ASSUME IInv, [Next]_vars, NEW o \in Orders,
           order[o].status \notin InFulfilment, order'[o].status \in InFulfilment
    PROVE  \E p \in Payments :
              /\ payment'[p] # NoRow
              /\ payment'[p].order = o
              /\ \/ payment'[p].method = "COD"
                 \/ provider'[p] \in {"paid", "refunded"}
<1> USE DEF IInv, TypeOK, InFulfilment
<1>0. ASSUME NEW q \in Payments, payment[q] # NoRow, NEW s,
             s = "CAPTURED" => provider[q] \in {"paid", "refunded"},
             Settle(payment[q].order, s)
      PROVE  /\ payment'[q] # NoRow
             /\ payment'[q].order = o
             /\ provider'[q] \in {"paid", "refunded"}
  <2>1. payment[q].order \in Orders
    BY <1>0 DEF PaymentRow
  <2>2. s = "CAPTURED" /\ payment[q].order = o
    BY <1>0, <2>1, SetStatusType DEF Settle, OrderStatus
  <2> QED
    BY <1>0, <2>2, RowsStay, MoneyStays
<1>1. CASE \E c \in Calls : Initiate(c)
  <2> PICK c \in Calls : Initiate(c)
    BY <1>1
  <2>1. ASSUME NEW p \in Payments, CommitOnline(c, p)
        PROVE  FALSE
    <3>1. call[c] \in InitiateCall
      BY <2>1, CallByOp DEF CommitOnline, At
    <3> QED
      BY <2>1, <3>1, SetStatusType DEF CommitOnline, InitiateCall, OrderStatus
  <2>2. ASSUME NEW p \in Payments, CommitCod(c, p)
        PROVE  /\ payment'[p] # NoRow
               /\ payment'[p].order = o
               /\ payment'[p].method = "COD"
    <3>1. call[c] \in InitiateCall
      BY <2>2, CallByOp DEF CommitCod, At
    <3>2. call[c].order = o
      BY <2>2, <3>1, SetStatusType DEF CommitCod, InitiateCall, OrderStatus
    <3>3. payment'[p] = [order |-> o, key |-> call[c].key, method |-> "COD",
                         session |-> FALSE, status |-> "PENDING"]
      BY <2>2, <3>2 DEF CommitCod
    <3>4. payment'[p] \in PaymentRow
      BY <3>1, <3>3 DEF InitiateCall, PaymentRow, Method, PaymentStatus
    <3>5. payment'[p] # NoRow
      BY <3>4, NoRowAssumption, Zenon
    <3> HIDE DEF IInv, TypeOK
    <3> QED
      BY <3>3, <3>5
  <2>3. ASSUME InitiateCheckPaid(c) \/ InitiateCheckKey(c)
               \/ \E q \in Orders, k \in Keys, m \in Method :
                     InitiateRead(c, q, k, m)
        PROVE  FALSE
    BY <2>3 DEF InitiateRead, InitiateCheckPaid, InitiateCheckKey
  <2> QED
    BY <2>1, <2>2, <2>3 DEF Initiate
<1>2. CASE \E c \in Calls : Webhook(c)
  <2> PICK c \in Calls : Webhook(c)
    BY <1>2
  <2>1. CASE WebhookApply(c)
    <3> DEFINE e == call[c].event
    <3>1. e \in Events /\ webhook[e] # NoEvent
      BY <2>1, CallByOp DEF WebhookApply, At, WebhookCall, ReferencesHold,
                            CallReference
    <3>2. /\ webhook[e].payment \in Payments
          /\ payment[webhook[e].payment] # NoRow
          /\ webhook[e].status = "CAPTURED" =>
                provider[webhook[e].payment] \in {"paid", "refunded"}
      BY <3>1 DEF ReferencesHold, EventReference, ProviderEvent
    <3>3. Settle(payment[webhook[e].payment].order, webhook[e].status)
      BY <2>1 DEF WebhookApply
    <3> QED
      BY <1>0, <3>2, <3>3
  <2> QED
    BY <1>2, <2>1 DEF Webhook, WebhookReceive, WebhookReject, WebhookFail
<1>3. CASE \E c \in Calls : Reconcile(c)
  <2> PICK c \in Calls : Reconcile(c)
    BY <1>3
  <2>1. CASE ReconcileCommit(c)
    <3> DEFINE q == call[c].payment
    <3>1. /\ q \in Payments
          /\ payment[q] # NoRow
          /\ provider[q] \in {"paid", "refunded"}
      BY <2>1, CallByOp DEF ReconcileCommit, ReconcileCall, ReferencesHold,
                            CallReference
    <3>2. Settle(payment[q].order, call[c].status)
      BY <2>1 DEF ReconcileCommit
    <3> QED
      BY <1>0, <3>1, <3>2
  <2> QED
    BY <2>1 DEF Reconcile, ReconcileFetch
<1>4. CASE \E c \in Calls : Update(c)
  <2> PICK c \in Calls : Update(c)
    BY <1>4
  <2>1. CASE UpdateCommit(c)
    <3>1. call[c] \in UpdateCall
      BY <2>1, CallByOp DEF UpdateCommit
    <3>2. call[c].order \in Orders /\ call[c].to \in OrderStatus
      BY <3>1 DEF UpdateCall
    <3>3. Matches(call[c].order, call[c])
      BY <2>1 DEF UpdateCommit
    <3>4. call[c].order = o /\ call[c].to \in InFulfilment
      BY <2>1, <3>2, <3>3, SetStatusType DEF UpdateCommit
    <3>5. <<order[o].status, call[c].to>> \in ShopTransitions
      BY <2>1, <3>3, <3>4 DEF UpdateCommit, Matches, ReadsAreVersioned,
                              ReadIsVersioned
    <3> QED
      BY <3>5 DEF ShopTransitions
  <2> QED
    BY <2>1 DEF Update, CancelRead, ShopRead, UpdateRead
<1>5. CASE \E c \in Calls : Refund(c) \/ Abandon(c)
  BY <1>5 DEF Abandon, Refund, RefundStart, RefundExisting, RefundCaptured,
      RefundInsert, RefundAccepted, RefundRefused, RefundSave, RefundFail,
      RefundDone
<1>6. CASE Provider \/ UNCHANGED vars
  BY <1>6 DEF Provider, CustomerFails, CustomerAuthorizes, CustomerPays,
              ProviderMoves, Emit, vars
<1> QED
  BY <1>1, <1>2, <1>3, <1>4, <1>5, <1>6 DEF Next

LEMMA PlacedStep ==
    ASSUME IInv, [Next]_vars
    PROVE  PlacedIsPaid'
<1> SUFFICES ASSUME NEW o \in Orders, order'[o].status \in InFulfilment
             PROVE  \E p \in Payments :
                       /\ payment'[p] # NoRow
                       /\ payment'[p].order = o
                       /\ \/ payment'[p].method = "COD"
                          \/ provider'[p] \in {"paid", "refunded"}
  BY DEF PlacedIsPaid, Rows
<1> USE DEF IInv
<1>1. CASE order[o].status \in InFulfilment
  <2>1. PICK p \in Payments :
           /\ payment[p] # NoRow
           /\ payment[p].order = o
           /\ payment[p].method = "COD" \/ provider[p] \in {"paid", "refunded"}
    BY <1>1 DEF PlacedIsPaid, Rows
  <2>2. /\ payment'[p] # NoRow
        /\ payment'[p].order = o
        /\ payment'[p].method = payment[p].method
    BY <2>1, RowsStay
  <2> QED
    BY <2>1, <2>2, MoneyStays
<1> QED
  BY <1>1, NewlyPlaced

-----------------------------------------------------------------------------
(* The money *)

\* Nothing but a cash payment makes an order one that is paid on delivery.
LEMMA CashKept ==
    ASSUME IInv, [Next]_vars, NEW o \in Orders,
           \A c \in Calls, p \in Payments : ~ CommitCod(c, p)
    PROVE  ForCash(o)' = ForCash(o)
<1>1. ASSUME NEW p \in Payments, payment[p] # NoRow, payment[p].order = o,
             payment[p].method = "COD"
      PROVE  ForCash(o)'
  BY <1>1, RowsStay DEF IInv, ForCash, Rows
<1>2. ASSUME NEW p \in Payments, payment'[p] # NoRow, payment'[p].order = o,
             payment'[p].method = "COD"
      PROVE  ForCash(o)
  <2>1. CASE payment[p] # NoRow
    BY <1>2, <2>1, RowsStay DEF IInv, ForCash, Rows
  <2>2. CASE payment[p] = NoRow
    BY <1>2, <2>2, NewRow, OnlineStands, RefundRowStands
  <2> QED
    BY <2>1, <2>2
<1>3. ForCash(o) <=> ForCash(o)'
  BY <1>1, <1>2 DEF ForCash, Rows
<1> QED
  BY <1>3 DEF ForCash

\* A step that refunds nothing, and in which nobody pays, leaves the funds.
LEMMA FundsKept ==
    ASSUME IInv, [Next]_vars, NEW o \in Orders, refunds' = refunds,
           \A p \in Payments : provider'[p] = "paid" => provider[p] = "paid"
    PROVE  FundsOf(o)' = FundsOf(o)
<1>1. CASE refunds[o] > 0
  BY <1>1 DEF FundsOf
<1>2. CASE ~ (refunds[o] > 0)
  <2>1. ASSUME NEW p \in Rows(o), provider[p] = "paid"
        PROVE  p \in Rows(o)' /\ provider'[p] = "paid"
    BY <1>2, <2>1, RowsStay, MoneyStays, RefundedIsCounted DEF IInv, Rows
  <2>2. ASSUME NEW p \in Payments, payment'[p] # NoRow, payment'[p].order = o,
               provider'[p] = "paid"
        PROVE  p \in Rows(o) /\ provider[p] = "paid"
    <3>1. provider[p] = "paid"
      BY <2>2
    <3>2. payment[p] # NoRow
      BY <3>1 DEF IInv, ReferencesHold
    <3> QED
      BY <2>2, <3>1, <3>2, RowsStay DEF IInv, Rows
  <2>3. (\E p \in Rows(o) : provider[p] = "paid")
           <=> (\E p \in Rows(o)' : provider'[p] = "paid")
    BY <2>1, <2>2 DEF Rows
  <2> QED
    BY <1>2, <2>3 DEF FundsOf
<1> QED
  BY <1>1, <1>2

\* Who makes the provider hold money.
LEMMA NewlyPaid ==
    ASSUME TypeOK, [Next]_vars, NEW p \in Payments,
           provider'[p] = "paid", provider[p] # "paid"
    PROVE  CustomerPays(p)
<1> USE DEF TypeOK
<1>1. provider' # provider
  OBVIOUS
<1>2. CASE Provider
  BY <1>1, <1>2 DEF Provider, CustomerFails, CustomerAuthorizes, CustomerPays,
                    ProviderMoves, Emit
<1>3. CASE \E c \in Calls, q \in Payments : CommitOnline(c, q)
  BY <1>3 DEF CommitOnline
<1>4. CASE \E c \in Calls, s \in {"REFUNDED", "REFUND_PENDING"} :
              RefundAccepted(c, s)
  BY <1>4 DEF RefundAccepted
<1> QED
  BY <1>1, <1>2, <1>3, <1>4 DEF Next, vars, Abandon,
      Initiate, InitiateRead, InitiateCheckPaid, InitiateCheckKey, CommitCod,
      Webhook, WebhookReceive, WebhookApply, WebhookReject, WebhookFail,
      Reconcile, ReconcileFetch, ReconcileCommit,
      Update, CancelRead, ShopRead, UpdateRead, UpdateCommit,
      Refund, RefundStart, RefundExisting, RefundCaptured, RefundInsert,
      RefundRefused, RefundSave, RefundFail, RefundDone

\* An order nobody has tried to pay for has neither rows nor funds.
LEMMA CreatedIsBare ==
    ASSUME IInv, NEW o \in Orders, order[o].status = "CREATED"
    PROVE  ~ ForCash(o) /\ FundsOf(o) = "none" /\ Rows(o) = {}
<1>1. Rows(o) = {}
  BY DEF IInv, RowsStand, RowStands, Rows
<1>2. ~ (refunds[o] > 0)
  BY DEF IInv, RefundOnlyCancelled
<1> QED
  BY <1>1, <1>2 DEF ForCash, FundsOf

\* An order that is placed without cash has its funds.
LEMMA PlacedIsFunded ==
    ASSUME IInv, [Next]_vars, NEW o \in Orders,
           ForCash(o)' = ForCash(o), FundsOf(o)' = FundsOf(o),
           order[o].status \in {"CREATED", "PAYMENT_PENDING"},
           order'[o].status \in InFulfilment
    PROVE  /\ order[o].status = "PAYMENT_PENDING"
           /\ ~ ForCash(o)
           /\ FundsOf(o) = "held"
<1>1. PICK p \in Payments :
         /\ payment'[p] # NoRow
         /\ payment'[p].order = o
         /\ payment'[p].method = "COD" \/ provider'[p] \in {"paid", "refunded"}
  BY NewlyPlaced DEF InFulfilment
<1>2. ~ ForCash(o)
  BY CreatedIsBare DEF IInv, RowsStand, RowStands, ForCash, Rows
<1>3. provider'[p] \in {"paid", "refunded"}
  BY <1>1, <1>2 DEF ForCash, Rows
<1>4. ~ (refunds'[o] > 0)
  BY RefundsCancelledStep DEF RefundOnlyCancelled, InFulfilment
<1>5. RowStands(p)'
  BY RowsStandStep DEF RowsStand
<1>6. provider'[p] = "paid"
  BY <1>1, <1>3, <1>4, <1>5 DEF RowStands
<1>7. FundsOf(o)' = "held"
  BY <1>1, <1>4, <1>6 DEF FundsOf, Rows
<1> QED
  BY <1>2, <1>7, CreatedIsBare

-----------------------------------------------------------------------------
(* The theorems *)

LEMMA IInvInit == Init => IInv
<1> SUFFICES ASSUME Init PROVE IInv
  OBVIOUS
<1>1. \A c \in Calls : call[c].op = "idle"
  BY DEF Init, Idle
<1>2. ReferencesHold /\ ReadsAreVersioned
  BY <1>1 DEF Init, ReferencesHold, EventReference, CallReference,
              ReadsAreVersioned, ReadIsVersioned
<1>3. RefundRowsOwned /\ RefundsAreForCancelled
  BY <1>1 DEF Init, RefundRowsOwned, At, RefundsAreForCancelled, RefundOps
<1>4. WithinIndexes(payment) /\ RowsStand
  BY DEF Init, WithinIndexes, RowsStand, RowStands
<1>5. PlacedIsPaid /\ RefundOnce /\ RefundOnlyCancelled
  BY DEF Init, PlacedIsPaid, RefundOnce, RefundOnlyCancelled, InFulfilment
<1> QED
  BY <1>2, <1>3, <1>4, <1>5, TypeInit DEF IInv

LEMMA IInvStep == IInv /\ [Next]_vars => IInv'
<1> SUFFICES ASSUME IInv, [Next]_vars PROVE IInv'
  OBVIOUS
<1>1. TypeOK' /\ WithinIndexes(payment)' /\ ReferencesHold'
  BY TypeStep, IndexesKept, ReferencesStep DEF IInv, WithinIndexes
<1>2. ReadsAreVersioned'
  BY ReadsStep DEF IInv, ReadsAreVersioned
<1>3. /\ RefundRowsOwned' /\ RefundOnce'
      /\ RefundsAreForCancelled' /\ RefundOnlyCancelled'
      /\ RowsStand' /\ PlacedIsPaid'
  BY RefundRowsStep, RefundsCancelledStep, RowsStandStep, PlacedStep
<1> QED
  BY <1>1, <1>2, <1>3 DEF IInv

\* The inductive invariant is one: every reachable state has it.
THEOREM Inductive == Spec => []IInv
  BY IInvInit, IInvStep, PTL DEF Spec

\* Type correctness of the tables and of every handler in progress.
THEOREM TypeCorrect == Spec => []TypeOK
<1>1. IInv => TypeOK
  BY DEF IInv
<1> QED
  BY <1>1, Inductive, PTL

\* No order is placed that nobody pays for, whatever webhooks, reconciliation
\* and concurrent initiations do.
THEOREM Placed == Spec => []PlacedIsPaid
<1>1. IInv => PlacedIsPaid
  BY DEF IInv
<1> QED
  BY <1>1, Inductive, PTL

\* However many workers retry the refund event of an order, the provider
\* refunds it at most once.
THEOREM RefundedOnce == Spec => []RefundOnce
<1>1. IInv => RefundOnce
  BY DEF IInv
<1> QED
  BY <1>1, Inductive, PTL

\* Only orders that stay CANCELLED are refunded.
THEOREM RefundedCancelled == Spec => []RefundOnlyCancelled
<1>1. IInv => RefundOnlyCancelled
  BY DEF IInv
<1> QED
  BY <1>1, Inductive, PTL

\* An order that waits for its payment waits behind payments that can settle it.
THEOREM Waiting == Spec => []WaitingIsVisible
<1>1. IInv => WaitingIsVisible
  BY DEF IInv, RowsStand, RowStands, WaitingIsVisible, Rows, TypeOK, PaymentRow,
         Method
<1> QED
  BY <1>1, Inductive, PTL

\* A rider finds cash due on at most one payment, and nothing of a refund.
THEOREM Handed == Spec => []HandedOver
<1>1. IInv => HandedOver
  BY DEF IInv, RowsStand, RowStands, HandedOver, Rows, InFulfilment
<1> QED
  BY <1>1, Inductive, PTL

\* The tables with all their handlers implement the lifecycle of an order.
THEOREM ImplementsLifecycle == Spec => FollowsLifecycle
<1> DEFINE st == [o \in Orders |-> order[o].status]
<1>1. Init => Lifecycle!Init
  BY DEF Init, Lifecycle!Init
<1>2. IInv /\ [Next]_vars => [Lifecycle!Next]_st
  <2> SUFFICES ASSUME IInv, [Next]_vars
               PROVE  Lifecycle!Next \/ st' = st
    OBVIOUS
  <2>1. ASSUME NEW o \in Orders, NEW s \in OrderStatus, OrderMoves(o, s)
        PROVE  Lifecycle!Next
    <3>1. st' = [st EXCEPT ![o] = s]
      BY <2>1, SetStatusType DEF IInv, TypeOK, OrderMoves
    <3>2. \/ ValidTransition(order[o].status, s)
          \/ order[o].status = "CREATED" /\ s = "PLACED"
      BY <2>1 DEF OrderMoves, Moves, ShopTransitions, CustomerCancellable,
                  ValidTransition, ValidTransitions
    <3>3. CASE ValidTransition(order[o].status, s)
      <4>1. Lifecycle!Move(o, s)
        BY <3>1, <3>3 DEF Lifecycle!Move, Lifecycle!ValidTransition,
           Lifecycle!ValidTransitions, ValidTransition, ValidTransitions
      <4> QED
        BY <4>1 DEF Lifecycle!Next, Lifecycle!OrderStatus, OrderStatus
    <3>4. CASE order[o].status = "CREATED" /\ s = "PLACED"
      <4>1. Lifecycle!PlaceOnDelivery(o)
        BY <3>1, <3>4 DEF Lifecycle!PlaceOnDelivery,
           Lifecycle!ValidTransition, Lifecycle!ValidTransitions
      <4> QED
        BY <4>1 DEF Lifecycle!Next
    <3> QED
      BY <3>2, <3>3, <3>4
  <2>2. CASE order' = order
    BY <2>2
  <2> QED
    BY <2>1, <2>2, OrdersMove DEF IInv
<1> QED
  BY <1>1, <1>2, Inductive, PTL DEF Spec, FollowsLifecycle, Lifecycle!Spec

\* The tables with all their handlers settle every order the way Settlement says.
THEOREM ImplementsSettlement == Spec => SettlesMoney
<1> DEFINE st == [o \in Orders |-> StageOf(order[o].status)]
           ca == [o \in Orders |-> ForCash(o)]
           fu == [o \in Orders |-> FundsOf(o)]
<1>1. Init => Money!Init
  <2> SUFFICES ASSUME Init PROVE Money!Init
    OBVIOUS
  <2>1. \A o \in Orders : order[o].status = "CREATED"
    BY DEF Init
  <2>2. \A o \in Orders : StageOf(order[o].status) = "open"
    <3>1. StageOf("CREATED") = "open"
      BY DEF StageOf, InFulfilment
    <3> QED
      BY <2>1, <3>1
  <2>3. \A o \in Orders : ~ ForCash(o) /\ FundsOf(o) = "none"
    BY <2>1, IInvInit, CreatedIsBare
  <2>4. \A o \in Orders : ForCash(o) = FALSE
    BY <2>3 DEF ForCash
  <2> QED
    BY <2>2, <2>3, <2>4 DEF Money!Init
<1>2. IInv /\ [Next]_vars => [Money!Next]_<<st, ca, fu>>
  <2> SUFFICES ASSUME IInv, [Next]_vars
               PROVE  Money!Next \/ (st' = st /\ ca' = ca /\ fu' = fu)
    OBVIOUS
  <2>1. CASE \E c \in Calls, p \in Payments : CommitCod(c, p)
    <3> PICK c \in Calls, p \in Payments : CommitCod(c, p)
      BY <2>1
    <3> PICK o \in Orders : o = call[c].order
      BY CallByOp DEF IInv, TypeOK, CommitCod, At, InitiateCall
    <3>1. call[c] \in InitiateCall
      BY CallByOp DEF IInv, TypeOK, CommitCod, At
    <3>2. order[o].status = "CREATED"
      BY CodStands
    <3>3. /\ order'[o].status = "PLACED"
          /\ \A q \in Orders : q # o => order'[q] = order[q]
      BY <3>1, SetStatusType DEF CommitCod, OrderStatus, IInv, TypeOK
    <3>4. ForCash(o)'
      BY CodStands DEF ForCash, Rows
    <3>5. ASSUME NEW q \in Orders, q # o
          PROVE  ForCash(q)' = ForCash(q)
      <4>1. payment'[p] # NoRow /\ payment'[p].order = o /\ payment[p] = NoRow
        BY CodStands DEF CommitCod
      <4>2. \A u \in Payments : u # p => payment'[u] = payment[u]
        BY <4>1, NewRow
      <4>3. Rows(q)' = Rows(q) /\ \A u \in Rows(q) : payment'[u] = payment[u]
        BY <3>5, <4>1, <4>2 DEF Rows
      <4> QED
        BY <4>3 DEF ForCash
    <3>6. \A q \in Orders : FundsOf(q)' = FundsOf(q)
      <4>1. refunds' = refunds /\ provider' = provider
        BY DEF CommitCod
      <4> QED
        BY <4>1, FundsKept
    <3>7. st[o] = "open" /\ st' = [st EXCEPT ![o] = "placed"]
      BY <3>1, <3>2, <3>3 DEF StageOf, InFulfilment
    <3>8. ca' = [ca EXCEPT ![o] = TRUE]
      <4>1. ForCash(o)' = TRUE
        BY <3>4 DEF ForCash
      <4> QED
        BY <3>1, <3>5, <4>1
    <3>9. fu[o] = "none" /\ fu' = fu
      BY <3>1, <3>2, <3>6, CreatedIsBare
    <3>10. Money!PlaceForCash(o)
      BY <3>7, <3>8, <3>9 DEF Money!PlaceForCash
    <3> QED
      BY <3>1, <3>10 DEF Money!Next
  <2>2. CASE \E c \in Calls, s \in {"REFUNDED", "REFUND_PENDING"} :
                RefundAccepted(c, s)
    <3> PICK c \in Calls, s \in {"REFUNDED", "REFUND_PENDING"} :
                RefundAccepted(c, s)
      BY <2>2
    <3> PICK o \in Orders, paid \in Payments :
           o = call[c].order /\ paid = call[c].paid
      BY RefundAcceptedOnce DEF RefundRowCall
    <3>1. /\ order' = order /\ payment' = payment
          /\ refunds[o] = 0 /\ refunds'[o] = 1
          /\ \A q \in Orders : q # o => refunds'[q] = refunds[q]
          /\ provider' = [provider EXCEPT ![paid] = "refunded"]
      BY RefundAcceptedOnce DEF RefundRowCall, RefundAccepted
    <3>2. order[o].status = "CANCELLED"
      BY DEF IInv, RefundsAreForCancelled, RefundOps, RefundAccepted, At
    <3>3. payment[paid] # NoRow /\ payment[paid].order = o
      BY DEF IInv, ReferencesHold, CallReference, RefundAccepted, At
    <3>4. provider[paid] = "paid"
      BY <3>1, <3>3 DEF RefundAccepted, IInv, RowsStand, RowStands
    <3>5. fu[o] = "held"
      BY <3>1, <3>3, <3>4 DEF FundsOf, Rows
    <3>6. FundsOf(o)' = "returned"
      BY <3>1 DEF FundsOf
    <3>7. ASSUME NEW q \in Orders, q # o
          PROVE  FundsOf(q)' = FundsOf(q)
      <4>1. Rows(q)' = Rows(q) /\ \A u \in Rows(q) : provider'[u] = provider[u]
        BY <3>1, <3>3, <3>7 DEF Rows, IInv, TypeOK
      <4> QED
        BY <3>1, <3>7, <4>1 DEF FundsOf
    <3>8. fu' = [fu EXCEPT ![o] = "returned"]
      BY <3>1, <3>6, <3>7
    <3>9. st' = st /\ ca' = ca /\ st[o] = "cancelled"
      BY <3>1, <3>2 DEF StageOf, InFulfilment, ForCash, Rows
    <3>10. Money!Return(o)
      BY <3>5, <3>8, <3>9 DEF Money!Return
    <3> QED
      BY <3>1, <3>10 DEF Money!Next
  <2>3. CASE \E p \in Payments : CustomerPays(p) /\ provider[p] # "paid"
    <3> PICK p \in Payments : CustomerPays(p)
      BY <2>3
    <3>1. payment[p] # NoRow
      BY DEF CustomerPays, ProviderMoves, IInv, ReferencesHold
    <3> PICK o \in Orders : o = payment[p].order
      BY <3>1 DEF IInv, TypeOK, PaymentRow
    <3>2. /\ order' = order /\ payment' = payment /\ refunds' = refunds
          /\ provider' = [provider EXCEPT ![p] = "paid"]
      BY DEF CustomerPays, ProviderMoves
    <3>3. st' = st /\ ca' = ca
      BY <3>2 DEF ForCash, Rows
    <3>4. ASSUME NEW q \in Orders, q # o
          PROVE  FundsOf(q)' = FundsOf(q)
      <4>1. Rows(q)' = Rows(q) /\ \A u \in Rows(q) : provider'[u] = provider[u]
        BY <3>1, <3>2, <3>4 DEF Rows, IInv, TypeOK
      <4> QED
        BY <3>2, <4>1 DEF FundsOf
    <3>5. CASE refunds[o] > 0
      <4>1. FundsOf(o)' = FundsOf(o)
        BY <3>2, <3>5 DEF FundsOf
      <4>2. fu' = fu
        BY <3>4, <4>1
      <4> QED
        BY <3>3, <4>2
    <3>6. CASE ~ (refunds[o] > 0)
      <4>1. provider'[p] = "paid" /\ p \in Rows(o)'
        BY <3>1, <3>2 DEF Rows, IInv, TypeOK
      <4>2. FundsOf(o)' = "held"
        BY <3>2, <3>6, <4>1 DEF FundsOf
      <4>3. FundsOf(o) \in {"none", "held"}
        BY <3>6 DEF FundsOf
      <4>4. fu' = [fu EXCEPT ![o] = "held"]
        BY <3>4, <4>2
      <4>5. CASE FundsOf(o) = "none"
        <5>1. Money!Pay(o)
          BY <3>1, <3>3, <4>4, <4>5 DEF Money!Pay
        <5> QED
          BY <3>1, <5>1 DEF Money!Next
      <4>6. CASE FundsOf(o) = "held"
        <5>1. fu' = fu
          BY <3>4, <4>2, <4>6
        <5> QED
          BY <3>3, <5>1
      <4> QED
        BY <4>3, <4>5, <4>6
    <3> QED
      BY <3>5, <3>6
  <2>4. ASSUME \A c \in Calls, p \in Payments : ~ CommitCod(c, p),
               \A c \in Calls, s \in {"REFUNDED", "REFUND_PENDING"} :
                  ~ RefundAccepted(c, s),
               \A p \in Payments : ~ (CustomerPays(p) /\ provider[p] # "paid")
        PROVE  Money!Next \/ (st' = st /\ ca' = ca /\ fu' = fu)
    <3>1. \A o \in Orders : ForCash(o)' = ForCash(o)
      BY <2>4, CashKept
    <3>2. refunds' = refunds
      BY <2>4, RefundsCounted DEF IInv
    <3>3. \A p \in Payments : provider'[p] = "paid" => provider[p] = "paid"
      BY <2>4, NewlyPaid DEF IInv
    <3>4. \A o \in Orders : FundsOf(o)' = FundsOf(o)
      BY <3>2, <3>3, FundsKept
    <3>5. ca' = ca /\ fu' = fu
      BY <3>1, <3>4
    <3>6. CASE order' = order
      BY <3>5, <3>6
    <3>7. ASSUME NEW o \in Orders, NEW s \in OrderStatus, OrderMoves(o, s)
          PROVE  Money!Next \/ (st' = st /\ ca' = ca /\ fu' = fu)
      <4> DEFINE old == order[o].status
      <4>1. /\ <<old, s>> \in Moves
            /\ order'[o].status = s
            /\ \A q \in Orders : q # o => order'[q] = order[q]
        BY <3>7, SetStatusType DEF OrderMoves, IInv, TypeOK
      <4>2. st' = [st EXCEPT ![o] = StageOf(s)] /\ st[o] = StageOf(old)
        BY <4>1
      <4>3. old \in {"CREATED", "PAYMENT_PENDING"} /\ s = "PLACED" =>
               ~ ForCash(o) /\ FundsOf(o) = "held"
        BY <3>1, <3>4, <4>1, PlacedIsFunded DEF InFulfilment
      <4>4. \/ StageOf(s) = StageOf(old)
            \/ /\ StageOf(old) = "open" /\ StageOf(s) = "placed"
               /\ old \in {"CREATED", "PAYMENT_PENDING"} /\ s = "PLACED"
            \/ StageOf(old) = "open" /\ StageOf(s) = "failed"
            \/ StageOf(old) = "placed" /\ StageOf(s) = "prepared"
            \/ StageOf(old) = "placed" /\ StageOf(s) = "rejected"
            \/ StageOf(old) \in {"open", "placed"} /\ StageOf(s) = "cancelled"
        BY <4>1 DEF Moves, ShopTransitions, CustomerCancellable, StageOf,
                    InFulfilment
      <4> HIDE DEF old
      <4>5. CASE StageOf(s) = StageOf(old)
        BY <3>5, <4>2, <4>5
      <4>6. CASE /\ StageOf(old) = "open" /\ StageOf(s) = "placed"
                 /\ old \in {"CREATED", "PAYMENT_PENDING"} /\ s = "PLACED"
        <5>1. Money!PlacePaid(o)
          BY <3>5, <4>2, <4>3, <4>6 DEF Money!PlacePaid, Money!Enter
        <5> QED
          BY <5>1 DEF Money!Next
      <4>7. CASE StageOf(old) = "open" /\ StageOf(s) = "failed"
        <5>1. Money!Fail(o)
          BY <3>5, <4>2, <4>7 DEF Money!Fail, Money!Enter
        <5> QED
          BY <5>1 DEF Money!Next
      <4>8. CASE StageOf(old) = "placed" /\ StageOf(s) = "prepared"
        <5>1. Money!Prepare(o)
          BY <3>5, <4>2, <4>8 DEF Money!Prepare, Money!Enter
        <5> QED
          BY <5>1 DEF Money!Next
      <4>9. CASE StageOf(old) = "placed" /\ StageOf(s) = "rejected"
        <5>1. Money!Reject(o)
          BY <3>5, <4>2, <4>9 DEF Money!Reject, Money!Enter
        <5> QED
          BY <5>1 DEF Money!Next
      <4>10. CASE StageOf(old) \in {"open", "placed"} /\ StageOf(s) = "cancelled"
        <5>1. Money!Cancel(o)
          BY <3>5, <4>2, <4>10 DEF Money!Cancel, Money!Enter
        <5> QED
          BY <5>1 DEF Money!Next
      <4> QED
        BY <4>4, <4>5, <4>6, <4>7, <4>8, <4>9, <4>10
    <3> QED
      BY <3>6, <3>7, OrdersMove DEF IInv
  <2> QED
    BY <2>1, <2>2, <2>3, <2>4
<1> QED
  BY <1>1, <1>2, Inductive, PTL DEF Spec, SettlesMoney, Money!Spec

=============================================================================
