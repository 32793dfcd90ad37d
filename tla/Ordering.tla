------------------------------- MODULE Ordering -------------------------------
(***************************************************************************)
(* A customer's cart and the orders made of it: the rows of carts,         *)
(* cart_items and orders that belong to one customer, written by           *)
(* carts.service.ts and by createOrder of orders.service.ts.  All unique   *)
(* indexes and locks involved are the customer's own, so customers do not  *)
(* meet.                                                                   *)
(*                                                                         *)
(* addItem and clearCart hold the lock on the row of the cart: a step.     *)
(* updateItemQuantity and createOrder read without locks and write later.  *)
(* createOrder's own transaction is several steps, because it takes its    *)
(* locks one by one: the index entry of its key when it inserts the order, *)
(* the items when it deletes them, the cart last.  A statement that waits  *)
(* for a lock is a step that is not enabled yet.  (addItem or clearCart    *)
(* with the cart locked and createOrder with the items locked wait for     *)
(* each other; PostgreSQL aborts one.  Here the first is not enabled and   *)
(* the second goes on, or is abandoned.)                                   *)
(*                                                                         *)
(* Left out: prices, the minimum order, distances and opening hours.  They *)
(* can refuse a request at any time, and a refused request writes nothing  *)
(* (Abandon).                                                              *)
(***************************************************************************)
EXTENDS Naturals

CONSTANTS
    Products,      \* the catalogue
    Shops,
    ShopOf,        \* products.shopId, which no handler changes
    ItemIds,       \* ids that cart_items can use
    OrderIds,      \* ids that orders can use
    Keys,          \* idempotency keys the client sends
    Addresses,     \* the customer's addresses
    MaxQuantity,   \* MAX_CART_QUANTITY
    Calls,         \* requests that can be in progress at a time
    NoShop,        \* carts.shopId IS NULL, or no cart
    NoProduct,     \* of an id not used yet
    NoOrder        \* of an id not used yet

ASSUME OrderingAssumption ==
    /\ ShopOf \in [Products -> Shops]
    /\ MaxQuantity \in Nat
    /\ NoShop \notin Shops
    /\ NoProduct \notin Products
    /\ \A k \in Keys, a \in Addresses, s \in Shops, lines \in
          SUBSET [product : Products, quantity : 1 .. MaxQuantity] :
          NoOrder # [key |-> k, address |-> a, shop |-> s, lines |-> lines]

VARIABLES
    available,   \* the products with status AVAILABLE
    cartShop,    \* carts.shopId
    item,        \* cart_items; a row with quantity 0 is not in the table
    order,       \* the committed rows of orders with their order_items
    call         \* what each request is doing

vars == <<available, cartShop, item, order, call>>

-----------------------------------------------------------------------------
(* Rows and requests.                                                      *)

Quantities == 1 .. MaxQuantity
Line == [product : Products, quantity : Quantities]
Order == [key : Keys, address : Addresses, shop : Shops, lines : SUBSET Line]

Idle == [pc |-> "idle"]

RequestTypes ==
    [pc : {"idle"}]
    \cup [pc : {"adding"}, product : Products, quantity : Quantities]
    \cup [pc : {"updating", "found", "missing"}, item : ItemIds, quantity : Quantities]
    \cup [pc : {"ordering"}, key : Keys, address : Addresses]
    \cup [pc : {"read", "inserted"}, order : Order]
    \cup [pc : {"cleared"}, order : Order, rows : SUBSET ItemIds]
    \cup [pc : {"answered"}, key : Keys, address : Addresses, id : OrderIds]

Present(i) == item[i].quantity > 0
InCart == {i \in ItemIds : Present(i)}
RowsOf(p) == {i \in InCart : item[i].product = p}

\* The row is deleted by a transaction that has not committed.
Locked(i) == \E c \in Calls : call[c].pc = "cleared" /\ i \in call[c].rows

Placed(id) == order[id] # NoOrder

\* A transaction that has inserted an order and not committed holds its key.
Holds(c, k) == call[c].pc \in {"inserted", "cleared"} /\ call[c].order.key = k

Becomes(c, request) == call' = [call EXCEPT ![c] = request]

Answered(k, a, id) == [pc |-> "answered", key |-> k, address |-> a, id |-> id]

-----------------------------------------------------------------------------
(* carts.service.ts                                                        *)

\* addItem reads the product before it waits for the cart.
AddRead(c, p, q) ==
    /\ call[c].pc = "idle"
    /\ p \in available
    /\ Becomes(c, [pc |-> "adding", product |-> p, quantity |-> q])
    /\ UNCHANGED <<available, cartShop, item, order>>

AddToRow(i, q) ==
    /\ ~Locked(i)
    /\ item[i].quantity + q <= MaxQuantity
    /\ item' = [item EXCEPT ![i].quantity = @ + q]

InsertRow(i, p, q) ==
    /\ RowsOf(p) = {}
    /\ item[i].product = NoProduct
    /\ item' = [item EXCEPT ![i] = [product |-> p, quantity |-> q]]

AddCommit(c) ==
    LET p == call[c].product
        q == call[c].quantity IN
    /\ call[c].pc = "adding"
    /\ cartShop \in {NoShop, ShopOf[p]}
    /\ cartShop' = ShopOf[p]
    /\ \/ \E i \in RowsOf(p) : AddToRow(i, q)
       \/ \E i \in ItemIds : InsertRow(i, p, q)
    /\ Becomes(c, Idle)
    /\ UNCHANGED <<available, order>>

UpdateRead(c, i, q) ==
    /\ call[c].pc = "idle"
    /\ Present(i)
    /\ Becomes(c, [pc |-> "updating", item |-> i, quantity |-> q])
    /\ UNCHANGED <<available, cartShop, item, order>>

\* save() looks the entity up to choose between UPDATE and INSERT.
UpdateReload(c) ==
    /\ call[c].pc = "updating"
    /\ Becomes(c, [call[c] EXCEPT !.pc = IF Present(call[c].item) THEN "found"
                                                                  ELSE "missing"])
    /\ UNCHANGED <<available, cartShop, item, order>>

\* An UPDATE of a row that is gone meanwhile changes nothing.
UpdateRow(c) ==
    LET i == call[c].item IN
    /\ call[c].pc = "found"
    /\ ~Locked(i)
    /\ item' = [item EXCEPT ![i].quantity = IF Present(i) THEN call[c].quantity ELSE 0]
    /\ Becomes(c, Idle)
    /\ UNCHANGED <<available, cartShop, order>>

\* An INSERT brings a deleted row back, unless its product has another one.
UpdateReinsert(c) ==
    LET i == call[c].item IN
    /\ call[c].pc = "missing"
    /\ RowsOf(item[i].product) = {}
    /\ item' = [item EXCEPT ![i].quantity = call[c].quantity]
    /\ Becomes(c, Idle)
    /\ UNCHANGED <<available, cartShop, order>>

\* removeItem, and updateItemQuantity with quantity 0.
RemoveItem(i) ==
    /\ Present(i)
    /\ ~Locked(i)
    /\ item' = [item EXCEPT ![i].quantity = 0]
    /\ UNCHANGED <<available, cartShop, order, call>>

Without(rows) ==
    [i \in ItemIds |-> IF i \in rows THEN [item[i] EXCEPT !.quantity = 0] ELSE item[i]]

ClearCart ==
    /\ \A i \in InCart : ~Locked(i)
    /\ item' = Without(InCart)
    /\ cartShop' = NoShop
    /\ UNCHANGED <<available, order, call>>

-----------------------------------------------------------------------------
(* createOrder of orders.service.ts                                        *)

\* The key is looked up; a request with the same key and another address is
\* refused, one with the same address is answered.
OrderLookup(c, k, a) ==
    /\ call[c].pc = "idle"
    /\ \/ \E id \in OrderIds :
            /\ Placed(id)
            /\ order[id].key = k
            /\ order[id].address = a
            /\ Becomes(c, Answered(k, a, id))
       \/ /\ \A id \in OrderIds : Placed(id) => order[id].key # k
          /\ Becomes(c, [pc |-> "ordering", key |-> k, address |-> a])
    /\ UNCHANGED <<available, cartShop, item, order>>

\* Mutant of Orderable: the shop of the products is not compared.
OrderableAnyShop ==
    /\ InCart # {}
    /\ cartShop # NoShop
    /\ \A i \in InCart : item[i].product \in available

\* What createOrder demands of the cart it has read.
Orderable ==
    /\ InCart # {}
    /\ cartShop # NoShop
    /\ \A i \in InCart : /\ item[i].product \in available
                         /\ ShopOf[item[i].product] = cartShop

OrderRead(c) ==
    /\ call[c].pc = "ordering"
    /\ Orderable
    /\ Becomes(c, [pc |-> "read",
                   order |-> [key |-> call[c].key, address |-> call[c].address,
                              shop |-> cartShop, lines |-> {item[i] : i \in InCart}]])
    /\ UNCHANGED <<available, cartShop, item, order>>

\* Mutant of KeyFree: an insert that has not committed does not count.
KeyFreeCommitted(k) == \A id \in OrderIds : Placed(id) => order[id].key # k

\* The unique index: an insert waits for a transaction that has inserted the
\* same key, and fails if it commits.
KeyFree(k) ==
    /\ \A id \in OrderIds : Placed(id) => order[id].key # k
    /\ \A d \in Calls : ~Holds(d, k)

OrderInsert(c) ==
    /\ call[c].pc = "read"
    /\ KeyFree(call[c].order.key)
    /\ Becomes(c, [call[c] EXCEPT !.pc = "inserted"])
    /\ UNCHANGED <<available, cartShop, item, order>>

\* Mutant of OrderConflict: the order is looked up without the key.
OrderConflictAnyKey(c, id) ==
    /\ call[c].pc = "read"
    /\ ~KeyFree(call[c].order.key)
    /\ Placed(id)
    /\ Becomes(c, Answered(call[c].order.key, call[c].order.address, id))
    /\ UNCHANGED <<available, cartShop, item, order>>

\* error 23505: the answer is the order that took the key.
OrderConflict(c, id) ==
    /\ call[c].pc = "read"
    /\ Placed(id)
    /\ order[id].key = call[c].order.key
    /\ Becomes(c, Answered(call[c].order.key, call[c].order.address, id))
    /\ UNCHANGED <<available, cartShop, item, order>>

\* Mutant of OrderClear: it waits for every order that another request inserts.
OrderClearAlone(c) ==
    /\ call[c].pc = "inserted"
    /\ \A d \in Calls \ {c} : call[d].pc \notin {"inserted", "cleared"}
    /\ Becomes(c, [pc |-> "cleared", order |-> call[c].order, rows |-> InCart])
    /\ UNCHANGED <<available, cartShop, item, order>>

\* DELETE takes the rows that are there when it runs, read before or not.
OrderClear(c) ==
    /\ call[c].pc = "inserted"
    /\ \A i \in InCart : ~Locked(i)
    /\ Becomes(c, [pc |-> "cleared", order |-> call[c].order, rows |-> InCart])
    /\ UNCHANGED <<available, cartShop, item, order>>

OrderCommit(c, id) ==
    LET o == call[c].order IN
    /\ call[c].pc = "cleared"
    /\ ~Placed(id)
    /\ order' = [order EXCEPT ![id] = o]
    /\ item' = Without(call[c].rows)
    /\ cartShop' = NoShop
    /\ Becomes(c, Answered(o.key, o.address, id))
    /\ UNCHANGED available

-----------------------------------------------------------------------------

\* The answer has been sent.
Return(c) ==
    /\ call[c].pc = "answered"
    /\ Becomes(c, Idle)
    /\ UNCHANGED <<available, cartShop, item, order>>

\* The request is refused or dies; a transaction rolls back.
Abandon(c) ==
    /\ call[c].pc \notin {"idle", "answered"}
    /\ Becomes(c, Idle)
    /\ UNCHANGED <<available, cartShop, item, order>>

\* updateProductStatus of products.service.ts, by the shop.
UpdateProductStatus(p) ==
    /\ available' = IF p \in available THEN available \ {p} ELSE available \cup {p}
    /\ UNCHANGED <<cartShop, item, order, call>>

Init ==
    /\ available = Products
    /\ cartShop = NoShop
    /\ item = [i \in ItemIds |-> [product |-> NoProduct, quantity |-> 0]]
    /\ order = [id \in OrderIds |-> NoOrder]
    /\ call = [c \in Calls |-> Idle]

Request(c) ==
    \/ \E p \in Products, q \in Quantities : AddRead(c, p, q)
    \/ \E i \in ItemIds, q \in Quantities : UpdateRead(c, i, q)
    \/ \E k \in Keys, a \in Addresses : OrderLookup(c, k, a)

CartStep(c) == AddCommit(c) \/ UpdateReload(c) \/ UpdateRow(c) \/ UpdateReinsert(c)

OrderStep(c) ==
    \/ OrderRead(c) \/ OrderInsert(c) \/ OrderClear(c) \/ Return(c)
    \/ \E id \in OrderIds : OrderConflict(c, id) \/ OrderCommit(c, id)

Next ==
    \/ \E c \in Calls : Request(c) \/ CartStep(c) \/ OrderStep(c) \/ Abandon(c)
    \/ \E i \in ItemIds : RemoveItem(i)
    \/ ClearCart
    \/ \E p \in Products : UpdateProductStatus(p)

Spec == Init /\ [][Next]_vars

\* A handler that has begun an order is run to its end; one that has read a
\* cart it cannot order is refused.
Refused(c) ==
    /\ call[c].pc = "ordering"
    /\ ~Orderable
    /\ Abandon(c)

FairSpec == Spec /\ \A c \in Calls : SF_vars(OrderStep(c) \/ Refused(c))

-----------------------------------------------------------------------------
(* What holds.                                                             *)

\* Rows hold what their columns allow.  The quantity of an item never exceeds
\* MAX_CART_QUANTITY, though addItem adds to what it finds.
TypeOK ==
    /\ available \subseteq Products
    /\ cartShop \in Shops \cup {NoShop}
    /\ item \in [ItemIds -> [product : Products \cup {NoProduct},
                             quantity : 0 .. MaxQuantity]]
    /\ order \in [OrderIds -> Order \cup {NoOrder}]
    /\ call \in [Calls -> RequestTypes]

\* However requests repeat and race, a key gets one order, of one shop, with a
\* product on one line, and the order stays as placed: the early lookup, the
\* unique index, and the checks of the cart in createOrder together.
Keyed == INSTANCE KeyedOrders WITH placed <- order
ImplementsKeyedOrders == Keyed!Spec

\* The answer to createOrder is an order placed under the key of the request,
\* also when it comes from the unique index.
AnswersOwnKey ==
    \A c \in Calls :
        call[c].pc = "answered" =>
            /\ Placed(call[c].id)
            /\ order[call[c].id].key = call[c].key

\* The order a request carries is the one it may place.
CarriesWellFormed ==
    \A c \in Calls :
        call[c].pc \in {"read", "inserted", "cleared"} => Keyed!WellFormed(call[c].order)

\* A key is held by one transaction, and by none once an order has it.
KeyHeldOnce ==
    \A c \in Calls, k \in Keys :
        Holds(c, k) =>
            /\ \A d \in Calls : Holds(d, k) => d = c
            /\ \A id \in OrderIds : Placed(id) => order[id].key # k

\* The unique index on (cartId, productId), through additions, updates that
\* insert and deletes.
OneRowPerProduct ==
    \A i, j \in InCart : item[i].product = item[j].product => i = j

\* A row that is there, or that a request has read, has a product.
RowsHaveProducts ==
    /\ \A i \in InCart : item[i].product \in Products
    /\ \A c \in Calls :
          call[c].pc \in {"updating", "found", "missing"} =>
              item[call[c].item].product \in Products

IInv ==
    /\ TypeOK
    /\ CarriesWellFormed
    /\ KeyHeldOnce
    /\ OneRowPerProduct
    /\ RowsHaveProducts
    /\ AnswersOwnKey

\* No request for an order waits forever: a key that another transaction has
\* inserted and items that another transaction has deleted are released.
EveryOrderEnds ==
    \A c \in Calls :
        call[c].pc \in {"ordering", "read", "inserted", "cleared"} ~>
            call[c].pc \in {"idle", "answered"}

=============================================================================
