---------------------------- MODULE OrderingProofs ----------------------------
(***************************************************************************)
(* What Ordering guarantees for any catalogue, and any number of requests  *)
(* and keys.                                                               *)
(***************************************************************************)
EXTENDS Ordering, TLAPS

\* A request is told by its pc.
LEMMA RequestByPc ==
    ASSUME NEW r \in RequestTypes
    PROVE  /\ r.pc = "adding" =>
                r \in [pc : {"adding"}, product : Products, quantity : Quantities]
           /\ r.pc \in {"updating", "found", "missing"} =>
                r \in [pc : {"updating", "found", "missing"}, item : ItemIds,
                       quantity : Quantities]
           /\ r.pc = "ordering" =>
                r \in [pc : {"ordering"}, key : Keys, address : Addresses]
           /\ r.pc \in {"read", "inserted"} =>
                r \in [pc : {"read", "inserted"}, order : Order]
           /\ r.pc = "cleared" =>
                r \in [pc : {"cleared"}, order : Order, rows : SUBSET ItemIds]
           /\ r.pc = "answered" =>
                r \in [pc : {"answered"}, key : Keys, address : Addresses, id : OrderIds]
  BY DEF RequestTypes

LEMMA RequestIntro ==
    /\ Idle \in RequestTypes
    /\ \A p \in Products, q \in Quantities :
          [pc |-> "adding", product |-> p, quantity |-> q] \in RequestTypes
    /\ \A i \in ItemIds, q \in Quantities, pc \in {"updating", "found", "missing"} :
          [pc |-> pc, item |-> i, quantity |-> q] \in RequestTypes
    /\ \A k \in Keys, a \in Addresses :
          [pc |-> "ordering", key |-> k, address |-> a] \in RequestTypes
    /\ \A o \in Order, pc \in {"read", "inserted"} :
          [pc |-> pc, order |-> o] \in RequestTypes
    /\ \A o \in Order, rows \in SUBSET ItemIds :
          [pc |-> "cleared", order |-> o, rows |-> rows] \in RequestTypes
    /\ \A k \in Keys, a \in Addresses, id \in OrderIds :
          Answered(k, a, id) \in RequestTypes
  BY DEF RequestTypes, Idle, Answered

\* A row of the table orders is not the mark of an unused id.
LEMMA OrderIsNotNone == \A o \in Order : o # NoOrder
  BY OrderingAssumption DEF Order, Line, Quantities

\* Writing one quantity keeps the rows typed.
LEMMA ItemTypes ==
    ASSUME TypeOK, NEW i \in ItemIds, NEW q \in 0 .. MaxQuantity
    PROVE  [item EXCEPT ![i].quantity = q] \in
             [ItemIds -> [product : Products \cup {NoProduct}, quantity : 0 .. MaxQuantity]]
  BY DEF TypeOK

LEMMA WithoutTypes ==
    ASSUME TypeOK, NEW rows
    PROVE  Without(rows) \in
             [ItemIds -> [product : Products \cup {NoProduct}, quantity : 0 .. MaxQuantity]]
  BY OrderingAssumption DEF TypeOK, Without

-----------------------------------------------------------------------------
(* Type correctness.                                                       *)

LEMMA TypeInit == Init => TypeOK
  BY RequestIntro, OrderingAssumption DEF Init, TypeOK

LEMMA TypeStep ==
    ASSUME TypeOK, RowsHaveProducts, [Next]_vars
    PROVE  TypeOK'
<1> USE DEF TypeOK, Becomes
<1>1. ASSUME NEW c \in Calls, Request(c)
      PROVE  TypeOK'
  <2>1. ASSUME NEW p \in Products, NEW q \in Quantities, AddRead(c, p, q)
        PROVE  TypeOK'
    BY <2>1, RequestIntro DEF AddRead
  <2>2. ASSUME NEW i \in ItemIds, NEW q \in Quantities, UpdateRead(c, i, q)
        PROVE  TypeOK'
    <3>1. [pc |-> "updating", item |-> i, quantity |-> q] \in RequestTypes
      BY RequestIntro
    <3> QED
      BY <2>2, <3>1 DEF UpdateRead
  <2>3. ASSUME NEW k \in Keys, NEW a \in Addresses, OrderLookup(c, k, a)
        PROVE  TypeOK'
    BY <2>3, RequestIntro DEF OrderLookup
  <2> QED
    BY <1>1, <2>1, <2>2, <2>3 DEF Request
<1>2. ASSUME NEW c \in Calls, AddCommit(c)
      PROVE  TypeOK'
  <2> DEFINE p == call[c].product
             q == call[c].quantity
  <2>1. p \in Products /\ q \in Quantities
    BY <1>2, RequestByPc DEF AddCommit
  <2>2. item' \in [ItemIds -> [product : Products \cup {NoProduct},
                               quantity : 0 .. MaxQuantity]]
    <3>1. CASE \E i \in RowsOf(p) : AddToRow(i, q)
      <4>1. PICK i \in ItemIds : AddToRow(i, q)
        BY <3>1 DEF RowsOf, InCart
      <4>2. item[i].quantity + q \in 0 .. MaxQuantity
        BY <4>1, <2>1, OrderingAssumption DEF AddToRow, Quantities
      <4> QED
        BY <4>1, <4>2, ItemTypes DEF AddToRow
    <3>2. CASE \E i \in ItemIds : InsertRow(i, p, q)
      BY <3>2, <2>1, OrderingAssumption DEF InsertRow, Quantities
    <3> QED
      BY <1>2, <3>1, <3>2 DEF AddCommit
  <2>3. cartShop' \in Shops
    BY <1>2, <2>1, OrderingAssumption DEF AddCommit
  <2> QED
    BY <1>2, <2>2, <2>3, RequestIntro DEF AddCommit
<1>3. ASSUME NEW c \in Calls, UpdateReload(c)
      PROVE  TypeOK'
  <2>1. call[c] \in [pc : {"updating", "found", "missing"}, item : ItemIds,
                     quantity : Quantities]
    BY <1>3, RequestByPc DEF UpdateReload
  <2>2. call'[c] \in [pc : {"updating", "found", "missing"}, item : ItemIds,
                      quantity : Quantities]
    BY <1>3, <2>1 DEF UpdateReload
  <2>3. call'[c] \in RequestTypes
    BY <2>2 DEF RequestTypes
  <2> QED
    BY <1>3, <2>3 DEF UpdateReload
<1>4. ASSUME NEW c \in Calls, UpdateRow(c) \/ UpdateReinsert(c)
      PROVE  TypeOK'
  <2>1. call[c].item \in ItemIds /\ call[c].quantity \in 0 .. MaxQuantity
    BY <1>4, RequestByPc, OrderingAssumption DEF UpdateRow, UpdateReinsert, Quantities
  <2> DEFINE Writes(q) == item' = [item EXCEPT ![call[c].item].quantity = q]
  <2>2. Writes(call[c].quantity) \/ Writes(0)
    BY <1>4 DEF UpdateRow, UpdateReinsert
  <2>3. PICK q \in 0 .. MaxQuantity : item' = [item EXCEPT ![call[c].item].quantity = q]
    BY <2>1, <2>2, OrderingAssumption
  <2>4. item' \in [ItemIds -> [product : Products \cup {NoProduct},
                               quantity : 0 .. MaxQuantity]]
    BY <2>1, <2>3, ItemTypes
  <2> QED
    BY <1>4, <2>4, RequestIntro DEF UpdateRow, UpdateReinsert
<1>5. ASSUME NEW i \in ItemIds, RemoveItem(i)
      PROVE  TypeOK'
  BY <1>5, ItemTypes, OrderingAssumption DEF RemoveItem
<1>6. CASE ClearCart
  BY <1>6, WithoutTypes DEF ClearCart
<1>7. ASSUME NEW c \in Calls, OrderRead(c)
      PROVE  TypeOK'
  <2> DEFINE o == [key |-> call[c].key, address |-> call[c].address,
                   shop |-> cartShop, lines |-> {item[i] : i \in InCart}]
  <2>1. \A i \in InCart : item[i] \in Line
    BY OrderingAssumption DEF RowsHaveProducts, InCart, Present, Line, Quantities
  <2>2. call[c].key \in Keys /\ call[c].address \in Addresses
    BY <1>7, RequestByPc DEF OrderRead
  <2>3. o \in Order
    BY <1>7, <2>1, <2>2 DEF OrderRead, Orderable, Order
  <2> HIDE DEF o
  <2>4. [pc |-> "read", order |-> o] \in RequestTypes
    BY <2>3, RequestIntro
  <2> QED
    BY <1>7, <2>4 DEF OrderRead, o
<1>8. ASSUME NEW c \in Calls, OrderInsert(c) \/ OrderClear(c)
      PROVE  TypeOK'
  <2>1. call[c] \in [pc : {"read", "inserted"}, order : Order]
    BY <1>8, RequestByPc DEF OrderInsert, OrderClear
  <2>2. [call[c] EXCEPT !.pc = "inserted"] \in RequestTypes
    BY <2>1 DEF RequestTypes
  <2>3. [pc |-> "cleared", order |-> call[c].order, rows |-> InCart] \in RequestTypes
    BY <2>1, RequestIntro DEF InCart
  <2> QED
    BY <1>8, <2>2, <2>3 DEF OrderInsert, OrderClear
<1>9. ASSUME NEW c \in Calls, NEW id \in OrderIds, OrderConflict(c, id)
      PROVE  TypeOK'
  <2>1. call[c].order \in Order
    BY <1>9, RequestByPc DEF OrderConflict
  <2>2. Answered(call[c].order.key, call[c].order.address, id) \in RequestTypes
    BY <2>1, RequestIntro DEF Order
  <2> QED
    BY <1>9, <2>2 DEF OrderConflict
<1>10. ASSUME NEW c \in Calls, NEW id \in OrderIds, OrderCommit(c, id)
       PROVE  TypeOK'
  <2>1. call[c].order \in Order
    BY <1>10, RequestByPc DEF OrderCommit
  <2>2. Answered(call[c].order.key, call[c].order.address, id) \in RequestTypes
    BY <2>1, RequestIntro DEF Order
  <2> QED
    BY <1>10, <2>1, <2>2, WithoutTypes DEF OrderCommit
<1>11. ASSUME NEW c \in Calls, Return(c) \/ Abandon(c)
       PROVE  TypeOK'
  BY <1>11, RequestIntro DEF Return, Abandon
<1>12. ASSUME NEW p \in Products, UpdateProductStatus(p)
       PROVE  TypeOK'
  BY <1>12 DEF UpdateProductStatus
<1>13. CASE UNCHANGED vars
  BY <1>13 DEF vars
<1> QED
  BY <1>1, <1>2, <1>3, <1>4, <1>5, <1>6, <1>7, <1>8, <1>9, <1>10, <1>11, <1>12, <1>13
     DEF Next, CartStep, OrderStep

-----------------------------------------------------------------------------
(* The invariant.                                                          *)

\* What a step of a request does to the orders requests carry and to the keys
\* they hold, when it places nothing.
LEMMA CarryStep ==
    ASSUME IInv, NEW c \in Calls, NEW r, Becomes(c, r), UNCHANGED order,
           r.pc \in {"read", "inserted", "cleared"} => Keyed!WellFormed(r.order),
           r.pc \in {"inserted", "cleared"} =>
               \/ Holds(c, r.order.key)
               \/ KeyFree(r.order.key)
    PROVE  CarriesWellFormed' /\ KeyHeldOnce'
<1>1. \A d \in Calls : call'[d] = IF d = c THEN r ELSE call[d]
  BY DEF Becomes, IInv, TypeOK
<1>2. CarriesWellFormed'
  BY <1>1 DEF IInv, CarriesWellFormed, Keyed!WellFormed
<1>3. ASSUME NEW d \in Calls, NEW k \in Keys, Holds(d, k)'
      PROVE  /\ d # c => Holds(d, k)
             /\ d = c => r.pc \in {"inserted", "cleared"} /\ r.order.key = k
  BY <1>1, <1>3 DEF Holds
<1>4. KeyHeldOnce'
  BY <1>3 DEF IInv, KeyHeldOnce, KeyFree, Placed
<1> QED
  BY <1>2, <1>4

\* Steps that leave all requests, or all but one that carries no order, alone.
LEMMA Uncarried ==
    ASSUME IInv, UNCHANGED order,
           \/ UNCHANGED call
           \/ \E c \in Calls, r \in RequestTypes :
                 Becomes(c, r) /\ r.pc \notin {"read", "inserted", "cleared"}
    PROVE  CarriesWellFormed' /\ KeyHeldOnce'
<1>1. CASE UNCHANGED call
  BY <1>1 DEF IInv, CarriesWellFormed, KeyHeldOnce, Holds, Placed, Keyed!WellFormed
<1>2. CASE \E c \in Calls, r \in RequestTypes :
              Becomes(c, r) /\ r.pc \notin {"read", "inserted", "cleared"}
  BY <1>2, CarryStep
<1> QED
  BY <1>1, <1>2

LEMMA CarriedInit == Init => CarriesWellFormed /\ KeyHeldOnce
  BY DEF Init, CarriesWellFormed, KeyHeldOnce, Holds, Idle

LEMMA CarriedStep ==
    ASSUME IInv, TypeOK', [Next]_vars
    PROVE  CarriesWellFormed' /\ KeyHeldOnce'
<1> USE DEF IInv
<1>1. ASSUME NEW c \in Calls, OrderRead(c)
      PROVE  CarriesWellFormed' /\ KeyHeldOnce'
  <2> DEFINE o == [key |-> call[c].key, address |-> call[c].address,
                   shop |-> cartShop, lines |-> {item[i] : i \in InCart}]
             r == [pc |-> "read", order |-> o]
  <2>1. Keyed!WellFormed(o)
    BY <1>1 DEF OrderRead, Orderable, OneRowPerProduct, Keyed!WellFormed
  <2> HIDE DEF o
  <2>2. Becomes(c, r) /\ r.pc = "read" /\ r.order = o
    BY <1>1 DEF OrderRead, o
  <2> HIDE DEF r
  <2> QED
    BY <1>1, <2>1, <2>2, CarryStep DEF OrderRead
<1>2. ASSUME NEW c \in Calls, OrderInsert(c)
      PROVE  CarriesWellFormed' /\ KeyHeldOnce'
  <2> DEFINE r == [call[c] EXCEPT !.pc = "inserted"]
  <2>1. call[c] \in [pc : {"read", "inserted"}, order : Order]
    BY <1>2, RequestByPc DEF OrderInsert, TypeOK
  <2>2. Becomes(c, r) /\ r.pc = "inserted" /\ r.order = call[c].order
    BY <1>2, <2>1 DEF OrderInsert
  <2> HIDE DEF r
  <2>3. Keyed!WellFormed(call[c].order) /\ KeyFree(call[c].order.key)
    BY <1>2 DEF OrderInsert, CarriesWellFormed
  <2> QED
    BY <1>2, <2>2, <2>3, CarryStep DEF OrderInsert
<1>3. ASSUME NEW c \in Calls, OrderClear(c)
      PROVE  CarriesWellFormed' /\ KeyHeldOnce'
  <2> DEFINE r == [pc |-> "cleared", order |-> call[c].order, rows |-> InCart]
  <2>1. Becomes(c, r) /\ r.pc = "cleared" /\ r.order = call[c].order
    BY <1>3 DEF OrderClear
  <2> HIDE DEF r
  <2>2. Keyed!WellFormed(call[c].order) /\ Holds(c, call[c].order.key)
    BY <1>3 DEF OrderClear, CarriesWellFormed, Holds
  <2> QED
    BY <1>3, <2>1, <2>2, CarryStep DEF OrderClear
<1>4. ASSUME NEW c \in Calls, NEW id \in OrderIds, OrderCommit(c, id)
      PROVE  CarriesWellFormed' /\ KeyHeldOnce'
  <2>1. \A d \in Calls : /\ d # c => call'[d] = call[d]
                         /\ call'[c].pc = "answered"
    BY <1>4 DEF OrderCommit, Becomes, Answered, TypeOK
  <2>2. CarriesWellFormed'
    BY <2>1 DEF CarriesWellFormed, Keyed!WellFormed
  <2>3. ASSUME NEW d \in Calls, NEW k \in Keys, Holds(d, k)'
        PROVE  d # c /\ Holds(d, k)
    BY <2>1, <2>3 DEF Holds
  <2>4. call[c].order.key \in Keys /\ Holds(c, call[c].order.key)
    BY <1>4, RequestByPc DEF OrderCommit, TypeOK, Holds, Order
  <2>5. ASSUME NEW d \in Calls, NEW k \in Keys, Holds(d, k)', NEW other \in OrderIds,
               Placed(other)'
        PROVE  order'[other].key # k
    <3>1. k # call[c].order.key
      BY <2>3, <2>4, <2>5 DEF KeyHeldOnce
    <3>2. CASE other = id
      BY <1>4, <3>1, <3>2 DEF OrderCommit, TypeOK
    <3>3. CASE other # id
      BY <1>4, <2>3, <2>5, <3>3 DEF OrderCommit, TypeOK, Placed, KeyHeldOnce
    <3> QED
      BY <3>2, <3>3
  <2>6. KeyHeldOnce'
    BY <2>3, <2>5 DEF KeyHeldOnce
  <2> QED
    BY <2>2, <2>6
<1>5. ASSUME NEW c \in Calls, Request(c)
      PROVE  CarriesWellFormed' /\ KeyHeldOnce'
  <2>1. ASSUME NEW p \in Products, NEW q \in Quantities, AddRead(c, p, q)
        PROVE  CarriesWellFormed' /\ KeyHeldOnce'
    BY <2>1, RequestIntro, Uncarried DEF AddRead
  <2>2. ASSUME NEW i \in ItemIds, NEW q \in Quantities, UpdateRead(c, i, q)
        PROVE  CarriesWellFormed' /\ KeyHeldOnce'
    <3>1. [pc |-> "updating", item |-> i, quantity |-> q] \in RequestTypes
      BY RequestIntro
    <3> QED
      BY <2>2, <3>1, Uncarried DEF UpdateRead
  <2>3. ASSUME NEW k \in Keys, NEW a \in Addresses, OrderLookup(c, k, a)
        PROVE  CarriesWellFormed' /\ KeyHeldOnce'
    BY <2>3, RequestIntro, Uncarried DEF OrderLookup, Answered
  <2> QED
    BY <1>5, <2>1, <2>2, <2>3 DEF Request
<1>6. ASSUME NEW c \in Calls, AddCommit(c) \/ UpdateRow(c) \/ UpdateReinsert(c)
                              \/ Return(c) \/ Abandon(c)
      PROVE  CarriesWellFormed' /\ KeyHeldOnce'
  <2>1. Becomes(c, Idle) /\ UNCHANGED order
    BY <1>6 DEF AddCommit, UpdateRow, UpdateReinsert, Return, Abandon
  <2> QED
    BY <2>1, RequestIntro, Uncarried DEF Idle
<1>7. ASSUME NEW c \in Calls, UpdateReload(c)
      PROVE  CarriesWellFormed' /\ KeyHeldOnce'
  <2>1. call[c] \in [pc : {"updating", "found", "missing"}, item : ItemIds,
                     quantity : Quantities]
    BY <1>7, RequestByPc DEF UpdateReload, TypeOK
  <2>2. /\ call'[c] \in RequestTypes
        /\ call'[c].pc \in {"found", "missing"}
        /\ Becomes(c, call'[c])
    BY <1>7, <2>1 DEF UpdateReload, Becomes, TypeOK
  <2> QED
    BY <1>7, <2>2, Uncarried DEF UpdateReload
<1>8. ASSUME NEW c \in Calls, NEW id \in OrderIds, OrderConflict(c, id)
      PROVE  CarriesWellFormed' /\ KeyHeldOnce'
  <2>1. call[c].order.key \in Keys /\ call[c].order.address \in Addresses
    BY <1>8, RequestByPc DEF OrderConflict, TypeOK, Order
  <2> QED
    BY <1>8, <2>1, RequestIntro, Uncarried DEF OrderConflict, Answered
<1>9. CASE \/ \E i \in ItemIds : RemoveItem(i)
           \/ ClearCart
           \/ \E p \in Products : UpdateProductStatus(p)
           \/ UNCHANGED vars
  BY <1>9, Uncarried DEF RemoveItem, ClearCart, UpdateProductStatus, vars
<1> QED
  BY <1>1, <1>2, <1>3, <1>4, <1>5, <1>6, <1>7, <1>8, <1>9
     DEF Next, CartStep, OrderStep

\* What a step does to the rows of the cart.
RowsShrink ==
    \A i \in ItemIds : /\ item'[i].product = item[i].product
                       /\ Present(i)' => Present(i)

\* One row appears, or appears again, for a product that has none.
RowAppears ==
    \E i \in ItemIds :
        /\ item'[i].product \in Products
        /\ RowsOf(item'[i].product) = {}
        /\ item[i].product \in {NoProduct, item'[i].product}
        /\ \A j \in ItemIds \ {i} : item'[j] = item[j]

LEMMA RowsInit == Init => OneRowPerProduct /\ RowsHaveProducts
  BY DEF Init, OneRowPerProduct, RowsHaveProducts, InCart, Present, Idle

LEMMA RowsEffect ==
    ASSUME IInv, [Next]_vars
    PROVE  RowsShrink \/ RowAppears
<1> USE DEF IInv, TypeOK
<1>1. ASSUME NEW c \in Calls, AddCommit(c)
      PROVE  RowsShrink \/ RowAppears
  <2> DEFINE p == call[c].product
             q == call[c].quantity
  <2>1. p \in Products
    BY <1>1, RequestByPc DEF AddCommit
  <2>2. CASE \E i \in RowsOf(p) : AddToRow(i, q)
    BY <2>2 DEF RowsOf, InCart, AddToRow, RowsShrink, Present
  <2>3. CASE \E i \in ItemIds : InsertRow(i, p, q)
    BY <2>1, <2>3 DEF InsertRow, RowAppears
  <2> QED
    BY <1>1, <2>2, <2>3 DEF AddCommit
<1>2. ASSUME NEW c \in Calls, UpdateRow(c)
      PROVE  RowsShrink \/ RowAppears
  <2>1. call[c].item \in ItemIds
    BY <1>2, RequestByPc DEF UpdateRow
  <2> QED
    BY <1>2, <2>1 DEF UpdateRow, RowsShrink, Present
<1>3. ASSUME NEW c \in Calls, UpdateReinsert(c)
      PROVE  RowsShrink \/ RowAppears
  <2>1. call[c].item \in ItemIds /\ item[call[c].item].product \in Products
    BY <1>3, RequestByPc DEF UpdateReinsert, RowsHaveProducts
  <2> QED
    BY <1>3, <2>1 DEF UpdateReinsert, RowAppears
<1>4. ASSUME NEW rows, item' = Without(rows)
      PROVE  RowsShrink \/ RowAppears
  BY <1>4 DEF Without, RowsShrink, Present
<1>5. ASSUME NEW i \in ItemIds, RemoveItem(i)
      PROVE  RowsShrink \/ RowAppears
  BY <1>5 DEF RemoveItem, RowsShrink, Present
<1>6. CASE UNCHANGED item
  BY <1>6 DEF RowsShrink, Present
<1> QED
  BY <1>1, <1>2, <1>3, <1>4, <1>5, <1>6
     DEF Next, Request, CartStep, OrderStep, AddRead, UpdateRead, OrderLookup,
         UpdateReload, ClearCart, OrderRead, OrderInsert, OrderConflict, OrderClear,
         OrderCommit, Return, Abandon, UpdateProductStatus, vars

\* A request that is in updateItemQuantity has read its item already, or reads
\* it now.
LEMMA UpdatesEffect ==
    ASSUME IInv, [Next]_vars, NEW c \in Calls,
           call'[c].pc \in {"updating", "found", "missing"}
    PROVE  /\ call'[c].item \in ItemIds
           /\ item[call'[c].item].product \in Products
<1> USE DEF IInv, TypeOK, Becomes
<1>1. ASSUME NEW i \in ItemIds, NEW q \in Quantities, UpdateRead(c, i, q)
      PROVE  call'[c].item = i /\ item[i].product \in Products
  BY <1>1 DEF UpdateRead, RowsHaveProducts, InCart
<1>2. CASE call'[c] = call[c]
  BY <1>2, RequestByPc DEF RowsHaveProducts
<1>3. CASE UpdateReload(c)
  <2>1. call[c] \in [pc : {"updating", "found", "missing"}, item : ItemIds,
                     quantity : Quantities]
    BY <1>3, RequestByPc DEF UpdateReload
  <2>2. call'[c].item = call[c].item
    BY <1>3, <2>1 DEF UpdateReload
  <2> QED
    BY <1>3, <2>1, <2>2 DEF UpdateReload, RowsHaveProducts
<1>4. ASSUME NEW d \in Calls, d # c, NEW r, call' = [call EXCEPT ![d] = r]
      PROVE  call'[c] = call[c]
  BY <1>4
<1>5. CASE UNCHANGED call
  BY <1>2, <1>5
<1>6. ASSUME OrderInsert(c)
      PROVE  FALSE
  <2>1. call[c] \in [pc : {"read", "inserted"}, order : Order]
    BY <1>6, RequestByPc DEF OrderInsert
  <2> QED
    BY <1>6, <2>1 DEF OrderInsert
<1>7. ASSUME CartStep(c) \/ OrderStep(c) \/ Abandon(c)
      PROVE  UpdateReload(c)
  BY <1>6, <1>7 DEF CartStep, OrderStep, AddCommit, UpdateRow, UpdateReinsert, OrderRead,
                    OrderConflict, OrderClear, OrderCommit, Return, Abandon, Idle, Answered
<1>8. CASE Request(c)
  BY <1>1, <1>8 DEF Request, AddRead, OrderLookup, Answered
<1>9. ASSUME NEW d \in Calls, Request(d) \/ CartStep(d) \/ OrderStep(d) \/ Abandon(d)
      PROVE  \E r : call' = [call EXCEPT ![d] = r]
  BY <1>9 DEF Request, CartStep, OrderStep, AddRead, UpdateRead, OrderLookup, AddCommit,
              UpdateReload, UpdateRow, UpdateReinsert, OrderRead, OrderInsert,
              OrderConflict, OrderClear, OrderCommit, Return, Abandon
<1> QED
  BY <1>2, <1>3, <1>4, <1>5, <1>7, <1>8, <1>9
     DEF Next, RemoveItem, ClearCart, UpdateProductStatus, vars

LEMMA RowsStep ==
    ASSUME IInv, [Next]_vars
    PROVE  OneRowPerProduct' /\ RowsHaveProducts'
<1>1. OneRowPerProduct'
  <2>1. CASE RowsShrink
    BY <2>1 DEF RowsShrink, IInv, OneRowPerProduct, InCart
  <2>2. CASE RowAppears
    BY <2>2 DEF RowAppears, IInv, OneRowPerProduct, InCart, Present, RowsOf
  <2> QED
    BY <2>1, <2>2, RowsEffect
<1>2. ASSUME NEW i \in ItemIds, item[i].product \in Products
      PROVE  item'[i].product \in Products
  <2>1. CASE RowsShrink
    BY <1>2, <2>1 DEF RowsShrink
  <2>2. CASE RowAppears
    BY <1>2, <2>2 DEF RowAppears
  <2> QED
    BY <2>1, <2>2, RowsEffect
<1>3. \A i \in InCart' : item'[i].product \in Products
  <2>1. CASE RowsShrink
    BY <2>1 DEF RowsShrink, IInv, RowsHaveProducts, InCart
  <2>2. CASE RowAppears
    BY <2>2 DEF RowAppears, IInv, RowsHaveProducts, InCart, Present
  <2> QED
    BY <2>1, <2>2, RowsEffect
<1> QED
  BY <1>1, <1>2, <1>3, UpdatesEffect DEF RowsHaveProducts

\* An order that is placed stays; another is placed only by OrderCommit.
LEMMA OrdersEffect ==
    ASSUME IInv, [Next]_vars
    PROVE  \/ UNCHANGED order
           \/ \E c \in Calls, id \in OrderIds : OrderCommit(c, id)
  BY DEF Next, Request, CartStep, OrderStep, AddRead, UpdateRead, OrderLookup, AddCommit,
         UpdateReload, UpdateRow, UpdateReinsert, RemoveItem, ClearCart, OrderRead,
         OrderInsert, OrderConflict, OrderClear, Return, Abandon, UpdateProductStatus, vars

\* An answer is given by a request that finds the order, or has placed it.
LEMMA AnswersEffect ==
    ASSUME IInv, [Next]_vars, NEW c \in Calls, call'[c].pc = "answered",
           call'[c] # call[c]
    PROVE  \/ \E id \in OrderIds : OrderCommit(c, id)
           \/ /\ Placed(call'[c].id)
              /\ order[call'[c].id].key = call'[c].key
<1> USE DEF IInv, TypeOK, Becomes
<1>1. ASSUME NEW k \in Keys, NEW a \in Addresses, OrderLookup(c, k, a)
      PROVE  /\ Placed(call'[c].id)
             /\ order[call'[c].id].key = call'[c].key
  BY <1>1 DEF OrderLookup, Answered
<1>2. ASSUME NEW id \in OrderIds, OrderConflict(c, id)
      PROVE  /\ Placed(call'[c].id)
             /\ order[call'[c].id].key = call'[c].key
  BY <1>2 DEF OrderConflict, Answered
<1>3. ASSUME NEW d \in Calls, Request(d) \/ CartStep(d) \/ OrderStep(d) \/ Abandon(d)
      PROVE  d = c
  <2>1. \E r : call' = [call EXCEPT ![d] = r]
    BY <1>3 DEF Request, CartStep, OrderStep, AddRead, UpdateRead, OrderLookup, AddCommit,
                UpdateReload, UpdateRow, UpdateReinsert, OrderRead, OrderInsert,
                OrderConflict, OrderClear, OrderCommit, Return, Abandon
  <2> QED
    BY <2>1
<1>4. ASSUME OrderInsert(c) \/ UpdateReload(c)
      PROVE  FALSE
  <2>1. \/ call[c] \in [pc : {"read", "inserted"}, order : Order]
        \/ call[c] \in [pc : {"updating", "found", "missing"}, item : ItemIds,
                        quantity : Quantities]
    BY <1>4, RequestByPc DEF OrderInsert, UpdateReload
  <2> QED
    BY <1>4, <2>1 DEF OrderInsert, UpdateReload
<1>5. ASSUME Request(c)
      PROVE  \E k \in Keys, a \in Addresses : OrderLookup(c, k, a)
  BY <1>5 DEF Request, AddRead, UpdateRead
<1>6. ASSUME CartStep(c) \/ OrderStep(c) \/ Abandon(c)
      PROVE  \E id \in OrderIds : OrderConflict(c, id) \/ OrderCommit(c, id)
  BY <1>4, <1>6 DEF CartStep, OrderStep, AddCommit, UpdateRow, UpdateReinsert, OrderRead,
                    OrderClear, Return, Abandon, Idle
<1> QED
  BY <1>1, <1>2, <1>3, <1>5, <1>6
     DEF Next, RemoveItem, ClearCart, UpdateProductStatus, vars

LEMMA AnswersStep ==
    ASSUME IInv, [Next]_vars
    PROVE  AnswersOwnKey'
<1> USE DEF IInv, TypeOK
<1>1. ASSUME NEW c \in Calls, NEW id \in OrderIds, OrderCommit(c, id)
      PROVE  AnswersOwnKey'
  <2>1. call[c].order \in Order /\ call[c].order # NoOrder
    BY <1>1, RequestByPc, OrderIsNotNone DEF OrderCommit
  <2>2. /\ order'[id] = call[c].order
        /\ \A other \in OrderIds : Placed(other) => order'[other] = order[other]
    BY <1>1 DEF OrderCommit, Placed
  <2>3. /\ call'[c].id = id /\ call'[c].key = call[c].order.key
        /\ \A d \in Calls \ {c} : call'[d] = call[d]
    BY <1>1 DEF OrderCommit, Becomes, Answered
  <2>4. ASSUME NEW d \in Calls, call[d].pc = "answered"
        PROVE  call[d].id \in OrderIds
    BY <2>4, RequestByPc
  <2> QED
    BY <2>1, <2>2, <2>3, <2>4 DEF AnswersOwnKey, Placed
<1>2. CASE UNCHANGED order /\ ~\E c \in Calls, id \in OrderIds : OrderCommit(c, id)
  BY <1>2, AnswersEffect DEF AnswersOwnKey, Placed
<1> QED
  BY <1>1, <1>2, OrdersEffect

\* The invariant: rows, orders and requests in progress are of their types, an
\* order in progress is well formed, and its key is its own.
THEOREM Invariance == Spec => []IInv
<1>1. Init => IInv
  BY TypeInit, CarriedInit, RowsInit DEF IInv, Init, AnswersOwnKey, Idle
<1>2. IInv /\ [Next]_vars => IInv'
  <2> SUFFICES ASSUME IInv, [Next]_vars
               PROVE  IInv'
    OBVIOUS
  <2>1. TypeOK'
    BY TypeStep DEF IInv
  <2> QED
    BY <2>1, CarriedStep, RowsStep, AnswersStep DEF IInv
<1> QED
  BY <1>1, <1>2, PTL DEF Spec

\* Rows hold what their columns allow; in particular the quantities of
\* cart_items stay within MAX_CART_QUANTITY.
THEOREM TypeCorrect == Spec => []TypeOK
<1>1. IInv => TypeOK
  BY DEF IInv
<1> QED
  BY <1>1, Invariance, PTL

\* createOrder answers with an order placed under the key it was asked with.
THEOREM AnswersOwnKeyAlways == Spec => []AnswersOwnKey
<1>1. IInv => AnswersOwnKey
  BY DEF IInv
<1> QED
  BY <1>1, Invariance, PTL

\* A key gets one well-formed order, which stays as placed.
THEOREM Implements == Spec => ImplementsKeyedOrders
<1>1. Init => Keyed!Init
  BY DEF Init, Keyed!Init
<1>2. IInv /\ [Next]_vars => [Keyed!Next]_order
  <2> SUFFICES ASSUME IInv, [Next]_vars
               PROVE  [Keyed!Next]_order
    OBVIOUS
  <2>1. ASSUME NEW c \in Calls, NEW id \in OrderIds, OrderCommit(c, id)
        PROVE  Keyed!Next
    <3> DEFINE o == call[c].order
    <3>1. o \in Order
      BY <2>1, RequestByPc DEF OrderCommit, IInv, TypeOK
    <3>2. Keyed!WellFormed(o)
      BY <2>1 DEF OrderCommit, IInv, CarriesWellFormed
    <3>3. \A other \in OrderIds : order[other] # NoOrder => order[other].key # o.key
      BY <2>1, <3>1 DEF OrderCommit, IInv, KeyHeldOnce, Holds, Placed, Order
    <3>4. Keyed!Place(id, o)
      BY <2>1, <3>2, <3>3 DEF OrderCommit, Placed, Keyed!Place
    <3>5. o \in Keyed!Orders
      BY <3>1 DEF Order, Line, Keyed!Orders
    <3> HIDE DEF o
    <3> QED
      BY <3>4, <3>5 DEF Keyed!Next
  <2> QED
    BY <2>1, OrdersEffect
<1> QED
  BY <1>1, <1>2, Invariance, PTL DEF Spec, ImplementsKeyedOrders, Keyed!Spec

=============================================================================
