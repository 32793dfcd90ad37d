------------------------------- MODULE Browsing -------------------------------
(***************************************************************************)
(* A customer goes page by page through a listing while shops are edited,  *)
(* open and close: searchProducts and searchShops of search.service.ts,    *)
(* and getNewNearYouShops of shops.service.ts.  A page starts behind the   *)
(* key of the last entry shown.                                            *)
(*                                                                         *)
(* A page is one query and then, in a search, one look at the shop of each *)
(* row, with an await in between.  The catalogue may change at any point;  *)
(* updateShop and updateShopStatus read a row and save all of it later.    *)
(***************************************************************************)
EXTENDS Integers, FiniteSets

CONSTANTS
    Shops,         \* ids of shops, in their order
    Products,      \* ids of products
    ShopOf,        \* products.shopId
    Distances,     \* of a shop from the customer, and how far shops deliver
    Radius,        \* how far a customer looks for new shops
    Limit,         \* entries of a page
    Window,        \* NEW_BUSINESS_DAYS
    MaxTime,       \* bound on the time
    MaxChanges,    \* bound on changes of the catalogue
    InitialShops,  \* rows of shops at first
    NoKey          \* there is no cursor

ASSUME BrowsingAssumption ==
    /\ Shops \subseteq Nat /\ Products \subseteq Nat
    /\ IsFiniteSet(Shops) /\ IsFiniteSet(Products)
    /\ ShopOf \in [Products -> Shops]
    /\ Distances \subseteq Nat
    /\ {Limit, MaxTime} \subseteq Nat \ {0}
    /\ {Radius, Window, MaxChanges} \subseteq Nat
    /\ InitialShops \subseteq
          [status : {"ACTIVE", "INACTIVE"}, distance : Distances, reach : Distances,
           published : 0..MaxTime]
    /\ NoKey \notin [distance : Nat, next : Int, id : Nat]

VARIABLES
    shop,        \* rows of shops
    past,        \* what each row was at a time, and a request may have read
    open,        \* shops whose hours say that they are open
    available,   \* products with status AVAILABLE
    now,
    changes,     \* how many changes there have been
    listing,     \* which listing it is
    pc, cursor,  \* where the customer is in it
    rows, more,  \* rows of the page not looked at, and whether there are others
    shown,       \* entries of the page
    times,       \* how often each entry was shown
    steady,      \* entries that have been in the listing, at one place, all the time
    still        \* entries that have been at one place all the time

catalogue == <<shop, past, open, available, now>>
page == <<pc, cursor, rows, more, shown, times>>
vars == <<shop, past, open, available, now, changes, listing, pc, cursor, rows, more, shown,
          times, steady, still>>

-----------------------------------------------------------------------------
(* The order of a listing.                                                 *)

\* A SUSPENDED shop is left out as an INACTIVE one is.
Status == {"ACTIVE", "INACTIVE"}

\* reach: deliveryRadius.  published: 0 when publishedAt IS NULL.
Shop == [status : Status, distance : Distances, reach : Distances, published : 0..MaxTime]

Searches == {"products", "shops"}
Listings == Searches \cup {"new"}

Entries == IF listing = "products" THEN Products ELSE Shops
Place(e) == IF listing = "products" THEN ShopOf[e] ELSE e

Keys == [distance : Nat, next : Int, id : Nat]

\* The nearest first; then the one published last, or by the id of the shop.
Key(e) ==
    [distance |-> shop[Place(e)].distance,
     next |-> IF listing = "new" THEN -shop[e].published ELSE Place(e),
     id |-> e]

Before(k, l) ==
    \/ k.distance < l.distance
    \/ k.distance = l.distance /\ k.next < l.next
    \/ k.distance = l.distance /\ k.next = l.next /\ k.id < l.id

\* The condition of the query but for the cursor.
Found(e) ==
    LET s == shop[Place(e)] IN
    /\ s.status = "ACTIVE"
    /\ s.distance <= IF listing = "new" THEN Radius ELSE s.reach
    /\ listing = "products" => e \in available
    /\ listing = "new" => s.published # 0 /\ s.published >= now - Window

\* isShopAvailable: the row is read again, and the hours.
IsShopAvailable(s) == shop[s].status = "ACTIVE" /\ s \in open

-----------------------------------------------------------------------------
(* The customer.                                                           *)

\* Mutant of Following: the entry of the cursor itself is not left out.
FollowingOrSame == {e \in Entries : Found(e) /\ (cursor = NoKey \/ ~Before(Key(e), cursor))}

Following == {e \in Entries : Found(e) /\ (cursor = NoKey \/ Before(cursor, Key(e)))}

\* The first n of them.
FirstOf(set, n) ==
    {e \in set : Cardinality({f \in set : Before(Key(f), Key(e))}) < n}

\* Mutant of Query: no more rows are asked for than are shown.
QueryLimit ==
    /\ pc = "more"
    /\ rows' = {Key(e) : e \in FirstOf(Following, Limit)}
    /\ more' = (Cardinality(rows') > Limit)
    /\ shown' = {}
    /\ pc' = "checking"
    /\ UNCHANGED <<catalogue, changes, listing, cursor, times, steady, still>>

Query ==
    /\ pc = "more"
    /\ rows' = {Key(e) : e \in FirstOf(Following, Limit + 1)}
    /\ more' = (Cardinality(rows') > Limit)
    /\ shown' = {}
    /\ pc' = "checking"
    /\ UNCHANGED <<catalogue, changes, listing, cursor, times, steady, still>>

\* One turn of the loop: a row whose shop is closed is left out of a search.
CheckRow ==
    /\ pc = "checking"
    /\ Cardinality(shown) < Limit
    /\ \E row \in rows :
          /\ \A other \in rows : ~Before(other, row)
          /\ rows' = rows \ {row}
          /\ shown' = IF listing = "new" \/ IsShopAvailable(Place(row.id))
                      THEN shown \cup {row} ELSE shown
    /\ UNCHANGED <<catalogue, changes, listing, pc, cursor, more, times, steady, still>>

Shown(e) == \E row \in shown : row.id = e

\* The page is sent, with the key of its last entry when there are more rows.
AnswerWith(last) ==
    /\ pc = "checking"
    /\ rows = {} \/ Cardinality(shown) >= Limit
    /\ IF more /\ shown # {} THEN last /\ pc' = "more"
       ELSE pc' = "ended" /\ UNCHANGED cursor
    /\ times' = [e \in Entries |-> times[e] + IF Shown(e) THEN 1 ELSE 0]
    /\ rows' = {}
    /\ UNCHANGED <<catalogue, changes, listing, more, shown, steady, still>>

\* Mutant of Answer: the cursor is the last row of the query, shown or not.
AnswerLastRow ==
    AnswerWith(\E row \in shown \cup rows :
                  /\ \A other \in shown \cup rows : ~Before(row, other)
                  /\ cursor' = row)

Answer ==
    AnswerWith(\E row \in shown :
                  /\ \A other \in shown : ~Before(row, other)
                  /\ cursor' = row)

-----------------------------------------------------------------------------
(* The shopkeeper and the clock.                                           *)

\* A change of the catalogue counts, and tells which entries have kept their place.
Changed ==
    /\ changes < MaxChanges
    /\ changes' = changes + 1
    /\ UNCHANGED <<page, listing>>
    /\ still' = {e \in still : Key(e)' = Key(e)}
    /\ steady' = {e \in steady \cap still' :
                     Found(e)' /\ (listing = "new" \/ Place(e) \in open')}

\* A row as updateShop or updateShopStatus makes it; the first activation publishes.
Edited(row) ==
    {[row EXCEPT !.distance = distance] : distance \in Distances}
    \cup {[row EXCEPT !.reach = reach] : reach \in Distances}
    \cup {[row EXCEPT !.status = status] : status \in Status \ {"ACTIVE"}}
    \cup {[row EXCEPT !.status = "ACTIVE", !.published = IF @ = 0 THEN now ELSE @]}

\* A request reads the row, without a lock, and saves later: every column that differs
\* from the row by then is written, those it has not changed too.
UpdateShop(s) ==
    /\ \E read \in past[s] : \E row \in Edited(read) :
          /\ row # shop[s]
          /\ shop' = [shop EXCEPT ![s] = row]
          /\ past' = [past EXCEPT ![s] = @ \cup {row}]
    /\ UNCHANGED <<open, available, now>>
    /\ Changed

\* updateShopHours, or the time of day.
ChangeHours(s) ==
    /\ open' = IF s \in open THEN open \ {s} ELSE open \cup {s}
    /\ UNCHANGED <<shop, past, available, now>>
    /\ Changed

UpdateProductStatus(p) ==
    /\ available' = IF p \in available THEN available \ {p} ELSE available \cup {p}
    /\ UNCHANGED <<shop, past, open, now>>
    /\ Changed

Tick ==
    /\ now < MaxTime
    /\ now' = now + 1
    /\ UNCHANGED <<shop, past, open, available>>
    /\ Changed

-----------------------------------------------------------------------------
Init ==
    /\ now = 1
    /\ shop \in [Shops -> InitialShops]
    /\ open \in SUBSET Shops
    /\ available = Products
    /\ changes = 0
    /\ past = [s \in Shops |-> {shop[s]}]
    /\ listing \in Listings
    /\ pc = "more"
    /\ cursor = NoKey
    /\ rows = {}
    /\ more = FALSE
    /\ shown = {}
    /\ times = [e \in Entries |-> 0]
    /\ still = Entries
    /\ steady = {e \in Entries : Found(e) /\ (listing = "new" \/ Place(e) \in open)}

CatalogueStep ==
    \/ \E s \in Shops : UpdateShop(s) \/ ChangeHours(s)
    \/ \E p \in Products : UpdateProductStatus(p)
    \/ Tick

Next == Query \/ CheckRow \/ Answer \/ CatalogueStep

Spec == Init /\ [][Next]_vars

-----------------------------------------------------------------------------
TypeOK ==
    /\ shop \in [Shops -> Shop]
    /\ open \subseteq Shops
    /\ available \subseteq Products
    /\ now \in 0..MaxTime
    /\ changes \in 0..MaxChanges
    /\ past \in [Shops -> SUBSET Shop]
    /\ listing \in Listings
    /\ pc \in {"more", "checking", "ended"}
    /\ cursor \in Keys \cup {NoKey}
    /\ rows \in SUBSET Keys
    /\ more \in BOOLEAN
    /\ shown \in SUBSET Keys
    /\ times \in [Entries -> Nat]
    /\ steady \subseteq still
    /\ still \subseteq Entries

\* An entry that stays at its place is shown once at most, however the others move and
\* the pages end (search.service.ts:56, shops.service.ts:185).
ShownOnce == \A e \in still : times[e] <= 1

\* The cursor is at the entry or behind it.
Passed(e) == cursor # NoKey /\ ~Before(cursor, Key(e))

\* An entry that is in the listing all the time, at its place, is not passed over, however
\* many before it are left out of a page (search.service.ts:107 "To maintain keyset
\* pagination stability").
NotPassedOver == \A e \in steady : Passed(e) => times[e] = 1

\* The last page of a listing has been reached: what is steady was shown.  Only a page
\* of a search whose shops are all closed ends it before (search.service.ts:122).
EndedIsComplete ==
    pc = "ended" /\ (listing = "new" \/ shown # {} \/ ~more) =>
        \A e \in steady : times[e] = 1

\* Every page but the last moves the cursor on, and shows what lies between the two
\* cursors: a customer is not led in a circle, however shops are moved and published
\* meanwhile (search.service.ts:56, shops.service.ts:185).
PagesGoForward ==
    [][pc = "checking" /\ pc' = "more" =>
          /\ cursor = NoKey \/ Before(cursor, cursor')
          /\ \A row \in shown : (cursor = NoKey \/ Before(cursor, row))
                                /\ ~Before(cursor', row)]_vars

\* What these rest on.  The page in hand lies behind the cursor, and what has been looked
\* at before what has not.
Fetched == rows \cup shown

PageFollows ==
    /\ IsFiniteSet(Fetched)
    /\ pc = "checking" => \A row \in Fetched : cursor = NoKey \/ Before(cursor, row)
    /\ \A row \in shown, other \in rows : Before(row, other)
    /\ \A row \in Fetched : row.id \in still => row = Key(row.id)

\* Whatever was shown is passed, unless the listing has ended.
ShownIsPassed ==
    pc # "ended" => \A e \in still : times[e] # 0 => Passed(e)

\* A steady entry to come is on the page or, if that is not the last, behind all of it.
SteadyIsAhead ==
    /\ \A e \in steady : Found(e) /\ (listing = "new" \/ Place(e) \in open)
    /\ pc = "checking" =>
          /\ \A e \in steady : Passed(e) \/ Key(e) \in Fetched
                              \/ (more /\ \A row \in Fetched : Before(row, Key(e)))
          /\ more \/ Cardinality(Fetched) <= Limit
          /\ listing = "new" /\ more => Fetched # {}

\* The inductive invariant of BrowsingProofs.
IInv ==
    /\ TypeOK
    /\ PageFollows
    /\ ShownIsPassed
    /\ SteadyIsAhead
    /\ ShownOnce
    /\ NotPassedOver
    /\ EndedIsComplete

=============================================================================
