---------------------------- MODULE BrowsingProofs ----------------------------
(***************************************************************************)
(* Proofs of the safety properties of Browsing, for any catalogue, any     *)
(* size of a page and any number of changes.                               *)
(***************************************************************************)
EXTENDS Browsing, FiniteSetTheorems, WellFoundedInduction, TLAPS

-----------------------------------------------------------------------------
(* The order of a listing.                                                 *)

\* Keys are in a strict total order.
LEMMA KeysOrdered ==
    ASSUME NEW k \in Keys, NEW l \in Keys, NEW m \in Keys
    PROVE  /\ ~Before(k, k)
           /\ Before(k, l) => ~Before(l, k)
           /\ Before(k, l) /\ Before(l, m) => Before(k, m)
           /\ k # l => Before(k, l) \/ Before(l, k)
<1>1. /\ k.distance \in Nat /\ k.next \in Int /\ k.id \in Nat
      /\ l.distance \in Nat /\ l.next \in Int /\ l.id \in Nat
      /\ m.distance \in Nat /\ m.next \in Int /\ m.id \in Nat
  BY DEF Keys
<1>2. k # l => k.distance # l.distance \/ k.next # l.next \/ k.id # l.id
  BY DEF Keys
<1> QED
  BY <1>1, <1>2 DEF Before

\* An entry has a key of its own.
LEMMA EntryKey ==
    ASSUME TypeOK, NEW e \in Entries
    PROVE  /\ Key(e) \in Keys
           /\ Key(e).id = e
           /\ Place(e) \in Shops
<1>1. listing = "products" => e \in Products
  BY DEF Entries
<1>2. listing # "products" => e \in Shops
  BY DEF Entries
<1>3. Place(e) \in Shops
  BY <1>1, <1>2, BrowsingAssumption DEF Place
<1>4. Place(e) \in Nat /\ e \in Nat
  BY <1>1, <1>2, <1>3, BrowsingAssumption
<1>5. shop[Place(e)].distance \in Nat
  BY <1>3, BrowsingAssumption DEF TypeOK, Shop
<1>6. listing = "new" => shop[e].published \in Nat
  <2>1. listing = "new" => shop[e] \in Shop
    BY <1>2 DEF TypeOK
  <2>2. \A row \in Shop : row.published \in Nat
    BY BrowsingAssumption DEF Shop
  <2> QED
    BY <2>1, <2>2
<1>7. (IF listing = "new" THEN -shop[e].published ELSE Place(e)) \in Int
  BY <1>4, <1>6
<1> QED
  BY <1>3, <1>4, <1>5, <1>7 DEF Key, Keys

LEMMA EntriesFinite == IsFiniteSet(Entries)
  BY BrowsingAssumption DEF Entries

-----------------------------------------------------------------------------
(* The first entries.                                                      *)

Ahead(set, e) == {f \in set : Before(Key(f), Key(e))}

\* Who is not among the first comes behind all of them.
LEMMA FirstComeFirst ==
    ASSUME TypeOK, NEW S, S \subseteq Entries, NEW n \in Nat,
           NEW f \in FirstOf(S, n), NEW e \in S \ FirstOf(S, n)
    PROVE  Before(Key(f), Key(e))
<1>1. IsFiniteSet(S)
  BY EntriesFinite, FS_Subset
<1>2. f \in S /\ e \in S /\ f # e
  BY DEF FirstOf
<1>3. /\ Key(f) \in Keys /\ Key(e) \in Keys
      /\ Key(f) # Key(e)
  BY <1>2, EntryKey
<1>4. SUFFICES ASSUME Before(Key(e), Key(f))
               PROVE  FALSE
  BY <1>3, KeysOrdered
<1>5. Ahead(S, e) \subseteq Ahead(S, f)
  <2> SUFFICES ASSUME NEW g \in Ahead(S, e)
               PROVE  g \in Ahead(S, f)
    OBVIOUS
  <2>1. g \in S /\ Before(Key(g), Key(e)) /\ Key(g) \in Keys
    BY EntryKey DEF Ahead
  <2> QED
    BY <2>1, <1>3, <1>4, KeysOrdered DEF Ahead
<1>6. IsFiniteSet(Ahead(S, f)) /\ Ahead(S, f) \subseteq S
  BY <1>1, FS_Subset DEF Ahead
<1>7. /\ Cardinality(Ahead(S, e)) <= Cardinality(Ahead(S, f))
      /\ IsFiniteSet(Ahead(S, e))
  BY <1>5, <1>6, FS_Subset
<1>8. Cardinality(Ahead(S, f)) < n /\ ~(Cardinality(Ahead(S, e)) < n)
  BY <1>2 DEF FirstOf, Ahead
<1>9. Cardinality(Ahead(S, f)) \in Nat /\ Cardinality(Ahead(S, e)) \in Nat
  BY <1>6, <1>7, FS_CardinalityType
<1> QED
  BY <1>7, <1>8, <1>9

\* The keys of a set of entries are as many as these.
LEMMA KeysAreMany ==
    ASSUME TypeOK, NEW S, S \subseteq Entries
    PROVE  LET keys == {Key(e) : e \in S} IN
           /\ IsFiniteSet(keys)
           /\ Cardinality(keys) = Cardinality(S)
<1> DEFINE keys == {Key(e) : e \in S}
           f == [e \in S |-> Key(e)]
<1>1. IsFiniteSet(S)
  BY EntriesFinite, FS_Subset
<1>2. \A e \in S : Key(e).id = e
  BY EntryKey
<1>3. f \in Surjection(S, keys)
  BY DEF Surjection
<1>4. f \in Injection(S, keys)
  BY <1>2, <1>3 DEF Injection, Surjection, IsInjective
<1> QED
  BY <1>1, <1>3, <1>4, FS_Surjection

\* If the first are no more than were asked for, they are all there are.
LEMMA FirstAreAll ==
    ASSUME TypeOK, NEW S, S \subseteq Entries, NEW n \in Nat,
           Cardinality(FirstOf(S, n + 1)) <= n
    PROVE  FirstOf(S, n + 1) = S
<1> DEFINE first == FirstOf(S, n + 1)
           behind == {Ahead(S, e) : e \in S \ first}
<1>1. first \subseteq S
  BY DEF FirstOf
<1>2. SUFFICES ASSUME S \ first # {}
               PROVE  FALSE
  BY <1>1
<1>3. IsFiniteSet(S) /\ IsFiniteSet(first)
  BY <1>1, EntriesFinite, FS_Subset
<1>4. behind \subseteq FiniteSubsetsOf(S) /\ behind # {}
  <2>1. \A e \in S : Ahead(S, e) \subseteq S
    BY DEF Ahead
  <2> QED
    BY <2>1, <1>2, <1>3, FS_FiniteSubsetsOfFinite
<1>5. PICK T \in behind : \A U \in behind : <<U, T>> \notin StrictSubsetOrdering(S)
  BY <1>4, FS_StrictSubsetOrderingWellFounded, WFMin
<1>6. PICK m \in S \ first : T = Ahead(S, m)
  BY <1>5
<1>7. T \subseteq first
  <2> SUFFICES ASSUME NEW g \in T, g \notin first
               PROVE  FALSE
    OBVIOUS
  <2>1. g \in S /\ Before(Key(g), Key(m)) /\ Key(g) \in Keys /\ Key(m) \in Keys
    BY <1>6, EntryKey DEF Ahead
  <2>2. Ahead(S, g) \subseteq T
    <3> SUFFICES ASSUME NEW h \in Ahead(S, g)
                 PROVE  h \in T
      OBVIOUS
    <3>1. h \in S /\ Before(Key(h), Key(g)) /\ Key(h) \in Keys
      BY EntryKey DEF Ahead
    <3> QED
      BY <3>1, <2>1, <1>6, KeysOrdered DEF Ahead
  <2>3. g \notin Ahead(S, g)
    BY <2>1, KeysOrdered DEF Ahead
  <2>4. Ahead(S, g) \in behind /\ T \subseteq S
    BY <2>1, <1>6 DEF Ahead
  <2>5. <<Ahead(S, g), T>> \in StrictSubsetOrdering(S)
    BY <2>2, <2>3, <2>4 DEF StrictSubsetOrdering
  <2> QED
    BY <2>4, <2>5, <1>5
<1>8. Cardinality(T) <= Cardinality(first) /\ IsFiniteSet(T)
  BY <1>7, <1>3, FS_Subset
<1>9. ~(Cardinality(T) < n + 1)
  BY <1>6 DEF FirstOf, Ahead
<1>10. Cardinality(T) \in Nat /\ Cardinality(first) \in Nat
  BY <1>3, <1>8, FS_CardinalityType
<1> QED
  BY <1>8, <1>9, <1>10

-----------------------------------------------------------------------------
(* Types.                                                                  *)

\* A row stays a row when it is edited.
LEMMA EditedType ==
    ASSUME TypeOK, now \in 0..MaxTime, NEW read \in Shop, NEW row \in Edited(read)
    PROVE  row \in Shop
  BY DEF Edited, Shop, Status

LEMMA TypeStep == TypeOK /\ [Next]_vars => TypeOK'
<1> SUFFICES ASSUME TypeOK, [Next]_vars
             PROVE  TypeOK'
  OBVIOUS
<1> USE DEF TypeOK
<1>1. ASSUME Query
      PROVE  TypeOK'
  <2>1. rows' \subseteq Keys
    <3>1. \A e \in FirstOf(Following, Limit + 1) : e \in Entries
      BY DEF FirstOf, Following
    <3> QED
      BY <1>1, <3>1, EntryKey DEF Query
  <2>2. more' \in BOOLEAN /\ shown' = {} /\ pc' = "checking"
    BY <1>1 DEF Query
  <2> QED
    BY <1>1, <2>1, <2>2 DEF Query, catalogue, Entries
<1>2. ASSUME CheckRow
      PROVE  TypeOK'
  BY <1>2 DEF CheckRow, catalogue, Entries
<1>3. ASSUME Answer
      PROVE  TypeOK'
  <2>1. cursor' \in Keys \cup {NoKey} /\ pc' \in {"more", "checking", "ended"}
    BY <1>3 DEF Answer, AnswerWith
  <2>2. \A e \in Entries : times[e] + (IF Shown(e) THEN 1 ELSE 0) \in Nat
    OBVIOUS
  <2>3. times' \in [Entries -> Nat]
    BY <1>3, <2>2 DEF Answer, AnswerWith
  <2> QED
    BY <1>3, <2>1, <2>3 DEF Answer, AnswerWith, catalogue, Entries
<1>4. ASSUME CatalogueStep
      PROVE  TypeOK'
  <2>1. Changed
    BY <1>4 DEF CatalogueStep, UpdateShop, ChangeHours, UpdateProductStatus, Tick
  <2>2. changes' \in 0..MaxChanges
    <3>1. changes' = changes + 1 /\ changes < MaxChanges
      BY <2>1 DEF Changed
    <3> QED
      BY <3>1, BrowsingAssumption
  <2>3. /\ shop' \in [Shops -> Shop]
        /\ past' \in [Shops -> SUBSET Shop]
    <3>1. ASSUME NEW s \in Shops, UpdateShop(s)
          PROVE  shop' \in [Shops -> Shop] /\ past' \in [Shops -> SUBSET Shop]
      <4>1. PICK read \in past[s] : \E row \in Edited(read) :
                /\ shop' = [shop EXCEPT ![s] = row]
                /\ past' = [past EXCEPT ![s] = @ \cup {row}]
        BY <3>1 DEF UpdateShop
      <4>2. PICK row \in Edited(read) :
                /\ shop' = [shop EXCEPT ![s] = row]
                /\ past' = [past EXCEPT ![s] = @ \cup {row}]
        BY <4>1
      <4>3. read \in Shop
        BY <4>1
      <4>4. row \in Shop
        BY <4>2, <4>3, EditedType
      <4> QED
        BY <4>2, <4>4
    <3> QED
      BY <1>4, <3>1 DEF CatalogueStep, ChangeHours, UpdateProductStatus, Tick
  <2>4. open' \subseteq Shops /\ available' \subseteq Products /\ now' \in 0..MaxTime
    <3>1. CASE \E s \in Shops : UpdateShop(s) \/ ChangeHours(s)
      BY <3>1 DEF UpdateShop, ChangeHours
    <3>2. CASE \E p \in Products : UpdateProductStatus(p)
      BY <3>2 DEF UpdateProductStatus
    <3>3. CASE Tick
      BY <3>3, BrowsingAssumption DEF Tick
    <3> QED
      BY <1>4, <3>1, <3>2, <3>3 DEF CatalogueStep
  <2>5. /\ UNCHANGED <<listing, pc, cursor, rows, more, shown, times>>
        /\ steady' \subseteq still' /\ still' \subseteq still
    BY <2>1 DEF Changed, page
  <2> QED
    BY <2>2, <2>3, <2>4, <2>5 DEF Entries
<1>5. CASE UNCHANGED vars
  BY <1>5 DEF vars, Entries
<1> QED
  BY <1>1, <1>2, <1>3, <1>4, <1>5 DEF Next

-----------------------------------------------------------------------------
(* The steps.                                                              *)

PagesInv ==
    /\ PageFollows /\ ShownIsPassed /\ SteadyIsAhead
    /\ ShownOnce /\ NotPassedOver /\ EndedIsComplete

\* A change of the catalogue leaves the page alone, and what is left of steady and still
\* as it was.
LEMMA CatalogueKeeps ==
    ASSUME TypeOK, PagesInv, CatalogueStep
    PROVE  PagesInv'
<1>1. Changed
  BY DEF CatalogueStep, UpdateShop, ChangeHours, UpdateProductStatus, Tick
<1>2. /\ UNCHANGED <<listing, pc, cursor, rows, more, shown, times>>
      /\ UNCHANGED Fetched
  BY <1>1 DEF Changed, page, Fetched
<1>3. \A e \in still' : e \in still /\ Key(e)' = Key(e) /\ (Passed(e)' <=> Passed(e))
  BY <1>1, <1>2 DEF Changed, Passed
<1>4. \A e \in steady' :
         /\ e \in steady /\ e \in still'
         /\ Found(e)' /\ (listing = "new" \/ Place(e) \in open')
  BY <1>1 DEF Changed
<1>5. \A e : Place(e)' = Place(e)
  BY <1>2 DEF Place
<1>6. PageFollows'
  BY <1>2, <1>3 DEF PagesInv, PageFollows
<1>7. ShownIsPassed' /\ ShownOnce'
  BY <1>2, <1>3 DEF PagesInv, ShownIsPassed, ShownOnce
<1>8. SteadyIsAhead'
  BY <1>2, <1>3, <1>4, <1>5 DEF PagesInv, SteadyIsAhead
<1>9. NotPassedOver' /\ EndedIsComplete'
  BY <1>2, <1>3, <1>4 DEF PagesInv, NotPassedOver, EndedIsComplete
<1> QED
  BY <1>6, <1>7, <1>8, <1>9 DEF PagesInv

\* What a step of the customer leaves as it is.
LEMMA CustomerKeeps ==
    ASSUME UNCHANGED <<catalogue, listing, steady, still>>
    PROVE  /\ \A e : Key(e)' = Key(e) /\ Place(e)' = Place(e) /\ (Found(e)' <=> Found(e))
           /\ \A e : cursor' = cursor => (Passed(e)' <=> Passed(e))
           /\ UNCHANGED <<open, steady, still, listing>>
  BY DEF catalogue, Key, Place, Found, Passed

\* A query fetches the next entries.
LEMMA QueryKeeps ==
    ASSUME TypeOK, PagesInv, Query
    PROVE  PagesInv'
<1> DEFINE first == FirstOf(Following, Limit + 1)
<1>1. /\ pc = "more" /\ pc' = "checking"
      /\ rows' = {Key(e) : e \in first}
      /\ more' => Cardinality(rows') > Limit
      /\ Cardinality(rows') > Limit => more'
      /\ shown' = {} /\ Fetched' = rows'
      /\ UNCHANGED <<catalogue, changes, listing, cursor, times, steady, still>>
  <2>1. /\ more' => Cardinality(rows') > Limit
        /\ Cardinality(rows') > Limit => more'
    BY Zenon DEF Query
  <2> QED
    BY <2>1 DEF Query, Fetched
<1>2. /\ \A e : Key(e)' = Key(e) /\ Place(e)' = Place(e) /\ (Found(e)' <=> Found(e))
      /\ \A e : Passed(e)' <=> Passed(e)
      /\ UNCHANGED open
  BY <1>1, CustomerKeeps
<1>3. Following \subseteq Entries /\ first \subseteq Following
  BY DEF Following, FirstOf
<1>4. IsFiniteSet(rows') /\ Cardinality(rows') = Cardinality(first)
  <2>1. first \subseteq Entries
    BY <1>3
  <2>2. PICK S : S = first
    OBVIOUS
  <2> QED
    BY <1>1, <2>1, <2>2, KeysAreMany
<1>5. Limit \in Nat /\ Cardinality(first) \in Nat
  BY <1>4, FS_CardinalityType, BrowsingAssumption
<1>6. PageFollows'
  <2>1. ASSUME NEW row \in rows'
        PROVE  /\ cursor = NoKey \/ Before(cursor, row)
               /\ row = Key(row.id)
    <3>1. PICK e \in first : row = Key(e)
      BY <1>1
    <3>2. e \in Following /\ Key(e).id = e
      BY <1>3, <3>1, EntryKey
    <3> QED
      BY <3>1, <3>2 DEF Following
  <2> QED
    BY <1>1, <1>2, <1>4, <2>1 DEF PageFollows
<1>7. ShownIsPassed' /\ ShownOnce' /\ NotPassedOver'
  BY <1>1, <1>2 DEF PagesInv, ShownIsPassed, ShownOnce, NotPassedOver
<1>8. SteadyIsAhead'
  <2>1. \A e \in steady : Found(e) /\ (listing = "new" \/ Place(e) \in open)
    BY DEF PagesInv, SteadyIsAhead
  <2>2. ASSUME NEW e \in steady, ~Passed(e), Key(e) \notin rows'
        PROVE  more' /\ \A row \in rows' : Before(row, Key(e))
    <3>1. e \in Entries /\ Found(e)
      BY <2>1 DEF TypeOK
    <3>2. e \in Following
      BY <2>2, <3>1 DEF Following, Passed
    <3>3. e \in Following \ first
      BY <1>1, <2>2, <3>2
    <3>4. PICK S : S = Following
      OBVIOUS
    <3>5. \A f \in first : Before(Key(f), Key(e))
      BY <1>3, <1>5, <3>3, <3>4, FirstComeFirst
    <3>6. ~(Cardinality(first) <= Limit)
      BY <1>3, <1>5, <3>3, <3>4, FirstAreAll
    <3> QED
      BY <1>1, <1>4, <1>5, <3>5, <3>6
  <2>3. more' \/ Cardinality(rows') <= Limit
    BY <1>1, <1>4, <1>5
  <2>4. more' => rows' # {}
    BY <1>1, <1>5, FS_EmptySet
  <2> QED
    BY <1>1, <1>2, <2>1, <2>2, <2>3, <2>4 DEF SteadyIsAhead
<1>9. EndedIsComplete'
  BY <1>1 DEF EndedIsComplete
<1> QED
  BY <1>6, <1>7, <1>8, <1>9 DEF PagesInv

\* The row looked at is the first that is left; it is a steady entry's only if it is shown.
LEMMA CheckRowKeeps ==
    ASSUME TypeOK, PagesInv, CheckRow
    PROVE  PagesInv'
<1>1. PICK row \in rows :
         /\ \A other \in rows : ~Before(other, row)
         /\ rows' = rows \ {row}
         /\ shown' = IF listing = "new" \/ IsShopAvailable(Place(row.id))
                     THEN shown \cup {row} ELSE shown
  BY DEF CheckRow
<1>2. /\ pc = "checking"
      /\ UNCHANGED <<catalogue, changes, listing, pc, cursor, more, times, steady, still>>
  BY DEF CheckRow
<1>3. /\ \A e : Key(e)' = Key(e) /\ Place(e)' = Place(e) /\ (Found(e)' <=> Found(e))
      /\ \A e : Passed(e)' <=> Passed(e)
      /\ UNCHANGED open
  BY <1>2, CustomerKeeps
<1>4. /\ rows \subseteq Keys /\ shown \subseteq Keys
      /\ Fetched' \subseteq Fetched /\ Fetched \subseteq Fetched' \cup {row}
      /\ listing = "new" \/ IsShopAvailable(Place(row.id)) => Fetched' = Fetched
  BY <1>1 DEF Fetched, TypeOK
<1>5. IsFiniteSet(Fetched) /\ IsFiniteSet(Fetched')
  BY <1>4, FS_Subset DEF PagesInv, PageFollows
<1>6. PageFollows'
  <2>1. \A other \in rows' : Before(row, other)
    BY <1>1, <1>4, KeysOrdered
  <2>2. \A r \in shown', other \in rows' : Before(r, other)
    BY <1>1, <2>1 DEF PagesInv, PageFollows
  <2> QED
    BY <1>2, <1>3, <1>4, <1>5, <2>2 DEF PagesInv, PageFollows
<1>7. ShownIsPassed' /\ ShownOnce' /\ NotPassedOver' /\ EndedIsComplete'
  BY <1>2, <1>3 DEF PagesInv, ShownIsPassed, ShownOnce, NotPassedOver, EndedIsComplete
<1>8. SteadyIsAhead'
  <2>1. \A e \in steady : /\ Found(e) /\ (listing = "new" \/ Place(e) \in open)
                          /\ \/ Passed(e) \/ Key(e) \in Fetched
                             \/ more /\ \A r \in Fetched : Before(r, Key(e))
    BY <1>2 DEF PagesInv, SteadyIsAhead
  <2>2. ASSUME NEW e \in steady, Key(e) \in Fetched
        PROVE  Key(e) \in Fetched'
    <3>1. CASE Key(e) # row
      BY <1>4, <2>2, <3>1
    <3>2. CASE Key(e) = row
      <4>1. row.id = e
        BY <3>2, EntryKey DEF TypeOK
      <4>2. listing = "new" \/ IsShopAvailable(Place(e))
        BY <2>1 DEF IsShopAvailable, Found
      <4> QED
        BY <1>4, <2>2, <4>1, <4>2
    <3> QED
      BY <3>1, <3>2
  <2>3. Cardinality(Fetched') <= Cardinality(Fetched)
    BY <1>4, <1>5, FS_Subset
  <2>4. more \/ Cardinality(Fetched') <= Limit
    <3>1. Cardinality(Fetched) \in Nat /\ Cardinality(Fetched') \in Nat /\ Limit \in Nat
      BY <1>5, FS_CardinalityType, BrowsingAssumption
    <3> QED
      BY <1>2, <2>3, <3>1 DEF PagesInv, SteadyIsAhead
  <2>5. listing = "new" /\ more => Fetched' # {}
    BY <1>2, <1>4 DEF PagesInv, SteadyIsAhead
  <2> QED
    BY <1>2, <1>3, <1>4, <2>1, <2>2, <2>4, <2>5 DEF SteadyIsAhead
<1> QED
  BY <1>6, <1>7, <1>8 DEF PagesInv

\* A page is sent: its entries had not been passed, and the cursor moves to the last of them.
LEMMA AnswerKeeps ==
    ASSUME TypeOK, PagesInv, Answer
    PROVE  PagesInv'
<1>1. /\ pc = "checking"
      /\ rows = {} \/ Cardinality(shown) >= Limit
      /\ times' = [e \in Entries |-> times[e] + IF Shown(e) THEN 1 ELSE 0]
      /\ rows' = {}
      /\ UNCHANGED <<catalogue, changes, listing, more, shown, steady, still>>
  BY DEF Answer, AnswerWith
<1>2. /\ \A e : Key(e)' = Key(e) /\ Place(e)' = Place(e) /\ (Found(e)' <=> Found(e))
      /\ UNCHANGED open
  BY <1>1, CustomerKeeps
<1>3. /\ still \subseteq Entries /\ steady \subseteq still
      /\ rows \subseteq Fetched /\ shown \subseteq Fetched
      /\ rows \subseteq Keys /\ shown \subseteq Keys /\ Fetched \subseteq Keys
      /\ cursor \in Keys \cup {NoKey}
      /\ \A e \in Entries : times[e] \in Nat
  BY DEF TypeOK, Fetched
<1>4. /\ IsFiniteSet(Fetched)
      /\ \A row \in Fetched : cursor = NoKey \/ Before(cursor, row)
      /\ \A row \in shown, other \in rows : Before(row, other)
      /\ \A row \in Fetched : row.id \in still => row = Key(row.id)
  BY <1>1 DEF PagesInv, PageFollows
<1>5. \A e \in still : e \in Entries /\ Key(e) \in Keys /\ Key(e).id = e
  BY <1>3, EntryKey
<1>6. \A e \in still : times[e] # 0 => Passed(e)
  BY <1>1 DEF PagesInv, ShownIsPassed
<1>7. \A e \in still : Shown(e) <=> Key(e) \in shown
  BY <1>3, <1>4, <1>5 DEF Shown
<1>8. \A e \in still : Shown(e) => ~Passed(e) /\ times[e] = 0
  <2>1. \A e \in still : Shown(e) => ~Passed(e)
    BY <1>3, <1>4, <1>7 DEF Passed
  <2> QED
    BY <2>1, <1>6
<1>9. \A e \in still : /\ Shown(e) => times'[e] = 1
                       /\ ~Shown(e) => times'[e] = times[e]
  BY <1>1, <1>3, <1>5, <1>8
<1>10. ShownOnce'
  BY <1>1, <1>9 DEF PagesInv, ShownOnce
<1>11. PageFollows'
  <2>1. Fetched' \subseteq Fetched /\ pc' # "checking"
    BY <1>1 DEF Fetched, Answer, AnswerWith
  <2>2. IsFiniteSet(Fetched')
    BY <1>4, <2>1, FS_Subset
  <2> QED
    BY <1>1, <1>2, <1>4, <2>1, <2>2 DEF PageFollows
<1>12. \A e \in steady : /\ Found(e) /\ (listing = "new" \/ Place(e) \in open)
                         /\ \/ Passed(e) \/ Key(e) \in Fetched
                            \/ more /\ \A row \in Fetched : Before(row, Key(e))
                         /\ Passed(e) => times[e] = 1
  BY <1>1 DEF PagesInv, SteadyIsAhead, NotPassedOver
<1>13. SteadyIsAhead'
  <2>1. pc' # "checking"
    BY <1>1 DEF Answer, AnswerWith
  <2> QED
    BY <1>1, <1>2, <1>12, <2>1 DEF SteadyIsAhead
<1>14. CASE more /\ shown # {}
  <2>1. PICK last \in shown :
           /\ \A other \in shown : ~Before(last, other)
           /\ cursor' = last
    BY <1>14 DEF Answer, AnswerWith
  <2>2. pc' = "more"
    BY <1>14 DEF Answer, AnswerWith
  <2>3. last \in Keys /\ last # NoKey
    BY <1>3, <2>1, BrowsingAssumption DEF Keys
  <2>4. \A e \in still : Passed(e)' <=> ~Before(last, Key(e))
    BY <1>2, <2>1, <2>3 DEF Passed
  <2>5. \A e \in still : Passed(e) => Passed(e)'
    <3> SUFFICES ASSUME NEW e \in still, Passed(e)
                 PROVE  ~Before(last, Key(e))
      BY <2>4
    <3>1. cursor \in Keys /\ Before(cursor, last) /\ ~Before(cursor, Key(e))
      BY <1>3, <1>4, <2>1 DEF Passed
    <3> QED
      BY <1>5, <2>3, <3>1, KeysOrdered
  <2>6. ShownIsPassed'
    <3> SUFFICES ASSUME NEW e \in still, times'[e] # 0
                 PROVE  Passed(e)'
      BY <1>1 DEF ShownIsPassed
    <3>1. CASE Shown(e)
      BY <3>1, <1>7, <2>1, <2>4
    <3>2. CASE ~Shown(e)
      BY <3>2, <1>6, <1>9, <2>5
    <3> QED
      BY <3>1, <3>2
  <2>7. NotPassedOver'
    <3> SUFFICES ASSUME NEW e \in steady, Passed(e)'
                 PROVE  times'[e] = 1
      BY <1>1 DEF NotPassedOver
    <3>1. e \in still /\ ~Before(last, Key(e))
      BY <1>3, <2>4
    <3>2. CASE Shown(e)
      BY <3>1, <3>2, <1>9
    <3>3. CASE ~Shown(e) /\ Passed(e)
      BY <3>1, <3>3, <1>9, <1>12
    <3>4. CASE ~Shown(e) /\ ~Passed(e)
      <4>1. Key(e) \in Fetched /\ Key(e) \notin shown
        BY <3>1, <3>4, <1>3, <1>7, <1>12, <2>1
      <4>2. Key(e) \in rows
        BY <4>1 DEF Fetched
      <4> QED
        BY <4>2, <1>4, <2>1, <3>1
    <3> QED
      BY <3>2, <3>3, <3>4
  <2>8. EndedIsComplete'
    BY <2>2 DEF EndedIsComplete
  <2> QED
    BY <1>10, <1>11, <1>13, <2>6, <2>7, <2>8 DEF PagesInv
<1>15. CASE ~(more /\ shown # {})
  <2>1. pc' = "ended" /\ cursor' = cursor
    BY <1>15 DEF Answer, AnswerWith
  <2>2. \A e \in still : Passed(e)' <=> Passed(e)
    BY <1>2, <2>1 DEF Passed
  <2>3. NotPassedOver'
    BY <1>1, <1>3, <1>8, <1>9, <1>12, <2>2 DEF NotPassedOver
  <2>4. ASSUME listing = "new" \/ shown # {} \/ ~more, NEW e \in steady
        PROVE  times'[e] = 1
    <3>1. e \in still
      BY <1>3
    <3>2. IsFiniteSet(shown) /\ Cardinality(shown) \in Nat /\ Limit \in Nat /\ Limit # 0
      BY <1>3, <1>4, FS_Subset, FS_CardinalityType, BrowsingAssumption
    <3>3. ~more
      <4> SUFFICES ASSUME more, shown = {}, listing = "new"
                   PROVE  FALSE
        BY <1>15, <2>4
      <4>1. Fetched # {}
        BY <1>1 DEF PagesInv, SteadyIsAhead
      <4>2. rows = {}
        BY <1>1, <3>2, FS_EmptySet
      <4> QED
        BY <4>1, <4>2 DEF Fetched
    <3>4. rows = {}
      <4> SUFFICES ASSUME NEW row \in rows
                   PROVE  FALSE
        OBVIOUS
      <4>1. row \notin shown
        BY <1>3, <1>4, KeysOrdered
      <4>2. /\ Cardinality(shown \cup {row}) = Cardinality(shown) + 1
            /\ Cardinality(shown \cup {row}) <= Cardinality(Fetched)
        BY <1>3, <1>4, <3>2, <4>1, FS_AddElement, FS_Subset
      <4>3. Cardinality(Fetched) <= Limit /\ Cardinality(Fetched) \in Nat
        BY <1>1, <1>4, <3>3, FS_CardinalityType DEF PagesInv, SteadyIsAhead
      <4> QED
        BY <1>1, <3>2, <4>2, <4>3
    <3>5. CASE Passed(e)
      BY <3>1, <3>5, <1>8, <1>9, <1>12
    <3>6. CASE ~Passed(e)
      <4>1. Key(e) \in shown
        BY <3>3, <3>4, <3>6, <1>12 DEF Fetched
      <4> QED
        BY <4>1, <3>1, <1>7, <1>9
    <3> QED
      BY <3>5, <3>6
  <2>5. EndedIsComplete'
    BY <1>1, <2>4 DEF EndedIsComplete
  <2>6. ShownIsPassed'
    BY <2>1 DEF ShownIsPassed
  <2> QED
    BY <1>10, <1>11, <1>13, <2>3, <2>5, <2>6 DEF PagesInv
<1> QED
  BY <1>14, <1>15

-----------------------------------------------------------------------------
LEMMA Initially == Init => IInv
<1> SUFFICES ASSUME Init
             PROVE  IInv
  OBVIOUS
<1>1. TypeOK
  <2>1. shop \in [Shops -> Shop]
    BY BrowsingAssumption DEF Init, Shop, Status
  <2>2. past \in [Shops -> SUBSET Shop]
    BY <2>1 DEF Init
  <2>3. steady \subseteq still /\ still \subseteq Entries
    BY DEF Init
  <2>4. listing \in Listings /\ times \in [Entries -> Nat]
    BY DEF Init
  <2>5. now \in 0..MaxTime /\ changes \in 0..MaxChanges
    BY BrowsingAssumption DEF Init
  <2> QED
    BY <2>1, <2>2, <2>3, <2>4, <2>5 DEF Init, TypeOK
<1>2. PageFollows
  BY FS_EmptySet DEF Init, PageFollows, Fetched
<1>3. ShownIsPassed /\ ShownOnce
  BY DEF Init, ShownIsPassed, ShownOnce
<1>4. SteadyIsAhead
  BY DEF Init, SteadyIsAhead
<1>5. NotPassedOver /\ EndedIsComplete
  BY DEF Init, NotPassedOver, EndedIsComplete, Passed
<1> QED
  BY <1>1, <1>2, <1>3, <1>4, <1>5 DEF IInv

\* The inductive invariant of a listing.
THEOREM Invariance == Spec => []IInv
<1>1. IInv /\ [Next]_vars => IInv'
  <2> SUFFICES ASSUME IInv, [Next]_vars
               PROVE  IInv'
    OBVIOUS
  <2>1. TypeOK /\ PagesInv
    BY DEF IInv, PagesInv
  <2>2. TypeOK'
    BY <2>1, TypeStep
  <2>3. PagesInv'
    <3>1. CASE Query
      BY <2>1, <3>1, QueryKeeps
    <3>2. CASE CheckRow
      BY <2>1, <3>2, CheckRowKeeps
    <3>3. CASE Answer
      BY <2>1, <3>3, AnswerKeeps
    <3>4. CASE CatalogueStep
      BY <2>1, <3>4, CatalogueKeeps
    <3>5. CASE UNCHANGED vars
      BY <2>1, <3>5
         DEF vars, PagesInv, PageFollows, ShownIsPassed, SteadyIsAhead, ShownOnce,
             NotPassedOver, EndedIsComplete, Fetched, Passed, Key, Place, Found
    <3> QED
      BY <3>1, <3>2, <3>3, <3>4, <3>5 DEF Next
  <2> QED
    BY <2>2, <2>3 DEF IInv, PagesInv
<1> QED
  BY <1>1, Initially, PTL DEF Spec

\* Nothing that keeps its place is shown twice (search.service.ts:56, shops.service.ts:185).
THEOREM ShownOnceAlways == Spec => []ShownOnce
<1>1. IInv => ShownOnce
  BY DEF IInv
<1> QED
  BY <1>1, Invariance, PTL

\* What stays in the listing is not passed over (search.service.ts:107).
THEOREM NotPassedOverAlways == Spec => []NotPassedOver
<1>1. IInv => NotPassedOver
  BY DEF IInv
<1> QED
  BY <1>1, Invariance, PTL

\* A listing that ends has shown all that stayed in it (search.service.ts:120).
THEOREM EndedIsCompleteAlways == Spec => []EndedIsComplete
<1>1. IInv => EndedIsComplete
  BY DEF IInv
<1> QED
  BY <1>1, Invariance, PTL

\* A page begins behind the cursor and ends at the new one (search.service.ts:56,
\* shops.service.ts:185).
THEOREM GoForward == Spec => PagesGoForward
<1>1. ASSUME IInv, [Next]_vars, pc = "checking", pc' = "more"
      PROVE  /\ cursor = NoKey \/ Before(cursor, cursor')
             /\ \A row \in shown : (cursor = NoKey \/ Before(cursor, row))
                                   /\ ~Before(cursor', row)
  <2>1. Answer
    BY <1>1 DEF Next, vars, page, Query, CheckRow, CatalogueStep, UpdateShop, ChangeHours,
       UpdateProductStatus, Tick, Changed
  <2>2. PICK last \in shown : cursor' = last /\ \A row \in shown : ~Before(last, row)
    BY <1>1, <2>1 DEF Answer, AnswerWith
  <2>3. \A row \in shown : cursor = NoKey \/ Before(cursor, row)
    BY <1>1 DEF IInv, PageFollows, Fetched
  <2> QED
    BY <2>2, <2>3
<1>2. IInv /\ [Next]_vars =>
        [pc = "checking" /\ pc' = "more" =>
            /\ cursor = NoKey \/ Before(cursor, cursor')
            /\ \A row \in shown : (cursor = NoKey \/ Before(cursor, row))
                                  /\ ~Before(cursor', row)]_vars
  BY <1>1
<1> QED
  BY <1>2, Invariance, PTL DEF Spec, PagesGoForward

=============================================================================
