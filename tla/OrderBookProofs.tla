-------------------------- MODULE OrderBookProofs --------------------------
(***************************************************************************)
(* The batch-auction book, for any number of orders, prices and rounds:    *)
(* what a clearing does (ClearingLemmas) and what the book keeps between   *)
(* clearings (BookInv) give the four properties the runs check.            *)
(***************************************************************************)
EXTENDS OrderBook, ClearingLemmas

\* The orders of a batch or of the book.
OrderSet == [account : Ids, id : Ids, side : Sides, price : PriceSet, qty : 1..(U32 - 1)]

\* Every resting order is what is left of a placed one.
BookInv ==
    /\ placed \in [Ids -> Nat] /\ filled \in [Ids -> Nat]
    /\ \A i \in Ids : filled[i] <= placed[i]
    /\ book \in Seq(OrderSet) /\ UniqueIds(book)
    /\ \A k \in 1..Len(book) : book[k].qty = placed[book[k].id] - filled[book[k].id]
    /\ \A i, j \in 1..Len(book) :
        book[i].side = "buy" /\ book[j].side = "sell" => book[i].price < book[j].price

\* The last round is the clearing of its batch.
RoundInv ==
    /\ batch \in Seq(OrderSet) /\ UniqueIds(batch)
    /\ last = Clear(batch)

-----------------------------------------------------------------------------
LEMMA OrdersAreBatch ==
    ASSUME NEW orders \in Seq(OrderSet)
    PROVE  /\ IsBatch(orders)
           /\ \A i \in 1..Len(orders) : /\ orders[i] \in OrderSet
                                        /\ orders[i].qty \in Nat /\ orders[i].qty > 0 /\ orders[i].qty < U32
                                        /\ orders[i].id \in Ids /\ orders[i].account \in Ids
<1>1. Len(orders) \in Nat /\ \A i \in 1..Len(orders) : orders[i] \in OrderSet
  OBVIOUS
<1>2. ASSUME NEW i \in 1..Len(orders)
      PROVE  /\ orders[i].id \in Ids /\ orders[i].account \in Ids /\ orders[i].side \in Sides
             /\ orders[i].price \in PriceSet /\ orders[i].qty \in 1..(U32 - 1)
  <2>1. orders[i] \in OrderSet
    BY <1>1
  <2> QED
    BY <2>1 DEF OrderSet
<1>3. \A i \in 1..Len(orders) :
        /\ orders[i].id \in Nat /\ orders[i].price \in Nat
        /\ orders[i].qty \in Nat /\ orders[i].qty > 0 /\ orders[i].qty < U32
  <2> SUFFICES ASSUME NEW i \in 1..Len(orders)
               PROVE  /\ orders[i].id \in Nat /\ orders[i].price \in Nat
                      /\ orders[i].qty \in Nat /\ orders[i].qty > 0 /\ orders[i].qty < U32
    OBVIOUS
  <2>1. orders[i].id \in Ids /\ orders[i].price \in PriceSet /\ orders[i].qty \in 1..(U32 - 1)
    BY <1>2
  <2>2. U32 \in Nat /\ Ids \subseteq Nat /\ PriceSet \subseteq Nat
    BY BookAssumption, U32Assumption
  <2>3. orders[i].id \in Nat /\ orders[i].price \in Nat
    BY <2>1, <2>2
  <2>4. \A x \in 1..(U32 - 1) : x \in Nat /\ x > 0 /\ x < U32
    BY U32Assumption
  <2> QED
    BY <2>1, <2>3, <2>4
<1> QED
  BY <1>1, <1>2, <1>3 DEF IsBatch

\* The ids a round introduces are new: above every id that has been placed.
LEMMA FreshIsUnused ==
    ASSUME placed \in [Ids -> Nat], NEW n \in Nat
    PROVE  \A k \in 1..n : /\ Fresh(n)[k] \in Nat
                           /\ \A i \in Ids : placed[i] > 0 => i # Fresh(n)[k]
                           /\ \A m \in 1..n : Fresh(n)[k] = Fresh(n)[m] => k = m
<1> DEFINE S == {0} \cup {i \in Ids : placed[i] > 0}
           used == Max(S)
<1>1. S \in SUBSET Nat /\ IsFiniteSet(S) /\ S # {}
  <2>1. IsFiniteSet({i \in Ids : placed[i] > 0})
    BY BookAssumption, FS_Subset
  <2>2. IsFiniteSet({0})
    BY FS_Singleton
  <2>3. IsFiniteSet(S)
    BY <2>1, <2>2, FS_Union
  <2>4. Ids \subseteq Nat
    BY BookAssumption
  <2>5. {i \in Ids : placed[i] > 0} \subseteq Nat /\ {0} \subseteq Nat
    <3>1. {i \in Ids : placed[i] > 0} \subseteq Ids
      OBVIOUS
    <3>2. {0} \subseteq Nat
      OBVIOUS
    <3> QED
      BY <2>4, <3>1, <3>2, Zenon
  <2>6. S \subseteq Nat /\ 0 \in S
    BY <2>5
  <2> HIDE DEF S
  <2> QED
    BY <2>3, <2>6
<1>2. used \in S /\ \A y \in S : y <= used
  <2> HIDE DEF S
  <2> QED
    BY <1>1, MaxIsGreatest
<1>3. used \in Nat /\ \A i \in Ids : placed[i] > 0 => i <= used
  BY <1>1, <1>2
<1>4. \A k \in 1..n : Fresh(n)[k] = used + k
  BY DEF Fresh
<1> HIDE DEF used
<1>5. \A k \in 1..n : k \in Nat /\ k > 0
  OBVIOUS
<1> QED
  BY <1>3, <1>4, <1>5, BookAssumption

-----------------------------------------------------------------------------
LEMMA BookInitially == BookInit => BookInv /\ RoundInv
<1> SUFFICES ASSUME BookInit PROVE BookInv /\ RoundInv
  OBVIOUS
<1>1. book = <<>> /\ batch = <<>> /\ book \in Seq(OrderSet) /\ Len(<<>>) = 0
  BY DEF BookInit
<1>2. BookInv
  BY <1>1 DEF BookInv, BookInit, UniqueIds
<1>3. IsBatch(<<>>)
  BY <1>1, OrdersAreBatch
<1>4. Clear(<<>>) = [price |-> 0, volume |-> 0, fills |-> <<>>]
  <2>1. Prices(<<>>) = {}
    BY DEF Prices
  <2>2. BestPrice(<<>>).volume \in Nat /\ (BestPrice(<<>>).volume > 0 => BestPrice(<<>>).price \in Prices(<<>>))
    BY <1>3, BestPriceIsBest DEF IsBest
  <2>3. BestPrice(<<>>).volume = 0
    BY <2>1, <2>2
  <2> QED
    BY <2>3 DEF Clear
<1>5. RoundInv
  BY <1>1, <1>4 DEF RoundInv, BookInit, UniqueIds
<1> QED
  BY <1>2, <1>5

\* What a round clears: the book and the new orders, each id once, with all that
\* is open of it.
LEMMA RoundClears ==
    ASSUME BookInv, NEW n \in Nat, \A i \in 1..n : Fresh(n)[i] \in Ids,
           NEW new \in NewOrders(Fresh(n)), Round(new)
    PROVE  LET all == book \o new
           IN  /\ all \in Seq(OrderSet) /\ UniqueIds(all)
               /\ placed' \in [Ids -> Nat]
               /\ \A i \in Ids : filled[i] <= placed'[i]
               /\ \A k \in 1..Len(all) : placed'[all[k].id] - filled[all[k].id] = all[k].qty
<1> DEFINE all == book \o new
           added == [i \in Ids |-> QtyAt(new, {k \in 1..Len(new) : new[k].id = i})]
<1>0. /\ placed \in [Ids -> Nat] /\ filled \in [Ids -> Nat] /\ \A i \in Ids : filled[i] <= placed[i]
      /\ book \in Seq(OrderSet) /\ UniqueIds(book) /\ Len(book) \in Nat
      /\ \A k \in 1..Len(book) : book[k].qty = placed[book[k].id] - filled[book[k].id]
  BY DEF BookInv
<1>1. Len(Fresh(n)) = n
  BY DEF Fresh
<1>2. PICK t \in [1..n -> [side : Sides, price : PriceSet, qty : QtySet]] :
         new = [i \in 1..n |-> [account |-> Fresh(n)[i], id |-> Fresh(n)[i],
                                side |-> t[i].side, price |-> t[i].price, qty |-> t[i].qty]]
  BY <1>1 DEF NewOrders
<1>3. ASSUME NEW i \in 1..n
      PROVE  new[i] \in OrderSet /\ new[i].id = Fresh(n)[i]
  <2>1. t[i] \in [side : Sides, price : PriceSet, qty : QtySet]
    BY <1>2
  <2>2. new[i] = [account |-> Fresh(n)[i], id |-> Fresh(n)[i],
                  side |-> t[i].side, price |-> t[i].price, qty |-> t[i].qty]
    BY <1>2
  <2>3. t[i].qty \in 1..(U32 - 1) /\ t[i].side \in Sides /\ t[i].price \in PriceSet
    BY <2>1, BookAssumption
  <2> QED
    BY <2>2, <2>3 DEF OrderSet
<1>4. new \in Seq(OrderSet) /\ Len(new) = n
  <2>1. new \in [1..n -> OrderSet]
    BY <1>2, <1>3
  <2> QED
    BY <2>1
<1>5. /\ all \in Seq(OrderSet) /\ Len(all) = Len(book) + n
      /\ \A k \in 1..Len(book) : all[k] = book[k]
      /\ \A k \in 1..n : all[Len(book) + k] = new[k]
  BY <1>0, <1>4
<1>6. \A k \in 1..Len(all) : \/ k \in 1..Len(book) /\ all[k] = book[k]
                             \/ k - Len(book) \in 1..n /\ all[k] = new[k - Len(book)]
  BY <1>0, <1>5
<1>7. /\ \A k \in 1..n : new[k].id \in Ids /\ placed[new[k].id] = 0 /\ filled[new[k].id] = 0
      /\ \A k, m \in 1..n : new[k].id = new[m].id => k = m
  <2>1. \A k \in 1..n : new[k].id \in Ids /\ ~(placed[new[k].id] > 0)
    BY <1>0, <1>3, FreshIsUnused
  <2>2. ASSUME NEW k \in 1..n PROVE placed[new[k].id] = 0 /\ filled[new[k].id] = 0
    <3> DEFINE i == new[k].id
    <3>1. i \in Ids /\ ~(placed[i] > 0)
      BY <2>1
    <3> HIDE DEF i
    <3>2. placed[i] \in Nat /\ filled[i] \in Nat /\ filled[i] <= placed[i]
      BY <1>0, <3>1
    <3> QED
      BY <3>1, <3>2 DEF i
  <2>3. \A k, m \in 1..n : new[k].id = new[m].id => k = m
    BY <1>0, <1>3, FreshIsUnused
  <2> QED
    BY <2>1, <2>2, <2>3
<1>8. \A k \in 1..Len(book) : book[k].id \in Ids /\ book[k].qty \in Nat /\ placed[book[k].id] > 0
  <2>1. \A k \in 1..Len(book) : book[k].id \in Ids /\ book[k].qty \in Nat /\ book[k].qty > 0
    BY <1>0, OrdersAreBatch
  <2> QED
    BY <1>0, <2>1
<1>9. UniqueIds(all)
  <2> SUFFICES ASSUME NEW i \in 1..Len(all), NEW j \in 1..Len(all), all[i].id = all[j].id PROVE i = j
    BY DEF UniqueIds
  <2> HIDE DEF all
  <2>1. CASE i \in 1..Len(book) /\ all[i] = book[i] /\ j \in 1..Len(book) /\ all[j] = book[j]
    BY <1>0, <2>1 DEF UniqueIds
  <2>2. CASE i \in 1..Len(book) /\ all[i] = book[i] /\ j - Len(book) \in 1..n /\ all[j] = new[j - Len(book)]
    BY <1>7, <1>8, <2>2
  <2>3. CASE i - Len(book) \in 1..n /\ all[i] = new[i - Len(book)] /\ j \in 1..Len(book) /\ all[j] = book[j]
    BY <1>7, <1>8, <2>3
  <2>4. CASE /\ i - Len(book) \in 1..n /\ all[i] = new[i - Len(book)]
             /\ j - Len(book) \in 1..n /\ all[j] = new[j - Len(book)]
    <3>1. i - Len(book) = j - Len(book)
      BY <1>7, <2>4
    <3>2. i \in Int /\ j \in Int
      OBVIOUS
    <3> QED
      BY <1>0, <3>1, <3>2
  <2> QED
    BY <1>6, <2>1, <2>2, <2>3, <2>4
<1>10. IsBatch(new)
  BY <1>4, OrdersAreBatch
<1>11. ASSUME NEW i \in Ids
       PROVE  /\ added[i] \in Nat /\ placed'[i] = placed[i] + added[i]
              /\ \A k \in 1..n : new[k].id = i => added[i] = new[k].qty
              /\ (\A k \in 1..n : new[k].id # i) => added[i] = 0
  <2> DEFINE K == {k \in 1..Len(new) : new[k].id = i}
  <2>1. K \in SUBSET (1..Len(new)) /\ added[i] = QtyAt(new, K)
    OBVIOUS
  <2>2. placed'[i] = placed[i] + added[i]
    BY <1>0 DEF Round
  <2>3. \A k \in 1..n : new[k].id = i => K = {k}
    BY <1>4, <1>7
  <2>4. (\A k \in 1..n : new[k].id # i) => K = {}
    BY <1>4
  <2> HIDE DEF K, added
  <2>5. QtyAt(new, K) \in Nat
    BY <1>10, <2>1, QtyIsSum
  <2>6. ASSUME NEW k \in 1..n, new[k].id = i PROVE added[i] = new[k].qty
    <3>1. QtyAt(new, {} \cup {k}) = new[k].qty + QtyAt(new, {})
      BY <1>4, <1>10, QtyAdd
    <3>2. {} \cup {k} = {k}
      OBVIOUS
    <3>3. QtyAt(new, {k}) = new[k].qty + QtyAt(new, {})
      BY <3>1, <3>2, Zenon
    <3>4. QtyAt(new, {}) = 0
      BY SumEmpty DEF QtyAt
    <3>5. new[k].qty \in Nat
      BY <1>4, OrdersAreBatch
    <3>6. QtyAt(new, {k}) = new[k].qty
      BY <3>3, <3>4, <3>5
    <3>7. K = {k}
      BY <2>3, <2>6
    <3> QED
      BY <2>1, <3>6, <3>7, Zenon
  <2>7. (\A k \in 1..n : new[k].id # i) => added[i] = 0
    <3>1. QtyAt(new, {}) = 0
      BY SumEmpty DEF QtyAt
    <3> QED
      BY <2>1, <2>4, <3>1
  <2> QED
    BY <2>1, <2>2, <2>5, <2>6, <2>7
<1>12. placed' \in [Ids -> Nat]
  <2>1. placed' = [i \in Ids |-> placed[i] + added[i]]
    BY DEF Round
  <2> HIDE DEF added
  <2> QED
    BY <1>0, <1>11, <2>1
<1> HIDE DEF added
<1>13. \A i \in Ids : filled[i] <= placed'[i]
  <2> SUFFICES ASSUME NEW i \in Ids PROVE filled[i] <= placed'[i]
    OBVIOUS
  <2>1. placed[i] \in Nat /\ filled[i] \in Nat /\ filled[i] <= placed[i]
    BY <1>0
  <2>2. added[i] \in Nat /\ placed'[i] = placed[i] + added[i]
    BY <1>11
  <2> QED
    BY <2>1, <2>2
<1>14. ASSUME NEW k \in 1..Len(all) PROVE placed'[all[k].id] - filled[all[k].id] = all[k].qty
  <2> HIDE DEF all
  <2>1. CASE k \in 1..Len(book) /\ all[k] = book[k]
    <3>1. book[k].id \in Ids /\ \A m \in 1..n : new[m].id # book[k].id
      BY <1>7, <1>8, <2>1
    <3>2. added[book[k].id] = 0 /\ placed'[book[k].id] = placed[book[k].id] + added[book[k].id]
      BY <1>11, <3>1
    <3>3. placed'[book[k].id] = placed[book[k].id]
      BY <1>0, <3>1, <3>2
    <3> QED
      BY <1>0, <2>1, <3>3
  <2>2. CASE k - Len(book) \in 1..n /\ all[k] = new[k - Len(book)]
    <3> DEFINE m == k - Len(book)
    <3>1. m \in 1..n /\ new[m].id \in Ids /\ placed[new[m].id] = 0 /\ filled[new[m].id] = 0
      BY <1>7, <2>2
    <3> HIDE DEF m
    <3>2. placed'[new[m].id] = placed[new[m].id] + added[new[m].id] /\ added[new[m].id] = new[m].qty
      BY <1>11, <3>1
    <3>3. new[m].qty \in Nat
      BY <1>4, <3>1, OrdersAreBatch
    <3>4. placed'[new[m].id] - filled[new[m].id] = new[m].qty
      BY <3>1, <3>2, <3>3
    <3> QED
      BY <2>2, <3>4 DEF m
  <2> QED
    BY <1>6, <2>1, <2>2
<1> QED
  BY <1>5, <1>9, <1>12, <1>13, <1>14

\* A round keeps the invariant: what is left of each order is what its book entry
\* held or it was placed with, less what it was filled.
LEMMA RoundKeeps ==
    ASSUME BookInv, NEW n \in Nat, \A i \in 1..n : Fresh(n)[i] \in Ids,
           NEW new \in NewOrders(Fresh(n)), Round(new)
    PROVE  BookInv' /\ RoundInv'
<1> DEFINE all == book \o new
           c == Clear(all)
           t == Taken(all, c)
           rest == Resting(all, c)
<1>0. filled \in [Ids -> Nat]
  BY DEF BookInv
<1>1. /\ all \in Seq(OrderSet) /\ UniqueIds(all)
      /\ placed' \in [Ids -> Nat]
      /\ \A i \in Ids : filled[i] <= placed'[i]
      /\ \A k \in 1..Len(all) : placed'[all[k].id] - filled[all[k].id] = all[k].qty
  BY RoundClears
<1>2. /\ batch' = all /\ last' = c /\ book' = rest
      /\ filled' = [i \in Ids |-> filled[i] + FilledQty(all, c.fills, i)]
  BY DEF Round
<1> HIDE DEF all
<1>3. IsBatch(all) /\ \A i \in 1..Len(all) : /\ all[i] \in OrderSet /\ all[i].qty \in Nat /\ all[i].qty < U32
                                             /\ all[i].id \in Ids
  BY <1>1, OrdersAreBatch
<1>4. \A i \in 1..Len(all) : /\ t[i] \in Nat /\ t[i] <= all[i].qty
                             /\ FilledQty(all, c.fills, all[i].id) = t[i]
  BY <1>1, <1>3, TakenAt, FilledIsTaken
<1>5. \A id : /\ FilledQty(all, c.fills, id) \in Nat
              /\ (\A i \in 1..Len(all) : all[i].id # id) => FilledQty(all, c.fills, id) = 0
  BY <1>3, FilledType
<1>6. /\ Len(rest) \in Nat /\ rest = [m \in 1..Len(rest) |-> rest[m]]
      /\ \E at \in [1..Len(rest) -> {i \in 1..Len(all) : t[i] < all[i].qty}] :
            /\ \A m, k \in 1..Len(rest) : m < k => at[m] < at[k]
            /\ \A m \in 1..Len(rest) : rest[m] = [all[at[m]] EXCEPT !.qty = all[at[m]].qty - t[at[m]]]
  BY <1>1, <1>3, RestingIs
<1>7. \A i, j \in 1..Len(all) :
         /\ all[i].side = "buy" /\ all[j].side = "sell" /\ t[i] < all[i].qty /\ t[j] < all[j].qty
         => all[i].price < all[j].price
  BY <1>3, LeftoversDontCross
<1>8. \A i \in 1..Len(all) : filled'[all[i].id] = filled[all[i].id] + t[i]
  BY <1>2, <1>3, <1>4
<1>9. filled' \in [Ids -> Nat]
  BY <1>0, <1>2, <1>5
<1> HIDE DEF c, t, rest
<1>10. ASSUME NEW i \in Ids PROVE filled'[i] <= placed'[i]
  <2>1. filled[i] \in Nat /\ placed'[i] \in Nat /\ filled[i] <= placed'[i]
    BY <1>0, <1>1
  <2>2. CASE \E k \in 1..Len(all) : all[k].id = i
    <3>1. PICK k \in 1..Len(all) : all[k].id = i
      BY <2>2
    <3>2. filled'[i] = filled[i] + t[k] /\ placed'[i] - filled[i] = all[k].qty
      BY <1>1, <1>8, <3>1
    <3>3. t[k] \in Nat /\ t[k] <= all[k].qty /\ all[k].qty \in Nat
      BY <1>3, <1>4
    <3> QED
      BY <2>1, <3>2, <3>3
  <2>3. CASE \A k \in 1..Len(all) : all[k].id # i
    <3>1. filled'[i] = filled[i]
      BY <1>0, <1>2, <1>5, <2>3
    <3> QED
      BY <2>1, <3>1
  <2> QED
    BY <2>2, <2>3
<1>11. PICK at \in [1..Len(rest) -> {i \in 1..Len(all) : t[i] < all[i].qty}] :
            /\ \A m, k \in 1..Len(rest) : m < k => at[m] < at[k]
            /\ \A m \in 1..Len(rest) : rest[m] = [all[at[m]] EXCEPT !.qty = all[at[m]].qty - t[at[m]]]
  BY <1>6
<1>12. ASSUME NEW m \in 1..Len(rest)
       PROVE  /\ at[m] \in 1..Len(all) /\ t[at[m]] < all[at[m]].qty
              /\ rest[m] \in OrderSet /\ rest[m].id = all[at[m]].id /\ rest[m].side = all[at[m]].side
              /\ rest[m].price = all[at[m]].price /\ rest[m].qty = all[at[m]].qty - t[at[m]]
  <2> DEFINE k == at[m]
             o == all[k]
  <2>1. k \in 1..Len(all) /\ t[k] < all[k].qty
    BY <1>11
  <2>2. o \in OrderSet /\ t[k] \in Nat /\ o.qty \in Nat /\ o.qty < U32 /\ t[k] < o.qty
    BY <1>3, <1>4, <2>1
  <2>3. rest[m] = [o EXCEPT !.qty = o.qty - t[k]]
    BY <1>11
  <2> HIDE DEF k, o
  <2>4. o.qty - t[k] \in 1..(U32 - 1)
    BY <2>2, U32Assumption
  <2>5. /\ rest[m] \in OrderSet /\ rest[m].id = o.id /\ rest[m].side = o.side
        /\ rest[m].price = o.price /\ rest[m].qty = o.qty - t[k]
    BY <2>2, <2>3, <2>4 DEF OrderSet
  <2> QED
    BY <2>1, <2>5 DEF o, k
<1>13. rest \in Seq(OrderSet)
  <2>1. rest \in [1..Len(rest) -> OrderSet]
    BY <1>6, <1>12
  <2> QED
    BY <1>6, <2>1
<1>14. UniqueIds(rest)
  <2> SUFFICES ASSUME NEW m \in 1..Len(rest), NEW k \in 1..Len(rest), rest[m].id = rest[k].id, m # k PROVE FALSE
    BY DEF UniqueIds
  <2>1. at[m] = at[k]
    BY <1>1, <1>12 DEF UniqueIds
  <2>2. m < k \/ k < m
    <3>1. m \in Int /\ k \in Int
      OBVIOUS
    <3> QED
      BY <3>1
  <2>3. at[m] < at[k] \/ at[k] < at[m]
    BY <1>11, <2>2
  <2>4. at[m] \in Int /\ at[k] \in Int
    BY <1>12
  <2> QED
    BY <2>1, <2>3, <2>4
<1>15. ASSUME NEW m \in 1..Len(rest) PROVE rest[m].qty = placed'[rest[m].id] - filled'[rest[m].id]
  <2> DEFINE k == at[m]
             id == all[k].id
  <2>1. k \in 1..Len(all) /\ rest[m].id = id /\ rest[m].qty = all[k].qty - t[k]
    BY <1>12
  <2>2. placed'[id] - filled[id] = all[k].qty /\ filled'[id] = filled[id] + t[k] /\ id \in Ids
    BY <1>1, <1>3, <1>8, <2>1
  <2> HIDE DEF id, k
  <2>3. placed'[id] \in Nat /\ filled[id] \in Nat /\ t[k] \in Nat
    BY <1>0, <1>1, <1>4, <2>1, <2>2
  <2>4. rest[m].qty = placed'[id] - filled'[id]
    BY <2>1, <2>2, <2>3
  <2> QED
    BY <2>1, <2>4
<1>16. \A m, k \in 1..Len(rest) :
          rest[m].side = "buy" /\ rest[k].side = "sell" => rest[m].price < rest[k].price
  BY <1>7, <1>12
<1>17. BookInv'
  BY <1>1, <1>2, <1>9, <1>10, <1>13, <1>14, <1>15, <1>16 DEF BookInv, UniqueIds
<1>18. RoundInv'
  BY <1>1, <1>2 DEF RoundInv, UniqueIds, c
<1> QED
  BY <1>17, <1>18

\* A book without one of its orders.
LEMMA LeaveKeeps ==
    ASSUME BookInv, RoundInv, NEW i \in 1..Len(book), Leave(i)
    PROVE  BookInv' /\ RoundInv'
<1> DEFINE K == (1..Len(book)) \ {i}
<1>1. book \in Seq(OrderSet) /\ K \in SUBSET (1..Len(book)) /\ Len(book) \in Nat
  BY DEF BookInv
<1>2. book' = Pick(book, K) /\ UNCHANGED <<placed, filled, batch, last>>
  BY DEF Leave
<1> HIDE DEF K
<1>3. /\ Pick(book, K) \in Seq(OrderSet) /\ Cardinality(K) \in Nat /\ Len(Pick(book, K)) = Cardinality(K)
  BY <1>1, PickIsPart
<1>4. K \in SUBSET Nat /\ IsFiniteSet(K)
  <2>1. IsFiniteSet(1..Len(book)) /\ 1..Len(book) \subseteq Nat
    BY <1>1, FS_Interval
  <2> QED
    BY <1>1, <2>1, FS_Subset
<1>5. PICK at : PicksAt(book, K, at)
  BY <1>4, PickAt
<1>6. /\ at \in [1..Len(book') -> K] /\ \A m, n \in 1..Len(book') : m < n => at[m] < at[n]
      /\ \A n \in 1..Len(book') : book'[n] = book[at[n]]
  BY <1>2, <1>3, <1>5 DEF PicksAt
<1>7. \A n \in 1..Len(book') : at[n] \in 1..Len(book) /\ book'[n] = book[at[n]]
  BY <1>1, <1>6
<1>8. UniqueIds(book')
  <2> SUFFICES ASSUME NEW m \in 1..Len(book'), NEW k \in 1..Len(book'), book'[m].id = book'[k].id, m # k PROVE FALSE
    BY DEF UniqueIds
  <2>1. at[m] = at[k]
    BY <1>7 DEF BookInv, UniqueIds
  <2>2. m < k \/ k < m
    <3>1. m \in Int /\ k \in Int
      OBVIOUS
    <3> QED
      BY <3>1
  <2>3. at[m] < at[k] \/ at[k] < at[m]
    BY <1>6, <2>2
  <2>4. at[m] \in Int /\ at[k] \in Int
    BY <1>7
  <2> QED
    BY <2>1, <2>3, <2>4
<1>9. BookInv'
  <2>1. \A n \in 1..Len(book') : book'[n].qty = placed[book'[n].id] - filled[book'[n].id]
    BY <1>7 DEF BookInv
  <2>2. \A m, n \in 1..Len(book') :
           book'[m].side = "buy" /\ book'[n].side = "sell" => book'[m].price < book'[n].price
    BY <1>7 DEF BookInv
  <2>3. book' \in Seq(OrderSet)
    BY <1>2, <1>3
  <2> QED
    BY <1>2, <1>8, <2>1, <2>2, <2>3 DEF BookInv, UniqueIds
<1>10. RoundInv'
  BY <1>2 DEF RoundInv, UniqueIds
<1> QED
  BY <1>9, <1>10

\* The inductive invariant of the book.
THEOREM BookInductive == BookSpec => [](BookInv /\ RoundInv)
<1>1. BookInit => BookInv /\ RoundInv
  BY BookInitially
<1>2. BookInv /\ RoundInv /\ [BookNext]_bookVars => BookInv' /\ RoundInv'
  <2> SUFFICES ASSUME BookInv, RoundInv, [BookNext]_bookVars PROVE BookInv' /\ RoundInv'
    OBVIOUS
  <2>1. ASSUME NEW n \in 1..MaxBatch, \A i \in 1..n : Fresh(n)[i] \in Ids,
               NEW new \in NewOrders(Fresh(n)), Round(new)
        PROVE  BookInv' /\ RoundInv'
    <3>1. n \in Nat
      BY BookAssumption
    <3> QED
      BY <2>1, <3>1, RoundKeeps
  <2>2. ASSUME NEW i \in 1..Len(book), Leave(i) PROVE BookInv' /\ RoundInv'
    BY <2>2, LeaveKeeps
  <2>3. CASE UNCHANGED bookVars
    BY <2>3 DEF bookVars, BookInv, RoundInv, UniqueIds
  <2> QED
    BY <2>1, <2>2, <2>3 DEF BookNext
<1> QED
  BY <1>1, <1>2, PTL DEF BookSpec

-----------------------------------------------------------------------------
\* No price would trade more than the one `clear' settles on, none that trades as
\* much leaves less unmatched, and of those that leave as much it is the lowest:
\* for every batch, and over all prices, not only the batch's own.
THEOREM PriceIsAlwaysOptimal == BookSpec => []PriceIsOptimal
<1>1. RoundInv => PriceIsOptimal
  <2> SUFFICES ASSUME RoundInv PROVE PriceIsOptimal
    OBVIOUS
  <2> DEFINE vol(p) == Smaller(Demand(batch, p), Supply(batch, p))
             gap(p) == AbsDiff(Demand(batch, p), Supply(batch, p))
             b == BestPrice(batch)
  <2>1. IsBatch(batch) /\ last = Clear(batch)
    BY OrdersAreBatch DEF RoundInv
  <2>2. /\ last.volume \in Nat /\ last.price \in Nat /\ last.volume = b.volume
        /\ last.volume > 0 => last.price = b.price
    BY <2>1, ClearIs
  <2>3. \A p : Candidate(batch, p).volume = vol(p) /\ Candidate(batch, p).imbalance = gap(p)
    BY <2>1, CandidateType
  <2>4. b.volume > 0 =>
              /\ vol(b.price) = b.volume /\ gap(b.price) = b.imbalance
              /\ \A q \in Prices(batch) : vol(q) = b.volume =>
                    b.imbalance < gap(q) \/ (b.imbalance = gap(q) /\ b.price <= q)
    BY <2>1, <2>3, BestPriceIsBest DEF IsBest
  <2>5. ASSUME NEW p \in 0..(Max(PriceSet) + 1) PROVE vol(p) <= last.volume
    <3>1. Max(PriceSet) \in Nat
      <4>1. PriceSet \in SUBSET Nat /\ IsFiniteSet(PriceSet) /\ PriceSet # {}
        BY BookAssumption
      <4>2. Max(PriceSet) \in PriceSet
        BY <4>1, MaxIsGreatest
      <4> QED
        BY <4>1, <4>2
    <3>2. p \in Nat
      BY <3>1
    <3>3. vol(p) <= b.volume
      BY <2>1, <3>2, NoPriceTradesMore
    <3> QED
      BY <2>2, <3>3
  <2>6. last.volume > 0 =>
              /\ vol(last.price) = last.volume
              /\ \A p \in Prices(batch) :
                    vol(p) = last.volume => \/ gap(last.price) < gap(p)
                                            \/ gap(last.price) = gap(p) /\ last.price <= p
    <3> HIDE DEF vol, gap, b
    <3> QED
      BY <2>2, <2>4
  <2> QED
    BY <2>5, <2>6 DEF PriceIsOptimal
<1> QED
  BY <1>1, BookInductive, PTL

\* No two resting orders could trade with each other, nobody is filled beyond
\* what was placed, and a resting order is what all rounds left of it.
THEOREM BookIsAlwaysLeftover == BookSpec => []BookIsLeftover
<1>1. BookInv => BookIsLeftover
  BY DEF BookInv, BookIsLeftover
<1> QED
  BY <1>1, BookInductive, PTL

\* Price-time priority, in every round: nobody trades outside its limit, and no
\* order is filled behind a better one that is not filled whole.
THEOREM PriorityAlwaysRespected == BookSpec => []PriorityRespected
<1>1. RoundInv => PriorityRespected
  <2> SUFFICES ASSUME RoundInv PROVE PriorityRespected
    OBVIOUS
  <2> DEFINE t == Taken(batch, last)
             got(o) == FilledQty(batch, last.fills, o.id)
  <2>1. IsBatch(batch) /\ UniqueIds(batch) /\ last = Clear(batch)
    BY OrdersAreBatch DEF RoundInv
  <2>2. \A i \in 1..Len(batch) : got(batch[i]) = t[i] /\ t[i] \in Nat
    BY <2>1, FilledIsTaken, TakenAt
  <2>3. \A i \in 1..Len(batch) : t[i] > 0 => i \in Eligible(batch, batch[i].side, last.price)
    BY <2>1, TakenAt
  <2>4. \A i, j \in 1..Len(batch) :
           batch[i].side = batch[j].side /\ ServedBefore(batch, i, j) /\ t[j] > 0 => t[i] = batch[i].qty
    BY <2>1, ServedFirstFilled
  <2>5. \A i \in 1..Len(batch) : batch[i].side \in {"buy", "sell"}
    BY <2>1 DEF IsBatch, Sides
  <2> HIDE DEF t, got
  <2>6. ASSUME NEW i \in 1..Len(batch), NEW j \in 1..Len(batch)
        PROVE  LET x == batch[i]
                   y == batch[j]
               IN  /\ got(x) > 0 => IF x.side = "buy" THEN x.price >= last.price
                                                      ELSE x.price <= last.price
                   /\ x.side = y.side /\ x.price # y.price /\ got(y) > 0
                      /\ (IF x.side = "buy" THEN x.price > y.price ELSE x.price < y.price)
                           => got(x) = x.qty
                   /\ x.side = y.side /\ x.price = y.price /\ x.id < y.id /\ got(y) > 0
                           => got(x) = x.qty
    <3>1. got(batch[i]) > 0 => IF batch[i].side = "buy" THEN batch[i].price >= last.price
                                                        ELSE batch[i].price <= last.price
      BY <2>2, <2>3 DEF Eligible
    <3>2. ASSUME batch[i].side = batch[j].side, got(batch[j]) > 0,
                 \/ IF batch[i].side = "buy" THEN batch[i].price > batch[j].price ELSE batch[i].price < batch[j].price
                 \/ batch[i].price = batch[j].price /\ batch[i].id < batch[j].id
          PROVE  got(batch[i]) = batch[i].qty
      <4>1. ServedBefore(batch, i, j)
        BY <2>5, <3>2 DEF ServedBefore, Priority
      <4> QED
        BY <2>2, <2>4, <3>2, <4>1
    <3> QED
      BY <3>1, <3>2
  <2> QED
    BY <2>6 DEF PriorityRespected, got
<1> QED
  BY <1>1, BookInductive, PTL

\* Settling a round neither creates nor destroys value: the base moves cancel out
\* and the rounding the treasury takes in is never negative and at most one unit
\* per fill.
THEOREM SettlementAlwaysConserves == BookSpec => []SettlementConserves
<1>1. RoundInv => SettlementConserves
  <2> SUFFICES ASSUME RoundInv PROVE SettlementConserves
    OBVIOUS
  <2> DEFINE e == Settlement(batch, last)
             D == DOMAIN e
             p == last.price
             r == Residual(p, e, SCALE)
             base == BaseMove(e)
             quote == QuoteMove(p, e, SCALE)
             key == [i \in D |-> e[i].account]
             hb == [a \in Ids |-> BaseDelta(e, a)]
             hq == [a \in Ids |-> QuoteDelta(p, e, SCALE, a)]
             of(a) == {i \in D : key[i] = a}
  <2>1. IsBatch(batch) /\ UniqueIds(batch) /\ last = Clear(batch)
        /\ \A i \in 1..Len(batch) : batch[i].account \in Ids
    BY OrdersAreBatch DEF RoundInv
  <2>2. IsFiniteSet(D) /\ (\A i \in D : base[i] \in Int) /\ SumFunctionOnSet(base, D) = 0
    BY <2>1, BaseBalances
  <2>3. r \in Int /\ 0 <= r /\ r <= Cardinality(D) /\ \A i \in D : quote[i] \in Int
    BY <2>1, BookAssumption, ResidualBounds
  <2>4. r = -SumFunctionOnSet(quote, D)
    <3>1. DOMAIN quote = D
      BY DEF QuoteMove
    <3>2. r = -SumFunctionOnSet(quote, DOMAIN quote)
      BY DEF Residual, SumFunction
    <3> QED
      BY <3>1, <3>2, Zenon
  <2>5. \A i \in D : key[i] \in Ids
    <3>1. \A i \in D : i \in 1..Len(batch) /\ e[i].account = batch[i].account
      BY <2>1, SettlementIs
    <3> QED
      BY <2>1, <3>1
  <2>6. \A a \in Ids : hb[a] = SumFunctionOnSet(base, of(a)) /\ hq[a] = SumFunctionOnSet(quote, of(a))
    <3>1. \A a : EntriesOf(e, a) = of(a)
      BY DEF EntriesOf
    <3>2. \A a \in Ids : /\ hb[a] = SumFunctionOnSet(base, EntriesOf(e, a))
                         /\ hq[a] = SumFunctionOnSet(quote, EntriesOf(e, a))
      BY DEF BaseDelta, QuoteDelta
    <3> HIDE DEF of, hb, hq, base, quote
    <3> QED
      BY <3>1, <3>2, Zenon
  <2>7. DOMAIN hb = Ids /\ DOMAIN hq = Ids
    OBVIOUS
  <2>8. IsFiniteSet(Ids)
    BY BookAssumption
  <2>9. SumFunction(hb) = SumFunctionOnSet(hb, Ids) /\ SumFunction(hq) = SumFunctionOnSet(hq, Ids)
    <3> HIDE DEF hb, hq
    <3> QED
      BY <2>7, Zenon DEF SumFunction
  <2> HIDE DEF e, D, p, r, base, quote, key, hb, hq
  <2>10. SumFunctionOnSet(hb, Ids) = SumFunctionOnSet(base, D)
    <3>1. \A i \in D : base[i] \in Int /\ key[i] \in Ids
      BY <2>2, <2>5
    <3>2. \A a \in Ids : hb[a] = SumOfKey(base, D, key, a)
      BY <2>6 DEF SumOfKey
    <3> QED
      BY <2>2, <2>8, <3>1, <3>2, SumByKey
  <2>11. SumFunctionOnSet(hq, Ids) = SumFunctionOnSet(quote, D)
    <3>1. \A i \in D : quote[i] \in Int /\ key[i] \in Ids
      BY <2>3, <2>5
    <3>2. \A a \in Ids : hq[a] = SumOfKey(quote, D, key, a)
      BY <2>6 DEF SumOfKey
    <3> QED
      BY <2>2, <2>8, <3>1, <3>2, SumByKey
  <2>12. SumFunctionOnSet(quote, D) \in Int
    BY <2>2, <2>3, SumPeel
  <2>13. SumFunction(hb) = 0 /\ -r = SumFunction(hq) /\ 0 <= r /\ r <= Cardinality(D)
    BY <2>2, <2>3, <2>4, <2>9, <2>10, <2>11, <2>12
  <2> QED
    BY <2>13 DEF SettlementConserves, e, D, p, r, hb, hq
<1> QED
  BY <1>1, BookInductive, PTL
=============================================================================
