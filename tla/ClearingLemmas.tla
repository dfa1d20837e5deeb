--------------------------- MODULE ClearingLemmas ---------------------------
(***************************************************************************)
(* What the batch auction computes, for every batch: the price the loop    *)
(* over the candidates ends with, what the ration hands out, what is left  *)
(* resting and what settling moves.  OrderBookProofs and ServiceProofs     *)
(* build on them.                                                          *)
(***************************************************************************)
EXTENDS MatchEngine, CollectionLemmas

\* What the lemmas need to know of a batch.
IsBatch(orders) ==
    /\ Len(orders) \in Nat
    /\ \A i \in 1..Len(orders) :
          /\ orders[i].side \in Sides /\ orders[i].price \in Nat
          /\ orders[i].qty \in Nat /\ orders[i].id \in Nat

-----------------------------------------------------------------------------
\* Quantities at positions are sums of naturals over one function.
LEMMA QtyIsSum ==
    ASSUME NEW orders, IsBatch(orders), NEW K \in SUBSET (1..Len(orders))
    PROVE  /\ IsFiniteSet(K) /\ QtyAt(orders, K) \in Nat
           /\ QtyAt(orders, K) = SumFunctionOnSet([i \in 1..Len(orders) |-> orders[i].qty], K)
<1> DEFINE f == [i \in 1..Len(orders) |-> orders[i].qty]
           g == [i \in K |-> orders[i].qty]
<1>1. IsFiniteSet(K)
  <2>1. IsFiniteSet(1..Len(orders))
    BY FS_Interval DEF IsBatch
  <2> QED
    BY <2>1, FS_Subset
<1>2. \A i \in K : f[i] \in Nat /\ f[i] \in Int /\ g[i] = f[i]
  BY DEF IsBatch
<1>3. QtyAt(orders, K) = SumFunctionOnSet(g, K)
  BY DEF QtyAt
<1> HIDE DEF f, g
<1>4. SumFunctionOnSet(g, K) = SumFunctionOnSet(f, K)
  BY <1>1, <1>2, SumSame
<1>5. SumFunctionOnSet(f, K) \in Nat
  BY <1>1, <1>2, SumNat
<1> QED
  BY <1>1, <1>3, <1>4, <1>5 DEF f

\* More positions have no smaller quantity.
LEMMA QtyMonotone ==
    ASSUME NEW orders, IsBatch(orders), NEW L \in SUBSET (1..Len(orders)), NEW K \in SUBSET L
    PROVE  QtyAt(orders, K) <= QtyAt(orders, L)
<1> DEFINE f == [i \in 1..Len(orders) |-> orders[i].qty]
<1>1. \A i \in L : f[i] \in Nat
  BY DEF IsBatch
<1>2. IsFiniteSet(L) /\ QtyAt(orders, L) = SumFunctionOnSet(f, L) /\ QtyAt(orders, K) = SumFunctionOnSet(f, K)
  BY QtyIsSum
<1> HIDE DEF f
<1>3. SumFunctionOnSet(f, K) <= SumFunctionOnSet(f, L)
  BY <1>1, <1>2, SumNat
<1> QED
  BY <1>2, <1>3

\* One position more.
LEMMA QtyAdd ==
    ASSUME NEW orders, IsBatch(orders), NEW K \in SUBSET (1..Len(orders)),
           NEW i \in 1..Len(orders), i \notin K
    PROVE  QtyAt(orders, K \cup {i}) = orders[i].qty + QtyAt(orders, K)
<1> DEFINE f == [j \in 1..Len(orders) |-> orders[j].qty]
<1>1. \A j \in K \cup {i} : f[j] \in Int
  BY DEF IsBatch
<1>2. f[i] = orders[i].qty
  OBVIOUS
<1>3. /\ IsFiniteSet(K) /\ QtyAt(orders, K) = SumFunctionOnSet(f, K)
      /\ QtyAt(orders, K \cup {i}) = SumFunctionOnSet(f, K \cup {i})
  BY QtyIsSum
<1> HIDE DEF f
<1>4. SumFunctionOnSet(f, K \cup {i}) = f[i] + SumFunctionOnSet(f, K)
  BY <1>1, <1>3, SumAdd
<1> QED
  BY <1>2, <1>3, <1>4

LEMMA EligibleInBatch ==
    ASSUME NEW orders, NEW side, NEW p
    PROVE  Eligible(orders, side, p) \in SUBSET (1..Len(orders))
  BY DEF Eligible

\* What a candidate price trades and leaves.
LEMMA CandidateType ==
    ASSUME NEW orders, IsBatch(orders), NEW p
    PROVE  /\ Demand(orders, p) \in Nat /\ Supply(orders, p) \in Nat
           /\ Candidate(orders, p).price = p
           /\ Candidate(orders, p).volume = Smaller(Demand(orders, p), Supply(orders, p))
           /\ Candidate(orders, p).imbalance = AbsDiff(Demand(orders, p), Supply(orders, p))
           /\ Candidate(orders, p).volume \in Nat /\ Candidate(orders, p).imbalance \in Nat
<1>1. Demand(orders, p) \in Nat /\ Supply(orders, p) \in Nat
  BY EligibleInBatch, QtyIsSum DEF Demand, Supply
<1>2. /\ Candidate(orders, p).price = p
      /\ Candidate(orders, p).volume = Smaller(Demand(orders, p), Supply(orders, p))
      /\ Candidate(orders, p).imbalance = AbsDiff(Demand(orders, p), Supply(orders, p))
  BY DEF Candidate
<1> QED
  BY <1>1, <1>2 DEF Smaller, AbsDiff

LEMMA PricesFinite ==
    ASSUME NEW orders, IsBatch(orders)
    PROVE  IsFiniteSet(Prices(orders)) /\ Prices(orders) \in SUBSET Nat
<1> DEFINE f == [i \in 1..Len(orders) |-> orders[i].price]
<1>1. f \in Surjection(1..Len(orders), Prices(orders))
  BY DEF Surjection, Prices
<1>2. IsFiniteSet(1..Len(orders))
  BY FS_Interval DEF IsBatch
<1>3. IsFiniteSet(Prices(orders))
  <2> HIDE DEF f
  <2> QED
    BY <1>1, <1>2, FS_Surjection
<1> QED
  BY <1>3 DEF Prices, IsBatch

-----------------------------------------------------------------------------
\* The loop over the candidate prices: the equation its fold solves.
BestStep(g, orders, s) == BetterOf(Candidate(orders, Max(s)), g[s \ {Max(s)}])

BestSolves(g, orders) ==
    g = [s \in SUBSET Prices(orders) |-> IF s = {} THEN NoPrice ELSE BestStep(g, orders, s)]

LEMMA BestIsSolution ==
    ASSUME NEW orders
    PROVE  BestPrice(orders) = (CHOOSE g : BestSolves(g, orders))[Prices(orders)]
  BY DEF BestPrice, MapThenFoldSet, BestSolves, BestStep

LEMMA BestUpTo ==
    ASSUME NEW orders, IsBatch(orders), NEW n \in Nat
    PROVE  \E g : \A s \in SmallParts(Prices(orders), n) :
                     g[s] = IF s = {} THEN NoPrice ELSE BestStep(g, orders, s)
<1> DEFINE S == Prices(orders)
           P(m, g) == \A s \in SmallParts(S, m) : g[s] = IF s = {} THEN NoPrice ELSE BestStep(g, orders, s)
           N == {m \in Nat : \E g : P(m, g)}
<1>0. \A s \in SUBSET S : IsFiniteSet(s) /\ Cardinality(s) \in Nat /\ s \in SUBSET Nat
  BY PricesFinite, FS_Subset, FS_CardinalityType
<1> HIDE DEF S
<1>1. 0 \in N
  <2>1. P(0, [s \in SUBSET S |-> NoPrice])
    <3> SUFFICES ASSUME NEW s \in SmallParts(S, 0) PROVE s = {}
      BY DEF SmallParts
    <3> QED
      BY <1>0, FS_EmptySet DEF SmallParts
  <2> QED
    BY <2>1
<1>2. ASSUME NEW m \in N PROVE m + 1 \in N
  <2>1. PICK g : P(m, g)
    OBVIOUS
  <2> DEFINE h == [s \in SUBSET S |-> IF s = {} THEN NoPrice ELSE BestStep(g, orders, s)]
  <2>2. \A s \in SmallParts(S, m) : h[s] = g[s]
    BY <2>1 DEF SmallParts
  <2>3. ASSUME NEW s \in SmallParts(S, m + 1), s # {} PROVE h[s] = BestStep(h, orders, s)
    <3> DEFINE x == Max(s)
    <3>1. s \in SUBSET S /\ IsFiniteSet(s) /\ Cardinality(s) <= m + 1 /\ s \in SUBSET Nat
      BY <1>0 DEF SmallParts
    <3>2. x \in s
      BY <2>3, <3>1, MaxIsGreatest
    <3> HIDE DEF x
    <3>3. s \ {x} \in SmallParts(S, m)
      BY <3>1, <3>2, OneLess DEF SmallParts
    <3>4. h[s \ {x}] = g[s \ {x}]
      BY <3>3, <2>2
    <3>5. h[s] = BetterOf(Candidate(orders, x), g[s \ {x}])
      BY <2>3, <3>1 DEF BestStep, x
    <3>6. BestStep(h, orders, s) = BetterOf(Candidate(orders, x), h[s \ {x}])
      BY DEF BestStep, x
    <3> QED
      BY <3>4, <3>5, <3>6
  <2>4. \A s \in SmallParts(S, m + 1) : s = {} => h[s] = NoPrice
    OBVIOUS
  <2> HIDE DEF h
  <2>5. P(m + 1, h)
    BY <2>3, <2>4
  <2> QED
    BY <2>5
<1>3. n \in N
  <2> HIDE DEF N
  <2>1. N \subseteq Nat
    BY DEF N
  <2> QED
    BY <1>1, <1>2, <2>1, CountUp
<1> QED
  BY <1>3 DEF S

LEMMA BestExists ==
    ASSUME NEW orders, IsBatch(orders)
    PROVE  \E g : BestSolves(g, orders)
<1> DEFINE S == Prices(orders)
           n == Cardinality(S)
<1>1. n \in Nat /\ IsFiniteSet(S)
  BY PricesFinite, FS_CardinalityType
<1>2. PICK g : \A s \in SmallParts(S, n) : g[s] = IF s = {} THEN NoPrice ELSE BestStep(g, orders, s)
  BY <1>1, BestUpTo
<1>3. SmallParts(S, n) = SUBSET S
  BY <1>1, FS_Subset DEF SmallParts
<1> DEFINE h == [s \in SUBSET S |-> g[s]]
<1>4. \A s \in SUBSET S : h[s] = IF s = {} THEN NoPrice ELSE BestStep(h, orders, s)
  <2> SUFFICES ASSUME NEW s \in SUBSET S PROVE h[s] = IF s = {} THEN NoPrice ELSE BestStep(h, orders, s)
    OBVIOUS
  <2>1. s \ {Max(s)} \in SUBSET S
    OBVIOUS
  <2>2. h[s] = g[s] /\ h[s \ {Max(s)}] = g[s \ {Max(s)}]
    BY <2>1
  <2>3. g[s] = IF s = {} THEN NoPrice ELSE BestStep(g, orders, s)
    BY <1>2, <1>3
  <2> HIDE DEF h
  <2>4. BestStep(h, orders, s) = BestStep(g, orders, s)
    BY <2>2 DEF BestStep
  <2> QED
    BY <2>2, <2>3, <2>4
<1>5. h = [s \in SUBSET S |-> IF s = {} THEN NoPrice ELSE BestStep(h, orders, s)]
  BY <1>4
<1> QED
  BY <1>5 DEF BestSolves

\* b is the best of the candidate prices s: most volume, then least imbalance,
\* then the lowest price; without any volume there is none.
IsBest(orders, s, b) ==
    LET vol(p) == Candidate(orders, p).volume
        gap(p) == Candidate(orders, p).imbalance
    IN  /\ b.volume \in Nat /\ b.imbalance \in Nat /\ b.price \in Nat
        /\ \A q \in s : vol(q) <= b.volume
        /\ b.volume > 0 =>
              /\ b.price \in s
              /\ vol(b.price) = b.volume /\ gap(b.price) = b.imbalance
              /\ \A q \in s : vol(q) = b.volume =>
                    b.imbalance < gap(q) \/ (b.imbalance = gap(q) /\ b.price <= q)

\* One turn of the loop, with a price above all before it.
LEMMA BestGrows ==
    ASSUME NEW orders, IsBatch(orders), NEW s \in SUBSET Nat, NEW m \in Nat,
           \A q \in s : q < m, NEW b, IsBest(orders, s, b)
    PROVE  IsBest(orders, s \cup {m}, BetterOf(Candidate(orders, m), b))
<1> DEFINE vol(p) == Candidate(orders, p).volume
           gap(p) == Candidate(orders, p).imbalance
           new == Candidate(orders, m)
<1>1. \A p : vol(p) \in Nat /\ gap(p) \in Nat /\ Candidate(orders, p).price = p
  BY CandidateType
<1>2. /\ b.volume \in Nat /\ b.imbalance \in Nat /\ b.price \in Nat
      /\ \A q \in s : vol(q) <= b.volume
      /\ b.volume > 0 =>
              /\ b.price \in s
              /\ vol(b.price) = b.volume /\ gap(b.price) = b.imbalance
              /\ \A q \in s : vol(q) = b.volume =>
                    b.imbalance < gap(q) \/ (b.imbalance = gap(q) /\ b.price <= q)
  BY DEF IsBest
<1>3. CASE new.volume > b.volume \/ (new.volume = b.volume /\ new.volume > 0 /\ new.imbalance < b.imbalance)
  <2>1. BetterOf(new, b) = new
    BY <1>3 DEF BetterOf
  <2>2. /\ new.volume \in Nat /\ new.imbalance \in Nat /\ new.price = m
        /\ new.volume = vol(m) /\ new.imbalance = gap(m)
    BY <1>1
  <2>3. \A q \in s \cup {m} : vol(q) <= new.volume
    BY <1>1, <1>2, <1>3, <2>2
  <2>4. ASSUME NEW q \in s \cup {m}, vol(q) = new.volume, new.volume > 0
        PROVE  new.imbalance < gap(q) \/ (new.imbalance = gap(q) /\ m <= q)
    <3>1. CASE q = m
      BY <2>2, <3>1
    <3>2. CASE q \in s
      <4>1. vol(q) <= b.volume
        BY <1>2, <3>2
      <4>2. new.volume = b.volume /\ new.imbalance < b.imbalance /\ b.volume > 0
        BY <1>1, <1>2, <1>3, <2>2, <2>4, <4>1
      <4>3. b.imbalance < gap(q) \/ b.imbalance = gap(q)
        BY <1>2, <2>4, <3>2, <4>2
      <4> QED
        BY <1>1, <1>2, <2>2, <4>2, <4>3
    <3> QED
      BY <3>1, <3>2
  <2> HIDE DEF new
  <2> QED
    BY <2>1, <2>2, <2>3, <2>4 DEF IsBest, new
<1>4. CASE ~(new.volume > b.volume \/ (new.volume = b.volume /\ new.volume > 0 /\ new.imbalance < b.imbalance))
  <2>1. BetterOf(new, b) = b
    BY <1>4 DEF BetterOf
  <2>2. vol(m) <= b.volume /\ (vol(m) = b.volume /\ b.volume > 0 => b.imbalance <= gap(m))
    BY <1>1, <1>2, <1>4
  <2>3. b.volume > 0 => b.price <= m
    BY <1>2
  <2> QED
    BY <1>1, <1>2, <2>1, <2>2, <2>3 DEF IsBest
<1> QED
  BY <1>3, <1>4

\* clear's loop over the candidates ends with the best of all.
LEMMA BestPriceIsBest ==
    ASSUME NEW orders, IsBatch(orders)
    PROVE  IsBest(orders, Prices(orders), BestPrice(orders))
<1> DEFINE S == Prices(orders)
           g == CHOOSE g : BestSolves(g, orders)
           N == {n \in Nat : \A s \in SUBSET S : Cardinality(s) <= n => IsBest(orders, s, g[s])}
<1>0. \A s \in SUBSET S : IsFiniteSet(s) /\ Cardinality(s) \in Nat /\ s \in SUBSET Nat
  BY PricesFinite, FS_Subset, FS_CardinalityType
<1>1. BestSolves(g, orders)
  BY BestExists
<1>2. BestPrice(orders) = g[S]
  BY BestIsSolution
<1> HIDE DEF g
<1>3. \A s \in SUBSET S : g[s] = IF s = {} THEN NoPrice ELSE BestStep(g, orders, s)
  BY <1>1 DEF BestSolves
<1> HIDE DEF S
<1>4. IsBest(orders, {}, NoPrice)
  BY DEF IsBest, NoPrice
<1>5. 0 \in N
  <2> SUFFICES ASSUME NEW s \in SUBSET S, Cardinality(s) <= 0 PROVE IsBest(orders, s, g[s])
    OBVIOUS
  <2>1. s = {}
    BY <1>0, FS_EmptySet
  <2> QED
    BY <1>3, <1>4, <2>1
<1>6. ASSUME NEW n \in N PROVE n + 1 \in N
  <2> SUFFICES ASSUME NEW s \in SUBSET S, Cardinality(s) <= n + 1 PROVE IsBest(orders, s, g[s])
    OBVIOUS
  <2>1. CASE s = {}
    BY <1>3, <1>4, <2>1
  <2>2. CASE s # {}
    <3> DEFINE m == Max(s)
    <3>1. m \in s /\ \A y \in s : y <= m
      BY <1>0, <2>2, MaxIsGreatest
    <3>2. g[s] = BetterOf(Candidate(orders, m), g[s \ {m}])
      BY <1>3, <2>2 DEF BestStep
    <3> HIDE DEF m
    <3>3. Cardinality(s \ {m}) <= n
      <4>1. Cardinality(s) = Cardinality(s \ {m}) + 1 /\ Cardinality(s \ {m}) \in Nat
        BY <1>0, <3>1, OneLess
      <4> QED
        BY <4>1
    <3>4. IsBest(orders, s \ {m}, g[s \ {m}])
      BY <3>3
    <3>5. s \ {m} \in SUBSET Nat /\ m \in Nat /\ \A q \in s \ {m} : q < m
      <4>1. s \in SUBSET Nat
        BY <1>0
      <4> QED
        BY <3>1, <4>1
    <3>6. IsBest(orders, (s \ {m}) \cup {m}, g[s])
      BY <3>2, <3>4, <3>5, BestGrows
    <3>7. (s \ {m}) \cup {m} = s
      BY <3>1
    <3> QED
      BY <3>6, <3>7, Zenon
  <2> QED
    BY <2>1, <2>2
<1>7. Cardinality(S) \in N
  <2> HIDE DEF N
  <2>1. N \subseteq Nat
    BY DEF N
  <2>2. \A n \in Nat : n \in N
    BY <1>5, <1>6, <2>1, CountUp
  <2> QED
    BY <1>0, <2>2
<1>8. IsBest(orders, S, g[S])
  <2>1. Cardinality(S) \in Nat
    BY <1>0
  <2> QED
    BY <1>7, <2>1
<1> QED
  BY <1>2, <1>8 DEF S

\* No price at all, candidate or not, trades more than the one the loop ends with:
\* lowering a price to the dearest sell within it keeps the supply and loses no
\* demand.
LEMMA NoPriceTradesMore ==
    ASSUME NEW orders, IsBatch(orders), NEW p \in Nat
    PROVE  Smaller(Demand(orders, p), Supply(orders, p)) <= BestPrice(orders).volume
<1> DEFINE sells == Eligible(orders, "sell", p)
           asks == {orders[i].price : i \in sells}
<1>0. /\ BestPrice(orders).volume \in Nat
      /\ \A q \in Prices(orders) : Candidate(orders, q).volume <= BestPrice(orders).volume
  BY BestPriceIsBest DEF IsBest
<1>1. Demand(orders, p) \in Nat /\ Supply(orders, p) \in Nat
  BY CandidateType
<1>2. sells \in SUBSET (1..Len(orders))
  BY DEF Eligible
<1>3. CASE sells = {}
  <2>1. Supply(orders, p) = 0
    <3>1. \A f : SumFunctionOnSet(f, {}) = 0
      BY SumEmpty
    <3> QED
      BY <1>3, <3>1 DEF Supply, QtyAt
  <2> QED
    BY <1>0, <1>1, <2>1 DEF Smaller
<1>4. CASE sells # {}
  <2>1. asks \in SUBSET Prices(orders) /\ asks # {}
    BY <1>2, <1>4 DEF Prices
  <2>2. asks \in SUBSET Nat /\ IsFiniteSet(asks)
    <3> HIDE DEF asks
    <3> QED
      BY <2>1, PricesFinite, FS_Subset
  <2> DEFINE q == Max(asks)
  <2>3. q \in asks /\ \A y \in asks : y <= q
    <3> HIDE DEF asks
    <3> QED
      BY <2>1, <2>2, MaxIsGreatest
  <2> HIDE DEF q
  <2>4. q \in Nat /\ q \in Prices(orders)
    BY <2>1, <2>2, <2>3
  <2>5. q <= p
    BY <2>3 DEF Eligible
  <2>6. sells \subseteq Eligible(orders, "sell", q)
    BY <1>2, <2>3 DEF Eligible
  <2>7. Eligible(orders, "buy", p) \subseteq Eligible(orders, "buy", q)
    BY <2>4, <2>5 DEF Eligible, IsBatch
  <2> HIDE DEF sells, asks
  <2>8. Supply(orders, p) <= Supply(orders, q)
    BY <2>6, EligibleInBatch, QtyMonotone DEF Supply, sells
  <2>9. Demand(orders, p) <= Demand(orders, q)
    BY <2>7, EligibleInBatch, QtyMonotone DEF Demand
  <2>10. Candidate(orders, q).volume = Smaller(Demand(orders, q), Supply(orders, q))
    BY CandidateType
  <2>11. Demand(orders, q) \in Nat /\ Supply(orders, q) \in Nat
    BY CandidateType
  <2>12. Smaller(Demand(orders, q), Supply(orders, q)) <= BestPrice(orders).volume
    BY <1>0, <2>4, <2>10
  <2> QED
    BY <1>0, <1>1, <2>8, <2>9, <2>11, <2>12 DEF Smaller
<1> QED
  BY <1>3, <1>4

-----------------------------------------------------------------------------
\* Who is served first, as a comparison of price, id and position.
LEMMA ServedIs ==
    ASSUME NEW orders, IsBatch(orders), NEW i \in 1..Len(orders), NEW j \in 1..Len(orders),
           orders[i].side = orders[j].side
    PROVE  ServedBefore(orders, i, j) <=>
             \/ orders[i].side = "buy" /\ orders[i].price > orders[j].price
             \/ orders[i].side = "sell" /\ orders[i].price < orders[j].price
             \/ /\ orders[i].price = orders[j].price
                /\ orders[i].id < orders[j].id \/ (orders[i].id = orders[j].id /\ i < j)
<1>1. /\ orders[i].side \in {"buy", "sell"} /\ orders[i].price \in Nat /\ orders[i].id \in Nat
      /\ orders[j].price \in Nat /\ orders[j].id \in Nat /\ i \in Nat /\ j \in Nat
  BY DEF IsBatch, Sides
<1>2. CASE orders[i].side = "buy"
  BY <1>1, <1>2 DEF ServedBefore, Priority
<1>3. CASE orders[i].side = "sell"
  BY <1>1, <1>3 DEF ServedBefore, Priority
<1> QED
  BY <1>1, <1>2, <1>3

\* The orders of one side are served one after the other.
LEMMA ServedInTurn ==
    ASSUME NEW orders, IsBatch(orders), NEW i \in 1..Len(orders), NEW j \in 1..Len(orders),
           NEW k \in 1..Len(orders), orders[i].side = orders[j].side, orders[j].side = orders[k].side
    PROVE  /\ ~ServedBefore(orders, i, i)
           /\ i # j => ServedBefore(orders, i, j) \/ ServedBefore(orders, j, i)
           /\ ~(ServedBefore(orders, i, j) /\ ServedBefore(orders, j, i))
           /\ ServedBefore(orders, i, j) /\ ServedBefore(orders, j, k) => ServedBefore(orders, i, k)
<1> DEFINE First(x, y) ==
             \/ orders[x].side = "buy" /\ orders[x].price > orders[y].price
             \/ orders[x].side = "sell" /\ orders[x].price < orders[y].price
             \/ /\ orders[x].price = orders[y].price
                /\ orders[x].id < orders[y].id \/ (orders[x].id = orders[y].id /\ x < y)
<1>1. /\ orders[i].side \in {"buy", "sell"} /\ orders[i].price \in Nat /\ orders[i].id \in Nat
      /\ orders[j].price \in Nat /\ orders[j].id \in Nat
      /\ orders[k].price \in Nat /\ orders[k].id \in Nat
      /\ i \in Nat /\ j \in Nat /\ k \in Nat
  BY DEF IsBatch, Sides
<1>2. \A x, y \in {i, j, k} : ServedBefore(orders, x, y) <=> First(x, y)
  BY ServedIs
<1>3. ~First(i, i) /\ (i # j => First(i, j) \/ First(j, i)) /\ ~(First(i, j) /\ First(j, i))
  BY <1>1
<1>4. First(i, j) /\ First(j, k) => First(i, k)
  BY <1>1
<1> HIDE DEF First
<1> QED
  BY <1>2, <1>3, <1>4

\* Among orders of one side there is one that all others are served before.
LEMMA LastServed ==
    ASSUME NEW orders, IsBatch(orders), NEW A \in SUBSET (1..Len(orders)), A # {},
           \A i, j \in A : orders[i].side = orders[j].side
    PROVE  \E x \in A : \A y \in A \ {x} : ServedBefore(orders, y, x)
<1> DEFINE F == {T \in SUBSET A : T # {} => \E x \in T : \A y \in T \ {x} : ServedBefore(orders, y, x)}
<1>0. IsFiniteSet(A)
  BY QtyIsSum
<1>1. {} \in F
  OBVIOUS
<1>2. ASSUME NEW T \in SUBSET A, NEW z \in A \ T, T \in F PROVE T \cup {z} \in F
  <2>1. CASE T = {}
    BY <2>1
  <2>2. CASE T # {}
    <3>1. PICK x \in T : \A y \in T \ {x} : ServedBefore(orders, y, x)
      BY <1>2, <2>2
    <3>2. x \in A /\ z \in A /\ x # z /\ x \in 1..Len(orders) /\ z \in 1..Len(orders)
      BY <1>2
    <3>3. ServedBefore(orders, x, z) \/ ServedBefore(orders, z, x)
      BY <3>2, ServedInTurn
    <3>4. CASE ServedBefore(orders, z, x)
      <4>1. \A y \in (T \cup {z}) \ {x} : ServedBefore(orders, y, x)
        BY <3>1, <3>4
      <4> QED
        BY <4>1
    <3>5. CASE ServedBefore(orders, x, z)
      <4>1. ASSUME NEW y \in T, y # x PROVE ServedBefore(orders, y, z)
        <5>1. ServedBefore(orders, y, x) /\ y \in 1..Len(orders) /\ y \in A
          BY <3>1, <4>1
        <5>2. orders[y].side = orders[x].side /\ orders[x].side = orders[z].side
          BY <3>2, <5>1
        <5> QED
          BY <3>2, <3>5, <5>1, <5>2, ServedInTurn
      <4>2. \A y \in (T \cup {z}) \ {z} : ServedBefore(orders, y, z)
        BY <3>5, <4>1
      <4> QED
        BY <4>2
    <3> QED
      BY <3>3, <3>4, <3>5
  <2> QED
    BY <2>1, <2>2
<1> HIDE DEF F
<1>3. A \in F
  BY <1>0, <1>1, <1>2, AddOneByOne
<1> QED
  BY <1>3 DEF F

\* What each position of the batch gets of a ration.
Got(orders, p, volume) ==
    [i \in 1..Len(orders) |-> IF i \in DOMAIN Ration(orders, p, volume) THEN Ration(orders, p, volume)[i] ELSE 0]

\* An order gets what those ahead of it left, at most its quantity.
LEMMA GotAt ==
    ASSUME NEW orders, IsBatch(orders), NEW p, NEW volume \in Nat, NEW i \in 1..Len(orders)
    PROVE  /\ DOMAIN Ration(orders, p, volume) \in SUBSET (1..Len(orders))
           /\ QtyAt(orders, Ahead(orders, p, i)) \in Nat
           /\ Got(orders, p, volume)[i] \in Nat
           /\ Got(orders, p, volume)[i] <= orders[i].qty
           /\ i \in Eligible(orders, orders[i].side, p) =>
                Got(orders, p, volume)[i] =
                    IF volume > QtyAt(orders, Ahead(orders, p, i))
                    THEN Smaller(volume - QtyAt(orders, Ahead(orders, p, i)), orders[i].qty) ELSE 0
           /\ i \notin Eligible(orders, orders[i].side, p) => i \notin DOMAIN Ration(orders, p, volume)
           /\ i \in DOMAIN Ration(orders, p, volume) =>
                volume > QtyAt(orders, Ahead(orders, p, i))
<1> DEFINE open == Eligible(orders, "buy", p) \cup Eligible(orders, "sell", p)
           left == [j \in open |-> volume - QtyAt(orders, Ahead(orders, p, j))]
           q == QtyAt(orders, Ahead(orders, p, i))
<1>1. Ration(orders, p, volume) = [j \in {k \in open : left[k] > 0} |-> Smaller(left[j], orders[j].qty)]
  BY DEF Ration
<1>2. q \in Nat
  BY EligibleInBatch, QtyIsSum DEF Ahead
<1>3. orders[i].qty \in Nat /\ orders[i].side \in {"buy", "sell"}
  BY DEF IsBatch, Sides
<1>4. i \in open <=> i \in Eligible(orders, orders[i].side, p)
  BY <1>3 DEF Eligible
<1>5. open \in SUBSET (1..Len(orders))
  BY EligibleInBatch
<1> HIDE DEF open
<1>6. DOMAIN Ration(orders, p, volume) = {k \in open : left[k] > 0}
  BY <1>1
<1>7. i \in open => left[i] = volume - q
  OBVIOUS
<1> HIDE DEF left, q
<1>8. i \in DOMAIN Ration(orders, p, volume) <=> i \in open /\ volume > q
  BY <1>2, <1>6, <1>7
<1>9. i \in DOMAIN Ration(orders, p, volume) => Ration(orders, p, volume)[i] = Smaller(volume - q, orders[i].qty)
  BY <1>1, <1>6, <1>7, <1>8
<1>10. Got(orders, p, volume)[i] = IF i \in open /\ volume > q THEN Smaller(volume - q, orders[i].qty) ELSE 0
  BY <1>8, <1>9 DEF Got
<1>11. Got(orders, p, volume)[i] \in Nat /\ Got(orders, p, volume)[i] <= orders[i].qty
  BY <1>2, <1>3, <1>10 DEF Smaller
<1>12. DOMAIN Ration(orders, p, volume) \in SUBSET (1..Len(orders))
  BY <1>5, <1>6
<1> QED
  BY <1>2, <1>4, <1>8, <1>10, <1>11, <1>12 DEF q

\* The ration of the first orders of a side: all of the volume, or all they ask for.
LEMMA RationOfFirst ==
    ASSUME NEW orders, IsBatch(orders), NEW p, NEW volume \in Nat, NEW side \in Sides,
           NEW A \in SUBSET Eligible(orders, side, p), \A i \in A : Ahead(orders, p, i) \subseteq A
    PROVE  SumFunctionOnSet(Got(orders, p, volume), A) = Smaller(volume, QtyAt(orders, A))
<1> DEFINE got == Got(orders, p, volume)
           E == Eligible(orders, side, p)
           Closed(B) == \A i \in B : Ahead(orders, p, i) \subseteq B
           Right(B) == SumFunctionOnSet(got, B) = Smaller(volume, QtyAt(orders, B))
           N == {n \in Nat : \A B \in SUBSET E : Closed(B) /\ Cardinality(B) <= n => Right(B)}
<1>0. /\ E \in SUBSET (1..Len(orders)) /\ \A i \in E : orders[i].side = side
      /\ \A B \in SUBSET E : IsFiniteSet(B) /\ Cardinality(B) \in Nat /\ QtyAt(orders, B) \in Nat
  <2>1. E \in SUBSET (1..Len(orders)) /\ \A i \in E : orders[i].side = side
    BY DEF Eligible
  <2> HIDE DEF E
  <2>2. ASSUME NEW B \in SUBSET E PROVE IsFiniteSet(B) /\ Cardinality(B) \in Nat /\ QtyAt(orders, B) \in Nat
    BY <2>1, QtyIsSum, FS_CardinalityType
  <2> QED
    BY <2>1, <2>2
<1>1. \A i \in 1..Len(orders) :
        /\ got[i] \in Nat /\ QtyAt(orders, Ahead(orders, p, i)) \in Nat
        /\ i \in Eligible(orders, orders[i].side, p) =>
             got[i] = IF volume > QtyAt(orders, Ahead(orders, p, i))
                      THEN Smaller(volume - QtyAt(orders, Ahead(orders, p, i)), orders[i].qty) ELSE 0
  BY GotAt
<1> HIDE DEF got
<1>2. Right({})
  <2>1. \A f : SumFunctionOnSet(f, {}) = 0
    BY SumEmpty
  <2>2. QtyAt(orders, {}) = 0
    BY <2>1 DEF QtyAt
  <2> QED
    BY <2>1, <2>2 DEF Smaller
<1>3. 0 \in N
  <2> SUFFICES ASSUME NEW B \in SUBSET E, Cardinality(B) <= 0 PROVE Right(B)
    OBVIOUS
  <2>1. B = {}
    BY <1>0, FS_EmptySet
  <2> QED
    BY <1>2, <2>1
<1>4. ASSUME NEW n \in N PROVE n + 1 \in N
  <2> SUFFICES ASSUME NEW B \in SUBSET E, Closed(B), Cardinality(B) <= n + 1 PROVE Right(B)
    OBVIOUS
  <2>1. CASE B = {}
    BY <1>2, <2>1
  <2>2. CASE B # {}
    <3>0. B \in SUBSET (1..Len(orders)) /\ \A i, j \in B : orders[i].side = orders[j].side
      BY <1>0
    <3>1. PICK x \in B : \A y \in B \ {x} : ServedBefore(orders, y, x)
      BY <2>2, <3>0, LastServed
    <3>2. orders[x].side = side /\ x \in E /\ x \in 1..Len(orders)
      BY <1>0
    <3>3. Ahead(orders, p, x) = B \ {x}
      <4>1. Ahead(orders, p, x) \subseteq B
        OBVIOUS
      <4>2. ~ServedBefore(orders, x, x)
        BY <3>2, ServedInTurn
      <4>3. x \notin Ahead(orders, p, x)
        BY <4>2 DEF Ahead
      <4>4. B \ {x} \subseteq Ahead(orders, p, x)
        BY <3>1, <3>2 DEF Ahead
      <4> QED
        BY <4>1, <4>3, <4>4
    <3>4. Closed(B \ {x})
      <4> SUFFICES ASSUME NEW i \in B \ {x} PROVE x \notin Ahead(orders, p, i)
        OBVIOUS
      <4>1. ServedBefore(orders, i, x) /\ i \in 1..Len(orders) /\ orders[i].side = orders[x].side
        BY <3>0, <3>1
      <4>2. ~ServedBefore(orders, x, i)
        BY <3>2, <4>1, ServedInTurn
      <4> QED
        BY <4>2 DEF Ahead
    <3>5. Cardinality(B \ {x}) <= n /\ B \ {x} \in SUBSET E
      <4>1. Cardinality(B) = Cardinality(B \ {x}) + 1 /\ Cardinality(B \ {x}) \in Nat
        BY <1>0, OneLess
      <4> QED
        BY <4>1
    <3>6. Right(B \ {x})
      <4> HIDE DEF Right, Closed
      <4> QED
        BY <3>4, <3>5
    <3>7. QtyAt(orders, B) = orders[x].qty + QtyAt(orders, B \ {x})
      <4>1. QtyAt(orders, (B \ {x}) \cup {x}) = orders[x].qty + QtyAt(orders, B \ {x})
        BY <3>0, <3>2, QtyAdd
      <4>2. (B \ {x}) \cup {x} = B
        OBVIOUS
      <4> QED
        BY <4>1, <4>2, Zenon
    <3>8. SumFunctionOnSet(got, B) = got[x] + SumFunctionOnSet(got, B \ {x})
      <4>1. \A i \in B : got[i] \in Int
        BY <1>1, <3>0
      <4> QED
        BY <1>0, <4>1, SumPeel
    <3> DEFINE q == QtyAt(orders, B \ {x})
    <3>9. q \in Nat /\ orders[x].qty \in Nat
      BY <1>0, <3>2, <3>5 DEF IsBatch
    <3>10. got[x] = IF volume > q THEN Smaller(volume - q, orders[x].qty) ELSE 0
      <4>1. x \in Eligible(orders, orders[x].side, p)
        BY <3>2
      <4>2. QtyAt(orders, Ahead(orders, p, x)) = q
        BY <3>3, Zenon
      <4> QED
        BY <1>1, <3>2, <4>1, <4>2
    <3> HIDE DEF q
    <3>11. SumFunctionOnSet(got, B \ {x}) = Smaller(volume, q)
      BY <3>6 DEF q
    <3>12. SumFunctionOnSet(got, B) = got[x] + Smaller(volume, q) /\ QtyAt(orders, B) = orders[x].qty + q
      BY <3>7, <3>8, <3>11 DEF q
    <3> QED
      BY <3>9, <3>10, <3>12 DEF Smaller
  <2> QED
    BY <2>1, <2>2
<1>5. \A n \in Nat : n \in N
  <2> HIDE DEF N
  <2>1. N \subseteq Nat
    BY DEF N
  <2> QED
    BY <1>3, <1>4, <2>1, CountUp
<1>6. A \in SUBSET E /\ Closed(A) /\ Cardinality(A) \in N /\ Cardinality(A) \in Nat
  BY <1>0, <1>5
<1>7. Right(A)
  <2> HIDE DEF Right, Closed
  <2> QED
    BY <1>6
<1> QED
  BY <1>7 DEF got

\* Each side trades exactly the volume, when the volume is within what it asks for.
LEMMA RationIsVolume ==
    ASSUME NEW orders, IsBatch(orders), NEW p, NEW volume \in Nat, NEW side \in Sides,
           volume <= QtyAt(orders, Eligible(orders, side, p))
    PROVE  SumFunctionOnSet(Got(orders, p, volume), Eligible(orders, side, p)) = volume
<1> DEFINE E == Eligible(orders, side, p)
<1>1. \A i \in E : orders[i].side = side
  BY DEF Eligible
<1>2. \A i \in E : Ahead(orders, p, i) \subseteq E
  BY <1>1 DEF Ahead
<1>3. SumFunctionOnSet(Got(orders, p, volume), E) = Smaller(volume, QtyAt(orders, E))
  BY <1>2, RationOfFirst
<1>4. QtyAt(orders, E) \in Nat
  BY EligibleInBatch, QtyIsSum
<1> QED
  BY <1>3, <1>4 DEF Smaller

-----------------------------------------------------------------------------
\* What each position of a batch is filled by a clearing.
Taken(orders, c) == [i \in 1..Len(orders) |-> IF i \in DOMAIN c.fills THEN c.fills[i] ELSE 0]

\* Each side of the batch, by position.
OnOneSide(orders, side) == {i \in 1..Len(orders) : orders[i].side = side}

\* The clearing's price and volume are the loop's, its fills the ration.
LEMMA ClearIs ==
    ASSUME NEW orders, IsBatch(orders)
    PROVE  /\ Clear(orders).volume \in Nat /\ Clear(orders).price \in Nat
           /\ Clear(orders).volume = BestPrice(orders).volume
           /\ Clear(orders).volume > 0 => Clear(orders).price = BestPrice(orders).price
           /\ DOMAIN Clear(orders).fills \in SUBSET (1..Len(orders))
           /\ \A i \in 1..Len(orders) :
                 Taken(orders, Clear(orders))[i] = Got(orders, Clear(orders).price, Clear(orders).volume)[i]
<1> DEFINE b == BestPrice(orders)
           c == Clear(orders)
<1>1. b.volume \in Nat /\ b.price \in Nat
  BY BestPriceIsBest DEF IsBest
<1>2. CASE b.volume = 0
  <2>1. c.volume = 0 /\ c.price = 0 /\ c.fills = <<>>
    BY <1>2 DEF Clear
  <2>2. DOMAIN c.fills = {}
    BY <2>1
  <2>3. \A i \in 1..Len(orders) : Taken(orders, c)[i] = 0
    BY <2>2 DEF Taken
  <2> HIDE DEF c, b
  <2>4. \A i \in 1..Len(orders) : Got(orders, 0, 0)[i] = 0
    <3> SUFFICES ASSUME NEW i \in 1..Len(orders) PROVE Got(orders, 0, 0)[i] = 0
      OBVIOUS
    <3>1. /\ QtyAt(orders, Ahead(orders, 0, i)) \in Nat
          /\ i \in DOMAIN Ration(orders, 0, 0) => 0 > QtyAt(orders, Ahead(orders, 0, i))
      BY GotAt
    <3>2. i \notin DOMAIN Ration(orders, 0, 0)
      BY <3>1
    <3> QED
      BY <3>2 DEF Got
  <2> QED
    BY <1>2, <2>1, <2>2, <2>3, <2>4 DEF c, b
<1>3. CASE b.volume # 0
  <2>1. c.volume = b.volume /\ c.price = b.price /\ c.fills = Ration(orders, b.price, b.volume)
    BY <1>3 DEF Clear
  <2>2. DOMAIN c.fills \in SUBSET (1..Len(orders))
    <3>1. \A i \in 1..Len(orders) : DOMAIN Ration(orders, b.price, b.volume) \in SUBSET (1..Len(orders))
      BY <1>1, GotAt
    <3>2. CASE Len(orders) = 0
      <4>1. \A side : Eligible(orders, side, b.price) = {}
        BY <3>2 DEF Eligible
      <4>2. DOMAIN Ration(orders, b.price, b.volume) = {}
        BY <4>1 DEF Ration
      <4> QED
        BY <2>1, <4>2
    <3>3. CASE Len(orders) # 0
      <4>1. 1 \in 1..Len(orders)
        BY <3>3 DEF IsBatch
      <4> QED
        BY <2>1, <3>1, <4>1
    <3> QED
      BY <3>2, <3>3
  <2> HIDE DEF c, b
  <2>3. \A i \in 1..Len(orders) : Taken(orders, c)[i] = Got(orders, c.price, c.volume)[i]
    BY <2>1 DEF Taken, Got
  <2> QED
    BY <1>1, <2>1, <2>2, <2>3 DEF c, b
<1> QED
  BY <1>2, <1>3

\* Nobody gets more than asked for, or trades outside the limit.
LEMMA TakenAt ==
    ASSUME NEW orders, IsBatch(orders), NEW i \in 1..Len(orders)
    PROVE  /\ Taken(orders, Clear(orders))[i] \in Nat
           /\ Taken(orders, Clear(orders))[i] <= orders[i].qty
           /\ Taken(orders, Clear(orders))[i] > 0 =>
                i \in Eligible(orders, orders[i].side, Clear(orders).price)
<1> DEFINE p == Clear(orders).price
           v == Clear(orders).volume
<1>1. v \in Nat /\ Taken(orders, Clear(orders))[i] = Got(orders, p, v)[i]
  BY ClearIs
<1> HIDE DEF p, v
<1>2. /\ Got(orders, p, v)[i] \in Nat /\ Got(orders, p, v)[i] <= orders[i].qty
      /\ i \notin Eligible(orders, orders[i].side, p) => i \notin DOMAIN Ration(orders, p, v)
  BY <1>1, GotAt
<1>3. i \notin DOMAIN Ration(orders, p, v) => Got(orders, p, v)[i] = 0
  BY DEF Got
<1> QED
  BY <1>1, <1>2, <1>3 DEF p

\* Price-time priority: who is served before one that gets something gets all.
LEMMA ServedFirstFilled ==
    ASSUME NEW orders, IsBatch(orders), NEW i \in 1..Len(orders), NEW j \in 1..Len(orders),
           orders[i].side = orders[j].side, ServedBefore(orders, i, j),
           Taken(orders, Clear(orders))[j] > 0
    PROVE  Taken(orders, Clear(orders))[i] = orders[i].qty
<1> DEFINE p == Clear(orders).price
           v == Clear(orders).volume
           ai == Ahead(orders, p, i)
           aj == Ahead(orders, p, j)
<1>1. /\ v \in Nat /\ p \in Nat
      /\ Taken(orders, Clear(orders))[i] = Got(orders, p, v)[i]
      /\ Taken(orders, Clear(orders))[j] = Got(orders, p, v)[j]
      /\ j \in Eligible(orders, orders[j].side, p)
  BY ClearIs, TakenAt
<1> HIDE DEF p, v
<1>2. i \in Eligible(orders, orders[i].side, p)
  <2>1. /\ orders[i].side \in {"buy", "sell"} /\ orders[i].price \in Nat /\ orders[j].price \in Nat
    BY DEF IsBatch, Sides
  <2>2. \/ orders[i].side = "buy" /\ orders[i].price >= orders[j].price
        \/ orders[i].side = "sell" /\ orders[i].price <= orders[j].price
    BY <2>1, ServedIs
  <2>3. IF orders[i].side = "buy" THEN orders[j].price >= p ELSE orders[j].price <= p
    BY <1>1 DEF Eligible
  <2>4. IF orders[i].side = "buy" THEN orders[i].price >= p ELSE orders[i].price <= p
    BY <1>1, <2>1, <2>2, <2>3
  <2> QED
    BY <2>4 DEF Eligible
<1>3. i \in aj /\ i \notin ai /\ ai \subseteq aj
  <2>1. i \in aj
    BY <1>2 DEF Ahead
  <2>2. i \notin ai
    BY ServedInTurn DEF Ahead
  <2>3. ASSUME NEW k \in ai PROVE k \in aj
    <3>1. k \in Eligible(orders, orders[i].side, p) /\ ServedBefore(orders, k, i)
      BY DEF Ahead
    <3>2. k \in 1..Len(orders) /\ orders[k].side = orders[i].side
      BY <3>1 DEF Eligible
    <3>3. ServedBefore(orders, k, j)
      BY <3>1, <3>2, ServedInTurn
    <3> QED
      BY <3>1, <3>3 DEF Ahead
  <2> QED
    BY <2>1, <2>2, <2>3
<1>4. ai \in SUBSET (1..Len(orders)) /\ aj \in SUBSET (1..Len(orders))
  BY DEF Ahead, Eligible
<1> HIDE DEF ai, aj
<1>5. QtyAt(orders, ai) + orders[i].qty <= QtyAt(orders, aj)
  <2>1. QtyAt(orders, ai \cup {i}) = orders[i].qty + QtyAt(orders, ai)
    BY <1>3, <1>4, QtyAdd
  <2>2. QtyAt(orders, ai \cup {i}) <= QtyAt(orders, aj)
    BY <1>3, <1>4, QtyMonotone
  <2>3. QtyAt(orders, ai) \in Nat /\ orders[i].qty \in Nat /\ QtyAt(orders, aj) \in Nat
    BY <1>4, QtyIsSum DEF IsBatch
  <2> QED
    BY <2>1, <2>2, <2>3
<1>6. v > QtyAt(orders, aj)
  <2>1. Got(orders, p, v)[j] = IF v > QtyAt(orders, aj) THEN Smaller(v - QtyAt(orders, aj), orders[j].qty) ELSE 0
    BY <1>1, GotAt DEF aj
  <2> QED
    BY <1>1, <2>1
<1>7. Got(orders, p, v)[i] = IF v > QtyAt(orders, ai) THEN Smaller(v - QtyAt(orders, ai), orders[i].qty) ELSE 0
  BY <1>1, <1>2, GotAt DEF ai
<1>8. QtyAt(orders, ai) \in Nat /\ orders[i].qty \in Nat /\ QtyAt(orders, aj) \in Nat
  BY <1>4, QtyIsSum DEF IsBatch
<1> QED
  BY <1>1, <1>5, <1>6, <1>7, <1>8 DEF Smaller

\* Each side is filled the volume, no more and no less.
LEMMA SidesBalance ==
    ASSUME NEW orders, IsBatch(orders), NEW side \in Sides
    PROVE  SumFunctionOnSet(Taken(orders, Clear(orders)), OnOneSide(orders, side)) = Clear(orders).volume
<1> DEFINE p == Clear(orders).price
           v == Clear(orders).volume
           t == Taken(orders, Clear(orders))
           g == Got(orders, p, v)
           E == Eligible(orders, side, p)
           rest == OnOneSide(orders, side) \ E
<1>1. /\ v \in Nat /\ v = BestPrice(orders).volume
      /\ v > 0 => p = BestPrice(orders).price
      /\ \A i \in 1..Len(orders) : t[i] = g[i]
  BY ClearIs
<1>2. /\ v > 0 => Candidate(orders, p).volume = v
  BY <1>1, BestPriceIsBest DEF IsBest
<1>3. v <= QtyAt(orders, E)
  <2>1. Demand(orders, p) \in Nat /\ Supply(orders, p) \in Nat
        /\ Candidate(orders, p).volume = Smaller(Demand(orders, p), Supply(orders, p))
    BY CandidateType
  <2>2. QtyAt(orders, E) = Demand(orders, p) \/ QtyAt(orders, E) = Supply(orders, p)
    BY DEF Demand, Supply, Sides
  <2> HIDE DEF v, E, p
  <2>3. CASE v = 0
    BY <2>1, <2>2, <2>3
  <2>4. CASE v > 0
    BY <1>1, <1>2, <2>1, <2>2, <2>4 DEF Smaller
  <2> QED
    BY <1>1, <2>3, <2>4
<1>4. SumFunctionOnSet(g, E) = v
  BY <1>1, <1>3, RationIsVolume
<1>5. E \in SUBSET OnOneSide(orders, side) /\ OnOneSide(orders, side) \in SUBSET (1..Len(orders))
  BY DEF Eligible, OnOneSide
<1>6. \A i \in 1..Len(orders) : t[i] \in Nat /\ (t[i] > 0 => i \in Eligible(orders, orders[i].side, p))
  BY TakenAt
<1>7. \A i \in rest : t[i] = 0
  <2>1. \A i \in rest : i \in 1..Len(orders) /\ orders[i].side = side
    BY DEF OnOneSide
  <2> QED
    BY <1>6, <2>1
<1> HIDE DEF t, g, E, v
<1>8. IsFiniteSet(E) /\ IsFiniteSet(rest) /\ IsFiniteSet(OnOneSide(orders, side))
  BY <1>5, QtyIsSum
<1>9. SumFunctionOnSet(t, E) = SumFunctionOnSet(g, E)
  <2>1. \A i \in E : g[i] \in Int /\ t[i] = g[i]
    BY <1>1, <1>5, <1>6
  <2> QED
    BY <1>8, <2>1, SumSame
<1>10. SumFunctionOnSet(t, rest) = 0
  BY <1>7, <1>8, SumZero
<1>11. SumFunctionOnSet(t, E \cup rest) = SumFunctionOnSet(t, E) + SumFunctionOnSet(t, rest)
  <2>1. E \cap rest = {} /\ \A i \in E \cup rest : t[i] \in Int
    BY <1>5, <1>6
  <2> QED
    BY <1>8, <2>1, SumSplit
<1>12. E \cup rest = OnOneSide(orders, side)
  BY <1>5
<1>13. SumFunctionOnSet(t, E \cup rest) = v
  BY <1>1, <1>4, <1>9, <1>10, <1>11
<1> QED
  BY <1>12, <1>13, Zenon DEF t, v

-----------------------------------------------------------------------------
\* No two orders of the batch have one id.
UniqueIds(orders) == \A i, j \in 1..Len(orders) : orders[i].id = orders[j].id => i = j

\* The fills of a clearing, by position.
LEMMA FillsAre ==
    ASSUME NEW orders, IsBatch(orders)
    PROVE  /\ DOMAIN Clear(orders).fills \in SUBSET (1..Len(orders))
           /\ IsFiniteSet(DOMAIN Clear(orders).fills)
           /\ \A i \in DOMAIN Clear(orders).fills :
                 Clear(orders).fills[i] \in Nat /\ Clear(orders).fills[i] = Taken(orders, Clear(orders))[i]
           /\ \A i \in (1..Len(orders)) \ DOMAIN Clear(orders).fills : Taken(orders, Clear(orders))[i] = 0
<1> DEFINE c == Clear(orders)
<1>1. DOMAIN c.fills \in SUBSET (1..Len(orders))
  BY ClearIs
<1>2. \A i \in 1..Len(orders) : Taken(orders, c)[i] \in Nat
  BY TakenAt
<1> HIDE DEF c
<1>3. \A i \in DOMAIN c.fills : c.fills[i] = Taken(orders, c)[i]
  BY <1>1 DEF Taken
<1>4. \A i \in (1..Len(orders)) \ DOMAIN c.fills : Taken(orders, c)[i] = 0
  BY DEF Taken
<1>5. IsFiniteSet(DOMAIN c.fills)
  BY <1>1, QtyIsSum
<1> QED
  BY <1>1, <1>2, <1>3, <1>4, <1>5 DEF c

\* What the fills of a clearing give to an id.
LEMMA FilledType ==
    ASSUME NEW orders, IsBatch(orders), NEW id
    PROVE  /\ FilledQty(orders, Clear(orders).fills, id) \in Nat
           /\ (\A i \in 1..Len(orders) : orders[i].id # id) => FilledQty(orders, Clear(orders).fills, id) = 0
<1> DEFINE f == Clear(orders).fills
           D == {i \in DOMAIN f : orders[i].id = id}
<1>1. DOMAIN f \in SUBSET (1..Len(orders)) /\ IsFiniteSet(DOMAIN f) /\ \A i \in DOMAIN f : f[i] \in Nat
  BY FillsAre
<1> HIDE DEF f
<1>2. IsFiniteSet(D) /\ \A i \in D : f[i] \in Nat
  BY <1>1, FS_Subset
<1>3. (\A i \in 1..Len(orders) : orders[i].id # id) => D = {}
  BY <1>1
<1>4. FilledQty(orders, f, id) = SumFunctionOnSet(f, D)
  BY DEF FilledQty
<1> HIDE DEF D
<1>5. SumFunctionOnSet(f, D) \in Nat
  BY <1>2, SumNat
<1>6. D = {} => SumFunctionOnSet(f, D) = 0
  BY SumEmpty
<1> QED
  BY <1>3, <1>4, <1>5, <1>6 DEF f

\* With one order per id, that is what its order is filled.
LEMMA FilledIsTaken ==
    ASSUME NEW orders, IsBatch(orders), UniqueIds(orders), NEW i \in 1..Len(orders)
    PROVE  FilledQty(orders, Clear(orders).fills, orders[i].id) = Taken(orders, Clear(orders))[i]
<1> DEFINE f == Clear(orders).fills
           t == Taken(orders, Clear(orders))
           D == {j \in DOMAIN f : orders[j].id = orders[i].id}
<1>1. /\ DOMAIN f \in SUBSET (1..Len(orders)) /\ \A j \in DOMAIN f : f[j] \in Nat /\ f[j] = t[j]
      /\ \A j \in (1..Len(orders)) \ DOMAIN f : t[j] = 0
  BY FillsAre
<1> HIDE DEF f, t
<1>2. FilledQty(orders, f, orders[i].id) = SumFunctionOnSet(f, D)
  BY DEF FilledQty
<1>3. D \subseteq {i} /\ (i \in DOMAIN f => D = {i}) /\ (i \notin DOMAIN f => D = {})
  BY <1>1 DEF UniqueIds
<1> HIDE DEF D
<1>4. CASE i \in DOMAIN f
  <2>1. SumFunctionOnSet(f, {i}) = f[i]
    BY <1>1, <1>4, SumOne
  <2> QED
    BY <1>1, <1>2, <1>3, <1>4, <2>1 DEF f, t
<1>5. CASE i \notin DOMAIN f
  <2>1. SumFunctionOnSet(f, {}) = 0
    BY SumEmpty
  <2> QED
    BY <1>1, <1>2, <1>3, <1>5, <2>1 DEF f, t
<1> QED
  BY <1>4, <1>5

\* resting: with one order per id, what is left of the batch, in its order.
LEMMA RestingIs ==
    ASSUME NEW orders, IsBatch(orders), UniqueIds(orders),
           \A i \in 1..Len(orders) : orders[i].qty < U32
    PROVE  LET rest == Resting(orders, Clear(orders))
               t == Taken(orders, Clear(orders))
           IN  /\ Len(rest) \in Nat
               /\ rest = [n \in 1..Len(rest) |-> rest[n]]
               /\ \E at \in [1..Len(rest) -> {i \in 1..Len(orders) : t[i] < orders[i].qty}] :
                     /\ \A m, n \in 1..Len(rest) : m < n => at[m] < at[n]
                     /\ \A n \in 1..Len(rest) : rest[n] = [orders[at[n]] EXCEPT !.qty = orders[at[n]].qty - t[at[n]]]
<1> DEFINE c == Clear(orders)
           t == Taken(orders, c)
           left == [i \in 1..Len(orders) |-> orders[i].qty - FilledQty(orders, c.fills, orders[i].id)]
           s == [i \in 1..Len(orders) |-> [orders[i] EXCEPT !.qty = left[i] % U32]]
           K == {i \in 1..Len(orders) : left[i] # 0}
           rest == Resting(orders, c)
<1>1. \A i \in 1..Len(orders) : /\ t[i] \in Nat /\ t[i] <= orders[i].qty /\ orders[i].qty \in Nat
                                /\ FilledQty(orders, c.fills, orders[i].id) = t[i]
  BY TakenAt, FilledIsTaken DEF IsBatch
<1>2. rest = Pick(s, K)
  BY DEF Resting
<1> HIDE DEF c, rest, t
<1>3. \A i \in 1..Len(orders) : left[i] = orders[i].qty - t[i]
  BY <1>1
<1> HIDE DEF left
<1>4. ASSUME NEW i \in K
      PROVE  /\ i \in 1..Len(orders) /\ t[i] < orders[i].qty
             /\ s[i] = [orders[i] EXCEPT !.qty = orders[i].qty - t[i]]
  <2>1. left[i] = orders[i].qty - t[i] /\ orders[i].qty - t[i] # 0 /\ i \in 1..Len(orders)
    BY <1>3
  <2>2. t[i] \in Nat /\ orders[i].qty \in Nat /\ t[i] <= orders[i].qty /\ orders[i].qty < U32
    BY <1>1, <2>1
  <2>3. \A x \in Nat : x < U32 => x % U32 = x
    BY U32Assumption
  <2>4. left[i] \in Nat /\ left[i] < U32
    BY <2>1, <2>2, U32Assumption
  <2>5. left[i] % U32 = orders[i].qty - t[i]
    BY <2>1, <2>3, <2>4
  <2> QED
    BY <2>1, <2>2, <2>5
<1>5. K \in SUBSET (1..Len(orders))
  OBVIOUS
<1> HIDE DEF K, s
<1>5a. K \in SUBSET Nat /\ IsFiniteSet(K)
  <2>1. IsFiniteSet(K)
    BY <1>5, QtyIsSum
  <2>2. Len(orders) \in Nat /\ 1..Len(orders) \subseteq Nat
    BY DEF IsBatch
  <2> QED
    BY <1>5, <2>1, <2>2
<1>6. Cardinality(K) \in Nat
  BY <1>5a, FS_CardinalityType
<1>7a. PICK at : PicksAt(s, K, at)
  BY <1>5a, PickAt
<1>7. /\ at \in [1..Cardinality(K) -> K]
      /\ \A m, n \in 1..Cardinality(K) : m < n => at[m] < at[n]
      /\ Pick(s, K) = [n \in 1..Cardinality(K) |-> s[at[n]]]
  BY <1>7a DEF PicksAt
<1>8. Len(rest) = Cardinality(K) /\ \A n \in 1..Len(rest) : rest[n] = s[at[n]]
  BY <1>2, <1>6, <1>7
<1>9. rest = [n \in 1..Len(rest) |-> rest[n]]
  BY <1>2, <1>7, <1>8
<1>10. at \in [1..Len(rest) -> {i \in 1..Len(orders) : t[i] < orders[i].qty}]
  BY <1>4, <1>7, <1>8
<1>11. \A n \in 1..Len(rest) : rest[n] = [orders[at[n]] EXCEPT !.qty = orders[at[n]].qty - t[at[n]]]
  BY <1>4, <1>7, <1>8
<1>12. \A m, n \in 1..Len(rest) : m < n => at[m] < at[n]
  BY <1>7, <1>8
<1>13. \E a \in [1..Len(rest) -> {i \in 1..Len(orders) : t[i] < orders[i].qty}] :
                     /\ \A m, n \in 1..Len(rest) : m < n => a[m] < a[n]
                     /\ \A n \in 1..Len(rest) : rest[n] = [orders[a[n]] EXCEPT !.qty = orders[a[n]].qty - t[a[n]]]
  BY <1>10, <1>11, <1>12
<1> QED
  BY <1>6, <1>8, <1>9, <1>13 DEF rest, t, c

-----------------------------------------------------------------------------
\* encode_settlement: with one order per id, each fill is settled with the order
\* it is of.
LEMMA SettlementIs ==
    ASSUME NEW orders, IsBatch(orders), UniqueIds(orders)
    PROVE  LET c == Clear(orders)
               e == Settlement(orders, c)
           IN  /\ DOMAIN e = DOMAIN c.fills
               /\ \A i \in DOMAIN e : /\ i \in 1..Len(orders) /\ e[i].account = orders[i].account
                                      /\ e[i].side = orders[i].side /\ e[i].qty = c.fills[i]
<1> DEFINE c == Clear(orders)
           first(id) == Min({i \in 1..Len(orders) : orders[i].id = id})
           e == Settlement(orders, c)
<1>1. DOMAIN c.fills \in SUBSET (1..Len(orders))
  BY FillsAre
<1>2. e = [i \in DOMAIN c.fills |-> [account |-> orders[first(orders[i].id)].account,
                                     side |-> orders[first(orders[i].id)].side, qty |-> c.fills[i]]]
  BY DEF Settlement
<1> HIDE DEF c, e
<1>3. ASSUME NEW i \in DOMAIN c.fills PROVE first(orders[i].id) = i
  <2> DEFINE S == {j \in 1..Len(orders) : orders[j].id = orders[i].id}
  <2>1. i \in 1..Len(orders) /\ Len(orders) \in Nat
    BY <1>1 DEF IsBatch
  <2>2. S \in SUBSET Nat /\ i \in S /\ \A j \in S : j = i
    BY <2>1 DEF UniqueIds
  <2> HIDE DEF S
  <2>3. Min(S) \in S
    BY <2>2, MinIsLeast
  <2> QED
    BY <2>2, <2>3 DEF S
<1> HIDE DEF first
<1>4. \A i \in DOMAIN c.fills : e[i] = [account |-> orders[i].account, side |-> orders[i].side, qty |-> c.fills[i]]
  BY <1>2, <1>3
<1>5. DOMAIN e = DOMAIN c.fills
  BY <1>2
<1>6. \A i \in DOMAIN e : /\ i \in 1..Len(orders) /\ e[i].account = orders[i].account
                          /\ e[i].side = orders[i].side /\ e[i].qty = c.fills[i]
  <2> SUFFICES ASSUME NEW i \in DOMAIN e
               PROVE  /\ i \in 1..Len(orders) /\ e[i].account = orders[i].account
                      /\ e[i].side = orders[i].side /\ e[i].qty = c.fills[i]
    OBVIOUS
  <2>1. i \in DOMAIN c.fills /\ i \in 1..Len(orders)
    BY <1>1, <1>5
  <2>2. e[i] = [account |-> orders[i].account, side |-> orders[i].side, qty |-> c.fills[i]]
    BY <1>4, <2>1
  <2> QED
    BY <2>1, <2>2
<1> QED
  BY <1>5, <1>6 DEF c, e

\* Settling moves the base asset only between accounts.
LEMMA BaseBalances ==
    ASSUME NEW orders, IsBatch(orders), UniqueIds(orders)
    PROVE  LET e == Settlement(orders, Clear(orders))
           IN  /\ IsFiniteSet(DOMAIN e)
               /\ \A i \in DOMAIN e : e[i].qty \in Nat /\ e[i].side \in Sides /\ BaseMove(e)[i] \in Int
               /\ SumFunctionOnSet(BaseMove(e), DOMAIN e) = 0
<1> DEFINE c == Clear(orders)
           e == Settlement(orders, c)
           t == Taken(orders, c)
           D == DOMAIN e
           B == {i \in D : e[i].side = "buy"}
           S == {i \in D : e[i].side = "sell"}
           move == BaseMove(e)
           k == 0 - 1
           less == [i \in D |-> k * t[i]]
<1>1. /\ D = DOMAIN c.fills
      /\ \A i \in D : i \in 1..Len(orders) /\ e[i].side = orders[i].side /\ e[i].qty = c.fills[i]
  BY SettlementIs
<1>2. /\ IsFiniteSet(DOMAIN c.fills)
      /\ \A i \in DOMAIN c.fills : c.fills[i] \in Nat /\ c.fills[i] = t[i]
      /\ \A i \in (1..Len(orders)) \ DOMAIN c.fills : t[i] = 0
  BY FillsAre
<1>3. /\ SumFunctionOnSet(t, OnOneSide(orders, "buy")) = c.volume
      /\ SumFunctionOnSet(t, OnOneSide(orders, "sell")) = c.volume /\ c.volume \in Nat
  BY SidesBalance, ClearIs DEF Sides
<1>4. /\ IsFiniteSet(OnOneSide(orders, "buy")) /\ IsFiniteSet(OnOneSide(orders, "sell"))
      /\ \A i \in 1..Len(orders) : t[i] \in Int
  <2>1. \A side : OnOneSide(orders, side) \in SUBSET (1..Len(orders))
    BY DEF OnOneSide
  <2>2. \A i \in 1..Len(orders) : t[i] \in Nat
    BY TakenAt
  <2>3. \A side : IsFiniteSet(OnOneSide(orders, side))
    BY <2>1, QtyIsSum
  <2> HIDE DEF t
  <2>4. \A i \in 1..Len(orders) : t[i] \in Int
    BY <2>2
  <2> QED
    BY <2>3, <2>4
<1>5. \A i \in D : orders[i].side \in {"buy", "sell"}
  BY <1>1 DEF IsBatch, Sides
<1>6. \A i \in D : move[i] = IF e[i].side = "buy" THEN e[i].qty ELSE -e[i].qty
  BY DEF BaseMove
<1> HIDE DEF c, t, move
<1>7. /\ B \in SUBSET OnOneSide(orders, "buy") /\ \A i \in OnOneSide(orders, "buy") \ B : t[i] = 0
      /\ S \in SUBSET OnOneSide(orders, "sell") /\ \A i \in OnOneSide(orders, "sell") \ S : t[i] = 0
  BY <1>1, <1>2 DEF OnOneSide
<1>8. /\ \A i \in OnOneSide(orders, "buy") : t[i] \in Int
      /\ \A i \in OnOneSide(orders, "sell") : t[i] \in Int
  BY <1>4 DEF OnOneSide
<1>9. D = B \cup S /\ B \cap S = {}
  BY <1>1, <1>5
<1>10. /\ \A i \in B : move[i] = t[i] /\ t[i] \in Int
       /\ \A i \in S : move[i] = less[i] /\ less[i] = k * t[i] /\ t[i] \in Int /\ less[i] \in Int
  BY <1>1, <1>2, <1>4, <1>6
<1>11. \A i \in D : move[i] \in Int
  BY <1>9, <1>10
<1>12. IsFiniteSet(D) /\ IsFiniteSet(B) /\ IsFiniteSet(S)
  BY <1>1, <1>2, FS_Subset
<1>12a. k \in Int
  OBVIOUS
<1> HIDE DEF B, S, D, less, e
<1>13. SumFunctionOnSet(t, B) = c.volume /\ SumFunctionOnSet(t, S) = c.volume
  <2>1. /\ SumFunctionOnSet(t, OnOneSide(orders, "buy")) = SumFunctionOnSet(t, B)
    BY <1>4, <1>7, <1>8, SumOfPart
  <2>2. SumFunctionOnSet(t, OnOneSide(orders, "sell")) = SumFunctionOnSet(t, S)
    BY <1>4, <1>7, <1>8, SumOfPart
  <2> QED
    BY <1>3, <2>1, <2>2
<1>14. SumFunctionOnSet(move, B) = SumFunctionOnSet(t, B)
  BY <1>10, <1>12, SumSame
<1>15. SumFunctionOnSet(move, S) = SumFunctionOnSet(less, S)
  BY <1>10, <1>12, SumSame
<1>16. SumFunctionOnSet(less, S) = k * SumFunctionOnSet(t, S)
  <2> HIDE DEF k
  <2> QED
    BY <1>10, <1>12, <1>12a, SumScale
<1>17. SumFunctionOnSet(move, B \cup S) = SumFunctionOnSet(move, B) + SumFunctionOnSet(move, S)
  BY <1>9, <1>11, <1>12, SumSplit
<1>18. SumFunctionOnSet(move, B \cup S) = 0
  BY <1>3, <1>13, <1>14, <1>15, <1>16, <1>17
<1>19. SumFunctionOnSet(move, D) = 0
  BY <1>9, <1>18, Zenon
<1>20. \A i \in D : e[i].qty \in Nat /\ e[i].side \in Sides
  BY <1>1, <1>2, <1>5 DEF Sides
<1> QED
  BY <1>11, <1>12, <1>19, <1>20 DEF e, D, move, c

\* What rounding adds to one entry, in units of 1/scale: nothing below zero and
\* less than one unit.
LEMMA RoundingOfOne ==
    ASSUME NEW side \in Sides, NEW qty \in Nat, NEW price \in Nat, NEW scale \in Nat \ {0}
    PROVE  LET n == Notional(side, qty, price, scale)
               paid == IF side = "buy" THEN n ELSE 0 - n
               due == IF side = "buy" THEN qty * price ELSE 0 - qty * price
           IN  /\ n \in Nat
               /\ 0 <= scale * paid - due /\ scale * paid - due <= scale
<1> DEFINE x == qty * price
<1>0. x \in Nat
  OBVIOUS
<1>1. Notional(side, qty, price, scale) = IF side = "buy" THEN (x + scale - 1) \div scale ELSE x \div scale
  BY DEF Notional
<1> HIDE DEF x
<1>2. x \div scale \in Nat /\ scale * (x \div scale) <= x /\ x - scale * (x \div scale) < scale
  BY <1>0
<1>3. /\ (x + scale - 1) \div scale \in Nat
      /\ x <= scale * ((x + scale - 1) \div scale)
      /\ scale * ((x + scale - 1) \div scale) <= x + scale - 1
  <2> DEFINE y == x + scale - 1
  <2>1. y \in Nat /\ y = x + scale - 1
    BY <1>0
  <2> HIDE DEF y
  <2>2. y \div scale \in Nat /\ scale * (y \div scale) <= y /\ y - scale * (y \div scale) < scale
    BY <2>1
  <2> DEFINE z == y \div scale
  <2>3. scale * z \in Nat /\ z \in Nat
    BY <2>2
  <2>4. x <= scale * z /\ scale * z <= y
    <3> DEFINE w == scale * z
    <3>1. w \in Nat /\ w <= y /\ y - w < scale
      BY <2>2, <2>3
    <3> HIDE DEF w, z
    <3>2. x <= w /\ w <= y
      BY <1>0, <2>1, <3>1
    <3> QED
      BY <3>2 DEF w
  <2> QED
    BY <2>1, <2>3, <2>4
<1>4. CASE side = "buy"
  <2> DEFINE n == (x + scale - 1) \div scale
  <2>1. Notional(side, qty, price, scale) = n
    BY <1>1, <1>4
  <2> HIDE DEF n
  <2>2. n \in Nat /\ x <= scale * n /\ scale * n <= x + scale - 1 /\ scale * n \in Nat
    BY <1>3 DEF n
  <2>3. 0 <= scale * n - x /\ scale * n - x <= scale
    BY <1>0, <2>2
  <2> QED
    BY <1>4, <2>1, <2>2, <2>3 DEF x
<1>5. CASE side # "buy"
  <2> DEFINE n == x \div scale
  <2>1. Notional(side, qty, price, scale) = n
    BY <1>1, <1>5
  <2> HIDE DEF n
  <2>2. n \in Nat /\ scale * n <= x /\ x - scale * n < scale /\ scale * n \in Nat
    BY <1>2 DEF n
  <2>3. scale * (0 - n) = 0 - scale * n
    BY <2>2
  <2>4. 0 <= scale * (0 - n) - (0 - x) /\ scale * (0 - n) - (0 - x) <= scale
    BY <1>0, <2>2, <2>3
  <2> QED
    BY <1>5, <2>1, <2>2, <2>4 DEF x
<1> QED
  BY <1>4, <1>5

\* An integer between 0 and n when so multiplied.
LEMMA ScaledBounds ==
    ASSUME NEW scale \in Nat \ {0}, NEW r \in Int, NEW n \in Nat, 0 <= scale * r, scale * r <= scale * n
    PROVE  0 <= r /\ r <= n
<1>1. ASSUME r < 0 PROVE FALSE
  <2>1. scale * r <= 0 - scale
    BY <1>1
  <2> QED
    BY <2>1
<1>2. ASSUME n < r PROVE FALSE
  <2>1. n + 1 <= r
    BY <1>2
  <2>2. scale * (n + 1) <= scale * r /\ scale * (n + 1) = scale * n + scale
    BY <2>1
  <2>3. scale * r \in Int /\ scale * n \in Int
    OBVIOUS
  <2> DEFINE a == scale * r
             b == scale * n
             d == scale * (n + 1)
  <2>4. a \in Int /\ b \in Int /\ d <= a /\ d = b + scale /\ a <= b
    BY <2>2, <2>3
  <2> HIDE DEF a, b, d
  <2> QED
    BY <2>4
<1> QED
  BY <1>1, <1>2

\* settle_deltas: what the buyers' and sellers' roundings leave is never negative,
\* so it never overdraws the treasury, and at most one unit per fill.
LEMMA ResidualBounds ==
    ASSUME NEW orders, IsBatch(orders), UniqueIds(orders), NEW scale \in Nat \ {0}
    PROVE  LET c == Clear(orders)
               e == Settlement(orders, c)
               r == Residual(c.price, e, scale)
           IN  /\ r \in Int /\ 0 <= r /\ r <= Cardinality(DOMAIN e)
               /\ \A i \in DOMAIN e : QuoteMove(c.price, e, scale)[i] \in Int
<1> DEFINE c == Clear(orders)
           e == Settlement(orders, c)
           D == DOMAIN e
           p == c.price
           base == BaseMove(e)
           quote == QuoteMove(p, e, scale)
           owed == [i \in D |-> p * base[i]]
           moved == [i \in D |-> (0 - scale) * quote[i]]
           gap == [i \in D |-> moved[i] - owed[i]]
           zero == [i \in D |-> 0]
           one == [i \in D |-> scale]
<1>1. /\ IsFiniteSet(D) /\ \A i \in D : e[i].qty \in Nat /\ e[i].side \in Sides /\ base[i] \in Int
      /\ SumFunctionOnSet(base, D) = 0
  BY BaseBalances
<1>2. p \in Nat
  BY ClearIs
<1>3. Residual(p, e, scale) = -SumFunctionOnSet(quote, D)
  <2>1. DOMAIN quote = D
    BY DEF QuoteMove
  <2>2. Residual(p, e, scale) = -SumFunctionOnSet(quote, DOMAIN quote)
    BY DEF Residual, SumFunction
  <2> QED
    BY <2>1, <2>2, Zenon
<1>4. \A i \in D : /\ base[i] = IF e[i].side = "buy" THEN e[i].qty ELSE -e[i].qty
                   /\ quote[i] = IF e[i].side = "buy" THEN -Notional(e[i].side, e[i].qty, p, scale)
                                                      ELSE Notional(e[i].side, e[i].qty, p, scale)
  BY DEF BaseMove, QuoteMove
<1> HIDE DEF c, e, p, base, quote, D
<1>5. ASSUME NEW i \in D
      PROVE  /\ quote[i] \in Int /\ owed[i] \in Int /\ moved[i] \in Int /\ gap[i] \in Int
             /\ 0 <= gap[i] /\ gap[i] <= scale /\ moved[i] = owed[i] + gap[i]
             /\ owed[i] = p * base[i] /\ moved[i] = (0 - scale) * quote[i]
  <2> DEFINE n == Notional(e[i].side, e[i].qty, p, scale)
             q == e[i].qty
  <2>1. q \in Nat /\ e[i].side \in Sides /\ base[i] \in Int
    BY <1>1
  <2>2. /\ n \in Nat
        /\ e[i].side = "buy" => 0 <= scale * n - q * p /\ scale * n - q * p <= scale
        /\ e[i].side # "buy" => /\ 0 <= scale * (0 - n) - (0 - q * p)
                                /\ scale * (0 - n) - (0 - q * p) <= scale
    BY <1>2, <2>1, RoundingOfOne
  <2>3. base[i] = (IF e[i].side = "buy" THEN q ELSE -q) /\ quote[i] = (IF e[i].side = "buy" THEN -n ELSE n)
    BY <1>4
  <2>4. owed[i] = p * base[i] /\ moved[i] = (0 - scale) * quote[i] /\ gap[i] = moved[i] - owed[i]
    OBVIOUS
  <2> HIDE DEF n, q, owed, moved, gap
  <2>5. quote[i] \in Int
    BY <2>2, <2>3
  <2>6. moved[i] \in Int /\ owed[i] \in Int /\ gap[i] \in Int
    BY <1>2, <2>1, <2>4, <2>5
  <2>7. 0 <= gap[i] /\ gap[i] <= scale
    <3>1. CASE e[i].side = "buy"
      <4>1. owed[i] = q * p /\ moved[i] = scale * n
        BY <1>2, <2>1, <2>2, <2>3, <2>4, <3>1
      <4> QED
        BY <2>2, <2>4, <3>1, <4>1
    <3>2. CASE e[i].side # "buy"
      <4>1. owed[i] = 0 - q * p /\ moved[i] = scale * (0 - n)
        BY <1>2, <2>1, <2>2, <2>3, <2>4, <3>2
      <4> QED
        BY <2>2, <2>4, <3>2, <4>1
    <3> QED
      BY <3>1, <3>2
  <2> QED
    BY <2>4, <2>5, <2>6, <2>7
<1>6. \A i \in D : zero[i] = 0 /\ zero[i] \in Int /\ one[i] = scale /\ one[i] \in Int
  OBVIOUS
<1> HIDE DEF owed, moved, gap, zero, one
<1>7. SumFunctionOnSet(owed, D) = 0
  <2>1. p \in Int /\ \A i \in D : base[i] \in Int /\ owed[i] = p * base[i]
    BY <1>1, <1>2, <1>5
  <2>2. SumFunctionOnSet(owed, D) = p * SumFunctionOnSet(base, D)
    BY <1>1, <2>1, SumScale
  <2> QED
    BY <1>1, <1>2, <2>2
<1>8. SumFunctionOnSet(moved, D) = (0 - scale) * SumFunctionOnSet(quote, D)
  <2> DEFINE m == 0 - scale
  <2>1. m \in Int /\ \A i \in D : quote[i] \in Int /\ moved[i] = m * quote[i]
    BY <1>5
  <2> HIDE DEF m
  <2>2. SumFunctionOnSet(moved, D) = m * SumFunctionOnSet(quote, D)
    BY <1>1, <2>1, SumScale
  <2> QED
    BY <2>2 DEF m
<1>9. SumFunctionOnSet(moved, D) = SumFunctionOnSet(owed, D) + SumFunctionOnSet(gap, D)
  BY <1>1, <1>5, SumPlus
<1>10. SumFunctionOnSet(zero, D) <= SumFunctionOnSet(gap, D) /\ SumFunctionOnSet(gap, D) <= SumFunctionOnSet(one, D)
  <2>1. SumFunctionOnSet(zero, D) <= SumFunctionOnSet(gap, D)
    BY <1>1, <1>5, <1>6, SumMonotone
  <2>2. SumFunctionOnSet(gap, D) <= SumFunctionOnSet(one, D)
    BY <1>1, <1>5, <1>6, SumMonotone
  <2> QED
    BY <2>1, <2>2
<1>11. SumFunctionOnSet(zero, D) = 0 /\ SumFunctionOnSet(one, D) = scale * Cardinality(D)
  <2>1. SumFunctionOnSet(zero, D) = 0
    BY <1>1, <1>6, SumZero
  <2>2. SumFunctionOnSet(one, D) = scale * Cardinality(D)
    BY <1>1, <1>6, SumConstant
  <2> QED
    BY <2>1, <2>2
<1> DEFINE r == Residual(p, e, scale)
<1>12. /\ SumFunctionOnSet(quote, D) \in Int /\ SumFunctionOnSet(gap, D) \in Int
       /\ Cardinality(D) \in Nat
  BY <1>1, <1>5, SumPeel, FS_CardinalityType
<1>13. r \in Int /\ SumFunctionOnSet(quote, D) = 0 - r
  BY <1>3, <1>12
<1> HIDE DEF r
<1>14. scale * r = SumFunctionOnSet(gap, D)
  <2>1. (0 - scale) * (0 - r) = scale * r
    BY <1>13
  <2> QED
    BY <1>7, <1>8, <1>9, <1>12, <1>13, <2>1
<1>15. 0 <= scale * r /\ scale * r <= scale * Cardinality(D)
  BY <1>10, <1>11, <1>14
<1>16. 0 <= r /\ r <= Cardinality(D)
  BY <1>12, <1>13, <1>15, ScaledBounds
<1> QED
  BY <1>5, <1>13, <1>16 DEF r, D, e, c, p, quote

-----------------------------------------------------------------------------
\* An order that is left with something, at any price within its limit: its side
\* asks for more there than the clearing traded.
LEMMA UnfilledSide ==
    ASSUME NEW orders, IsBatch(orders), NEW i \in 1..Len(orders),
           Taken(orders, Clear(orders))[i] < orders[i].qty,
           NEW q \in Nat, i \in Eligible(orders, orders[i].side, q)
    PROVE  QtyAt(orders, Eligible(orders, orders[i].side, q)) > Clear(orders).volume
<1> DEFINE side == orders[i].side
           v == Clear(orders).volume
           t == Taken(orders, Clear(orders))
           E == Eligible(orders, side, q)
           O == OnOneSide(orders, side)
           f == [j \in 1..Len(orders) |-> orders[j].qty]
<1>0. side \in Sides /\ side \in {"buy", "sell"}
  BY DEF IsBatch, Sides
<1>1. E \in SUBSET O /\ O \in SUBSET (1..Len(orders)) /\ i \in E
  BY DEF Eligible, OnOneSide
<1>2. \A j \in 1..Len(orders) : t[j] \in Nat /\ t[j] <= orders[j].qty /\ orders[j].qty \in Nat
  BY TakenAt DEF IsBatch
<1>3. v \in Nat /\ SumFunctionOnSet(t, O) = v
  BY <1>0, SidesBalance, ClearIs
<1>4. ASSUME NEW k \in O \ E PROVE t[k] = 0
  <2>1. k \in 1..Len(orders) /\ orders[k].side = side
    BY DEF OnOneSide
  <2>2. orders[i].price \in Nat /\ orders[k].price \in Nat
    BY <2>1 DEF IsBatch
  <2>3. IF side = "buy" THEN orders[i].price > orders[k].price ELSE orders[i].price < orders[k].price
    BY <1>0, <2>1, <2>2 DEF Eligible
  <2>4. ServedBefore(orders, i, k)
    BY <1>0, <2>1, <2>3 DEF ServedBefore, Priority
  <2>5. t[k] > 0 => t[i] = orders[i].qty
    BY <2>1, <2>4, ServedFirstFilled
  <2> HIDE DEF t
  <2>6. ~(t[k] > 0)
    <3>1. t[i] < orders[i].qty /\ t[i] \in Nat /\ orders[i].qty \in Nat
      BY <1>2 DEF t
    <3> QED
      BY <2>5, <3>1
  <2> QED
    BY <1>2, <2>1, <2>6
<1>5. \A j \in 1..Len(orders) : f[j] = orders[j].qty
  OBVIOUS
<1>6. IsFiniteSet(O) /\ IsFiniteSet(E) /\ QtyAt(orders, E) = SumFunctionOnSet(f, E)
  BY <1>1, QtyIsSum
<1>6a. t[i] < orders[i].qty
  OBVIOUS
<1> HIDE DEF side, v, t, E, O, f
<1>7. \A j \in O : t[j] \in Int
  BY <1>1, <1>2
<1>8. SumFunctionOnSet(t, E) = v
  <2>1. SumFunctionOnSet(t, O) = SumFunctionOnSet(t, E)
    BY <1>1, <1>4, <1>6, <1>7, SumOfPart
  <2> QED
    BY <1>3, <2>1
<1> DEFINE R == E \ {i}
<1>9. IsFiniteSet(R) /\ R \in SUBSET E
  BY <1>6, FS_Subset
<1>10. \A j \in E : t[j] \in Int /\ f[j] \in Int /\ t[j] <= f[j]
  BY <1>1, <1>2, <1>5
<1>11. SumFunctionOnSet(t, E) = t[i] + SumFunctionOnSet(t, R) /\ SumFunctionOnSet(f, E) = f[i] + SumFunctionOnSet(f, R)
  BY <1>1, <1>6, <1>10, SumPeel
<1> HIDE DEF R
<1>12. SumFunctionOnSet(t, R) <= SumFunctionOnSet(f, R) /\ SumFunctionOnSet(t, R) \in Int /\ SumFunctionOnSet(f, R) \in Int
  <2>1. \A j \in R : t[j] \in Int /\ f[j] \in Int /\ t[j] <= f[j]
    BY <1>9, <1>10
  <2> QED
    BY <1>9, <2>1, SumMonotone, SumPeel
<1>13. t[i] < f[i] /\ t[i] \in Int /\ f[i] \in Int
  BY <1>1, <1>5, <1>6a, <1>10
<1>14. SumFunctionOnSet(f, E) > v
  BY <1>3, <1>8, <1>11, <1>12, <1>13
<1> QED
  BY <1>6, <1>14 DEF E, v, side

\* What a clearing leaves of two orders could not still trade with each other.
LEMMA LeftoversDontCross ==
    ASSUME NEW orders, IsBatch(orders), NEW i \in 1..Len(orders), NEW j \in 1..Len(orders),
           orders[i].side = "buy", orders[j].side = "sell",
           Taken(orders, Clear(orders))[i] < orders[i].qty,
           Taken(orders, Clear(orders))[j] < orders[j].qty
    PROVE  orders[i].price < orders[j].price
<1>1. orders[i].price \in Nat /\ orders[j].price \in Nat
  BY DEF IsBatch
<1> DEFINE q == orders[j].price
<1> SUFFICES ASSUME orders[i].price >= q PROVE FALSE
  BY <1>1
<1>2. i \in Eligible(orders, "buy", q) /\ j \in Eligible(orders, "sell", q)
  BY <1>1 DEF Eligible
<1>3. QtyAt(orders, Eligible(orders, "buy", q)) > Clear(orders).volume
  BY <1>1, <1>2, UnfilledSide
<1>4. QtyAt(orders, Eligible(orders, "sell", q)) > Clear(orders).volume
  BY <1>1, <1>2, UnfilledSide
<1>5. Smaller(Demand(orders, q), Supply(orders, q)) <= BestPrice(orders).volume
  BY <1>1, NoPriceTradesMore
<1>6. Clear(orders).volume = BestPrice(orders).volume /\ Clear(orders).volume \in Nat
  BY ClearIs
<1>7. Demand(orders, q) \in Nat /\ Supply(orders, q) \in Nat
  BY CandidateType
<1> QED
  BY <1>3, <1>4, <1>5, <1>6, <1>7 DEF Demand, Supply, Smaller

\* resting, whatever the ids: each entry is one of the batch with another quantity.
LEMMA RestingFromBatch ==
    ASSUME NEW orders, IsBatch(orders)
    PROVE  LET rest == Resting(orders, Clear(orders))
           IN  /\ Len(rest) \in Nat /\ rest = [n \in 1..Len(rest) |-> rest[n]]
               /\ \A n \in 1..Len(rest) : \E i \in 1..Len(orders) : \E q \in Nat :
                     rest[n] = [orders[i] EXCEPT !.qty = q]
<1> DEFINE c == Clear(orders)
           left == [i \in 1..Len(orders) |-> orders[i].qty - FilledQty(orders, c.fills, orders[i].id)]
           s == [i \in 1..Len(orders) |-> [orders[i] EXCEPT !.qty = left[i] % U32]]
           K == {i \in 1..Len(orders) : left[i] # 0}
           rest == Resting(orders, c)
<1>1. ASSUME NEW i \in 1..Len(orders) PROVE left[i] \in Int
  <2>1. orders[i].qty \in Nat /\ FilledQty(orders, c.fills, orders[i].id) \in Nat
    BY FilledType DEF IsBatch
  <2> HIDE DEF c
  <2> QED
    BY <2>1
<1>2. rest = Pick(s, K)
  BY DEF Resting
<1> HIDE DEF c, rest, left
<1>3. \A i \in 1..Len(orders) : left[i] % U32 \in Nat
  <2>1. \A x \in Int : x % U32 \in Nat
    BY U32Assumption
  <2> QED
    BY <1>1, <2>1
<1>4. \A i \in 1..Len(orders) : \E q \in Nat : s[i] = [orders[i] EXCEPT !.qty = q]
  BY <1>3
<1>5. K \in SUBSET (1..Len(orders))
  OBVIOUS
<1> HIDE DEF K, s
<1>6. K \in SUBSET Nat /\ IsFiniteSet(K)
  <2>1. IsFiniteSet(K)
    BY <1>5, QtyIsSum
  <2>2. Len(orders) \in Nat /\ 1..Len(orders) \subseteq Nat
    BY DEF IsBatch
  <2> QED
    BY <1>5, <2>1, <2>2
<1>7. Cardinality(K) \in Nat
  BY <1>6, FS_CardinalityType
<1>8. PICK at : PicksAt(s, K, at)
  BY <1>6, PickAt
<1>9. /\ at \in [1..Cardinality(K) -> K]
      /\ Pick(s, K) = [n \in 1..Cardinality(K) |-> s[at[n]]]
  BY <1>8 DEF PicksAt
<1>10. Len(rest) = Cardinality(K) /\ \A n \in 1..Len(rest) : rest[n] = s[at[n]] /\ at[n] \in K
  BY <1>2, <1>7, <1>9
<1>11. rest = [n \in 1..Len(rest) |-> rest[n]]
  BY <1>2, <1>9, <1>10
<1>12. \A n \in 1..Len(rest) : \E i \in 1..Len(orders) : \E q \in Nat : rest[n] = [orders[i] EXCEPT !.qty = q]
  <2> SUFFICES ASSUME NEW n \in 1..Len(rest)
               PROVE  \E i \in 1..Len(orders) : \E q \in Nat : rest[n] = [orders[i] EXCEPT !.qty = q]
    OBVIOUS
  <2>1. at[n] \in 1..Len(orders) /\ rest[n] = s[at[n]]
    BY <1>5, <1>10
  <2>2. PICK q \in Nat : s[at[n]] = [orders[at[n]] EXCEPT !.qty = q]
    BY <1>4, <2>1
  <2> QED
    BY <2>1, <2>2
<1> QED
  BY <1>7, <1>10, <1>11, <1>12 DEF rest, c
=============================================================================
