---------------------------- MODULE MatchEngine ----------------------------
(***************************************************************************)
(* The batch-auction engine (crates/match-engine/src/lib.rs) and the       *)
(* settlement arithmetic (crates/match-engine/src/wire.rs), as operators.  *)
(* offchain/clearing.py is the same algorithm in Python.                   *)
(*                                                                         *)
(* An order is a record [account, id, side, price, qty]; a batch is a      *)
(* sequence of orders, and what the engine filters out of it is a set of   *)
(* positions.  Fills and settlement entries are indexed by the position of *)
(* the order they are for: their order in the code's lists is the ration's *)
(* and nothing but sums is made of them.                                   *)
(***************************************************************************)
EXTENDS Integers, Sequences, SequencesExt, FiniteSetsExt, Functions, Folds, Collections

CONSTANT U32    \* 2^32, the modulus of a quantity (smaller under TLC)

ASSUME U32Assumption == U32 \in Nat \ {0}

Sides == {"buy", "sell"}

\* The orders of one side that price p is within the limit of.
Eligible(orders, side, p) ==
    {i \in 1..Len(orders) : /\ orders[i].side = side
                            /\ IF side = "buy" THEN orders[i].price >= p ELSE orders[i].price <= p}

QtyAt(orders, K) == SumFunctionOnSet([i \in K |-> orders[i].qty], K)

Demand(orders, p) == QtyAt(orders, Eligible(orders, "buy", p))
Supply(orders, p) == QtyAt(orders, Eligible(orders, "sell", p))

Smaller(x, y) == IF x < y THEN x ELSE y
AbsDiff(x, y) == IF x < y THEN y - x ELSE x - y

Prices(orders) == {orders[i].price : i \in 1..Len(orders)}

\* A candidate price, the volume it trades and what it leaves unmatched.
Candidate(orders, p) ==
    LET at(d, s) == [price |-> p, volume |-> Smaller(d, s), imbalance |-> AbsDiff(d, s)]
    IN  at(Demand(orders, p), Supply(orders, p))

\* No price yet; the imbalance is not compared with before a volume is found.
NoPrice == [price |-> 0, volume |-> 0, imbalance |-> 0]

\* Bug: on equal volume the last price wins instead of the least imbalance.
BestPriceLast(orders) ==
    LET better(new, best) == IF new.volume >= best.volume /\ new.volume > 0 THEN new ELSE best
    IN  MapThenFoldSet(better, NoPrice, LAMBDA p : Candidate(orders, p), Max, Prices(orders))

\* The loop's body: more volume, or as much with less imbalance, replaces the best.
BetterOf(new, best) ==
    IF \/ new.volume > best.volume
       \/ new.volume = best.volume /\ new.volume > 0 /\ new.imbalance < best.imbalance
    THEN new ELSE best

\* The loop over the ascending candidate prices; the largest comes last.
BestPrice(orders) ==
    MapThenFoldSet(BetterOf, NoPrice, LAMBDA p : Candidate(orders, p), Max, Prices(orders))

\* Bug: the best-priced order waits behind the older ones.
PriorityByIdOnly(side, a, b) == a.id < b.id

\* Price, then id: the dearest buy and the cheapest sell come first.
Priority(side, a, b) ==
    \/ side = "buy" /\ a.price > b.price
    \/ side = "sell" /\ a.price < b.price
    \/ a.price = b.price /\ a.id < b.id

\* sort_unstable_by: equal keys (same price and same id) keep their input order here.
ServedBefore(orders, i, j) ==
    LET side == orders[i].side
    IN  \/ Priority(side, orders[i], orders[j])
        \/ i < j /\ ~Priority(side, orders[j], orders[i])

\* The orders that are served before the one at position i when p clears.
Ahead(orders, p, i) == {j \in Eligible(orders, orders[i].side, p) : ServedBefore(orders, j, i)}

\* ration: in priority order each side takes what the orders ahead left of the
\* volume, until it is used up.
Ration(orders, p, volume) ==
    LET left == [i \in Eligible(orders, "buy", p) \cup Eligible(orders, "sell", p) |->
                    volume - QtyAt(orders, Ahead(orders, p, i))]
    IN  [i \in {j \in DOMAIN left : left[j] > 0} |-> Smaller(left[i], orders[i].qty)]

\* clear: the uniform price, the matched volume and the fills.
Clear(orders) ==
    LET at(best) == IF best.volume = 0
                    THEN [price |-> 0, volume |-> 0, fills |-> <<>>]
                    ELSE [price |-> best.price, volume |-> best.volume,
                          fills |-> Ration(orders, best.price, best.volume)]
    IN  at(BestPrice(orders))

\* The quantity the fills give to order id `id'.
FilledQty(orders, fills, id) ==
    SumFunctionOnSet(fills, {i \in DOMAIN fills : orders[i].id = id})

\* Bug: filled orders stay in the book.
RestingAll(orders, c) == orders

(***************************************************************************)
(* resting: what is left of every order, in batch order.  The code says    *)
(* "filled <= qty by construction"; the release build does not check the   *)
(* subtraction, so beyond that it wraps.                                   *)
(***************************************************************************)
Resting(orders, c) ==
    LET left == [i \in 1..Len(orders) |-> orders[i].qty - FilledQty(orders, c.fills, orders[i].id)]
    IN  Pick([i \in 1..Len(orders) |-> [orders[i] EXCEPT !.qty = left[i] % U32]],
             {i \in 1..Len(orders) : left[i] # 0})

\* encode_settlement: each fill resolved to the first order with its id.
Settlement(orders, c) ==
    LET owner(id) == orders[Min({i \in 1..Len(orders) : orders[i].id = id})]
    IN  [i \in DOMAIN c.fills |-> [account |-> owner(orders[i].id).account,
                                   side |-> owner(orders[i].id).side, qty |-> c.fills[i]]]

\* Bug: the buyer's notional is rounded down as well.
NotionalDown(side, qty, price, scale) == (qty * price) \div scale

\* Buyers round the notional up, sellers down.
Notional(side, qty, price, scale) ==
    IF side = "buy" THEN (qty * price + scale - 1) \div scale
                    ELSE (qty * price) \div scale

(***************************************************************************)
(* settle_deltas with fee_flat = 0, as accumulate calls it: what one       *)
(* account's base and quote balances change by, and what the treasury      *)
(* absorbs of the rounding.                                                *)
(***************************************************************************)
EntriesOf(entries, a) == {i \in DOMAIN entries : entries[i].account = a}

BaseMove(entries) ==
    [i \in DOMAIN entries |-> IF entries[i].side = "buy" THEN entries[i].qty ELSE -entries[i].qty]

QuoteMove(price, entries, scale) ==
    [i \in DOMAIN entries |->
        LET e == entries[i]
            n == Notional(e.side, e.qty, price, scale)
        IN  IF e.side = "buy" THEN -n ELSE n]

BaseDelta(entries, a) == SumFunctionOnSet(BaseMove(entries), EntriesOf(entries, a))

QuoteDelta(price, entries, scale, a) ==
    SumFunctionOnSet(QuoteMove(price, entries, scale), EntriesOf(entries, a))

Residual(price, entries, scale) == -SumFunction(QuoteMove(price, entries, scale))
=============================================================================
