----------------------------- MODULE OrderBook -----------------------------
(***************************************************************************)
(* A continuous order book made of batch auctions: every round clears the  *)
(* resting book together with the new orders and leaves what is left       *)
(* resting (service smatch_output; server.py round building).  Between     *)
(* rounds an order may leave the book (CANCEL, or a round's prune list).   *)
(* Accounts, signatures and balances are in Service.tla.                   *)
(***************************************************************************)
EXTENDS MatchEngine

CONSTANTS
    Ids,        \* order ids, in the order the orders are introduced
    PriceSet,   \* limit prices
    QtySet,     \* quantities
    MaxBatch,   \* new orders per round
    SCALE       \* the fixed-point scale of the notional

ASSUME BookAssumption ==
    /\ Ids \subseteq Nat /\ IsFiniteSet(Ids) /\ QtySet \subseteq 1..(U32 - 1)
    /\ PriceSet \subseteq Nat \ {0} /\ IsFiniteSet(PriceSet) /\ PriceSet # {}
    /\ MaxBatch \in Nat /\ SCALE \in Nat \ {0}

(***************************************************************************)
(* book:    the resting orders                                             *)
(* placed:  the quantity each introduced order was placed with (history)   *)
(* filled:  what each order was filled so far (history)                    *)
(* batch:   what the last round cleared, and last: its clearing            *)
(***************************************************************************)
VARIABLES book, placed, filled, batch, last

bookVars == <<book, placed, filled, batch, last>>

BookInit ==
    /\ book = <<>> /\ batch = <<>>
    /\ placed = [i \in Ids |-> 0] /\ filled = [i \in Ids |-> 0]
    /\ last = [price |-> 0, volume |-> 0, fills |-> <<>>]

\* Every order has its own account here, so accounts are named by order ids.
NewOrders(ids) ==
    {[i \in 1..Len(ids) |-> [account |-> ids[i], id |-> ids[i],
                             side |-> t[i].side, price |-> t[i].price, qty |-> t[i].qty]] :
        t \in [1..Len(ids) -> [side : Sides, price : PriceSet, qty : QtySet]]}

\* The ids of the next round's orders: the next unused ones.
Fresh(n) == LET used == Max({0} \cup {i \in Ids : placed[i] > 0})
            IN  [i \in 1..n |-> used + i]

\* smatch_output: clear book and new orders together, keep what rests.
Round(new) ==
    LET all == book \o new
        c == Clear(all)
    IN  /\ batch' = all
        /\ last' = c
        /\ book' = Resting(all, c)
        /\ placed' = [i \in Ids |-> placed[i] + QtyAt(new, {k \in 1..Len(new) : new[k].id = i})]
        /\ filled' = [i \in Ids |-> filled[i] + FilledQty(all, c.fills, i)]

\* An order leaves the book: cancelled, or pruned on expiry.
Leave(i) ==
    /\ book' = Pick(book, (1..Len(book)) \ {i})
    /\ UNCHANGED <<placed, filled, batch, last>>

BookNext ==
    \/ \E n \in 1..MaxBatch :
          /\ \A i \in 1..n : Fresh(n)[i] \in Ids
          /\ \E new \in NewOrders(Fresh(n)) : Round(new)
    \/ \E i \in 1..Len(book) : Leave(i)

BookSpec == BookInit /\ [][BookNext]_bookVars

-----------------------------------------------------------------------------
(***************************************************************************)
(* The clearing price is the reference choice: no price at all (not only   *)
(* no candidate) trades more, no candidate with the same volume leaves     *)
(* less unmatched, and no lower candidate is as good in both.              *)
(***************************************************************************)
PriceIsOptimal ==
    LET vol(p) == Smaller(Demand(batch, p), Supply(batch, p))
        gap(p) == AbsDiff(Demand(batch, p), Supply(batch, p))
        best == last.price
    IN  /\ \A p \in 0..(Max(PriceSet) + 1) : vol(p) <= last.volume
        /\ last.volume > 0 =>
              /\ vol(best) = last.volume
              /\ \A p \in Prices(batch) :
                    vol(p) = last.volume => \/ gap(best) < gap(p)
                                            \/ gap(best) = gap(p) /\ best <= p

(***************************************************************************)
(* The book is what is left: no resting buy could still trade with a       *)
(* resting sell, in whatever round they came to rest (`crosses' and the    *)
(* builder's idle test rely on it), and what rests of an order is exactly  *)
(* what all rounds together have not filled.                               *)
(***************************************************************************)
BookIsLeftover ==
    /\ \A i, j \in 1..Len(book) :
        book[i].side = "buy" /\ book[j].side = "sell" => book[i].price < book[j].price
    /\ \A i \in Ids : filled[i] <= placed[i]
    /\ \A k \in 1..Len(book) : book[k].qty = placed[book[k].id] - filled[book[k].id]

(***************************************************************************)
(* Fills respect price-time priority: an order that was passed over or     *)
(* only partly filled has no worse order of its side filled behind it, and *)
(* nobody trades outside its limit.                                        *)
(***************************************************************************)
PriorityRespected ==
    LET got(o) == FilledQty(batch, last.fills, o.id)
    IN  \A i, j \in 1..Len(batch) :
            LET a == batch[i]
                b == batch[j]
            IN  /\ got(a) > 0 => IF a.side = "buy" THEN a.price >= last.price
                                                   ELSE a.price <= last.price
                /\ a.side = b.side /\ a.price # b.price /\ got(b) > 0
                   /\ (IF a.side = "buy" THEN a.price > b.price ELSE a.price < b.price)
                        => got(a) = a.qty
                /\ a.side = b.side /\ a.price = b.price /\ a.id < b.id /\ got(b) > 0
                        => got(a) = a.qty

(***************************************************************************)
(* Settling the round moves value and never creates or destroys it: base   *)
(* deltas cancel out, and the treasury's rounding residual is not negative *)
(* (it could otherwise be overdrawn) and at most one unit per fill.         *)
(***************************************************************************)
SettlementConserves ==
    LET entries == Settlement(batch, last)
        r == Residual(last.price, entries, SCALE)
    IN  /\ SumFunction([a \in Ids |-> BaseDelta(entries, a)]) = 0
        /\ -r = SumFunction([a \in Ids |-> QuoteDelta(last.price, entries, SCALE, a)])
        /\ 0 <= r /\ r <= Cardinality(DOMAIN entries)
=============================================================================
