-------------------------------- MODULE Fuzz --------------------------------
(***************************************************************************)
(* A level of the correctness fuzzer (offchain/dex_fuzz.py) against the    *)
(* exchange: a balanced batch whose every buy is above every sell is       *)
(* placed order by order while the builder clears it in whatever rounds it *)
(* makes of it; when the volume has settled, the fuzzer compares balances, *)
(* fees, volume and book with what the batch alone determines.             *)
(***************************************************************************)
EXTENDS MatchEngine

CONSTANTS
    ACCTS,          \* the traders
    TREASURY,       \* the account the fees go to
    BuyBand,        \* prices of the buys
    SellBand,       \* prices of the sells, all below
    UnitSet,        \* quantities, in whole units
    Pairs,          \* crossing pairs in the batch
    FEE,            \* the flat fee of an order
    SC,             \* atomic units in a whole one
    Funds           \* what everyone has of either asset at the start

ASSUME FuzzAssumption ==
    /\ TREASURY \notin ACCTS /\ BuyBand \subseteq Nat /\ SellBand \subseteq Nat
    /\ \A b \in BuyBand, s \in SellBand : s < b
    /\ Pairs \in Nat /\ FEE \in Nat /\ SC \in Nat \ {0} /\ Funds \in Nat

Members == ACCTS \cup {TREASURY}
Currencies == {"base", "quote"}

(***************************************************************************)
(* The exchange: mempool, flight (the orders of the round on its way),     *)
(* ladder (the resting book), purse (balances), cv (cumulative volume).    *)
(* The fuzzer: offered (the batch, in the order of arrival), sent (how     *)
(* many were posted), denied (the first refusal), calm (quiet at the last  *)
(* poll), halt ("" while it runs, "clean", or the invariant it halts on).  *)
(***************************************************************************)
VARIABLES mempool, flight, ladder, purse, cv, offered, sent, denied, calm, halt

exchangeVars == <<ladder, purse, cv>>
fuzzVars == <<mempool, flight, exchangeVars, offered, sent, denied, calm, halt>>

Before == [a \in Currencies |-> [h \in Members |-> Funds]]

\* gen_batch: pairs of a buyer and another trader who sells as much, shuffled.
GenBatch(pairs, shuffle) ==
    LET order(i) ==
            LET p == pairs[(i + 1) \div 2]
            IN  IF i % 2 = 1
                THEN [account |-> p.buyer, side |-> "buy", price |-> p.bid, qty |-> p.units * SC]
                ELSE [account |-> p.seller, side |-> "sell", price |-> p.ask, qty |-> p.units * SC]
    IN  [i \in 1..(2 * Pairs) |-> [id |-> i] @@ order(shuffle[i])]

PairShapes == {p \in [buyer : ACCTS, seller : ACCTS, units : UnitSet, bid : BuyBand, ask : SellBand] :
                  p.buyer # p.seller}
Shuffles == {f \in [1..(2 * Pairs) -> 1..(2 * Pairs)] : IsInjective(f)}

FuzzInit ==
    /\ mempool = <<>> /\ flight = <<>> /\ ladder = <<>> /\ purse = Before /\ cv = 0
    /\ offered = <<>> /\ sent = 0 /\ denied = "" /\ calm = FALSE /\ halt = ""

Starts(pairs, shuffle) ==
    /\ offered' = GenBatch(pairs, shuffle)
    /\ UNCHANGED <<mempool, flight, exchangeVars, sent, denied, calm, halt>>

\* _place: the next order is posted; it is taken, refused, or the server fails.
Place(answer) ==
    /\ sent < Len(offered)
    /\ sent' = sent + 1
    /\ mempool' = IF answer = "" THEN Append(mempool, offered[sent']) ELSE mempool
    /\ denied' = IF denied = "SERVER_FAULT" \/ answer = "" THEN denied ELSE answer
    /\ UNCHANGED <<flight, exchangeVars, offered, calm, halt>>

-----------------------------------------------------------------------------
\* The exchange is followed while the level may still be verified.
Followed == halt = "" /\ denied = ""

\* The builder takes the oldest orders into a round ...
TakeRound(n) ==
    /\ Followed /\ flight = <<>> /\ n \in 1..Len(mempool)
    /\ flight' = SubSeq(mempool, 1, n) /\ mempool' = SubSeq(mempool, n + 1, Len(mempool))
    /\ UNCHANGED <<exchangeVars, offered, sent, denied, calm, halt>>

\* ... which is lost, and they go back to the front ...
LoseRound ==
    /\ Followed /\ flight # <<>>
    /\ mempool' = flight \o mempool /\ flight' = <<>>
    /\ UNCHANGED <<exchangeVars, offered, sent, denied, calm, halt>>

\* Bug: the fee is charged for every fill.
PayersPerFill(new, entries) == LET at == SetToSeq(DOMAIN entries) IN [i \in 1..Len(at) |-> entries[at[i]].account]

\* Who pays a fee for a round: the owners of the orders it introduces.
Payers(new, entries) == [i \in 1..Len(new) |-> new[i].account]

\* apply_settlement: deltas and fees.
Settle(new, c, entries) ==
    LET moved == [base  |-> [h \in Members |-> purse.base[h] + BaseDelta(entries, h)],
                  quote |-> [h \in Members |->
                      purse.quote[h] + QuoteDelta(c.price, entries, SC, h)
                      + (IF h = TREASURY THEN Residual(c.price, entries, SC) ELSE 0)]]
        charge(acc, h) == LET fee == Smaller(FEE, acc[h])
                          IN  [acc EXCEPT ![h] = @ - fee, ![TREASURY] = @ + fee]
    IN  [moved EXCEPT !.base = FoldLeft(charge, @, Payers(new, entries))]

\* ... or accumulated: it is cleared together with what rests.
LandRound ==
    LET all == ladder \o flight
        c == Clear(all)
    IN  /\ Followed /\ flight # <<>>
        /\ ladder' = Resting(all, c)
        /\ purse' = Settle(flight, c, Settlement(all, c))
        /\ cv' = cv + c.volume
        /\ flight' = <<>>
        /\ UNCHANGED <<mempool, offered, sent, denied, calm, halt>>

-----------------------------------------------------------------------------
\* What the batch determines: per trader, units bought and sold, and orders.
OrdersOf(h) == {i \in 1..Len(offered) : offered[i].account = h}
OnSide(side) == {i \in 1..Len(offered) : offered[i].side = side}
Bought(h) == QtyAt(offered, OrdersOf(h) \cap OnSide("buy"))
Sold(h) == QtyAt(offered, OrdersOf(h) \cap OnSide("sell"))
Volume == QtyAt(offered, OnSide("buy"))

Gain(asset, h) == purse[asset][h] - Before[asset][h]
Wealth(p, asset) == SumFunction(p[asset])

\* verify, hardest first: the first invariant that does not hold, or "clean".
Verify(quiescent) ==
    CASE ~quiescent -> "LIVENESS"
      [] \E a \in Currencies : Wealth(purse, a) # Wealth(Before, a) -> "CONSERVATION"
      [] \E a \in Currencies, h \in ACCTS : purse[a][h] < 0 -> "NON_NEGATIVE"
      [] cv # Volume -> "VOLUME"
      [] \E h \in ACCTS : Gain("base", h) # Bought(h) - Sold(h) - FEE * Cardinality(OrdersOf(h)) -> "POSITION"
      [] Gain("base", TREASURY) # FEE * Len(offered) -> "FEE_ACCRUAL"
      [] ladder # <<>> -> "BOOK_RESIDUE"
      [] \E h \in ACCTS :
            LET gain == Gain("quote", h) * SC
            IN  \/ gain < Sold(h) * Min(SellBand) - Bought(h) * Max(BuyBand)
                \/ gain > Sold(h) * Max(BuyBand) - Bought(h) * Min(SellBand) -> "VALUE"
      [] OTHER -> "clean"

\* The level's last order is out: refusals end it before anything is compared.
Refused ==
    /\ offered # <<>> /\ sent = Len(offered) /\ denied # "" /\ halt = ""
    /\ halt' = denied
    /\ UNCHANGED <<mempool, flight, exchangeVars, offered, sent, denied, calm>>

\* wait_quiescent: a poll sees the volume settled and, when it can be read, an
\* empty mempool; two such polls, long enough apart with none between that does
\* not, and the level is verified.
Poll(readable) ==
    /\ offered # <<>> /\ sent = Len(offered) /\ denied = "" /\ halt = ""
    /\ IF cv >= Volume /\ (readable => mempool = <<>>)
       THEN /\ calm' = TRUE
            /\ halt' \in {halt} \cup (IF calm THEN {Verify(TRUE)} ELSE {})
       ELSE calm' = FALSE /\ UNCHANGED halt
    /\ UNCHANGED <<mempool, flight, exchangeVars, offered, sent, denied>>

\* The time is up.
TimeUp ==
    /\ offered # <<>> /\ sent = Len(offered) /\ denied = "" /\ halt = ""
    /\ halt' = Verify(FALSE)
    /\ UNCHANGED <<mempool, flight, exchangeVars, offered, sent, denied, calm>>

FuzzNext ==
    \/ offered = <<>> /\ \E pairs \in [1..Pairs -> PairShapes], shuffle \in Shuffles : Starts(pairs, shuffle)
    \/ \E answer \in {"", "CAPACITY", "SERVER_FAULT"} : Place(answer)
    \/ \E n \in 1..Len(mempool) : TakeRound(n)
    \/ LoseRound \/ LandRound \/ Refused \/ \E readable \in BOOLEAN : Poll(readable) \/ TimeUp

-----------------------------------------------------------------------------
(***************************************************************************)
(* The oracle fits the exchange: "a correct FBA must clear in full, leaving *)
(* the book empty", whatever rounds the builder made of the batch, however *)
(* its orders filled in parts over several of them and were rebuilt.  A    *)
(* level halts only when orders were refused or time ran out, a clean one  *)
(* has nothing left anywhere, and what was paid depends on the batch and   *)
(* not on the batching.                                                    *)
(***************************************************************************)
OracleHolds ==
    /\ halt \in {"", "clean", "LIVENESS", "CAPACITY", "SERVER_FAULT"}
    /\ halt = "clean" => mempool = <<>> /\ flight = <<>> /\ ladder = <<>>
    /\ sent = Len(offered) /\ denied = "" /\ mempool = <<>> /\ flight = <<>> /\ offered # <<>> =>
          Verify(TRUE) = "clean"
=============================================================================
