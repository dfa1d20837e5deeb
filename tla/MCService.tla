----------------------------- MODULE MCService -----------------------------
(* The worlds Service is run in: which orders are signed and placed, which *)
(* operations are sent, and how often the builder restarts.                *)
EXTENDS Service
CONSTANTS k1, k2

Order(a, k, n, d, x, q, t) ==
    [account |-> a, key |-> k, seq |-> n, side |-> d, price |-> x, qty |-> q, type |-> t]

MCTerms ==
    [maker  |-> Order(1, k1, 1, "sell", 2, 2, "limit"),
     taker  |-> Order(2, k2, 1, "buy", 2, 1, "limit"),
     second |-> Order(2, k2, 2, "buy", 2, 1, "limit"),
     market |-> Order(2, k2, 2, "buy", 0, 1, "market"),
     forged |-> Order(1, k2, 7, "sell", 2, 1, "limit"),     \* the wrong key
     hidden |-> Order(1, k1, 1, "sell", 1, 2, "sealed"),
     bid    |-> Order(2, k2, 1, "buy", 2, 2, "limit"),
     offer  |-> Order(1, k1, 1, "sell", 3, 2, "limit"),
     large  |-> Order(2, k2, 1, "buy", 3, 3, "limit")]
MCOrders == DOMAIN MCTerms

MCHandles == 1..2
None == {}
MCPrices == {2, 3}

MCCancels == {[account |-> 1, key |-> k1, oid |-> 1, nonce |-> 0]}
MCDeposits ==
    {[account |-> 1, asset |-> "base", amount |-> 2, nonce |-> 1],
     [account |-> 1, asset |-> "base", amount |-> 1, nonce |-> 1],
     [account |-> 2, asset |-> "quote", amount |-> 4, nonce |-> 1],
     [account |-> 2, asset |-> "base", amount |-> 1, nonce |-> 2]}
MCWithdrawals ==
    {[account |-> 1, key |-> k1, asset |-> "base", amount |-> 1, nonce |-> 0],
     [account |-> 1, key |-> k1, asset |-> "quote", amount |-> 1, nonce |-> 1],
     [account |-> 1, key |-> k2, asset |-> "base", amount |-> 1, nonce |-> 0]}
MCSweeps == {[asset |-> "base", amount |-> 2, dest |-> 2, nonce |-> 0],
             [asset |-> "quote", amount |-> 1, dest |-> 1, nonce |-> 1]}

World(orders, ops, n, m) == [orders |-> orders, ops |-> ops, restarts |-> n, copies |-> m]

\* A maker, two takers of one account (one a market order), a forged order and
\* a cancel of what rests.
PublicWorld == World({"maker", "taker", "market", "forged"}, MCCancels, 0, 0)
\* A sealed sell and two public buys it can trade with, each in part; a copy of
\* its re-seal may come late.
SealedWorld == World({"hidden", "bid", "second"}, {}, 0, 1)
\* The builder restarts while orders rest and rounds are in flight.
RestartWorld == World({"maker", "taker", "second"}, {}, 1, 0)
\* A seller who owns less than it sells, and money going in and out.
MoneyWorld == World({"offer", "large"}, MCDeposits \cup MCWithdrawals \cup MCSweeps, 0, 0)
\* A sealed order that nothing matches: every round that reveals it carries it on.
LoneWorld == World({"hidden"}, {}, 0, 1)

MCWorlds == {PublicWorld, SealedWorld, RestartWorld, MoneyWorld}
OnlyRestart == {RestartWorld}
OnlyLone == {LoneWorld}
=============================================================================
