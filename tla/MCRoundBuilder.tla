--------------------------- MODULE MCRoundBuilder ---------------------------
(* Universes for the runs of RoundBuilder.                                 *)
EXTENDS RoundBuilder

Public(a, n, rests) == [account |-> a, seq |-> n, sealed |-> FALSE, rests |-> rests]
Hidden(a) == [account |-> a, seq |-> 0, sealed |-> TRUE, rests |-> FALSE]
None == {}
NoRemainder == [o \in {} |-> o]

\* Two orders of one account, the older of which rests, and one of another.
PublicInfo == [a1 |-> Public(1, 1, TRUE), a2 |-> Public(1, 2, FALSE), b |-> Public(2, 1, FALSE)]
PublicOrders == DOMAIN PublicInfo
PairInfo == [a1 |-> Public(1, 1, TRUE), a2 |-> Public(1, 2, FALSE)]
PairOrders == DOMAIN PairInfo
OnlyA1 == {"a1"}
FloorOne == {[account |-> 1, seq |-> 1]}

\* Two orders of one account, and a sealed order that fills in part.
MixedInfo == [a1 |-> Public(1, 1, TRUE), a2 |-> Public(1, 2, FALSE), s |-> Hidden(2), rest |-> Hidden(2)]
MixedOrders == DOMAIN MixedInfo
MixedRemainder == [s |-> "rest"]

\* A cancelled order counts against the bound on faults too.
CancelledOrders == {o \in Orders : "cancelled" \in ToSet(receipts[o])}
BudgetSpec == Init /\ [][Next /\ faults' + Cardinality(CancelledOrders') <= MaxFaults]_vars
=============================================================================
