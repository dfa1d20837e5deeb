------------------------------ MODULE MCRules -------------------------------
(***************************************************************************)
(* The rules the exchange is built from, each on its own: a behaviour is   *)
(* about one of the stores accumulate keeps, which at-least-once delivery  *)
(* could corrupt, or about the batch auction and what goes into it.        *)
(*                                                                         *)
(* deposits  two accounts, six nonces, a window of two: windows overflow   *)
(*           several times, and every order of arrival is explored         *)
(* markers   a TTL of two slots, two entries reaped per accept and two     *)
(*           accepts per block: backlogs longer than GC_STEPS build up,    *)
(*           ids are filed again while old entries wait, and the u32       *)
(*           saturates                                                     *)
(* sets      an account with two commits, its first one signed a second    *)
(*           time, and one with an encrypted order; two remainders can be  *)
(*           re-sealed, and commitments expire                             *)
(* book      four orders in batches of up to two: partial fills rest,      *)
(*           trade again in a later round, and leave the book in between   *)
(* plan      queues of public orders of one account, and sealed orders in  *)
(*           every condition, on two prices                                *)
(* fuzz      two pairs of two traders, of one or two units, in any order   *)
(*           and any rounds                                                *)
(***************************************************************************)
EXTENDS DepositWindow, LandedMarkers, SealedSets, OrderBook, RoundPlan, Fuzz
CONSTANTS a1, a2, c1, c2, c3

VARIABLE part       \* what this behaviour is about

MCNonces == 1..6
MCSignedCommits ==
    {[mode |-> "commits", account |-> a1, cid |-> c1, seq |-> 1],
     [mode |-> "commits", account |-> a1, cid |-> c2, seq |-> 2],
     [mode |-> "commits", account |-> a1, cid |-> c1, seq |-> 3],
     [mode |-> "encset",  account |-> a2, cid |-> c3, seq |-> 1]}

\* Fresh commitments are alike: they are drawn in order.
MCCarryIds == 1..3
DrawnInOrder(remainders) == {r.cid : r \in remainders} = 1..Cardinality(remainders)

MCIds == 1..4
MCPriceSet == 1..3
MCQtySet == {1, 3}

Shape(d, p, q, s, r, x) ==
    [account |-> 1, side |-> d, price |-> p, qty |-> q, sealed |-> s, ready |-> r, expired |-> x]

MCShapes ==
    {Shape(d, p, 1, FALSE, TRUE, FALSE) : d \in Sides, p \in 1..2}
    \cup {Shape(d, p, 2, TRUE, TRUE, FALSE) : d \in Sides, p \in 1..2}
    \cup {Shape("buy", 2, 1, TRUE, FALSE, FALSE), Shape("sell", 1, 1, TRUE, TRUE, TRUE)}
MCResting == {Shape("sell", 2, 1, FALSE, TRUE, FALSE)}
MCSealedCaps == 1..2

auctionVars == <<bookVars, planVars, fuzzVars>>
MCVars == <<windowVars, markersVars, setsVars, auctionVars, part>>

MCInit ==
    /\ part \in {"deposits", "markers", "sets", "book", "plan", "fuzz"}
    /\ WindowInit /\ MarkersInit /\ SetsInit
    /\ BookInit /\ PlanInit /\ FuzzInit
    /\ part # "plan" => resting = <<>> /\ sealed_cap = 1

MCNext ==
    /\ UNCHANGED part
    /\ \/ /\ part = "deposits" /\ WindowNext
          /\ UNCHANGED <<markersVars, setsVars, auctionVars>>
       \/ /\ part = "markers" /\ MarkersNext
          /\ UNCHANGED <<windowVars, set, cage, sc, cw, admitted, owed, carried, twins, auctionVars>>
       \/ /\ part = "sets" /\ SetsNext /\ DrawnInOrder(owed')
          /\ UNCHANGED <<windowVars, marks, rlq, room, landedAt, auctionVars>>
       \/ /\ part = "book" /\ BookNext
          /\ UNCHANGED <<windowVars, markersVars, setsVars, planVars, fuzzVars>>
       \/ /\ part = "plan" /\ PlanNext
          /\ UNCHANGED <<windowVars, markersVars, setsVars, bookVars, fuzzVars>>
       \/ /\ part = "fuzz" /\ FuzzNext
          /\ UNCHANGED <<windowVars, markersVars, setsVars, bookVars, planVars>>

MCSpec == MCInit /\ [][MCNext]_MCVars
=============================================================================
