----------------------------- MODULE RoundPlan -----------------------------
(***************************************************************************)
(* Which queued orders go into a round (offchain/round.py plan_round and   *)
(* plan_batch, server.py _cap_batch).  Sealed orders that cross nothing    *)
(* stay hidden; the cap must neither reveal an order without counterparty  *)
(* nor keep public orders out for the sake of hidden ones.                 *)
(*                                                                         *)
(* The queue grows one order at a time, and the properties are about the   *)
(* plan of every queue.  An order is a MatchEngine order with              *)
(* [seq, sealed, ready, expired].                                          *)
(***************************************************************************)
EXTENDS MatchEngine

CONSTANTS
    Shapes,             \* orders that may be queued, but for id and seq
    RestingShapes,      \* and that may rest on the book
    MaxQueue,           \* bound on the queue
    MAX_ROUND_ORDERS,   \* most orders of a round
    GAS_SEALED,         \* refine gas of a sealed order, when a public one costs 1
    ROUND_GAS_BUDGET,   \* most gas of a round
    SealedCaps,         \* values of the most sealed orders of a round
    FIT_PASSES          \* refills before unproven sealed orders give way

ASSUME PlanAssumption ==
    /\ MaxQueue \in Nat /\ MAX_ROUND_ORDERS \in Nat /\ SealedCaps \subseteq Nat
    /\ GAS_SEALED \in Nat /\ ROUND_GAS_BUDGET \in Nat \ {0} /\ FIT_PASSES \in Nat \ {0}

VARIABLES
    queue,      \* the market's mempool, oldest first
    resting,    \* the book
    sealed_cap, \* the cap on sealed orders, as it stands when the round is planned
    plan        \* what plan_batch makes of the queue

planVars == <<queue, resting, sealed_cap, plan>>

IdsOf(s) == {s[i].id : i \in 1..Len(s)}

-----------------------------------------------------------------------------

\* crosses, against the best opposing price of `orders'.
Crosses(o, orders) ==
    \E i \in 1..Len(orders) :
        LET q == orders[i]
        IN  q.side # o.side /\ IF o.side = "buy" THEN o.price >= q.price ELSE o.price <= q.price

\* plan_round: sealed orders that are ready and cross are revealed, the others
\* wait hidden, or for their commit, or have expired.
PlanRound(pending, book, isReady) ==
    LET sealed == SelectSeq(pending, LAMBDA o : o.sealed)
        ready == SelectSeq(sealed, LAMBDA o : o.id \in isReady)
        public == SelectSeq(pending, LAMBDA o : ~o.sealed)
        all == book \o public \o ready
        out(o) == ~(o.id \in isReady /\ Crosses(o, all))
    IN  [reveal   |-> SelectSeq(ready, LAMBDA o : Crosses(o, all)),
         public   |-> public,
         carry    |-> SelectSeq(ready, LAMBDA o : out(o) /\ ~o.expired),
         expired  |-> SelectSeq(sealed, LAMBDA o : out(o) /\ o.expired),
         deferred |-> SelectSeq(sealed, LAMBDA o : o.id \notin isReady /\ ~o.expired)]

-----------------------------------------------------------------------------

\* Each account's public orders, lowest seq first, in the positions they hold.
Dealt(s) ==
    LET same(i, j) == ~s[j].sealed /\ s[j].account = s[i].account
        rank(i) == Cardinality({j \in 1..i : same(i, j)})
        upTo(i, k) == Cardinality({j \in 1..Len(s) : same(i, j) /\ s[j].seq <= s[k].seq})
    IN  [i \in 1..Len(s) |-> IF s[i].sealed THEN s[i]
            ELSE s[CHOOSE k \in 1..Len(s) : same(i, k) /\ upTo(i, k) = rank(i)]]

Gas(o) == IF o.sealed THEN GAS_SEALED ELSE 1

\* _cap_batch: the longest prefix within the caps, but orders that fit no round
\* at all are passed over.
CapBatch(orders) ==
    LET full(acc, o) == \/ Len(acc.batch) >= MAX_ROUND_ORDERS
                        \/ acc.used + Gas(o) > ROUND_GAS_BUDGET
                        \/ o.sealed /\ acc.sealed >= sealed_cap
        step(acc, o) ==
            IF acc.closed \/ Gas(o) > ROUND_GAS_BUDGET THEN acc
            ELSE IF full(acc, o) THEN [acc EXCEPT !.closed = TRUE]
            ELSE [batch |-> Append(acc.batch, o), used |-> acc.used + Gas(o),
                  sealed |-> acc.sealed + (IF o.sealed THEN 1 ELSE 0), closed |-> FALSE]
    IN  FoldLeft(step, [batch |-> <<>>, used |-> 0, sealed |-> 0, closed |-> FALSE], Dealt(orders)).batch

\* Sealed orders whose commit is on chain where the round's reads will see it.
IsReady(pending) == IdsOf(SelectSeq(pending, LAMBDA o : o.ready))

-----------------------------------------------------------------------------

\* Bug: reveals that lost their counterparty to the cap are not taken back out.
PlanBatchOnePass(pending, book) ==
    LET competing(full, o) == ~o.sealed \/ o.id \in IdsOf(full.reveal)
        cut(full, batch) ==
            [reveal |-> SelectSeq(batch, LAMBDA o : o.sealed), public |-> SelectSeq(batch, LAMBDA o : ~o.sealed),
             carry |-> full.carry, expired |-> full.expired, deferred |-> full.deferred,
             overflow |-> SelectSeq(pending, LAMBDA o : competing(full, o) /\ o.id \notin IdsOf(batch))]
        fit(full) == cut(full, CapBatch(SelectSeq(pending, LAMBDA o : competing(full, o))))
    IN  fit(PlanRound(pending, book, IsReady(pending)))

\* plan_batch's passes: fit the public orders and the crossing sealed ones; those
\* left without counterparty in the batch are taken out, and the batch is refilled.
Fit(pending, book, full) ==
    LET after(acc, crossing, fitted) ==
            [plan |-> fitted, settled |-> fitted.carry \o fitted.expired = <<>>,
             crossing |-> crossing \ IdsOf(fitted.carry \o fitted.expired),
             carry |-> acc.carry \o fitted.carry, expired |-> acc.expired \o fitted.expired]
        refill(acc, crossing, cands) == after(acc, crossing, PlanRound(CapBatch(cands), book, IdsOf(cands)))
        pass(acc, n) ==
            IF acc.settled THEN acc
            ELSE LET crossing == IF n = FIT_PASSES THEN IdsOf(acc.plan.reveal) ELSE acc.crossing
                 IN  refill(acc, crossing, SelectSeq(pending, LAMBDA o : ~o.sealed \/ o.id \in crossing))
    IN  FoldLeft(pass, [plan |-> full, settled |-> FALSE, crossing |-> IdsOf(full.reveal),
                        carry |-> full.carry, expired |-> full.expired],
                 [n \in 1..(FIT_PASSES + 1) |-> n - 1])

Batched(full, done, overflow) ==
    [reveal |-> done.plan.reveal, public |-> done.plan.public, carry |-> done.carry,
     expired |-> done.expired, deferred |-> full.deferred, overflow |-> overflow]

\* Bug: what waits is only what the last pass had no room for.
PlanBatchFitOverflow(pending, book) ==
    LET batch(done) == IdsOf(done.plan.reveal \o done.plan.public)
        waits(done, o) == o.id \notin batch(done) /\ (~o.sealed \/ o.id \in done.crossing)
        cut(full, done) == Batched(full, done, SelectSeq(pending, LAMBDA o : waits(done, o)))
        fit(full) == cut(full, Fit(pending, book, full))
    IN  fit(PlanRound(pending, book, IsReady(pending)))

\* plan_batch: the last pass's batch; the rest waits.
PlanBatch(pending, book) ==
    LET placed(full, done) ==
            IdsOf(done.plan.reveal \o done.plan.public \o done.carry \o done.expired \o full.deferred)
        cut(full, done) ==
            Batched(full, done, SelectSeq(pending, LAMBDA o : o.id \notin placed(full, done)))
        fit(full) == cut(full, Fit(pending, book, full))
    IN  fit(PlanRound(pending, book, IsReady(pending)))

-----------------------------------------------------------------------------
PlanInit ==
    /\ queue = <<>> /\ sealed_cap \in SealedCaps
    /\ resting \in {<<>>} \cup {<<[id |-> 99, seq |-> 0] @@ r>> : r \in RestingShapes}
    /\ plan = PlanBatch(<<>>, resting)

\* api_order, and the plan of a round built then; the order's seq is the trader's
\* choice.
Enqueue(shape, n) ==
    /\ Len(queue) < MaxQueue
    /\ \A i \in 1..Len(queue) : queue[i].seq # n
    /\ queue' = Append(queue, [id |-> Len(queue) + 1, seq |-> n] @@ shape)
    /\ plan' = PlanBatch(queue', resting)
    /\ UNCHANGED <<resting, sealed_cap>>

PlanNext == \E shape \in Shapes, n \in {Len(queue) + 1, MaxQueue + 1 - Len(queue)} : Enqueue(shape, n)

PlanSpec == PlanInit /\ [][PlanNext]_planVars

-----------------------------------------------------------------------------
submitted == resting \o plan.reveal \o plan.public

\* The orders that compete for the caps when none of them is in the way.
contenders == SelectSeq(queue, LAMBDA o : ~o.sealed \/ o.id \in IdsOf(PlanRound(queue, resting, IsReady(queue)).reveal))

(***************************************************************************)
(* Every queued order is in exactly one part of the plan.                  *)
(***************************************************************************)
PlanPartitions ==
    LET all == plan.reveal \o plan.public \o plan.carry \o plan.expired \o plan.deferred \o plan.overflow
    IN  Len(all) = Len(queue) /\ IdsOf(all) = IdsOf(queue)

(***************************************************************************)
(* No sealed order is revealed alone: each revealed order crosses an order *)
(* that is submitted with it, also when the cap cut the batch and several  *)
(* refills were needed.                                                    *)
(***************************************************************************)
NeverRevealedAlone == \A i \in 1..Len(plan.reveal) : Crosses(plan.reveal[i], submitted)

(***************************************************************************)
(* Hiding costs nobody a trade: when the caps cut nothing, submitting the  *)
(* hidden orders as well would clear at the same price with the same       *)
(* fills.                                                                  *)
(***************************************************************************)
HiddenWouldNotTrade ==
    Len(CapBatch(contenders)) = Len(contenders) => Clear(submitted \o plan.carry) = Clear(submitted)

(***************************************************************************)
(* Only orders that can trade compete for the cap (jamswap#6): a public    *)
(* order is left over only by a round that is full, or that stopped at a   *)
(* sealed order it had no room for.                                        *)
(***************************************************************************)
CapIsUsed ==
    LET batch == plan.reveal \o plan.public
        gas == SumFunction([i \in 1..Len(batch) |-> Gas(batch[i])])
        sealedLeft == Len(SelectSeq(plan.overflow, LAMBDA o : o.sealed)) > 0
    IN  (\E i \in 1..Len(plan.overflow) : ~plan.overflow[i].sealed) =>
            \/ Len(batch) >= MAX_ROUND_ORDERS
            \/ gas + 1 > ROUND_GAS_BUDGET
            \/ sealedLeft /\ (gas + GAS_SEALED > ROUND_GAS_BUDGET \/ Len(plan.reveal) >= sealed_cap)

(***************************************************************************)
(* The cap never takes an account's newer public order and leaves an older *)
(* one behind, which the newer one's floor would strand.                   *)
(***************************************************************************)
OldestFirst ==
    \A i \in 1..Len(plan.public), j \in 1..Len(plan.overflow) :
        plan.public[i].account = plan.overflow[j].account /\ ~plan.overflow[j].sealed
            => plan.public[i].seq < plan.overflow[j].seq

(***************************************************************************)
(* A plan is exact: nothing queued is lost or doubled, an account's oldest *)
(* orders go first, and room is left over only when nothing that can trade *)
(* is left out.                                                            *)
(***************************************************************************)
PlanExact == PlanPartitions /\ OldestFirst /\ CapIsUsed

(***************************************************************************)
(* A hidden order is revealed exactly when it can trade: never alone, and  *)
(* never kept back at the cost of a trade.                                 *)
(***************************************************************************)
RevealsExactly == NeverRevealedAlone /\ HiddenWouldNotTrade
=============================================================================
