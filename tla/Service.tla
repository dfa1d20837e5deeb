------------------------------ MODULE Service ------------------------------
(***************************************************************************)
(* The service: Ledger and Rounds composed.  A round settles on the ledger *)
(* in the same step, a cancel needs the ledger's account check, and every  *)
(* other operation is one component's own.                                 *)
(***************************************************************************)
EXTENDS Ledger, Rounds

CONSTANTS
    CancelOps,      \* [account, key, oid, nonce]
    Worlds          \* what a behaviour may hold: orders placed, ops sent, restarts,
                    \* late copies of re-seals

ASSUME CancelAssumption == Traders \subseteq Handles /\ \A x \in CancelOps : x.account \in Handles

ASSUME SignersAssumption == \A o \in Orders : Terms[o].key \in Keys

ASSUME WorldsAssumption ==
    \A w \in Worlds : /\ w.orders \subseteq Orders /\ w.restarts \in Nat /\ w.copies \in Nat
                      /\ w.ops \subseteq DepositOps \cup WithdrawOps \cup TreasuryOps \cup CancelOps

VARIABLE world      \* the one this behaviour is in

vars == <<ledgerVars, roundVars, world>>

Init == LedgerInit /\ RoundsInit /\ world \in Worlds

\* CANCEL: account check, nonce, then the order leaves the book.
Cancel(x) ==
    /\ Authentic(x)
    /\ nonce' = [nonce EXCEPT ![x.account] = @ + 1]
    /\ CancelResting(x.account, x.oid)
    /\ UNCHANGED <<pk, nexthandle, govnonce, dn, bal, cust, created, moved>>

\* Only public new orders carry bindings, so only they pay the fee.
SettleRound(p) ==
    \E r \in {Refine(p)} :
        /\ Round(p, r, pk)
        /\ ApplySettlement(r.clearing.price, r.settle,
                           [i \in 1..Len(p.new) |-> p.new[i].account])

LedgerStep ==
    /\ \/ \E k \in Keys : Register(k)
       \/ \E d \in DepositOps \cap world.ops : Deposit(d)
       \/ \E w \in WithdrawOps \cap world.ops : Withdraw(w)
       \/ \E t \in TreasuryOps \cap world.ops : Treasury(t)
    /\ UNCHANGED roundVars

MarketStep ==
    /\ \/ List
       \/ \E o \in world.orders : TakeOrder(o) \/ Commit(o, pk)
       \/ \E r \in reseals : (r \in opened => late < world.copies) /\ CarryCommit(r)
       \/ \E p \in Payloads : Submit(p)
       \/ restarts < world.restarts /\ BuilderRestart
    /\ UNCHANGED ledgerVars

Next ==
    /\ \/ LedgerStep
       \/ MarketStep
       \/ \E x \in CancelOps \cap world.ops : Cancel(x)
       \/ \E p \in net : SettleRound(p)
    /\ UNCHANGED world

Spec == Init /\ [][Next]_vars

-----------------------------------------------------------------------------
\* No restart has given an id a second time, and no copy of a re-seal has come
\* after its original was consumed.
Undisturbed == restarts = 0 /\ late = 0

(***************************************************************************)
(* No signed order is over-filled: what all rounds together fill of an     *)
(* order is at most its signed quantity, and what rests of it is what is   *)
(* left, whatever payloads land late or again.  Not so once a restart has  *)
(* given an id again (FilledWithinQtyByConstruction), or a late copy put a *)
(* consumed remainder back on chain, which is there to be filled twice.    *)
(***************************************************************************)
FilledWithinSigned == Undisturbed =>
    /\ \A o \in Orders : filled[o] <= Terms[o].qty
    /\ \A i \in 1..Len(book) : book[i].qty + filled[book[i].src] <= Terms[book[i].src].qty

(***************************************************************************)
(* A signature introduces its order at most once, across payloads that     *)
(* carry it twice, land twice, or follow a builder restart.                *)
(***************************************************************************)
OrderEntersOnce == \A o \in Orders : entered[o] <= 1

(***************************************************************************)
(* Nobody trades what they did not sign: an order is introduced only under *)
(* the key its account is registered with, and nothing of a sealed order   *)
(* ever rests in the public book.                                          *)
(***************************************************************************)
OnlySignedOrders ==
    /\ \A o \in Orders : entered[o] > 0 \/ filled[o] > 0 => pk[Terms[o].account] = Terms[o].key
    /\ \A i \in 1..Len(book) : book[i].src \in Public

Rests(o) == \E i \in 1..Len(book) : book[i].src = o

(***************************************************************************)
(* An order that left the book never comes back: a late payload built on a *)
(* book that still had it is refused, also when other orders have come and *)
(* gone meanwhile.                                                         *)
(***************************************************************************)
NoResurrection ==
    [][\A o \in Public : entered[o] > 0 /\ ~Rests(o) => ~Rests(o)']_vars

(***************************************************************************)
(* Nobody trades beyond the price they signed, although the price a round  *)
(* clears an order at travels beside the signature: a step that fills a    *)
(* limit or sealed order settles at a price within its limit.  (While      *)
(* Undisturbed: fills go to orders by id.)                                 *)
(***************************************************************************)
LimitsHonoured ==
    [][Undisturbed => \A o \in Orders : filled'[o] > filled[o] /\ Terms[o].type # "market" =>
          IF Terms[o].side = "buy" THEN lp' <= Terms[o].price ELSE lp' >= Terms[o].price]_vars

(***************************************************************************)
(* What round_id.rs says of a payload that carries orders or reveals: it   *)
(* "can be accepted only once (its order floors rise, its commits are      *)
(* consumed)".                                                             *)
(***************************************************************************)
PayloadAcceptedOnce ==
    \A p \in DOMAIN accepted : p.new # <<>> \/ p.sealed # <<>> => accepted[p] <= 1

(***************************************************************************)
(* What holds of it: a payload with orders is accepted at most once, and   *)
(* one that only reveals once more for each late copy of a re-seal.        *)
(***************************************************************************)
AcceptedOncePerCopy ==
    \A p \in DOMAIN accepted : /\ p.new # <<>> => accepted[p] <= 1
                               /\ p.sealed # <<>> => accepted[p] <= 1 + late

(***************************************************************************)
(* Every deposit credits and every withdrawal debits at most once.         *)
(***************************************************************************)
MovedOnce == \A x \in DOMAIN moved : moved[x] <= 1

(***************************************************************************)
(* The books balance but for the clamps: the balances of an asset, fees    *)
(* and rounding residuals included, are what is in custody plus exactly    *)
(* the value that clamped settlements created.  (While Undisturbed: fills  *)
(* of two orders with one id are settled as one's.)                        *)
(***************************************************************************)
CustodyAccounted == Undisturbed => \A a \in Assets : Total(a) = cust[a] + created[a]

(***************************************************************************)
(* What the comment in resting says: "filled <= qty by construction", for  *)
(* the batch of every round that would be accepted now.                    *)
(***************************************************************************)
FilledWithinQtyByConstruction ==
    \A p \in net : \A r \in {Refine(p)} : Acceptable(p, r, pk) =>
        \A i \in 1..Len(r.batch) : FilledQty(r.batch, r.clearing.fills, r.batch[i].id) <= r.batch[i].qty

(***************************************************************************)
(* Everybody trades as they signed: what they signed, under their own key, *)
(* and, while Undisturbed, no more of it.                                  *)
(***************************************************************************)
TradesAsSigned == FilledWithinSigned /\ OnlySignedOrders

(***************************************************************************)
(* Everything signed takes effect once, late and repeated deliveries       *)
(* included: an order enters once, money moves once, and a payload is      *)
(* accepted once, but for the one exception the commit sets leave: a round *)
(* that only reveals may come again with each late copy of a re-seal.      *)
(***************************************************************************)
EffectOnce == OrderEntersOnce /\ AcceptedOncePerCopy /\ MovedOnce
=============================================================================
