------------------------------- MODULE Rounds -------------------------------
(***************************************************************************)
(* Rounds of one market (service/src/lib.rs refine and the SMATCH, REVEAL  *)
(* and ENC_ROUND arms of accumulate; crates/match-engine/src/floors.rs),   *)
(* with as much of the builder as decides what goes into a payload.        *)
(*                                                                         *)
(* Refine clears on the book a payload carries.  The payload then waits in *)
(* the network and may land late, after other rounds, or again.  A public  *)
(* round is one without sealed orders; commit-reveal and encrypted rounds  *)
(* differ in how refine opens the sealed orders, which is cryptography,    *)
(* and in the set they consume, which SealedSets.tla has in full: here a   *)
(* hidden order on chain is a member of `commits'.                         *)
(***************************************************************************)
EXTENDS MatchEngine

CONSTANTS
    Orders,         \* the orders traders signed
    Terms,          \* Orders -> [account, key, seq, side, price, qty, type]
    FirstOid,       \* the value next_oid starts from in every builder process
    ExecPrices,     \* prices a builder may put on an order
    BAND_PCT,       \* market orders execute within this distance of the last price
    MaxNet,         \* bound on payloads in flight
    MaxBatch        \* bound on new public orders per round

Public == {o \in Orders : Terms[o].type # "sealed"}
Sealed == Orders \ Public
Traders == {Terms[o].account : o \in Orders}

ASSUME RoundsAssumption ==
    /\ \A o \in Orders :
          /\ Terms[o].type \in {"limit", "market", "sealed"} /\ Terms[o].seq \in Nat \ {0}
          /\ Terms[o].side \in Sides /\ Terms[o].price \in Nat /\ Terms[o].qty \in 1..(U32 - 1)
    /\ FirstOid \in Nat \ {0}
    /\ ExecPrices \subseteq Nat /\ MaxBatch \in Nat

(***************************************************************************)
(* sq, sc:   b"sq" and b"sc", the order and the commit floor per account   *)
(* listed:   LIST has bound the market to its assets                       *)
(* book, lp, cv: resting book, last clearing price, cumulative volume      *)
(* commits, cw: hidden orders on chain, carry credits per account          *)
(* oid, nextoid, restarts: the id the builder gave each order (0: none)    *)
(* net, mine: the payloads submitted so far, by the present process        *)
(* reseals:  sealed remainders whose re-seal the builder has posted        *)
(* held:     sealed orders whose reveal the builder process holds          *)
(* opened:   re-sealed remainders that a round has consumed (history)      *)
(* late:     how often a copy of such a re-seal was admitted (history)     *)
(* filled, entered, accepted: what each order was filled, how often it was *)
(*           introduced, and how often each payload was accepted (history) *)
(***************************************************************************)
VARIABLES sq, sc, listed, book, lp, cv, commits, cw,
          oid, nextoid, restarts, net, mine, reseals, held, opened, late, filled, entered, accepted

chainVars == <<sq, sc, listed, book, lp, cv, commits, cw>>
builderVars == <<oid, nextoid, restarts, net, mine, reseals, held>>
traceVars == <<opened, late, filled, entered, accepted>>
roundVars == <<chainVars, builderVars, traceVars>>

RoundsInit ==
    /\ sq = [h \in Traders |-> 0] /\ sc = [h \in Traders |-> 0]
    /\ listed = FALSE /\ book = <<>> /\ lp = 0 /\ cv = 0
    /\ commits = {} /\ cw = [h \in Traders |-> 0]
    /\ oid = [o \in Orders |-> 0] /\ nextoid = FirstOid /\ restarts = 0
    /\ net = {} /\ mine = {} /\ reseals = {} /\ held = {} /\ opened = {} /\ late = 0
    /\ filled = [o \in Orders |-> 0] /\ entered = [o \in Orders |-> 0]
    /\ accepted = [p \in {} |-> 0]

\* The engine's order for `o', remembering where it came from and, for a sealed
\* one, how often it was re-sealed: every re-seal is a fresh commitment.
EngineOrder(o, id, price, qty) ==
    [account |-> Terms[o].account, id |-> id, side |-> Terms[o].side,
     price |-> price, qty |-> qty, src |-> o, gen |-> 0]

-----------------------------------------------------------------------------
\* Bug: a limit order may execute at whatever price the builder put on it.
SignedAsSubmittedAny(n) == TRUE

\* parse_public_section: a limit order carries exactly its signed price.
SignedAsSubmitted(n) == Terms[n.src].type = "limit" => n.price = Terms[n.src].price

\* refine: prune, clear everything together, keep sealed remainders out of the book.
Refine(p) ==
    LET pruned(o) == [account |-> o.account, id |-> o.id] \in p.prune
        kept == Pick(p.book, {i \in 1..Len(p.book) : ~pruned(p.book[i])})
        all == kept \o p.new \o p.sealed
        hidden(o) == \E i \in 1..Len(p.sealed) : p.sealed[i].id = o.id
        split(c, rest) ==
            [batch |-> all, clearing |-> c, settle |-> Settlement(all, c),
             book |-> Pick(rest, {i \in 1..Len(rest) : ~hidden(rest[i])}),
             carry |-> Pick(rest, {i \in 1..Len(rest) : hidden(rest[i])})]
        cleared(c) == split(c, Resting(all, c))
    IN  cleared(Clear(all))

\* The re-seals of a round's carry list.
Reseals(carry) == {[carry[i] EXCEPT !.gen = @ + 1] : i \in 1..Len(carry)}

\* Within the band of the last price, which must exist.
InBand(price) ==
    /\ lp # 0
    /\ price * 100 >= lp * (100 - BAND_PCT)
    /\ price * 100 <= lp * (100 + BAND_PCT)

\* The floor of account h after the first n of the round's new orders: the seq of
\* its last one among them.
RunningFloor(new, n, h) ==
    LET own == {i \in 1..n : Terms[new[i].src].account = h}
    IN  IF own = {} THEN sq[h] ELSE Terms[new[Max(own)].src].seq

\* Bug: the key that signed is not compared with the registry's.
CheckBindingsAnyKey(new, key) ==
    \A i \in 1..Len(new) :
        LET t == Terms[new[i].src]
        IN  t.seq > RunningFloor(new, i - 1, t.account)

\* Bug: an equal seq passes.
CheckBindingsEqual(new, key) ==
    \A i \in 1..Len(new) :
        LET t == Terms[new[i].src]
        IN  key[t.account] = t.key /\ t.seq >= RunningFloor(new, i - 1, t.account)

\* check_bindings: registered keys, running floors in round order, price bands.
CheckBindings(new, key) ==
    \A i \in 1..Len(new) :
        LET t == Terms[new[i].src]
        IN  /\ key[t.account] = t.key
            /\ t.seq > RunningFloor(new, i - 1, t.account)
            /\ t.type = "market" => InBand(new[i].price)

\* Bug: the book the round was cleared on is not compared with the chain's.
BookMatchesAlways(p) == TRUE

\* check_round_auth's first test.
BookMatches(p) == p.book = book

\* consume_set on pairwise distinct hidden orders.
Consumes(p) ==
    /\ \A i \in 1..Len(p.sealed) : p.sealed[i] \in commits
    /\ IsInjective(p.sealed)

\* The hidden orders left once a round has consumed its own.
Consumed(p) == commits \ ToSet(p.sealed)

-----------------------------------------------------------------------------
\* LIST: the first listing wins.
List ==
    /\ ~listed
    /\ listed' = TRUE
    /\ UNCHANGED <<sq, sc, book, lp, cv, commits, cw, builderVars, traceVars>>

\* api_order / api_seal_prepare: the builder gives an order its id.
TakeOrder(o) ==
    /\ oid[o] = 0
    /\ oid' = [oid EXCEPT ![o] = nextoid]
    /\ nextoid' = nextoid + 1
    /\ UNCHANGED <<restarts, net, mine, reseals, held, chainVars, traceVars>>

\* The builder process restarts: its mempool, the rounds it was following and
\* the reveals it held are gone, and next_oid starts over.
BuilderRestart ==
    /\ restarts' = restarts + 1
    /\ oid' = [o \in Orders |-> 0]
    /\ nextoid' = FirstOid
    /\ held' = {} /\ mine' = {}
    /\ UNCHANGED <<net, reseals, chainVars, traceVars>>

\* COMMIT / ENC_COMMIT: the owner's signed commitment to a sealed order.
Commit(o, key) ==
    LET t == Terms[o]
        entry == EngineOrder(o, oid[o], t.price, t.qty)
    IN  /\ o \in Sealed /\ oid[o] # 0
        /\ key[t.account] = t.key
        /\ t.seq > sc[t.account]
        /\ sc' = [sc EXCEPT ![t.account] = t.seq]
        /\ commits' = commits \cup {entry}
        /\ held' = held \cup {entry}
        /\ UNCHANGED <<sq, listed, book, lp, cv, cw, oid, nextoid, restarts, net, mine, reseals, traceVars>>

\* CARRY_COMMIT / CARRY_ENC_COMMIT: a re-seal spends a credit, a copy of one in
\* the set does not.  The set keeps no record of what was consumed, so a copy
\* that comes after its original was is admitted like any other.
CarryCommit(r) ==
    /\ r \in reseals
    /\ cw[r.account] > 0
    /\ r \notin commits
    /\ cw' = [cw EXCEPT ![r.account] = @ - 1]
    /\ commits' = commits \cup {r}
    /\ late' = late + (IF r \in opened THEN 1 ELSE 0)
    /\ UNCHANGED <<sq, sc, listed, book, lp, cv, builderVars, opened, filled, entered, accepted>>

\* The builder submits a round on the book it reads now.  (A payload refine
\* would drop does nothing, so only the others are followed.)
Submit(p) ==
    /\ listed
    /\ Cardinality(net) < MaxNet
    /\ p.book = book
    /\ \A i \in 1..Len(p.new) : SignedAsSubmitted(p.new[i])
    /\ net' = net \cup {p} /\ mine' = mine \cup {p}
    /\ UNCHANGED <<oid, nextoid, restarts, reseals, held, chainVars, traceVars>>

\* CANCEL, past its account check: the order leaves the book.
CancelResting(h, id) ==
    /\ book' = Pick(book, {i \in 1..Len(book) : ~(book[i].account = h /\ book[i].id = id)})
    /\ UNCHANGED <<sq, sc, listed, lp, cv, commits, cw, builderVars, traceVars>>

\* The tests an accumulated round must pass, in the code's order; r is what
\* refine made of the payload p.
Acceptable(p, r, key) ==
    /\ listed
    /\ ~(p.new = <<>> /\ p.sealed = <<>> /\ r.book = book)
    /\ BookMatches(p)
    /\ CheckBindings(p.new, key)
    /\ Consumes(p)

\* SMATCH / REVEAL / ENC_ROUND: an acceptable round is settled.  A builder that
\* was following it re-seals its carry list (_carry_sealed_remainders).
Round(p, r, key) ==
    LET posted == IF p \in mine THEN Reseals(r.carry) ELSE {}
    IN  /\ p \in net
        /\ Acceptable(p, r, key)
        /\ commits' = Consumed(p)
        /\ sq' = [h \in Traders |-> RunningFloor(p.new, Len(p.new), h)]
        /\ cw' = [h \in Traders |-> cw[h] + Cardinality({i \in 1..Len(r.carry) : r.carry[i].account = h})]
        /\ book' = r.book
        /\ lp' = IF r.settle # <<>> THEN r.clearing.price ELSE lp
        /\ cv' = cv + QtyAt(r.settle, {i \in DOMAIN r.settle : r.settle[i].side = "buy"})
        /\ reseals' = reseals \cup posted
        /\ held' = held \cup posted
        /\ opened' = opened \cup (ToSet(p.sealed) \cap reseals)
        /\ filled' = [o \in Orders |-> filled[o] +
                        SumFunctionOnSet([i \in 1..Len(r.batch) |-> FilledQty(r.batch, r.clearing.fills, r.batch[i].id)],
                                         {i \in 1..Len(r.batch) : r.batch[i].src = o})]
        /\ entered' = [o \in Orders |-> entered[o] + Cardinality({i \in 1..Len(p.new) : p.new[i].src = o})]
        /\ accepted' = [q \in DOMAIN accepted \cup {p} |->
                           (IF q \in DOMAIN accepted THEN accepted[q] ELSE 0) + (IF q = p THEN 1 ELSE 0)]
        /\ UNCHANGED <<sc, listed, oid, nextoid, restarts, net, mine, late>>

-----------------------------------------------------------------------------
\* Payloads a builder can put together now.
Payloads ==
    LET taken == {o \in Public : oid[o] # 0}
        priced(o) == {EngineOrder(o, oid[o], x, Terms[o].qty) : x \in ExecPrices}
        news == {s \in BoundedSeq(UNION {priced(o) : o \in taken}, MaxBatch) :
                    \A i, j \in 1..Len(s) : i # j => s[i].src # s[j].src}
        known == commits \cap held
        prunes == {{}} \cup {{[account |-> book[i].account, id |-> book[i].id]} : i \in 1..Len(book)}
    IN  {[new |-> s, sealed |-> h, prune |-> x, book |-> book] :
            s \in news, h \in {<<>>} \cup {<<c>> : c \in known}, x \in prunes}
=============================================================================
