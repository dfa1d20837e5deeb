---------------------------- MODULE RoundBuilder ----------------------------
(***************************************************************************)
(* The builder's round lifecycle for one market (offchain/server.py): the  *)
(* mempool, the round in flight, the released rounds still watched for a   *)
(* late landing (`zombies'), against a chain that may re-org above its     *)
(* finalized head.                                                         *)
(*                                                                         *)
(* Builds and resolver sweeps exclude each other by the market's lock, but *)
(* each of them reads the chain several times and the chain moves between  *)
(* the reads: every read is a step of its own.  Timers (the settle hold,   *)
(* DEAD_CONFIRM_SECS, ROUND_GATE_SECS, the cool-down) may run out at any   *)
(* step.  Rounds are built of orders without a good-till-time.             *)
(*                                                                         *)
(* A landing is receipted when it is final, and where a settle hold is in  *)
(* force also when it has held on the best chain (_confirmed).  Whether    *)
(* one may be is SettleHold: never with jip2 while finality advances and   *)
(* SETTLE_HOLD_SECS is unset, otherwise at any step that sees it again.    *)
(***************************************************************************)
EXTENDS Integers, Sequences, SequencesExt, FiniteSets, TLC

CONSTANTS
    Orders,         \* incarnations of orders: a re-sealed remainder is another one
    Info,           \* Orders -> [account, seq, sealed, rests]
    Remainder,      \* sealed order -> the remainder its round leaves
    Foreign,        \* floors other markets' rounds may raise: [account, seq]
    Cancels,        \* orders whose owner may cancel them, queued or resting
    MAX_ROUND_ORDERS, ZOMBIE_CAP,
    SettleHold,     \* whether a landing may be receipted because it has held
    MaxFaults,      \* bound on refusals, lost payloads, failed builds, timeouts and re-orgs
    MaxReorgs       \* bound on re-orgs among them

ASSUME BuilderAssumption ==
    /\ MAX_ROUND_ORDERS \in Nat \ {0} /\ ZOMBIE_CAP \in Nat /\ MaxFaults \in Nat /\ MaxReorgs \in Nat
    /\ SettleHold \in BOOLEAN
    /\ \A o \in Orders : Info[o].seq \in Nat
    /\ \A o \in DOMAIN Remainder : Info[o].sealed /\ Info[Remainder[o]].sealed
    /\ \A o, q \in Orders : ~Info[o].sealed /\ ~Info[q].sealed /\ o # q
                               => <<Info[o].account, Info[o].seq>> # <<Info[q].account, Info[q].seq>>

(***************************************************************************)
(* chain, final:  what happened on the best chain, and how much of it is   *)
(*                finalized                                                *)
(* relayed:       payloads a guarantor may still land                      *)
(* posted:        the orders the builder took (a sealed one's commit is    *)
(*                out), each with whether it came after a newer one of its *)
(*                account                                                  *)
(* pending, inflight, zombies, retry, gate: the market's entries in        *)
(*                pending, _inflight (at most one), _zombies, _carry_retry *)
(*                and _round_gate                                          *)
(* at, zi, after: where the holder of the market's lock is, the zombie it  *)
(*                looks at, and where it goes after the last               *)
(* job:           the locals of the build, of the sweep (why: the round in *)
(*                flight looked dead) and of _resolve_zombies (done: the   *)
(*                released rounds the list loses when the loop ends)       *)
(* receipts:      the outcomes reported for each order                     *)
(* seen:          for the properties only: early, the orders of rounds     *)
(*                finalized because their landing had held, each with the  *)
(*                re-orgs so far; cuts, how often _resolve_zombies was cut *)
(*                short after it had finalized a round                     *)
(* faults, reorgs: how much of the bounds is used                          *)
(***************************************************************************)
VARIABLES chain, final, relayed, posted, pending, inflight, zombies, retry, gate,
          at, zi, after, job, receipts, seen, faults, reorgs

chainVars == <<chain, final, relayed, reorgs>>
queueVars == <<posted, pending, retry, receipts, seen>>
lockVars == <<at, zi, after, job>>
vars == <<chainVars, queueVars, lockVars, inflight, zombies, gate, faults>>

NoJob == [book |-> {}, taken |-> <<>>, sealed |-> <<>>, public |-> <<>>,
          dead |-> {}, claimed |-> {}, why |-> FALSE, done |-> {}]

Init ==
    /\ chain = <<>> /\ final = 0 /\ relayed = {} /\ posted = [o \in {} |-> FALSE]
    /\ pending = <<>> /\ inflight = <<>> /\ zombies = <<>> /\ retry = <<>> /\ gate = FALSE
    /\ at = "free" /\ zi = 0 /\ after = "free" /\ job = NoJob
    /\ receipts = [o \in Orders |-> <<>>] /\ seen = [early |-> [o \in {} |-> 0], cuts |-> 0]
    /\ faults = 0 /\ reorgs = 0

-----------------------------------------------------------------------------
(* The chain, as the service keeps it after the entries of c.              *)
Entries(c, kind) == {c[i][kind] : i \in {j \in 1..Len(c) : kind \in DOMAIN c[j]}}
Rounds(c) == Entries(c, "round")
Settled(c) == UNION {ToSet(r.orders) : r \in Rounds(c)}

Landed(c, r) == r \in Rounds(c)
Book(c) == {o \in Settled(c) : Info[o].rests} \ Entries(c, "cancel")
Commits(c) == Entries(c, "commit") \ Settled(c)
FloorPassed(c, o) ==
    \/ \E q \in Settled(c) : ~Info[q].sealed /\ Info[q].account = Info[o].account /\ Info[q].seq >= Info[o].seq
    \/ \E f \in Entries(c, "floor") : f.account = Info[o].account /\ f.seq >= Info[o].seq

\* _round_dead, also what accumulate asks of a round.
RoundDead(c, r) ==
    \/ r.book # Book(c)
    \/ \E o \in ToSet(r.orders) : IF Info[o].sealed THEN o \notin Commits(c) ELSE FloorPassed(c, o)

FinalChain == SubSeq(chain, 1, final)

Extend(kind, x) ==
    /\ chain' = Append(chain, [k \in {kind} |-> x])
    /\ UNCHANGED <<final, relayed, reorgs, queueVars, lockVars, inflight, zombies, gate, faults>>

Land(r) == r \in relayed /\ ~RoundDead(chain, r) /\ Extend("round", r)

\* A sealed order's commit; a remainder's needs the credit its round minted.
CommitLands(o) ==
    /\ o \in DOMAIN posted /\ Info[o].sealed
    /\ o \notin Entries(chain, "commit")
    /\ \A p \in DOMAIN Remainder : Remainder[p] = o => p \in Settled(chain)
    /\ Extend("commit", o)

\* Another market's round raises an account's floor, an owner cancels on chain.
OtherMarket(f) == f \notin Entries(chain, "floor") /\ Extend("floor", f)
CancelLands(o) == o \in Book(chain) /\ Extend("cancel", o)

FinalityAdvances ==
    /\ final < Len(chain)
    /\ final' = final + 1
    /\ UNCHANGED <<chain, relayed, reorgs, queueVars, lockVars, inflight, zombies, gate, faults>>

\* The best chain loses to a fork that shares its finalized part.
Reorg ==
    /\ reorgs < MaxReorgs /\ reorgs' = reorgs + 1
    /\ faults < MaxFaults /\ faults' = faults + 1
    /\ \E n \in final..(Len(chain) - 1) : chain' = SubSeq(chain, 1, n)
    /\ UNCHANGED <<final, relayed, queueVars, lockVars, inflight, zombies, gate>>

\* No guarantor holds the payload any more.
PayloadLost(r) ==
    /\ r \in relayed
    /\ faults < MaxFaults /\ faults' = faults + 1
    /\ relayed' = relayed \ {r}
    /\ UNCHANGED <<chain, final, reorgs, queueVars, lockVars, inflight, zombies, gate>>

-----------------------------------------------------------------------------
Keys(rec) == ToSet(rec.round.orders)
Records == ToSet(inflight) \cup ToSet(zombies)
Record(r) == [round |-> r, ok |-> FALSE, dead |-> FALSE, claimed |-> [o \in {} |-> r]]

\* Orders of a round that no other landed round holds.
OwnKeys(rec) == Keys(rec) \ DOMAIN rec.claimed
Own(rec) == SelectSeq(rec.round.orders, LAMBDA o : o \notin DOMAIN rec.claimed)
Without(s, keys) == SelectSeq(s, LAMBDA o : o \notin keys)
Report(keys, outcome) ==
    [o \in Orders |-> IF o \in keys THEN Append(receipts[o], outcome) ELSE receipts[o]]

\* Bug: the hold, which is 0 while finality advances, is enough then too.
ConfirmedByHold(rec) == Landed(chain, rec.round)

\* _confirmed, for a round that is still marked landed since an earlier sweep:
\* its marker is in the finalized state, or the hold has run out.  Under a hold
\* it may as well not have, and a backend that cannot read the finalized state
\* (jamnp) waits for it in any case.
Final(rec) == Landed(FinalChain, rec.round)
Confirmed(rec) == Final(rec) \/ SettleHold
Unconfirmed(rec) == ~Final(rec) \/ SettleHold

\* _rival_landed: two rounds that share an order both read as landed.
RivalLanded(rec) ==
    \E other \in Records : /\ other # rec
                           /\ Keys(other) \cap Keys(rec) # {}
                           /\ Landed(chain, other.round)

Carried(s) == [o \in ToSet(s) |-> FALSE]

\* _finalize_round: receipts, and the sealed remainders carried on: re-sealed
\* and queued, or kept for a retry when the re-seal could not be posted (it may
\* have been all the same).
FinalizeRound(rec) ==
    LET parts == SelectSeq(Own(rec), LAMBDA o : o \in DOMAIN Remainder)
        rest == [i \in 1..Len(parts) |-> Remainder[parts[i]]]
        held == IF Final(rec) THEN {} ELSE Keys(rec)
    IN  /\ receipts' = Report(OwnKeys(rec), "settled")
        /\ seen' = [seen EXCEPT !.early = [o \in held \cup DOMAIN @ |-> IF o \in held THEN reorgs ELSE @[o]]]
        /\ \/ /\ pending' = pending \o rest
              /\ posted' = Carried(rest) @@ posted
              /\ UNCHANGED <<retry, faults>>
           \/ /\ rest # <<>> /\ faults < MaxFaults /\ faults' = faults + 1
              /\ retry' = retry \o rest
              /\ posted' \in {posted, Carried(rest) @@ posted}
              /\ UNCHANGED pending

\* _drain_carry_retry, for a re-seal that goes through.
DrainCarryRetry ==
    /\ retry # <<>>
    /\ retry' = Tail(retry)
    /\ posted' = Carried(<<Head(retry)>>) @@ posted
    /\ pending' = Append(pending, Head(retry))
    /\ UNCHANGED <<chainVars, lockVars, receipts, seen, inflight, zombies, gate, faults>>

\* Beyond the cap the oldest unsighted released round is forgotten.
Capped(zs) ==
    IF Len(zs) > ZOMBIE_CAP /\ \E i \in 1..Len(zs) : ~zs[i].ok
    THEN LET i == CHOOSE j \in 1..Len(zs) : ~zs[j].ok /\ \A k \in 1..(j - 1) : zs[k].ok
         IN  RemoveAt(zs, i)
    ELSE zs

\* Bug: also the orders that a landed round holds go back to the mempool.
AbandonAll(rec, timeout) ==
    /\ inflight' = <<>>
    /\ pending' = rec.round.orders \o pending
    /\ zombies' = Capped(Append(zombies, [rec EXCEPT !.ok = FALSE, !.dead = FALSE]))
    /\ gate' = (gate \/ timeout)

\* _abandon: orders back to the front, the round watched as a zombie.
Abandon(rec, timeout) ==
    /\ inflight' = <<>>
    /\ pending' = Own(rec) \o pending
    /\ zombies' = Capped(Append(zombies, [rec EXCEPT !.ok = FALSE, !.dead = FALSE]))
    /\ gate' = (gate \/ timeout)

-----------------------------------------------------------------------------
(* _resolve_zombies, one released round per step.  The list is rewritten   *)
(* when the loop has ended; until then a finalized round is still in it.   *)
Noted(rec, z) ==
    [rec EXCEPT !.claimed = [o \in Keys(rec) \cap Keys(z) |-> z.round] @@ rec.claimed]
Unnoted(rec, z) ==
    [rec EXCEPT !.claimed = [o \in {k \in DOMAIN rec.claimed : rec.claimed[k] # z.round} |->
                                rec.claimed[o]]]
Elsewhere(recs, i, Change(_)) ==
    [j \in 1..Len(recs) |-> IF j = i THEN recs[j] ELSE Change(recs[j])]

\* First sighting: _claim takes the round's orders out of the mempool and notes
\* on every other record that they are held.
ClaimZombie(z) ==
    /\ Landed(chain, z.round) /\ ~z.ok
    /\ zombies' = [Elsewhere(zombies, zi, LAMBDA y : Noted(y, z)) EXCEPT ![zi].ok = TRUE]
    /\ inflight' = Elsewhere(inflight, 0, LAMBDA y : Noted(y, z))
    /\ pending' = Without(pending, Keys(z))
    /\ job' = [job EXCEPT !.claimed = @ \cup Keys(z)]
    /\ zi' = zi + 1
    /\ UNCHANGED <<posted, retry, receipts, seen, faults>>

DropZombie == job' = [job EXCEPT !.done = @ \cup {zi}] /\ zi' = zi + 1 /\ UNCHANGED zombies

\* Bug: when the hold runs out, the marker is not looked at again.
FinalizeUnseen(z) ==
    /\ z.ok
    /\ Confirmed(z) /\ ~RivalLanded(z)
    /\ FinalizeRound(z)
    /\ DropZombie
    /\ UNCHANGED inflight

FinalizeZombie(z) ==
    /\ Landed(chain, z.round) /\ z.ok
    /\ Confirmed(z) /\ ~RivalLanded(z)
    /\ FinalizeRound(z)
    /\ DropZombie
    /\ UNCHANGED inflight

\* Bug: the orders of a landing that a re-org erased are not given back.
UnclaimNothing(z) ==
    /\ ~Landed(chain, z.round) /\ z.ok
    /\ zombies' = [Elsewhere(zombies, zi, LAMBDA y : Unnoted(y, z)) EXCEPT ![zi].ok = FALSE]
    /\ inflight' = Elsewhere(inflight, 0, LAMBDA y : Unnoted(y, z))
    /\ zi' = zi + 1
    /\ UNCHANGED <<posted, pending, retry, receipts, seen, job, faults>>

\* A re-org erased the landing: _unclaim gives the orders back.
UnclaimZombie(z) ==
    LET busy == ToSet(pending) \cup UNION {Keys(y) : y \in ToSet(inflight)}
                \cup UNION {Keys(zombies[i]) : i \in {j \in 1..Len(zombies) : j # zi /\ zombies[j].ok}}
    IN  /\ ~Landed(chain, z.round) /\ z.ok
        /\ zombies' = [Elsewhere(zombies, zi, LAMBDA y : Unnoted(y, z)) EXCEPT ![zi].ok = FALSE]
        /\ inflight' = Elsewhere(inflight, 0, LAMBDA y : Unnoted(y, z))
        /\ pending' = Without(z.round.orders, busy) \o pending
        /\ zi' = zi + 1
        /\ UNCHANGED <<posted, retry, receipts, seen, job, faults>>

\* ZOMBIE_WATCH_SECS outlasts what a guarantor keeps: an unsighted round is
\* forgotten once nobody can land it.
ForgetZombie(z) ==
    /\ ~z.ok /\ z.round \notin relayed /\ ~Landed(chain, z.round)
    /\ DropZombie
    /\ UNCHANGED <<inflight, queueVars, faults>>

KeepZombie(z) ==
    /\ Landed(chain, z.round) => z.ok /\ (Unconfirmed(z) \/ RivalLanded(z))
    /\ ~Landed(chain, z.round) => ~z.ok
    /\ zi' = zi + 1
    /\ UNCHANGED <<zombies, inflight, job, queueVars, faults>>

\* The marker could not be read: the round is looked at again at the next sweep.
SkipZombie ==
    /\ faults < MaxFaults /\ faults' = faults + 1
    /\ zi' = zi + 1
    /\ UNCHANGED <<zombies, inflight, job, queueVars>>

ResolveZombie ==
    /\ at = "zombies" /\ zi <= Len(zombies)
    /\ LET z == zombies[zi]
       IN  \/ ClaimZombie(z) \/ FinalizeZombie(z) \/ UnclaimZombie(z)
           \/ ForgetZombie(z) \/ KeepZombie(z) \/ SkipZombie
    /\ UNCHANGED <<chainVars, at, after, gate>>

ZombiesDone ==
    /\ at = "zombies" /\ zi > Len(zombies)
    /\ zombies' = LET kept == SetToSortSeq((1..Len(zombies)) \ job.done, <)
                  IN  [i \in 1..Len(kept) |-> zombies[kept[i]]]
    /\ job' = [job EXCEPT !.done = {}]
    /\ at' = after /\ zi' = 0 /\ after' = "free"
    /\ UNCHANGED <<chainVars, queueVars, inflight, gate, faults>>

EnterZombies(next, j) == at' = "zombies" /\ zi' = 1 /\ after' = next /\ job' = j

-----------------------------------------------------------------------------
(* The resolver's sweep: released rounds, then the round in flight.        *)
Sweep ==
    /\ at = "free" /\ inflight \o zombies # <<>>
    /\ EnterZombies(IF inflight = <<>> THEN "free" ELSE "dead", NoJob)
    /\ UNCHANGED <<chainVars, queueVars, inflight, zombies, gate, faults>>

Release == at' = "free" /\ zi' = 0 /\ after' = "free" /\ job' = NoJob

\* The preconditions first ...
ReadDead ==
    /\ at = "dead"
    /\ at' = "marker" /\ job' = [job EXCEPT !.why = RoundDead(chain, inflight[1].round)]
    /\ UNCHANGED <<chainVars, queueVars, zi, after, inflight, zombies, gate, faults>>

\* A read of the round in flight fails: the sweep ends.
SweepReadFails ==
    /\ at \in {"dead", "marker"}
    /\ faults < MaxFaults /\ faults' = faults + 1
    /\ Release
    /\ UNCHANGED <<chainVars, queueVars, inflight, zombies, gate>>

FirstSighting(fr) ==
    /\ Landed(chain, fr.round) /\ ~fr.ok
    /\ inflight' = <<[fr EXCEPT !.ok = TRUE, !.dead = FALSE]>>
    /\ UNCHANGED <<queueVars, zombies, gate, faults>>

FinalizeInflight(fr) ==
    /\ Landed(chain, fr.round) /\ fr.ok
    /\ Confirmed(fr) /\ ~RivalLanded(fr)
    /\ FinalizeRound(fr)
    /\ inflight' = <<>>
    /\ UNCHANGED <<zombies, gate>>

SettlementReverted(fr) ==
    /\ ~Landed(chain, fr.round) /\ fr.ok
    /\ inflight' = <<[fr EXCEPT !.ok = FALSE]>>
    /\ UNCHANGED <<queueVars, zombies, gate, faults>>

ReleaseDead(fr) ==
    /\ ~Landed(chain, fr.round) /\ ~fr.ok /\ job.why
    /\ IF fr.dead THEN Abandon(fr, FALSE)
       ELSE inflight' = <<[fr EXCEPT !.dead = TRUE]>> /\ UNCHANGED <<pending, zombies, gate>>
    /\ UNCHANGED <<posted, retry, receipts, seen, faults>>

\* ROUND_GATE_SECS passed: nobody has the payload, or it is just slow.
ReleaseOverdue(fr) ==
    /\ ~Landed(chain, fr.round) /\ ~fr.ok /\ ~job.why
    /\ \/ fr.round \notin relayed /\ UNCHANGED faults
       \/ faults < MaxFaults /\ faults' = faults + 1
    /\ Abandon(fr, TRUE)
    /\ UNCHANGED <<posted, retry, receipts, seen>>

Wait(fr) ==
    /\ Landed(chain, fr.round) => fr.ok /\ (Unconfirmed(fr) \/ RivalLanded(fr))
    /\ ~Landed(chain, fr.round) => ~fr.ok /\ ~job.why
    /\ inflight' = <<[fr EXCEPT !.dead = FALSE]>>
    /\ UNCHANGED <<queueVars, zombies, gate, faults>>

\* ... then the marker.
ResolveInflight ==
    /\ at = "marker"
    /\ LET fr == inflight[1]
       IN  \/ FirstSighting(fr) \/ FinalizeInflight(fr) \/ SettlementReverted(fr)
           \/ ReleaseDead(fr) \/ ReleaseOverdue(fr) \/ Wait(fr)
    /\ Release
    /\ UNCHANGED chainVars

-----------------------------------------------------------------------------
(* A build (_build_round and _assemble_round).                             *)
Build ==
    /\ at = "free" /\ inflight = <<>> /\ ~gate /\ pending # <<>>
    /\ EnterZombies("plan", NoJob)
    /\ UNCHANGED <<chainVars, queueVars, inflight, zombies, gate, faults>>

\* Bug: the cool-down is never lifted.
CoolDownNever == gate /\ UNCHANGED vars

CoolDown ==
    /\ gate /\ gate' = FALSE
    /\ UNCHANGED <<chainVars, queueVars, lockVars, inflight, zombies, faults>>

\* Bug: each account's newest orders come first.
DealtNewestFirst(s) ==
    LET same(i, j) == ~Info[s[j]].sealed /\ Info[s[j]].account = Info[s[i]].account
        rank(i) == Cardinality({j \in 1..i : same(i, j)})
        newer(i, k) == Cardinality({j \in 1..Len(s) : same(i, j) /\ Info[s[j]].seq >= Info[s[k]].seq})
    IN  [i \in 1..Len(s) |-> IF Info[s[i]].sealed THEN s[i]
            ELSE s[CHOOSE k \in 1..Len(s) : same(i, k) /\ newer(i, k) = rank(i)]]

\* _cap_batch deals each account's public orders, oldest first, into the queue
\* positions they hold.
Dealt(s) ==
    LET same(i, j) == ~Info[s[j]].sealed /\ Info[s[j]].account = Info[s[i]].account
        rank(i) == Cardinality({j \in 1..i : same(i, j)})
        older(i, k) == Cardinality({j \in 1..Len(s) : same(i, j) /\ Info[s[j]].seq <= Info[s[k]].seq})
    IN  [i \in 1..Len(s) |-> IF Info[s[i]].sealed THEN s[i]
            ELSE s[CHOOSE k \in 1..Len(s) : same(i, k) /\ older(i, k) = rank(i)]]

IsSealed(o) == Info[o].sealed
IsPublic(o) == ~Info[o].sealed

\* _sealed_ready_predicate: the commit is on the best chain, and final where the
\* finalized state is read (a commit first seen low enough, or any, where not).
SealedReady(o) == o \in Commits(chain) /\ (o \in Commits(FinalChain) \/ SettleHold)

\* Which ready sealed orders cross is up to prices; the batch is a prefix of
\* the public orders and those, and leaves the mempool.
Plan ==
    /\ at = "plan"
    /\ \E crossing \in SUBSET {o \in ToSet(pending) : SealedReady(o)} :
          LET cands == SelectSeq(pending, LAMBDA o : IsPublic(o) \/ o \in crossing)
              n == IF Len(cands) < MAX_ROUND_ORDERS THEN Len(cands) ELSE MAX_ROUND_ORDERS
              batch == SubSeq(Dealt(cands), 1, n)
          IN  /\ crossing \subseteq ToSet(batch)
              /\ pending' = Without(pending, ToSet(batch))
              /\ job' = [NoJob EXCEPT !.book = Book(chain), !.taken = batch,
                            !.sealed = SelectSeq(batch, IsSealed), !.public = SelectSeq(batch, IsPublic)]
    /\ at' = "floors"
    /\ UNCHANGED <<chainVars, posted, retry, receipts, seen, zi, after, inflight, zombies, gate, faults>>

\* _seq_sanitize, then the released rounds once more.
ReadFloors ==
    LET dead == {o \in ToSet(job.public) : FloorPassed(chain, o)}
        kept == SetToSortSeq(ToSet(job.public) \ dead,
                             LAMBDA p, q : IF Info[p].account = Info[q].account
                                           THEN Info[p].seq < Info[q].seq
                                           ELSE Info[p].account < Info[q].account)
    IN  /\ at = "floors"
        /\ EnterZombies("assemble", [job EXCEPT !.dead = dead, !.public = kept])
        /\ UNCHANGED <<chainVars, queueVars, inflight, zombies, gate, faults>>

\* Unsettleable orders end as rejected, sealed ones that lost their counterparty
\* go back, the rest is registered in flight.
Assemble ==
    LET dead == job.dead \ job.claimed
        public == Without(job.public, job.claimed)
        hidden == Without(job.sealed, job.claimed)
        shrunk == Len(hidden \o public) < Len(job.taken)
    IN  /\ at = "assemble"
        /\ receipts' = Report(dead, "rejected")
        /\ \E back \in IF shrunk THEN SUBSET ToSet(hidden) ELSE {{}} :
              LET orders == Without(hidden, back) \o public
              IN  /\ pending' = SelectSeq(hidden, LAMBDA o : o \in back) \o pending
                  /\ IF orders = <<>> THEN Release /\ UNCHANGED inflight
                     ELSE /\ inflight' = <<Record([orders |-> orders, book |-> job.book])>>
                          /\ at' = "submit" /\ UNCHANGED <<zi, after, job>>
        /\ UNCHANGED <<chainVars, posted, retry, seen, zombies, gate, faults>>

\* _requeue_unsent: what the build still owns goes back to the front.
Requeue(ended) ==
    LET held == UNION {Keys(z) : z \in {y \in ToSet(zombies) : y.ok}}
    IN  pending' = Without(job.taken, ended \cup held \cup ToSet(pending)) \o pending

\* _rival_landed's read of another round's marker fails: the exception leaves
\* _resolve_zombies before the list is rewritten, and ends the sweep or the build.
ZombieReadFails ==
    /\ at = "zombies" /\ zi <= Len(zombies)
    /\ LET z == zombies[zi]
       IN  /\ Landed(chain, z.round) /\ z.ok /\ Confirmed(z)
           /\ \E other \in Records \ {z} : Keys(other) \cap Keys(z) # {}
    /\ faults < MaxFaults /\ faults' = faults + 1
    /\ IF after = "assemble" THEN Requeue({}) ELSE UNCHANGED pending
    /\ Release
    /\ seen' = [seen EXCEPT !.cuts = IF job.done = {} THEN @ ELSE @ + 1]
    /\ UNCHANGED <<chainVars, posted, retry, receipts, inflight, zombies, gate>>

\* A chain read fails before the round is registered, or the committee does.
BuildFails ==
    /\ faults < MaxFaults /\ faults' = faults + 1
    /\ \/ at = "floors" /\ Requeue({}) /\ UNCHANGED <<receipts, gate>>
       \/ /\ at = "assemble" /\ job.sealed # <<>>
          /\ receipts' = Report(job.dead \ job.claimed, "rejected")
          /\ Requeue(job.dead)
          /\ gate' = TRUE
    /\ Release
    /\ UNCHANGED <<chainVars, posted, retry, seen, inflight, zombies>>

\* The round is on its way, or may be: one record per round id.
Submit ==
    LET r == inflight[1].round
    IN  /\ at = "submit"
        /\ \/ relayed' = relayed \cup {r} /\ UNCHANGED faults
           \/ faults < MaxFaults /\ faults' = faults + 1 /\ UNCHANGED relayed
        /\ zombies' = SelectSeq(zombies, LAMBDA z : z.round # r \/ z.ok)
        /\ Release
        /\ UNCHANGED <<chain, final, reorgs, queueVars, inflight, gate>>

\* ChainBusy: the payload never left.
SubmitBusy ==
    /\ at = "submit"
    /\ faults < MaxFaults /\ faults' = faults + 1
    /\ pending' = inflight[1].round.orders \o pending
    /\ inflight' = <<>> /\ gate' = TRUE
    /\ Release
    /\ UNCHANGED <<chainVars, posted, retry, receipts, seen, zombies>>

-----------------------------------------------------------------------------
\* api_order: a public order must beat its account's floor.
Place(o) ==
    /\ o \notin DOMAIN posted /\ \A p \in DOMAIN Remainder : Remainder[p] # o
    /\ IsPublic(o) => ~FloorPassed(chain, o)
    /\ posted' = (o :> \E q \in DOMAIN posted : /\ IsPublic(o) /\ IsPublic(q)
                                               /\ Info[q].account = Info[o].account
                                               /\ Info[q].seq > Info[o].seq) @@ posted
    /\ pending' = Append(pending, o)
    /\ UNCHANGED <<chainVars, lockVars, retry, receipts, seen, inflight, zombies, gate, faults>>

\* api_cancel_pending: refused while a released round with it may still settle.
CancelPending(o) ==
    /\ at = "free" /\ o \in Cancels /\ o \in ToSet(pending)
    /\ \A z \in ToSet(zombies) : o \in Keys(z) => ~z.ok /\ RoundDead(chain, z.round)
    /\ pending' = Without(pending, {o})
    /\ receipts' = Report({o}, "cancelled")
    /\ UNCHANGED <<chainVars, lockVars, posted, retry, seen, inflight, zombies, gate, faults>>

ChainStep ==
    \/ \E r \in relayed : Land(r) \/ PayloadLost(r)
    \/ \E o \in Orders : CommitLands(o)
    \/ \E o \in Cancels : CancelLands(o)
    \/ \E f \in Foreign : OtherMarket(f)
    \/ FinalityAdvances
    \/ Reorg

SweepStep == Sweep \/ ReadDead \/ ResolveInflight \/ SweepReadFails
BuildStep == Build \/ Plan \/ ReadFloors \/ Assemble \/ BuildFails \/ Submit \/ SubmitBusy
ZombieStep == ResolveZombie \/ ZombiesDone \/ ZombieReadFails
TraderStep == \E o \in Orders : Place(o) \/ CancelPending(o)

Next == ChainStep \/ SweepStep \/ BuildStep \/ ZombieStep \/ TraderStep \/ DrainCarryRetry \/ CoolDown

Spec == Init /\ [][Next]_vars

\* The chain includes a payload that stays acceptable and finality advances; the
\* resolver and the auction loop each keep getting the market's lock, and finish
\* what they do under it; a timer that runs does run out.
Fairness ==
    /\ WF_vars(\E r \in relayed : Land(r)) /\ WF_vars(FinalityAdvances)
    /\ SF_vars(Sweep) /\ SF_vars(Build) /\ WF_vars(at # "free" /\ (SweepStep \/ BuildStep \/ ZombieStep))
    /\ SF_vars(ResolveInflight /\ pending' # pending) /\ WF_vars(CoolDown)

LiveSpec == Spec /\ Fairness

-----------------------------------------------------------------------------
Ended(o) == receipts[o] # <<>>
ReportedSettled(o) == "settled" \in ToSet(receipts[o])
Taken == IF at \in {"floors", "assemble"} \/ after = "assemble" THEN ToSet(job.taken) \ job.claimed ELSE {}

\* Orders with a round: the one in flight, unless a landed round claimed them,
\* and the released ones that were seen landing.
Riding == UNION {OwnKeys(fr) : fr \in ToSet(inflight)}
          \cup UNION {Keys(z) : z \in {y \in ToSet(zombies) : y.ok}}

\* The orders a trader placed, or a settled round left to carry on, that have no
\* receipt and are not in the mempool, nor in the build's hands, nor queued for a
\* re-seal, nor riding a round that is to report them or give them back.
Lost == {o \in DOMAIN posted \cup {Remainder[p] : p \in {q \in DOMAIN Remainder : ReportedSettled(q)}} :
            ~Ended(o) /\ o \notin ToSet(pending) \cup ToSet(retry) \cup Taken \cup Riding}

\* A round with o was finalized because its landing had held, and a re-org has
\* come since: it may have gone deeper than the hold.
Undone(o) == o \in DOMAIN seen.early /\ seen.early[o] < reorgs

(***************************************************************************)
(* "A round that won't settle re-queues its orders (nothing is lost)": an  *)
(* order that the builder has lost sight of has settled, or had until a    *)
(* re-org went deeper than the settle hold.                                *)
(***************************************************************************)
NothingLost == \A o \in Lost : o \in Settled(chain) \/ Undone(o)

(***************************************************************************)
(* A released round that is marked landed "is finalized (receipts,         *)
(* carries)": its orders are reported, by it or by the round that holds    *)
(* them, and none is settled without a receipt.                            *)
(***************************************************************************)
LandedIsReported == Lost = {}

(***************************************************************************)
(* An order is queued once and in one place: never twice in the mempool,   *)
(* nor there while a build, the round in flight or a released round that   *)
(* landed still has it.                                                    *)
(***************************************************************************)
OneHome ==
    /\ IsInjective(pending)
    /\ ToSet(pending) \cap (Taken \cup Riding) = {}

(***************************************************************************)
(* "Never receipts an order twice": over all outcomes, an order that was   *)
(* reported rejected or cancelled is not reported settled later.           *)
(***************************************************************************)
ReceiptedOnce == \A o \in Orders : Len(receipts[o]) <= 1

(***************************************************************************)
(* Without a settle hold the builder implements OrderLifecycle: whatever   *)
(* is refused, lost, built again or lands late, an order is reported once, *)
(* as settled only when its settlement is final, and one that was reported *)
(* rejected does not settle afterwards.                                    *)
(***************************************************************************)
Lifecycle ==
    INSTANCE OrderLifecycle WITH
        Items <- Orders, forGood <- Settled(FinalChain),
        stage <- [o \in Orders |->
                    IF receipts[o] # <<>> THEN IF Len(receipts[o]) = 1 THEN receipts[o][1] ELSE "twice"
                    ELSE IF o \in DOMAIN posted \cup ToSet(retry) THEN "open" ELSE "new"]
KeepsPromise == Lifecycle!Spec

\* Entry i of chain c is a round that holds order o.
Holds(c, i, o) == "round" \in DOMAIN c[i] /\ o \in ToSet(c[i]["round"].orders)

\* An order reported settled is settled where no re-org reaches; one that was
\* reported because its landing had held was on the best chain then, and is
\* unless a re-org has come since.
SettledStands ==
    \A o \in Orders : ReportedSettled(o) =>
        \/ o \in Settled(FinalChain)
        \/ o \in DOMAIN seen.early /\ o \in Settled(chain)
        \/ Undone(o)

\* Without a hold, all that is reported settled is final.
SettledIsFinal == ~SettleHold => \A o \in Orders : ReportedSettled(o) => o \in Settled(FinalChain)

TimesSettled(o) == Len(SelectSeq(receipts[o], LAMBDA x : x = "settled"))

\* What _rival_landed relies on: two rounds that share an order cannot both be
\* on the chain.
SettlesOnce ==
    \A o \in Orders : \A i, j \in 1..Len(chain) : Holds(chain, i, o) /\ Holds(chain, j, o) => i = j

(***************************************************************************)
(* Fills are real: an order is reported settled only when a round with it  *)
(* is on the chain, for good or, under a settle hold, until a re-org goes  *)
(* deeper than the hold; no other round settles it too.  It is reported    *)
(* settled once, and again only after such a re-org, or when a failed read *)
(* has cut short a pass over the released rounds that finalized one.       *)
(***************************************************************************)
FillsAreReal ==
    /\ \A o \in Orders : TimesSettled(o) <= 1 + seen.cuts + IF o \in DOMAIN seen.early THEN reorgs ELSE 0
    /\ SettledStands
    /\ SettledIsFinal
    /\ SettlesOnce

\* The round in flight is tracked until it is finalized, released or was never
\* sent: no step puts another in its place.
NeverOvertaken == [][inflight = <<>> \/ inflight' = <<>> \/ inflight'[1].round = inflight[1].round]_vars

(***************************************************************************)
(* No order is stranded behind a newer one of its account: unless another  *)
(* market's round raised its floor, or it was placed after a newer one, an *)
(* order is never rejected as superseded.                                  *)
(***************************************************************************)
NoneStranded ==
    \A o \in Orders : "rejected" \in ToSet(receipts[o]) =>
        \/ \E f \in Entries(chain, "floor") : f.account = Info[o].account /\ f.seq >= Info[o].seq
        \/ posted[o]

(***************************************************************************)
(* Every public order that a trader places is reported in the end: refused *)
(* submits, lost payloads, failed builds and timed-out rounds only delay   *)
(* it.  (A sealed order may wait for a counterparty for ever.)             *)
(***************************************************************************)
EveryOrderEnds == \A o \in Orders : IsPublic(o) => (o \in DOMAIN posted ~> Ended(o))
=============================================================================
