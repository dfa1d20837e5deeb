# Verification of jamswap

jamswap is a batch-auction exchange that runs as a JAM service. Traders sign
orders; an off-chain builder collects them and submits *rounds*; the service's
`refine` clears a round and its `accumulate` checks and settles it. This
directory holds TLA+ models of that system, the TLC configurations that check
them on small instances, and TLAPS proofs of the parts that hold for every
instance. `PROJECT.json` maps each definition to the lines it models.

## 1. Inventory

| Component (source) | State | Operations | Interacts with |
|---|---|---|---|
| Accounts and money (`service/src/lib.rs`) | key registry, nonces, balances, custody, deposit windows | REGISTER, DEPOSIT, WITHDRAW, TREASURY, `apply_settlement` | settled rounds move balances |
| Rounds (`service/src/lib.rs`, `floors.rs`) | order floors, resting book, last price, volume | `refine`; SMATCH, REVEAL, ENC_ROUND, LIST, CANCEL | clearing, ledger, hidden sets, markers |
| Hidden-order sets (`service/src/lib.rs`, `crates/setops`, `carry.rs`) | commit set, age index, encrypted set, commit floors, carry credits | COMMIT, ENC_COMMIT, CARRY_COMMIT, CARRY_ENC_COMMIT, consumption by rounds, sweep | rounds consume and mint credits |
| Match engine (`crates/match-engine/src/lib.rs`, `wire.rs`; `offchain/clearing.py`) | none | `clear`, `ration`, `resting`, `settle_deltas` | called by refine and by the builder |
| Deposit rule (`deposit.rs`) | floor and window per account | `admit` | DEPOSIT |
| Landed-round markers (`round_id.rs`) | marker per round id, queue | `mark_landed` (file and collect) | accepted rounds write, the builder reads |
| Round planner (`offchain/round.py`, `server.py`) | none | `plan_round`, `plan_batch`, `_cap_batch` | called by a build |
| Round lifecycle (`offchain/server.py`) | mempool, round in flight, released rounds ("zombies"), carry retries, cool-down gate | place, cancel, build, submit, resolve, release, finalize | reads the chain, submits payloads |
| Cancel watch and expiry (`server.py`) | watched cancels | `api_cancel`, `_resolve_cancels`, `_may_fill`, `expired_pairs` | races rounds on chain |
| Registration retry (`server.py`) | pending registrations | `api_register`, `_resolve_registrations_once` | REGISTER |
| Reserve keeper and treasury (`server.py`, `treasury.py`) | the top-up in flight | start-up seed, keeper tick, API top-up, sweep | DEPOSIT, TREASURY |
| Finality tracking (`server.py`) | cached finalized head, when it last moved | `_read_finality`, `_track_finality`, `settle_hold_secs`, `_confirmed` | decides when a landing is receipted |
| Receipts, telemetry, pending ledger (`server.py`, `order_telemetry.py`, `metrics.py`) | trade and receipt files, order events and gauges, relayed submissions | record, refresh, log, track, refuse, watch | fed by rounds and requests |
| Chain access (`chain.py`, `jip2.py`) | one WebSocket, request ids, next core | `submit`, `read` | every thread shares it |
| Deployment and set-up (`deploy.py`, `dex_setup.py`) | state file | create, resend, provide, wait; list, register, fund | Bootstrap service, work packages |
| Fuzzer (`dex_fuzz.py`) | the batch of a level | place, wait, verify | judges the exchange from outside |
| Net watch, parity, soak verdict (`netwatch.py`, `nets/onehead.py`, `soak_verdict.py`) | samples, episodes, finalized blocks seen | sample, judge, alarm, probe | reads every node |
| Committee, decryption, codecs, dashboards, UI, tool chain | - | - | not modelled, see section 8 |

Interactions. The builder and the service share no memory: the builder reads
storage (book, floors, sets, markers) over RPC and sends work packages that are
delivered late, again, or not at all. Refine sees only the payload; accumulate
compares what refine used (the book, the keys, the floors, the consumed entries)
with the state as it is by then. Inside the builder, HTTP handlers, the auction
loop and the resolver share the mempool and the round records under one lock per
market, and each holder reads the chain several times while the chain moves.

What is hard in this code, and what correct means:

* *Delivery.* Any signed operation can arrive again. A deposit must be credited
  once although it is unsigned; a signature must introduce its order once; a
  commit must not be replayed; a re-seal must not be doubled.
* *Stale books.* A round is cleared on the book the builder read. An order that
  was filled or cancelled since must not come back.
* *Released rounds.* A round given up on timeout can land later, after its orders
  were batched again. Every order must be somewhere, in one place, reported once,
  and reported as filled only when that is final.
* *Re-orgs.* A landing that was seen can vanish, between two reads of one sweep.
* *Caps.* The batch is cut by count, gas and sealed orders; the cut must neither
  reveal an order without counterparty, nor strand an account's older order, nor
  keep the queue from moving.
* *Rounding and clamps.* Buyers round up, sellers down, debits stop at zero.
* *Restart.* The builder keeps its state in memory and numbers orders afresh; its
  receipt files survive, and so does what deployment and set-up left half done.
* *Retries.* A submission whose outcome is unknown must be neither doubled nor
  forgotten: top-ups, registrations, creates, set-up packages, and the connection
  itself each have their own rule.
* *Instruments.* Gauges, verdicts, alarms and the fuzzer's oracle look at a system
  that moves while they look. They must neither cry wolf nor miss what happened.

`PROJECT.json` lists these as hazards, each at its line.

## 2. Modules

| Module | Models | State / actions |
|---|---|---|
| `DepositWindow` | `deposit.rs` | `dn` is the stored record; `Deposit`, `Refuse` are the two outcomes of `admit` |
| `LandedMarkers` | `round_id.rs` | `marks` and `rlq` are the stored keys `rl` and `rlq`; `MarkLanded` is `mark_landed`, file and collect |
| `MatchEngine` | `clear`, `resting`, `encode_settlement`, `settle_deltas` | operators only, folds in place of the loops |
| `OrderBook` | repeated rounds on one book | `Round`, `Leave`; history of what was placed and filled |
| `SealedSets` | the hidden-order sets | one action per work item: `Commit`, `EncCommit`, `CarryCommit`, `CarryEncCommit`, `Reveal`, `EncRound` |
| `Ledger` | accounts and money | `Register`, `Deposit`, `Withdraw`, `Treasury`, `ApplySettlement`; takes the deposit rule from `DepositWindow` by INSTANCE |
| `Rounds` | refine and the round arms of accumulate, with the builder as far as it decides what a payload holds | `TakeOrder`, `Submit`, `Round`, `Commit`, `CarryCommit`, `List`, `BuilderRestart` |
| `Service` | `Ledger` and `Rounds` composed | a settled round moves the ledger in the same step |
| `RoundPlan` | the planner | the queue grows by one order a step; the properties are about the plan of each queue |
| `RoundBuilder` | the round lifecycle and a chain that may re-org | every chain read of a build or a sweep is a step |
| `OrderLifecycle` | abstract: what the builder promises the owner of an order | `stage` is what the owner was told, `forGood` what settled for good; `RoundBuilder` implements it (`KeepsPromise`) |
| `Relay` | `submit` as its callers see it | outcomes taken, busy, unknown, and what each caller does next |
| `CancelWatch` | how a resting order ends | cancel, fill and prune race on chain; one action per read of `_resolve_cancels` |
| `Registration` | registration retry | one action per key of a sweep; deadlines are `due` and `old` |
| `ReserveKeeper` | the treasury's reserve | start-up, keeper thread, API and sweeps, over `DepositWindow` by INSTANCE |
| `PendingLedger` | the ledger of relayed submissions | `TrackReads` and `TrackFiles` are two steps: the counter is not locked |
| `Finality` | the finality rule | a look is one step, the resolver's judgement three |
| `Receipts` | trade tape and fill receipts | tape and receipts are files that a restart reads back, or loses; a chain that re-orgs |
| `OrderTelemetry` | live gauges and the replayed verdict | a report is two steps: the record changes under `_lock`, its log line is written later (`WriteLine`); HTTP thread, builder and cancel watch report one order |
| `ChainAccess` | threads on one connection, and a node | `CallStarts`, `CallSends`, `CallReceives`, `CallFails`; the node serves what it received |
| `Deploy` | deployment at run time | runs, creates, polls, deaths; the chain lands creates and integrates code |
| `DexSetup` | the starting state made with work items | packages of up to `MAX_ITEMS`, over `DepositWindow` by INSTANCE |
| `Fuzz` | a level of the fuzzer against the match engine | `Place`, `TakeRound`, `LoseRound`, `LandRound`, `Poll`, `TimeUp`; `Verify` is the oracle |
| `NetWatch` | samples of all nodes, judged three ways | the exporter (`live`, which forgets its oldest slots and judges a window of samples), the verdict (`Passes`), onehead (`OneHeadThroughout`) |
| `StateParity` | the parity probe | reads of nodes interleave with moving heads |
| `ChainSlots` | saturating slot arithmetic | |
| `Collections` | `filter` over a list | `Pick` keeps the positions for which a test holds |
| `CollectionLemmas`, `ClearingLemmas` | lemmas | sums, parts of lists, Min and Max; what `Clear`, `Resting` and settling compute |
| `OrderBookProofs` | proofs | `OrderBook` |
| `StoresProofs` | proofs | `DepositWindow`, `LandedMarkers`, `SealedSets` |
| `ServiceProofs` | proofs | `Service` |
| `RoundBuilderProofs` | proofs | `RoundBuilder` |
| `ChainViewProofs` | proofs | `ChainAccess`, `Finality`, `Receipts`, `CancelWatch`, `ReserveKeeper` |
| `ToolsProofs` | proofs | `Deploy`, `OrderTelemetry`, `StateParity`, `NetWatch` |
| `MC*` | the instances TLC checks | |

`RoundBuilder` follows the code's control step by step. `at` is where the holder
of the market's lock is: `zombies` (the loop of `_resolve_zombies`, one released
round per step), `dead` and `marker` (the two reads of `_resolve_inflight`, in the
code's order), `plan`, `floors`, `assemble`, `submit` (`_build_round` and
`_assemble_round`). Between any two of them the chain may include a payload,
finalize, or re-org. Timers are not counted: the settle hold, DEAD_CONFIRM_SECS,
ROUND_GATE_SECS and the cool-down may run out at any step, so no property depends
on their values. When a landing is confirmed has two modes (`SettleHold`). FALSE is
a back-end that reads the finalized state, while finality advances: a landing is
receipted when it is final. TRUE is everything else (`jamnp`, stalled finality, an
explicit SETTLE_HOLD_SECS): a landing may be receipted because it was on the best
chain for as long as the hold, which a re-org may exceed; `seen.early` remembers
which orders were. Lost payloads, failing reads and builds, and re-orgs draw on one
budget, `MaxFaults`. A read that fails ends the holder's turn where the code lets the
exception out, or skips one released round where the loop catches it
(`SkipZombie`, `SweepReadFails`).

Definitions whose name starts like a mapped one and whose comment starts with
"Bug:" are deliberately wrong variants. Each property is known to fail when the
mapped definition is replaced by one of them (`mutants` in `PROJECT.json`).

## 3. Runs

Times are for two workers, with coverage. Components that do not interact share a
run: the MC module chooses at the start which part a behaviour is about, and the
other parts stay as they began.

| Run | States, time | What it shows |
|---|---|---|
| `rules` | 739 k, 3 min | *Deposits*: two accounts, six nonces, window two, every delivery order with copies. *Markers*: TTL 2, two reaped and two accepted per block, backlogs larger than a reaping, ids filed again, the saturating last slot. *Sets*: two accounts, four signed commits (one commitment signed twice), three re-seals, TTL 2, rounds of one or two reveals. *Book*: four orders, three prices, quantities 1 and 3, rounds of up to two; price against the reference choice over *all* prices, priority whatever the listing order, conservation, and over rounds the book is exactly what is left, uncrossed. *Plan*: all queues of up to four orders on two prices; order count, gas and sealed cap each bind. *Fuzz*: two pairs of two traders in any order, cut into any rounds, lost and rebuilt: the oracle never halts on a correct exchange, and a clean level left nothing anywhere. |
| `service` | 335 k, 3 min | Four worlds, below. |
| `builder_settles` | 699 k, 1.5 min | A landing is receipted when final. Two public orders of one account, a sealed order with a remainder, another market's floor, one fault: `RoundBuilder` implements `OrderLifecycle`, and no order is stranded behind a newer one. |
| `builder_reorg` | 2.6 M, 2.5 min | A landing is receipted because it held. The public pair with three faults, one of them a re-org, a cancel and room for three released rounds: nothing lost, nothing doubled, and no fill without a landing. |
| `builder_live` | 125 k, 1.5 min | A landing is receipted when final. The same pair with two faults, one a re-org, and room for one released round, under fairness: every public order is reported. |
| `loops` | 157 k, 2.5 min | Reserve keeper, cancel watch, registrations, pending ledger: safety, and that each comes to its end under fairness. |
| `periphery` | 1.4 M, 3 min | Telemetry, receipts, chain access, deployment, set-up, net watch, parity, finality; the head of `MCPeriphery` says what each part holds. |

The five runs that expect a violation are in section 4.

The worlds of `service`: *public* (maker, limit taker, market taker, an order
signed by the wrong key, a cancel); *sealed* (a sealed order that fills in part,
is re-sealed and revealed again, with two public buys, and one copy of a re-seal that
comes after its original was consumed); *restart* (the builder
restarts once); *money* (two conflicting deposits under one nonce, withdrawals
incl. one by the wrong key, treasury sweeps, a seller who owns less than it
sells). Every payload a builder could assemble is tried, also with prices other
than the signed ones and with prunes, at most two per behaviour, each of which
may land at any time and any number of times.

Why the bounds are enough. Each hazard needs few participants: an over-fill or a
resurrection takes one stale payload and one that overtakes it; a stranded order
takes two orders of an account; a double receipt takes a released round and its
successor, which share an order; a floor above zero takes WINDOW + 1 deposits.
A cancel race takes one order and a round that lands between two reads; a doubled
submission one broken connection; a second service one late create; a false alarm
two nodes and a fork that leaves a slot out; a fork that is not seen takes a third
node that trails both. The bounds let each of these happen,
which the mutants confirm. Bounds: `MaxNet`, `MaxBatch`, `MaxQueue`, `MaxFaults`,
`MaxReorgs`, `PerSlot`, `MaxMoves`, `MaxOthers`, `MaxRounds`, `MaxRequests`,
`MaxClock`, `MaxEvents`, `MaxStarts`, `MaxBlocks`, `MaxCalls`, `MaxWire`, `MaxSlot`,
`MaxSends`, `MaxRuns`, `MaxSetups`, `MaxSamples`, `MaxHeight`, `MaxTime`, `Pairs`,
the exporter's `KEEP` 1, `DROP` 2 and `WINDOW` 2 (in the code 4096, 1024 and 8640),
the worlds, and the sets of operations.

`CHECK_DEADLOCK FALSE` stands where the orders, ids or slots of an instance run
out; the program does not stop there.

### Properties that hold only under a stated condition

* What `TradesAsSigned` says of fills, `LimitsHonoured` and `CustodyAccounted` are
  claimed while `Undisturbed`. After a restart ids repeat and the engine charges fills
  to the wrong order (`service_fill_claim`); after a late copy of a re-seal a consumed
  remainder is on chain again, there to be filled twice (`late` counts these copies).
  Both happen in the run; the rest of `TradesAsSigned`, `EffectOnce` and
  `NoResurrection` is claimed through them.
* `EffectOnce` grants a round that only reveals one more acceptance for each late copy
  of a re-seal: that it is accepted only once is not so (`service_replay_claim`).
* `KeepsPromise` is checked without a settle hold, re-orgs and mempool cancels. With a
  cancel it fails (`builder_cancel_claim`), with three faults an order can be reported
  settled twice (section 4), and with a re-org between a build's read of the floors
  and its read of the markers an order can be reported rejected and later settled.
* `FillsAreReal` lets an order be reported settled again once per sweep that a failed
  read cut short after it finalized a round (section 4), and once per re-org
  after a receipt that was given because the landing had held. The fill itself is on
  the chain, final or, under a hold, until a re-org goes deeper than the hold.
* `NothingLost` is about the order: one that is in no queue and no round, and was not
  reported, has settled on the chain, or had until such a re-org. That it was then
  also *reported* is not so with two re-orgs (`builder_receipt_claim`).
* `VerdictAgrees` is about orders no two threads report at the same time (`Quiet`). An
  order that ends before it is reported placed stays on the gauge for ever
  (section 4). The verdict's `cleared` and `missed` are figures of their
  own: it counts every filled order as cleared, one that rested first included, where
  the live tally counts obligations, and it counts stuck orders and cancelled
  obligations as missed. `TalliesAgree` says that the figures differ by exactly these.
* `ReceiptsTrue` counts prints by landing. A process prints a round once; a round that
  is printed, lost to a re-org, and lands again after a restart is printed for both
  landings, since the tape is read back and the volume mark is not.
* `ConflictsAgree` (in `AlarmsAreReal`): the exporter alarms only what the verdict on
  the run finds, and all of it but conflicts at slots it had trimmed from `final_seen`.
* `CancelledNotFilled` takes a spent nonce for the cancel: an owner who signs
  another operation under the same nonce is left out.
* `SplitIsFork` and `ForksNoticed` (in `AlarmsAreReal`) are about nets whose nodes all
  serve JIP-2. The verdict lines the nodes up at the lowest head, so its splits are
  forks of the lowest head (`LowestForks`): heads that fork above a node that trails
  by no more than MAX_LAG count as one head. onehead, which walks from the highest,
  sees them.
* `EpisodesMeasured` (in `AlarmsAreReal`) leaves out episodes that begin with every node
  down (section 4).
* `KeeperNeverHoards` counts what others send beside the keeper (section 4).
* `LiveMarkerKept` leaves out the very last u32 slot, where the deadline saturates.

## 4. Disagreements found

1. `service_fill_claim`. `resting` relies on "filled <= qty by construction". Ids
   restart at 1000 with the builder process, a resting order and a new one can
   share an id, and each is charged both fills. The subtraction then wraps.
2. `builder_cancel_claim`. A cancel is refused while a released round may settle,
   but a released round that has just landed and was not sighted looks dead: the
   order is receipted cancelled, then settled.
3. `builder_receipt_claim`. Two released rounds with a common order, two re-orgs: each
   round is noted on the other as the order's holder. The one that lands for good skips
   the order, the other one's `_unclaim` takes it for busy: settled, and never reported.
4. `service_replay_claim`. "Can be accepted only once (its order floors rise, its
   commits are consumed)" (round_id.rs:25-26), against the residual carry.rs:24-27
   documents: a copy of a re-seal that lands after its original was consumed re-creates
   the entry when the account holds a credit, and the same payload is accepted again.
   The run's round reveals a remainder that nothing matches: the service takes such a
   round, the shipped planner does not make it.
5. `ledger_refused_claim`. Ids of the pending ledger are read and raised outside
   the lock. Two entries share one, `refused` resolves the wrong one, and the
   refused submission ages into a false settle-timeout.

Seen while modelling, without a run of their own:

* `_rival_landed` reads the chain outside any `try` (server.py:1380). When the read
  fails after an earlier round of the loop was finalized, the list is not rewritten and
  the next sweep finalizes that round again: its orders are receipted settled twice.
  `FillsAreReal` allows for exactly these (`seen.cuts`).
* "measured first-bad to last-bad sample" (netwatch.py:438-439): an episode that begins
  with every node down starts at slot 0, and becomes as long as the chain is high once
  a node answers. `EpisodesMeasured` leaves these episodes out.
* "so the live gauge and the verdict count the same orders" (order_telemetry.py:73-74): an
  order is in the mempool before it is reported placed (server.py:825-828). When it
  ends in between, the end is logged, the record that `placed` then files is never
  closed, and the gauge counts it stale although the verdict has it ended.
  `StuckAgrees` is about orders whose reports did not meet.
* The comment at `cust_key` says balances equal custody "by construction";
  `apply_settlement` clamps debits at zero, so what holds is `CustodyAccounted`.
* `plan_round` says "a revealed order trades"; a crossing revealed order may be
  rationed to nothing.
* `topup_due` is "never above the target (no hoard)". The start-up seed, the API
  and a keeper that a restart made forget its top-up each add their own.
* A cancel that arrives after its order was pruned is receipted cancelled, although
  the expiry took the order off the book.
* Print, re-org, restart, and the round lands again: the tape shows it twice, for
  `_last_cv` starts afresh while the tape comes back from its file.
* A rested order "that later fills still counts as cleared" (order_telemetry.py:25) is
  true of the verdict. The live tally has dropped the order when it rested.
* Another thread's look at finality between the two `_finality_advancing` questions
  of `_confirmed` lets a landing that is not final be receipted with a hold of 0.
* `existing` documents the lowest-numbered service and returns the first found;
  "ready" falls back to the best head when the node does not serve finality, so it
  need not be usable at the lookup anchor.
* The exporter alarms conflicts of hashes only, the verdict counts heights too.
  The verdict compares finalized blocks of one slot, so a split of finality between
  branches without a common slot is missed; onehead finds it.
* onehead: DOWN overrides FORK, so a persistent fork with a node down now and then
  passes as "no fork persisted"; the heads read from a log are remembered across
  re-orgs and can make a false FORK; `on_chain` walks outside the `try`.

## 5. Fairness

`EveryOrderEnds` (run `builder_live`, `Fairness` in `RoundBuilder`):

* the chain includes a payload that stays acceptable, and finality advances: what
  JAM promises, and without which no order can be reported;
* the resolver thread and the auction loop run for ever on a timer and take the
  market's lock in turn. Each may find the lock taken at any one attempt, hence
  strong fairness on entering, and weak fairness for the holder, who finishes;
* a released or overdue round does reach its deadline (`ROUND_GATE_SECS`), and the
  cool-down is lifted.

Nothing is assumed of traders, cancels, re-orgs, lost payloads or failing reads;
their number is bounded in the instance. A sealed order may wait for a
counterparty for ever, so only public orders are claimed to end.

`ReserveRecovers`, `CancelResolves`, `RegistrationEnds`, `TrackedAccounted` (`MCSpec`
in `MCLoops`): the daemon threads run (weak fairness of their next step) and time
passes (a deadline that runs is reached); the chain takes and answers a request now
and then, and accumulates what it took now and then (strong fairness, for either may
fail any number of times in between). Registration needs none of the latter: it ends
by giving up.

## 6. Proofs

All proofs are checked by TLAPS, from the named assumptions on constants in the
modules that declare them (positive sizes and timeouts, well-typed operations,
distinct keys; the ones that are more than a type are named below). The bounds of
the instances (`MaxFaults`, `MaxReorgs`, ...) are constants too, so a theorem holds
for every value of them.

| Theorem | Property | Needs besides itself |
|---|---|---|
| `BookInductive`, `PriceIsAlwaysOptimal`, `BookIsAlwaysLeftover`, `PriorityAlwaysRespected`, `SettlementAlwaysConserves` (`OrderBookProofs`) | `PriceIsOptimal`, `BookIsLeftover`, `PriorityRespected`, `SettlementConserves` | `BookInv`, `RoundInv` |
| `DepositTypeOK`, `DepositCreditedOnce`, `DepositRemembered`, `DepositLostOnlyBeyondWindow` (`StoresProofs`) | `WindowTypeOK`, `CreditedOnce`, `Remembered`, `LostOnlyBeyondWindow` | `WindowIInv`: `Remembered`, `FloorMarksFullWindow`, `FinitelyMany` |
| `MarkersTypeOK`, `MarkersKept`, `MarkersNotOrphaned` (`StoresProofs`) | `MarkerTypeOK`, `LiveMarkerKept`, `NoOrphanMarker` | `MarkersIInv`: `KeptUntilDeadline` |
| `SignedCommitOnce`, `CreditsAlwaysCover` (`StoresProofs`) | `AdmittedOnce` (of `CommitOnce`), `CreditsCoverRemainders` | `SetsIInv`: `FloorHolds`, `Owing` |
| `CageAlwaysInStep`, `HiddenOrdersOnce` (`StoresProofs`) | `CageInStep`, `CommitOnce` | `ListsIInv`: `CarriesKnown`, `CarriedOnce` |
| `MoneyMovesOnce` (`ServiceProofs`) | `MovedOnce` (of `EffectOnce`) | `MoneyIInv`: `DepositsSpent`, `WithdrawalsSpent`, `WindowAboveFloor` |
| `OneAccountPerKey`, `AccountsKeepKeys` (`ServiceProofs`) | `OneHandlePerKey`, `KeysStay` (an action property) | `KeysIInv`: `HandlesInOrder` |
| `SignaturesIntroduceOnce`, `OnlySignedTrade`, `NothingResurrected` (`ServiceProofs`) | `OrderEntersOnce` (of `EffectOnce`), `OnlySignedOrders` (of `TradesAsSigned`), `NoResurrection` (an action property) | `MarketIInv`: `EntersOnce`, `CommitsKnown`, `SignedByOwner` |
| `EffectsHappenOnce` (`ServiceProofs`) | `EffectOnce` | `MoneyIInv`, `MarketIInv`, `AcceptedSpent` |
| `TradesAlwaysAsSigned`, `LimitsAlwaysHonoured` (`ServiceProofs`) | `TradesAsSigned`, `LimitsHonoured` (an action property) | `MarketIInv`, `ProcessIInv`: `IdsUnique`, `IdsKept`, `RestsOnce`, `HiddenOnce`, `WithinSigned` |
| `CustodyAlwaysAccounted` (`ServiceProofs`) | `CustodyAccounted` | `ProcessIInv`, `BooksIInv`: `BooksTypeOK`, `BooksBalance` |
| `SettledForGood`, `RivalsExclude` (`RoundBuilderProofs`) | `SettledStands` and `SettledIsFinal`, `SettlesOnce` (all of `FillsAreReal`) | `FillsIInv`: `ChainOK`, `ReportsOK` |
| `RoundNeverOvertaken` (`RoundBuilderProofs`) | `NeverOvertaken` (an action property) | `LockIInv`: `AtMostOne`, `LockKnows` |
| `FinalityTyped`, `FinalityIsTrusted` (`ChainViewProofs`) | `FinalityTypeOK`, `FinalityTrusted` | `FinalityIInv`: `StampsPast`, `MoveDatedEarly`, `FirstAnswerHolds` |
| `ReceiptsAreTrue` (`ChainViewProofs`) | `ReceiptsTrue` | `ReceiptsIInv`: `BestLanded`, `MarkWasReached` |
| `CancelledWasNotFilled` (`ChainViewProofs`) | `CancelledNotFilled` | `CancelIInv`: `BuiltOnBook`, `FillShows`, `UsedIsGone`, `CheckedIsSafe` |
| `AccessIsFaithful` (`ChainViewProofs`) | `AccessFaithful` | `AccessIInv`: `CallIsJobs`, `OneInFlight`, `PackageAt`, `ReadAt` |
| `ReserveNeverHoarded` (`ChainViewProofs`) | `KeeperNeverHoards` | `ReserveIInv`: `TargetsSeen`, `OneTopup`, `WithinTarget` |
| `DeployGivesOneService` (`ToolsProofs`) | `OneUsableService` | `DeployIInv`: `Numbered`, `OneCreateEach`, `OneChosen`, `OnlyFollowedLands`, `FinishedIsFinal` |
| `LiveFiguresAreTheVerdicts` (`ToolsProofs`) | `VerdictAgrees` | `TelemetryIInv`: `RecordsMatch`, `TalliesMatch` |
| `ParityVerdictsReal` (`ToolsProofs`) | `ParityIsReal` | `ParityIInv`: `ReadAtOne`, `ChosenFirst`, `VerdictStands` |
| `WatchAlarmsReal` (`ToolsProofs`) | `SplitIsFork`, `ConflictsAgree`, `ConflictsReal` (all of `AlarmsAreReal`) | `WatchIInv`: `ConflictsCounted` |

The arguments:

* *Clearing* (any number of orders and prices). The loop over the candidate prices
  ends with a best one (by induction over how many it has seen), and every price at
  all trades no more than some candidate, so the best candidate is best of all.
  Demand only falls and supply only rises with the price; the short side fills in
  full, and the long side's ration is served by price and then by id, so what is
  served before an order is a sum that only grows. Both sides' fills add up to the
  volume; what buyers pay rounded up exceeds what sellers get rounded down by exactly
  the residue. Over rounds, ids in a book stay distinct and an order's remainder is
  what it was placed with less its fills, which is all the four properties need of
  the book.
* *Deposits.* `CreditedOnce` is not inductive: a step credits `n` when the record
  does not know it, so the record must know every credited nonce (`Remembered`).
  That a refusal means WINDOW later credits needs in addition that a floor above
  zero is the mark of a full window. `AdmitRecord` says what `admit` does to one
  record; the step proof applies it. Accounts and nonces may be infinite sets.
* *Markers* (any slot width and number of accepts per block, GC_STEPS at least 2).
  `LiveMarkerKept` is strengthened to the test the code makes, with the saturated
  deadline. `ReapedIsExpiredPrefix`: the loop takes a prefix of expired entries; a
  marker goes only with the entry that carries its own slot, and the entry of a
  live marker is never in that prefix.
* *Sets.* A commit that was admitted is at or below its account's floor. Credits:
  what a round mints, a re-seal spends and a copy spends are counted against the
  same set of remainders, so each action changes both sides by the same number. The
  sets and their age index are lists: how often an entry is in one is the number of
  positions that hold it, and each action changes that number equally in both. A
  re-seal is there once because its commitment is drawn fresh when the remainder is.
* *Money.* A credited deposit stays inadmissible even when its nonce is evicted,
  since eviction raises the floor to it; a paid withdrawal stays below the account's
  nonce, which CANCEL raises too. Rounds move balances and none of this.
* *Trades.* A round that `CheckBindings` accepts raises the floor past every seq it
  introduces (the fold over the payload is a running maximum), so a signature works
  once. Books, commitments and payloads hold only entries of signed orders, and the
  account named is the one registered with the key.
* *Quantities, limits, custody* (while `Undisturbed`). Ids are
  distinct and an order rests in the book or waits hidden, in one place only, with at
  most what was signed less what was filled; so the engine's fills by id are fills of
  signed orders and its limits theirs. Every settlement's deltas add up to zero over
  the holders, and what a clamped debit creates is counted.
* *Payloads.* A payload with orders that was accepted is below its accounts' floors for
  good. One that only reveals needs each entry it consumed on chain again; only a late
  copy puts one back, and `late` counts it (`AcceptedSpent`).
* *Round lifecycle.* That the finalized part of the chain only grows needs the
  finalized head to lie on the best chain. A receipt is given for a landing that is
  final, or is sighted on the best chain in the step that gives it; what a later re-org
  can take back is marked by the number of re-orgs there had been. No round overtakes another because the
  holder of the lock knows which round is in flight at each of its steps.
* *Finality.* What `_fin_track` calls a move is never later than the real one, so an
  answer "advancing" is recent; the cache holds a judgement's first answer unless
  another thread looks, so "no" then "yes" needs such a look.
* *Receipts.* The volume mark is never above what landed since the process started,
  and the best chain has no round twice. What a process found on the tape, and what has
  landed since, together never exceed the landings there were.
* *Cancels.* A round lands only on the book it was built on; a fill shows in the
  terminals or in a landed round not yet settled; after the cancel used its nonce
  the order is off the book for good. So what the first two reads excluded stays
  excluded until the third.
* *Reserve.* What may still be credited beside the keeper's own top-up is at most what
  was sent beside it; the top-up was measured when none of the keeper's own was on
  its way and is resent unchanged, under its nonce, until it landed.
* *Chain access.* A connection carries one request or one answer at a time, the one
  of the call that holds the lock, which is why an error without an id may be taken
  for one's own.
* *Deployment* (READY_GRACE_SLOTS exceeds REPORT_TIMEOUT). Every service comes from a
  create of its own, so by a count a free id is left for each create that may still
  land; with every outcome known only the create the tool follows can land.
* *Telemetry.* The log line of a report comes later than its change of the record, so
  the invariant is about the log together with the reports still to be written: each
  live record is what these imply (`RecordsMatch`), and each tally counts the orders of
  its class (`TalliesMatch`). For an order that is quiet nothing is left to write.
* *Parity.* A read that is accepted is the state of one block, the block to compare at
  was chosen before any node was read, and a verdict is given only when all were.
* *Net watch* (a path's slots increase). The exporter counts a conflict per new block
  whose slot it has another block of. While no slot is trimmed it has counted a conflict
  exactly when two blocks share a slot; at a slot never trimmed it still knows every
  block (`ConflictsCounted`), and an alarm always has two blocks of the run behind it. Aligned at the lowest head's slot, a block
  that extends that head gives that head, any other does not.

The library's induction theorems take an operator as a parameter, which these provers
cannot instantiate. `CollectionLemmas` does induction through sets: a set of naturals
that has 0 and every successor is all of them (`CountUp`), a family of subsets that has
the empty one and every one-larger one has the whole (`AddOneByOne`). With these come
the facts on sums (`SumFunctionOnSet`), on the parts of lists (`Pick`), and on Min and
Max. `ClearingLemmas` says on top of them what a clearing and a settlement compute.

Only model-checked, and why:

* Not true for every value of the constants: `OneHome`, `NoneStranded` and
  `KeepsPromise`. Enough failing reads let one round be finalized twice
  (section 4), a re-org after a build read the floors takes away the newer
  order for which an older one is rejected, and several re-orgs leave two released
  rounds that each take the other for the holder of an order
  (`builder_receipt_claim`). `NothingLost` and how often `FillsAreReal` lets an order be
  reported have not been refuted with larger bounds and are not proved: they rest on
  the notes rounds keep of each other. `OracleHolds` needs traders with funds for the
  whole level, `SetupAsGenesis` no more assets than the deposit window. They are
  checked within the bounds of section 3.
* Folds whose steps feed each other, for every input: `PlanExact` and `RevealsExactly`
  (the planner repeats its passes until the plan fits), and the rest of
  `AlarmsAreReal`: the verdict's episodes are a fold over the samples, and that forks
  are noticed is about those episodes and, for onehead, needs WALK to exceed the
  paths.
* Liveness, which needs fairness and ENABLED: `BacklogDrains`, `EveryOrderEnds`,
  `ReserveRecovers`, `CancelResolves`, `RegistrationEnds`, `TrackedAccounted`.

## 7. Abstractions

* A signature is the key an operation names; hashes and round ids are injective.
* One market and two assets; quantities and balances are small, with saturation
  and the u32 wrap at small moduli.
* `Rounds` keeps hidden orders as one set and leaves their expiry and the two
  modes to `SealedSets`; how refine opens them is cryptography.
* `RoundBuilder` knows of an order its account, seq, whether it is sealed and
  whether it rests; which sealed orders cross is a free choice (prices are in
  `RoundPlan`). Whether a landing may be confirmed because it held is a constant
  (`SettleHold`); when the code answers so is `Finality`'s question. A released round is forgotten only when nobody can land it
  (ZOMBIE_WATCH_SECS outlasts the guarantors). The reads made for one released
  round are one step. Orders have no good-till-time (expiry and prunes are in
  `CancelWatch`), there are no prune-only rounds, and the encrypted cap does not
  shrink there (in `RoundPlan` it takes several values).
* Time is a small clock where durations are compared (`Finality`, `OrderTelemetry`,
  `Deploy`, `NetWatch`), and a set of deadlines that may have passed elsewhere.
* `ChainAccess`: a payload is one request; packages, keys and parameters are not
  encoded. A node that refuses a package has given it to no guarantor (JIP-2).
* `NetWatch`: a block is its path, so a hash names its ancestors; one sample per
  slot of wall time. A node answers a sample in full or not at all.
* `NetWatch` has small constants for the exporter's 4096 slots, 1024 dropped at a time
  and 8640 samples; the proof is for every value of them.
* `Receipts`: every round has a volume of one; the caps on stored trades and receipts
  are not modelled.
* `OrderTelemetry`: `_log` stamps and writes a line in one step, and the builder process
  does not restart.
* `Deploy`: the recent history in which a create's anchor must lie is counted in slots,
  where the chain counts blocks. With skipped slots a package can land later than the
  model, and the tool's own slot-based expiry, allow.
* `Ledger`: what a clamped debit creates is added up in `created`; that it is created is
  not refuted.
* `StateParity` takes the digest as injective, and every block writes every key.
* `Fuzz` plays the builder's rounds as any cut of the queue and leaves its internals
  to `RoundBuilder`; quantities are whole units, as the fuzzer's are.

## 8. Not modelled

* Committee keys (ENC_SETUP), threshold decryption, verifiable decryption: what a
  rotation does to an order is whether its ciphertext still opens. Cryptography.
* Wire codecs, canonical messages, work-package encoding, chain parameters, the
  conformance script: encodings without state, fixed by fixtures in both languages.
* HTTP routing, metric rendering, the trade stream's sockets, dashboards, command
  lines, forensics and progress files: I/O and layout.
* Load generator, canary, gate scripts, `verify.py`: they drive or observe a running
  net and keep no exchange state. Net generation and genesis write files once.
* Authoring and peer counts of the net verdict, the fuzzer's JAMKB check: sums.
* The web UI and the vendored tool chain: third-party code.

## 9. Plan

Done: the service's rounds and money, hidden sets, clearing, deposit rule, markers,
planner, round lifecycle with its abstract specification, the builder's loops,
finality, receipts, telemetry, chain access, deployment, set-up, net watch, parity,
the fuzzer; the proofs of section 6.

Open: a proof of what the planner's passes compute; `OrderLifecycle`'s refinement for
the steps that no fault can spoil; committee rotation while encrypted rounds are in
flight, which needs a model of which keys open which ciphertext.
