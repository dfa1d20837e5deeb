--------------------------- MODULE ReserveKeeper ---------------------------
(***************************************************************************)
(* The treasury's JAMKB reserve (offchain/treasury.py and its users in     *)
(* offchain/server.py): seeded at startup, topped up by the keeper thread  *)
(* and over the API, and left alone by profit sweeps.  Top-ups are         *)
(* deposits, so they land late, more than once or never, and the service   *)
(* credits each nonce once.  Amounts are in KB.                            *)
(***************************************************************************)
EXTENDS Relay

CONSTANTS
    MaxRent,        \* bound on the state footprint
    MaxMoves,       \* bound on how often the footprint changes
    BUFFER,         \* RESERVE_BUFFER_KB
    SUPPLY,         \* JAMKB_SUPPLY
    WINDOW,         \* the service's deposit window
    MaxOthers       \* bound on restarts and on requests to /api/reserve_topup

ASSUME KeeperAssumption ==
    /\ MaxRent \in Nat /\ MaxMoves \in Nat /\ BUFFER \in Nat /\ SUPPLY \in Nat
    /\ WINDOW \in Nat \ {0} /\ MaxOthers \in Nat

(***************************************************************************)
(* On chain: rent (the footprint, in KB), held and fees (what FEE_ACCOUNT  *)
(* holds of JAMKB and of the fee assets), dn (its deposit record),         *)
(* govnonce.  Under way: deposits, and sweeps (TREASURY items).            *)
(* In the builder: stage of main(), topup (_topup), nonce (deposit_nonce). *)
(* History: moves and others (counted for their bounds); highest, the      *)
(* highest target there was;                                               *)
(* outside, what was sent other than by the keeper as it stands.           *)
(***************************************************************************)
VARIABLES rent, held, fees, dn, govnonce, deposits, sweeps, stage, topup, nonce, moves, others, highest, outside

chainVars == <<rent, held, fees, dn, govnonce>>
keeperVars == <<chainVars, deposits, sweeps, stage, topup, nonce, moves, others, highest, outside>>

NoTopup == [nonce |-> 0, amount |-> 0, sent |-> FALSE]

DW == INSTANCE DepositWindow WITH
        Depositors <- {0}, Nonces <- Nat \ {0}, credited <- 0, dn <- [f \in {0} |-> dn]

-----------------------------------------------------------------------------
\* footprint_octets: the footprint, or 0 when it cannot be read.
Footprint(readable) == IF readable THEN rent ELSE 0

\* reserve_target
Target(obligation) ==
    IF obligation + BUFFER < SUPPLY THEN obligation + BUFFER ELSE SUPPLY

\* topup_due: nothing until the reserve is half a buffer short.
TopupDue(target) ==
    LET short == target - held
        half == IF BUFFER \div 2 > 1 THEN BUFFER \div 2 ELSE 1
    IN  IF short >= half THEN short ELSE 0

\* solvency
Solvent(obligation) == held >= obligation

\* profit_split, max_withdrawable: JAMKB is never profit.
MaxWithdrawable(asset, obligation) ==
    IF asset = "JAMKB" \/ ~Solvent(obligation) THEN 0 ELSE fees

\* dex_setup.deposit_landed
DepositLanded(n) == n <= dn.floor \/ n \in dn.window

KeeperInit ==
    /\ rent \in 0..1 /\ held = 0 /\ fees = 1 /\ dn = [floor |-> 0, window |-> {}] /\ govnonce = 0
    /\ deposits = {} /\ sweeps = {} /\ stage = "seeding" /\ topup = NoTopup /\ nonce = 0
    /\ moves = 0 /\ others = 0 /\ highest = Target(rent) /\ outside = 0

Relayed(amount, outcome) ==
    /\ nonce' = nonce + 1
    /\ deposits' \in After(deposits, [nonce |-> nonce + 1, amount |-> amount], outcome)

-----------------------------------------------------------------------------
\* ensure_reserve, before the API opens; any error is swallowed.
EnsureReserve(readable, outcome) ==
    LET due == Target(Footprint(readable)) - held
    IN  /\ stage = "seeding"
        /\ stage' = "waiting"
        /\ IF due > 0 THEN Relayed(due, outcome) /\ outside' = outside + due
                      ELSE UNCHANGED <<deposits, nonce, outside>>
        /\ UNCHANGED <<chainVars, sweeps, topup, moves, others, highest>>

\* wait_reserved: until the reserve covers the footprint, or the timeout.
WaitReserved(readable, timeout) ==
    /\ stage = "waiting"
    /\ Solvent(Footprint(readable)) \/ timeout
    /\ stage' = "open"
    /\ UNCHANGED <<chainVars, deposits, sweeps, topup, nonce, moves, others, highest, outside>>

\* Bug: a top-up that is late is given up and replaced under a fresh nonce.
KeeperTickFresh(readable, late, outcome) ==
    LET due == TopupDue(Target(Footprint(readable)))
    IN  /\ stage = "open"
        /\ topup = NoTopup \/ late \/ DepositLanded(topup.nonce)
        /\ due > 0
        /\ Relayed(due, outcome)
        /\ topup' = [nonce |-> nonce + 1, amount |-> due, sent |-> outcome # "busy"]
        /\ UNCHANGED <<chainVars, sweeps, stage, moves, others, highest, outside>>

\* Bug: a top-up that was refused is waited for as if it had been sent.
KeeperTickNoResend(readable, late, outcome) ==
    LET due == TopupDue(Target(Footprint(readable)))
    IN  /\ stage = "open"
        /\ topup = NoTopup \/ DepositLanded(topup.nonce)
        /\ due > 0
        /\ Relayed(due, outcome)
        /\ topup' = [nonce |-> nonce + 1, amount |-> due, sent |-> TRUE]
        /\ UNCHANGED <<chainVars, sweeps, stage, moves, others, highest, outside>>

(***************************************************************************)
(* reserve_keeper_tick.  `late': TOPUP_RESEND_SECS have passed since the   *)
(* top-up was sent.  One in flight is resent unchanged when it is late or  *)
(* was refused; a new one is sent only when none is in flight.             *)
(***************************************************************************)
KeeperTick(readable, late, outcome) ==
    LET landed == topup # NoTopup /\ DepositLanded(topup.nonce)
        due == TopupDue(Target(Footprint(readable)))
        item == [nonce |-> topup.nonce, amount |-> topup.amount]
    IN  /\ stage = "open"
        /\ UNCHANGED <<chainVars, sweeps, stage, moves, others, highest, outside>>
        /\ \/ /\ topup # NoTopup /\ ~landed /\ (late \/ ~topup.sent)
              /\ deposits' \in After(deposits, item, outcome)
              /\ topup' = [topup EXCEPT !.sent = outcome # "busy"]
              /\ UNCHANGED nonce
           \/ /\ topup = NoTopup \/ landed
              /\ due = 0 /\ topup' = NoTopup
              /\ UNCHANGED <<deposits, nonce>>
           \/ /\ topup = NoTopup \/ landed
              /\ due > 0
              /\ Relayed(due, outcome)
              /\ topup' = [nonce |-> nonce + 1, amount |-> due, sent |-> outcome # "busy"]

\* api_reserve_topup: as much as there is room for, at most.
ApiReserveTopup(amount, readable, outcome) ==
    /\ stage = "open" /\ others < MaxOthers
    /\ amount > 0 /\ amount <= Target(Footprint(readable)) - held
    /\ others' = others + 1
    /\ Relayed(amount, outcome) /\ outside' = outside + amount
    /\ UNCHANGED <<chainVars, sweeps, stage, topup, moves, highest>>

\* api_beneficiary_sweep and api_treasury: profit only, under the next govnonce.
ApiSweep(asset, amount, readable) ==
    /\ stage = "open"
    /\ amount > 0 /\ amount <= MaxWithdrawable(asset, Footprint(readable))
    /\ sweeps' = sweeps \cup {[asset |-> asset, amount |-> amount, nonce |-> govnonce]}
    /\ UNCHANGED <<chainVars, deposits, stage, topup, nonce, moves, others, highest, outside>>

\* The process starts again: what it knew of a top-up under way is gone.
BuilderRestarts ==
    /\ stage = "open" /\ others < MaxOthers
    /\ others' = others + 1
    /\ stage' = "seeding" /\ topup' = NoTopup /\ outside' = outside + topup.amount
    /\ UNCHANGED <<chainVars, deposits, sweeps, nonce, moves, highest>>

-----------------------------------------------------------------------------
\* A deposit is accumulated and credited, unless its nonce was before.
DepositLands(d) ==
    /\ d \in deposits
    /\ deposits' = deposits \ {d}
    /\ IF DW!Admissible(dn, d.nonce)
       THEN dn' = DW!Admit(dn, d.nonce) /\ held' = held + d.amount
       ELSE UNCHANGED <<dn, held>>
    /\ UNCHANGED <<rent, fees, govnonce, sweeps, stage, topup, nonce, moves, others, highest, outside>>

\* A deposit under way is lost.
DepositLost(d) ==
    /\ d \in deposits
    /\ deposits' = deposits \ {d}
    /\ UNCHANGED <<chainVars, sweeps, stage, topup, nonce, moves, others, highest, outside>>

\* A TREASURY item is accumulated: gov-signed under the next nonce, and covered.
SweepLands(s) ==
    /\ s \in sweeps /\ s.nonce = govnonce
    /\ s.amount <= (IF s.asset = "JAMKB" THEN held ELSE fees)
    /\ govnonce' = govnonce + 1
    /\ held' = IF s.asset = "JAMKB" THEN held - s.amount ELSE held
    /\ fees' = IF s.asset = "JAMKB" THEN fees ELSE fees - s.amount
    /\ UNCHANGED <<rent, dn, deposits, sweeps, stage, topup, nonce, moves, others, highest, outside>>

\* The footprint changes as orders, markers and commitments come and go.
FootprintMoves(r) ==
    /\ moves < MaxMoves /\ r # rent
    /\ rent' = r /\ moves' = moves + 1
    /\ highest' = IF highest < Target(r) THEN Target(r) ELSE highest
    /\ UNCHANGED <<held, fees, dn, govnonce, deposits, sweeps, stage, topup, nonce, others, outside>>

KeeperNext ==
    \/ \E readable \in BOOLEAN, outcome \in Outcomes :
          \/ EnsureReserve(readable, outcome)
          \/ \E late \in BOOLEAN : KeeperTick(readable, late, outcome)
          \/ \E amount \in 1..SUPPLY : ApiReserveTopup(amount, readable, outcome)
    \/ \E readable \in BOOLEAN :
          \/ \E timeout \in BOOLEAN : WaitReserved(readable, timeout)
          \/ \E asset \in {"JAMKB", "fee"}, amount \in {1} : ApiSweep(asset, amount, readable)
    \/ \E d \in deposits : DepositLands(d) \/ DepositLost(d)
    \/ \E s \in sweeps : SweepLands(s)
    \/ \E r \in 0..MaxRent : FootprintMoves(r)
    \/ BuilderRestarts

KeeperSpec == KeeperInit /\ [][KeeperNext]_keeperVars

-----------------------------------------------------------------------------
(***************************************************************************)
(* The keeper never hoards: whatever is refused, lost, resent or lands     *)
(* late or twice, the reserve exceeds the highest target there was by no   *)
(* more than what others sent beside it (startup's seed, the API, a keeper *)
(* that a restart made forget its top-up).                                 *)
(***************************************************************************)
KeeperNeverHoards == held <= highest + outside

\* What startup and the keeper need: the threads run, the footprint is read and
\* a submission taken now and then, and of what is taken again and again
\* something is accumulated.
StartupSteps == WaitReserved(TRUE, TRUE) \/ \E outcome \in Outcomes : EnsureReserve(TRUE, outcome)
KeeperActs == \E late \in BOOLEAN : KeeperTick(TRUE, late, "ok")
LandsSome == \E d \in deposits : DepositLands(d)

(***************************************************************************)
(* An under-reserved service gets its reserve: with the keeper running,    *)
(* the JAMKB held covers the footprint again, however often top-ups are    *)
(* refused, lost or of unknown outcome, so backpressure ends.              *)
(***************************************************************************)
ReserveRecovers == (stage = "open" /\ held < rent) ~> held >= rent
=============================================================================
