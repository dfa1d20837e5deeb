------------------------------- MODULE Ledger -------------------------------
(***************************************************************************)
(* Accounts and money of the service (service/src/lib.rs): the key         *)
(* registry, the per-account nonces, balances and custody, and what        *)
(* apply_settlement does to them.  The actions here name their own         *)
(* variables only; Service.tla composes them with the market's.            *)
(*                                                                         *)
(* Operations are signed once and may be delivered any number of times.    *)
(***************************************************************************)
EXTENDS MatchEngine

CONSTANTS
    Keys, NoKey,    \* ed25519 keys; no key
    Handles,        \* account handles, 1..n
    DepositOps,     \* [account, asset, amount, nonce]
    WithdrawOps,    \* [account, key, asset, amount, nonce]
    TreasuryOps,    \* [asset, amount, dest, nonce], signed by governance
    FEE_ACCOUNT,    \* the treasury
    FEE_FLAT,       \* base units charged per introduced order
    SCALE,          \* fixed-point scale of the quote notional
    WINDOW,         \* of the deposit rule, see DepositWindow.tla
    U64_MAX         \* balances and custody saturate here

Assets == {"base", "quote"}
Holders == Handles \cup {FEE_ACCOUNT}

ASSUME LedgerAssumption ==
    /\ Handles \subseteq Nat \ {0} /\ IsFiniteSet(Handles) /\ NoKey \notin Keys /\ FEE_ACCOUNT \notin Handles
    /\ FEE_FLAT \in Nat /\ SCALE \in Nat \ {0} /\ U64_MAX \in Nat
    /\ \A d \in DepositOps : d.account \in Handles /\ d.asset \in Assets /\ d.amount \in Nat /\ d.nonce \in Nat \ {0}
    /\ \A w \in WithdrawOps : w.account \in Handles /\ w.asset \in Assets /\ w.amount \in Nat /\ w.nonce \in Nat
    /\ DepositOps \cap WithdrawOps = {}
    /\ \A t \in TreasuryOps : t.dest \in Holders /\ t.asset \in Assets /\ t.amount \in Nat

(***************************************************************************)
(* pk, nexthandle:  b"pk"||handle and b"nexthandle"                        *)
(* nonce, govnonce: b"nc"||handle and b"govnonce"                          *)
(* dn:              b"dn"||account, the deposit floor and window           *)
(* bal, cust:       b"b"||asset||account and b"cust"||asset                *)
(* created:         value that came into being because a balance or the    *)
(*                  custody total was clamped (history)                    *)
(* moved:           how often each deposit or withdrawal moved money       *)
(***************************************************************************)
VARIABLES pk, nexthandle, nonce, govnonce, dn, bal, cust, created, moved

ledgerVars == <<pk, nexthandle, nonce, govnonce, dn, bal, cust, created, moved>>

LedgerInit ==
    /\ pk = [h \in Handles |-> NoKey] /\ nexthandle = 1
    /\ nonce = [h \in Handles |-> 0] /\ govnonce = 0
    /\ dn = [h \in Handles |-> [floor |-> 0, window |-> {}]]
    /\ bal = [a \in Assets |-> [h \in Holders |-> 0]]
    /\ cust = [a \in Assets |-> 0]
    /\ created = [a \in Assets |-> 0]
    /\ moved = [o \in DepositOps \cup WithdrawOps |-> 0]

\* u64 saturating_add and saturating_sub, and the settlement's clamp.
SatAdd64(x, y) == IF x + y > U64_MAX THEN U64_MAX ELSE x + y
SatSub(x, y) == IF x < y THEN 0 ELSE x - y
Clamp(x) == IF x < 0 THEN 0 ELSE IF x > U64_MAX THEN U64_MAX ELSE x

DW == INSTANCE DepositWindow WITH
        Depositors <- Handles, Nonces <- {d.nonce : d \in DepositOps}, credited <- moved

\* The two sides of the account check: the signer is the registered key and
\* the nonce is the next one.
Authentic(op) == pk[op.account] # NoKey /\ pk[op.account] = op.key /\ op.nonce = nonce[op.account]

-----------------------------------------------------------------------------
\* REGISTER: a fresh key gets the next handle; a known one keeps its own.
Register(k) ==
    /\ \A h \in Handles : pk[h] # k
    /\ nexthandle \in Handles
    /\ pk' = [pk EXCEPT ![nexthandle] = k]
    /\ nexthandle' = nexthandle + 1
    /\ UNCHANGED <<nonce, govnonce, dn, bal, cust, created, moved>>

\* DEPOSIT: credited once per (account, nonce), balance and custody alike.
Deposit(d) ==
    /\ DW!Admissible(dn[d.account], d.nonce)
    /\ dn' = [dn EXCEPT ![d.account] = DW!Admit(@, d.nonce)]
    /\ bal' = [bal EXCEPT ![d.asset][d.account] = SatAdd64(@, d.amount)]
    /\ cust' = [cust EXCEPT ![d.asset] = SatAdd64(@, d.amount)]
    /\ created' = [created EXCEPT ![d.asset] =
                      @ + (bal'[d.asset][d.account] - bal[d.asset][d.account])
                        - (cust'[d.asset] - cust[d.asset])]
    /\ moved' = [moved EXCEPT ![d] = @ + 1]
    /\ UNCHANGED <<pk, nexthandle, nonce, govnonce>>

\* WITHDRAW: the nonce is consumed whenever the signer checks out, the debit
\* happens only if the account is funded.
Withdraw(w) ==
    /\ Authentic(w)
    /\ nonce' = [nonce EXCEPT ![w.account] = @ + 1]
    /\ IF bal[w.asset][w.account] >= w.amount
       THEN /\ bal' = [bal EXCEPT ![w.asset][w.account] = @ - w.amount]
            /\ cust' = [cust EXCEPT ![w.asset] = SatSub(@, w.amount)]
            /\ created' = [created EXCEPT ![w.asset] = @ - w.amount - (cust'[w.asset] - cust[w.asset])]
            /\ moved' = [moved EXCEPT ![w] = @ + 1]
       ELSE UNCHANGED <<bal, cust, created, moved>>
    /\ UNCHANGED <<pk, nexthandle, govnonce, dn>>

\* TREASURY: governance moves accrued fees out; custody is unchanged.
Treasury(t) ==
    LET amount == Smaller(t.amount, bal[t.asset][FEE_ACCOUNT])
        paid == [bal EXCEPT ![t.asset][FEE_ACCOUNT] = @ - amount]
    IN  /\ t.nonce = govnonce
        /\ govnonce' = govnonce + 1
        /\ bal' = [paid EXCEPT ![t.asset][t.dest] = SatAdd64(@, amount)]
        /\ created' = [created EXCEPT ![t.asset] =
                          @ + (bal'[t.asset][t.dest] - paid[t.asset][t.dest]) - amount]
        /\ UNCHANGED <<pk, nexthandle, nonce, dn, cust, moved>>

-----------------------------------------------------------------------------
\* The orders an account pays for are charged one by one, each fee capped at
\* what is left of its base balance.
Fees(b, payers) ==
    [h \in Holders |-> Smaller(FEE_FLAT * Cardinality({i \in DOMAIN payers : payers[i] = h}), b[h])]

\* Bug: the fee is debited and never reaches the treasury.
ChargeFeesBurnt(b, payers) == [h \in Holders |-> b[h] - Fees(b, payers)[h]]

\* The flat fees of the introduced orders, from their payers to the treasury.
ChargeFees(b, payers) ==
    LET fees == Fees(b, payers)
    IN  [h \in Holders |-> IF h = FEE_ACCOUNT THEN SatAdd64(b[h], SumFunctionOnSet(fees, Handles))
                           ELSE b[h] - fees[h]]

\* What a clearing moves, treasury residual included.
Deltas(price, entries) ==
    [base  |-> [h \in Holders |-> BaseDelta(entries, h)],
     quote |-> [h \in Holders |->
                   QuoteDelta(price, entries, SCALE, h)
                   + (IF h = FEE_ACCOUNT THEN Residual(price, entries, SCALE) ELSE 0)]]

\* apply_settlement: the deltas, clamped account by account, then the fees.
ApplySettlement(price, entries, payers) ==
    \E d \in {Deltas(price, entries)} :
    LET settled == [a \in Assets |-> [h \in Holders |-> Clamp(bal[a][h] + d[a][h])]]
        excess(a) == SumFunction([h \in Holders |-> settled[a][h] - (bal[a][h] + d[a][h])])
        due == settled["base"][FEE_ACCOUNT] + SumFunctionOnSet(Fees(settled["base"], payers), Handles)
        cut(a) == IF a = "base" THEN Clamp(due) - due ELSE 0
    IN  /\ bal' = [settled EXCEPT !["base"] = ChargeFees(@, payers)]
        /\ created' = [a \in Assets |-> created[a] + excess(a) + cut(a)]
        /\ UNCHANGED <<pk, nexthandle, nonce, govnonce, dn, cust, moved>>

Total(asset) == SumFunction(bal[asset])
=============================================================================
