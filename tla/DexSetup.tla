------------------------------ MODULE DexSetup ------------------------------
(***************************************************************************)
(* The DEX's starting state, made with ordinary work items                 *)
(* (offchain/dex_setup.py): markets are listed and the dev accounts        *)
(* registered, then funded.  Items go out in packages of up to max_items,  *)
(* a package lands whole, late, more than once or never, and what has not  *)
(* landed is sent again.  The process may die and set up again.            *)
(***************************************************************************)
EXTENDS Integers, Sequences, SequencesExt, FiniteSets, FiniteSetsExt

CONSTANTS
    DevAccounts,        \* the accounts, in the order they should get handles
    Assets,             \* a set of naturals
    MAX_ITEMS,          \* items in a package
    DEPOSIT_WINDOW,     \* the service's deposit window
    MaxOwnDeposits,     \* bound on the deposits the accounts make themselves
    MaxSetups           \* bound on the runs of setup

ASSUME SetupAssumption ==
    /\ Assets \subseteq Nat /\ MAX_ITEMS \in Nat \ {0} /\ DEPOSIT_WINDOW \in Nat \ {0}
    /\ MaxOwnDeposits \in Nat /\ MaxSetups \in Nat

(***************************************************************************)
(* On chain: listed (the market), handles (the registered accounts in      *)
(* order), record (each account's deposit record), funded (how often each  *)
(* asset was credited: history), own (deposits made by others).            *)
(* packages: under way.  The program: phase, pending (the ops not seen     *)
(* landed, in order), waits (what was sent is being waited for).  History: *)
(* setups, single (ops were sent in packages of one).                      *)
(***************************************************************************)
VARIABLES listed, handles, record, funded, own, packages, phase, pending, waits, setups, single

stateVars == <<listed, handles, record, funded, own>>
setupVars == <<stateVars, packages, phase, pending, waits, setups, single>>

DWS == INSTANCE DepositWindow WITH
         Depositors <- ToSet(DevAccounts), Nonces <- Nat \ {0}, WINDOW <- DEPOSIT_WINDOW,
         credited <- 0, dn <- record

SetupInit ==
    /\ listed = FALSE /\ handles = <<>> /\ own = 0
    /\ record = [a \in ToSet(DevAccounts) |-> [floor |-> 0, window |-> {}]]
    /\ funded = [a \in ToSet(DevAccounts) |-> [x \in Assets |-> 0]]
    /\ packages = {} /\ phase = "off" /\ pending = <<>> /\ waits = FALSE /\ setups = 0
    /\ single = FALSE

-----------------------------------------------------------------------------
ListOp == [op |-> "list", account |-> "", asset |-> 0]
Op(op, a, x) == [op |-> op, account |-> a, asset |-> x]
AccountOps == <<ListOp>> \o [i \in 1..Len(DevAccounts) |-> Op("register", DevAccounts[i], 0)]
FundingOps ==
    FlattenSeq([i \in 1..Len(DevAccounts) |->
        LET xs == SetToSortSeq(Assets, <) IN [k \in 1..Len(xs) |-> Op("deposit", DevAccounts[i], xs[k])]])

\* Bug: every run of setup has nonces of its own.
NonceOfRun(x) == setups * Cardinality(Assets) + x + 1

\* A deposit has a fixed nonce, so no re-run funds an account twice.
NonceOf(x) == x + 1

\* market_listed, handle_of, deposit_landed
Landed(o) ==
    CASE o.op = "list"     -> listed
      [] o.op = "register" -> Contains(handles, o.account)
      [] o.op = "deposit"  -> LET r == record[o.account]
                              IN  NonceOf(o.asset) <= r.floor \/ NonceOf(o.asset) \in r.window

\* setup starts: the ops of its first phase that are not seen landed (one that
\* cannot be read counts as not landed).
SetupStarts(readable) ==
    /\ phase \in {"off", "done"} /\ setups < MaxSetups
    /\ setups' = setups + 1 /\ waits' = FALSE
    /\ pending' = SelectSeq(AccountOps, LAMBDA o : ~(readable /\ Landed(o)))
    /\ phase' = "accounts"
    /\ UNCHANGED <<stateVars, packages, single>>

\* The packages of one submission: n ops each, in order.
Groups(ops, n) ==
    {SubSeq(ops, i, Min({i + n - 1, Len(ops)})) : i \in {k \in 1..Len(ops) : (k - 1) % n = 0}}

\* What a package carries: the work items, with the nonces they were made with.
Payload(group) == [i \in 1..Len(group) |-> [o |-> group[i], nonce |-> NonceOf(group[i].asset)]]

\* Runner.run submits what is pending, one op per package while max_items cannot
\* be read; each package is taken, refused or lost.
Submits(n, taken) ==
    /\ phase \in {"accounts", "funding"} /\ pending # <<>> /\ ~waits
    /\ taken \subseteq Groups(pending, n)
    /\ single' = (single \/ n < MAX_ITEMS)
    /\ packages' = packages \cup {Payload(g) : g \in taken}
    /\ waits' = TRUE
    /\ UNCHANGED <<stateVars, phase, pending, setups>>

\* A poll: the ops seen landed are done with; what is left is sent again when
\* its time is up or its package failed.
Polls(readable, again) ==
    /\ phase \in {"accounts", "funding"} /\ pending # <<>> /\ waits
    /\ pending' = SelectSeq(pending, LAMBDA o : ~(readable /\ Landed(o)))
    /\ waits' = ~again
    /\ UNCHANGED <<stateVars, packages, phase, setups, single>>

\* The accounts have handles, so they can be funded; then setup is done.
PhaseEnds(readable) ==
    /\ phase \in {"accounts", "funding"} /\ pending = <<>>
    /\ phase' = IF phase = "accounts" THEN "funding" ELSE "done"
    /\ pending' = IF phase = "accounts"
                  THEN SelectSeq(FundingOps, LAMBDA o : ~(readable /\ Landed(o))) ELSE <<>>
    /\ waits' = FALSE
    /\ UNCHANGED <<stateVars, packages, setups, single>>

\* The process dies or gives up.
SetupDies ==
    /\ phase # "off" /\ phase' = "off" /\ pending' = <<>> /\ waits' = FALSE
    /\ UNCHANGED <<stateVars, packages, setups, single>>

-----------------------------------------------------------------------------
\* One item is accumulated: what is there already is not done again.
Accumulated(st, item) ==
    LET o == item.o
    IN  CASE o.op = "list" -> [st EXCEPT !.listed = TRUE]
          [] o.op = "register" ->
                IF Contains(st.handles, o.account) THEN st ELSE [st EXCEPT !.handles = Append(@, o.account)]
          [] o.op = "deposit" ->
                IF ~DWS!Admissible(st.record[o.account], item.nonce) THEN st
                ELSE [st EXCEPT !.record[o.account] = DWS!Admit(@, item.nonce),
                                !.funded[o.account][o.asset] = @ + 1]

\* A package lands: its items are accumulated in order; it may land again.
PackageLands(p) ==
    LET after == FoldLeft(Accumulated,
                     [listed |-> listed, handles |-> handles, record |-> record, funded |-> funded], p)
    IN  /\ p \in packages
        /\ listed' = after.listed /\ handles' = after.handles
        /\ record' = after.record /\ funded' = after.funded
        /\ UNCHANGED <<own, packages, phase, pending, waits, setups, single>>

\* An account makes a deposit of its own, under a nonce far above.
OwnDeposit(a) ==
    LET n == 100 + own
    IN  /\ own < MaxOwnDeposits /\ own' = own + 1
        /\ Contains(handles, a)
        /\ record' = [record EXCEPT ![a] = DWS!Admit(@, n)]
        /\ UNCHANGED <<listed, handles, funded, packages, phase, pending, waits, setups, single>>

SetupNext ==
    \/ \E readable \in BOOLEAN : SetupStarts(readable) \/ PhaseEnds(readable)
    \/ \E n \in {1, MAX_ITEMS} : \E taken \in SUBSET Groups(pending, n) : Submits(n, taken)
    \/ \E readable, again \in BOOLEAN : Polls(readable, again)
    \/ SetupDies
    \/ \E p \in packages : PackageLands(p)
    \/ \E a \in ToSet(DevAccounts) : OwnDeposit(a)

-----------------------------------------------------------------------------
(***************************************************************************)
(* No account is funded twice in an asset, however often setup is run,     *)
(* dies and resends, and when it says it is done every account has been    *)
(* funded in every asset (unless deposits of its own pushed the nonces out *)
(* of the window first).                                                   *)
(***************************************************************************)
SeededOnce ==
    \A a \in ToSet(DevAccounts), x \in Assets :
        /\ funded[a][x] <= 1
        /\ phase = "done" /\ own < DEPOSIT_WINDOW => funded[a][x] = 1

(***************************************************************************)
(* On a fresh service, with packages that hold them all, the accounts get  *)
(* their handles in order, whatever is lost, resent or lands again: "the   *)
(* six registrations in one package get handles 1..6 on a fresh service".  *)
(***************************************************************************)
HandlesInOrder == single \/ MAX_ITEMS < Len(AccountOps) \/ IsPrefix(handles, DevAccounts)

(***************************************************************************)
(* The service is set up as genesis would: every account funded once, with *)
(* the handle of its place.                                                *)
(***************************************************************************)
SetupAsGenesis == SeededOnce /\ HandlesInOrder
=============================================================================
