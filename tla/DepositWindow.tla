--------------------------- MODULE DepositWindow ---------------------------
(***************************************************************************)
(* The rule that credits each DEPOSIT work item once                       *)
(* (crates/match-engine/src/deposit.rs, run by accumulate's DEPOSIT arm).  *)
(*                                                                         *)
(* A deposit is unsigned, so nothing but its nonce tells a new deposit     *)
(* from a copy: the builder's fail-over is at-least-once and any client    *)
(* may re-submit after an unknown outcome.  The network below therefore    *)
(* delivers every work item any number of times and in any order.          *)
(***************************************************************************)
EXTENDS Integers, FiniteSets, FiniteSetsExt

CONSTANTS
    Depositors,   \* depositing accounts
    Nonces,     \* the idempotency keys producers pick: positive, unique per account
    WINDOW      \* how many recent nonces an account remembers above its floor

ASSUME WindowAssumption == WINDOW \in Nat \ {0}
ASSUME NoncesAssumption == Nonces \subseteq Nat \ {0}

(***************************************************************************)
(* `dn' is the record under b"dn"||account.  The code keeps the window as  *)
(* an ascending list without repetitions, that is, as a set whose smallest *)
(* member is the head of the list.  `credited' counts how often accumulate *)
(* credited the deposit with that nonce: it is what the rule protects.     *)
(***************************************************************************)
VARIABLES dn, credited

windowVars == <<dn, credited>>

DepositRecord == [floor : Nat, window : SUBSET Nonces]

\* The record is bounded: at most WINDOW nonces per account ("State per account is
\* bounded at 8 + 8 WINDOW bytes").
WindowTypeOK ==
    /\ dn \in [Depositors -> DepositRecord]
    /\ \A a \in Depositors : /\ IsFiniteSet(dn[a].window)
                          /\ Cardinality(dn[a].window) <= WINDOW
    /\ credited \in [Depositors -> [Nonces -> Nat]]

WindowInit ==
    /\ dn = [a \in Depositors |-> [floor |-> 0, window |-> {}]]
    /\ credited = [a \in Depositors |-> [n \in Nonces |-> 0]]

\* The bug this rule must not have: a copy still in the window goes unrecognised.
AdmissibleNoWindow(r, n) == n > r.floor

\* The two early returns of `admit'.
Admissible(r, n) == n > r.floor /\ n \notin r.window

\* Bug: the floor jumps to the newest nonce instead of the evicted one.
AdmitFloorAtNew(r, n) ==
    LET w == r.window \cup {n}
    IN  IF Cardinality(w) > WINDOW
        THEN [floor |-> n, window |-> {m \in w : m > n}]
        ELSE [r EXCEPT !.window = w]

\* `admit' past them: insert, and evict the smallest once the window overflows.
Admit(r, n) ==
    LET w == r.window \cup {n}
    IN  IF Cardinality(w) > WINDOW
        THEN [floor |-> Min(w), window |-> w \ {Min(w)}]
        ELSE [r EXCEPT !.window = w]

\* A DEPOSIT work item is accumulated: it is credited ...
Deposit(a, n) ==
    /\ Admissible(dn[a], n)
    /\ dn' = [dn EXCEPT ![a] = Admit(@, n)]
    /\ credited' = [credited EXCEPT ![a][n] = @ + 1]

\* ... or refused, and then nothing is written.
Refuse(a, n) ==
    /\ ~Admissible(dn[a], n)
    /\ UNCHANGED windowVars

WindowNext == \E a \in Depositors, n \in Nonces : Deposit(a, n) \/ Refuse(a, n)

WindowSpec == WindowInit /\ [][WindowNext]_windowVars

-----------------------------------------------------------------------------
Credited(a) == {n \in Nonces : credited[a][n] > 0}

(***************************************************************************)
(* No deposit is credited twice, however late and however often a copy of  *)
(* its work item is accumulated (jamswap#7: a deposit credited 3 times).   *)
(***************************************************************************)
CreditedOnce == \A a \in Depositors, n \in Nonces : credited[a][n] <= 1

(***************************************************************************)
(* Every credited nonce stays recognisable for good: it is in the window,  *)
(* or at or below the floor; and the window holds nothing but credited     *)
(* nonces above the floor.                                                 *)
(***************************************************************************)
Remembered ==
    \A a \in Depositors :
        /\ \A n \in Credited(a) : n \in dn[a].window \/ n <= dn[a].floor
        /\ \A n \in dn[a].window : n \in Credited(a) /\ n > dn[a].floor

(***************************************************************************)
(* The reordering the rule tolerates: a deposit that was never credited is *)
(* refused only when WINDOW or more deposits of the same account with      *)
(* larger nonces were credited before it.  (A bare monotonic floor, the    *)
(* rule the module comment rejects, would refuse it after a single one.)   *)
(***************************************************************************)
LostOnlyBeyondWindow ==
    \A a \in Depositors, n \in Nonces :
        n \notin Credited(a) /\ ~Admissible(dn[a], n)
            => Cardinality({m \in Credited(a) : m > n}) >= WINDOW

=============================================================================
