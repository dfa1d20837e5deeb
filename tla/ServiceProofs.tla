--------------------------- MODULE ServiceProofs ----------------------------
(***************************************************************************)
(* The composed service, for any accounts, keys, orders and signed         *)
(* operations, and whatever lands late, again or after a builder restart.  *)
(*                                                                         *)
(* Money.  That it moves once (MovedOnce) is not inductive: a deposit that *)
(* was credited must stay inadmissible although its nonce may be evicted   *)
(* from the window (DepositsSpent, WindowAboveFloor), and a withdrawal     *)
(* that was paid must stay below the account's nonce, which cancels raise  *)
(* as well (WithdrawalsSpent).  An account keeps its key because no handle *)
(* from nexthandle on has one yet (HandlesInOrder).                        *)
(*                                                                         *)
(* Trades.  An order enters once because its seq stays at or below the     *)
(* floor of its account (EntersOnce), and what trades is signed because    *)
(* books, commitments and payloads hold entries of signed orders only      *)
(* (MarketTypeOK, SignedByOwner).  A payload has its effect once because   *)
(* what it introduces or opens is spent (AcceptedSpent); a late copy of a  *)
(* re-seal puts one entry back, for one more acceptance.                   *)
(*                                                                         *)
(* Quantities, limits and custody hold while Undisturbed, for the engine   *)
(* knows orders by id: ids given are distinct (IdsUnique), and the entries *)
(* of an order have its id, rest or wait in one place and add up, with     *)
(* what was filled, to the signed quantity (ProcessIInv).  The books       *)
(* balance because every settlement's deltas add up to zero                *)
(* (DeltasBalance) and each clamp is counted (BooksIInv).                  *)
(***************************************************************************)
EXTENDS Service, ClearingLemmas

MoneyTypeOK ==
    /\ moved \in [DepositOps \cup WithdrawOps -> Nat]
    /\ nonce \in [Handles -> Nat]
    /\ dn \in [Handles -> [floor : Nat, window : SUBSET Nat]]

WindowAboveFloor == \A h \in Handles : \A m \in dn[h].window : m > dn[h].floor
DepositsSpent == \A d \in DepositOps : moved[d] > 0 => ~DW!Admissible(dn[d.account], d.nonce)
WithdrawalsSpent == \A w \in WithdrawOps : moved[w] > 0 => nonce[w.account] > w.nonce
AtMostOnce == \A x \in DepositOps \cup WithdrawOps : moved[x] \in {0, 1}

MoneyIInv == MoneyTypeOK /\ WindowAboveFloor /\ DepositsSpent /\ WithdrawalsSpent /\ AtMostOnce

-----------------------------------------------------------------------------
\* `admit' remembers what it recognised before, and the new nonce.
LEMMA AdmitRemembers ==
    ASSUME NEW r \in [floor : Nat, window : SUBSET Nat], NEW n \in Nat,
           \A m \in r.window : m > r.floor, DW!Admissible(r, n)
    PROVE  /\ DW!Admit(r, n) \in [floor : Nat, window : SUBSET Nat]
           /\ \A m \in DW!Admit(r, n).window : m > DW!Admit(r, n).floor
           /\ ~DW!Admissible(DW!Admit(r, n), n)
           /\ \A m \in Nat : ~DW!Admissible(r, m) => ~DW!Admissible(DW!Admit(r, n), m)
<1> DEFINE w == r.window \cup {n}
           least == DW!Min(w)
<1>1. w \in SUBSET Nat /\ w # {} /\ n > r.floor /\ \A m \in w : m > r.floor
  BY DEF DW!Admissible
<1>2. DW!Min(w) = Min(w)
  BY DEF DW!Min, Min
<1>3. least \in w /\ least \in Nat /\ \A m \in w : least <= m
  <2> HIDE DEF w
  <2>1. w \in SUBSET Nat /\ w # {}
    BY <1>1
  <2>2. Min(w) \in w /\ \A m \in w : Min(w) <= m
    BY <2>1, MinIsLeast
  <2>3. Min(w) \in Nat
    BY <2>1, <2>2
  <2> QED
    BY <1>2, <2>2, <2>3
<1>4. \/ DW!Admit(r, n) = [floor |-> least, window |-> w \ {least}]
      \/ DW!Admit(r, n) = [r EXCEPT !.window = w]
  BY DEF DW!Admit
<1> HIDE DEF least
<1>5. CASE DW!Admit(r, n) = [floor |-> least, window |-> w \ {least}]
  <2>1. /\ [floor |-> least, window |-> w \ {least}] \in [floor : Nat, window : SUBSET Nat]
        /\ DW!Admit(r, n).floor = least /\ DW!Admit(r, n).window = w \ {least}
    BY <1>1, <1>3, <1>5
  <2>2. \A m \in w \ {least} : m > least
    BY <1>1, <1>3
  <2> HIDE DEF w
  <2>3. ASSUME NEW m \in Nat, m <= r.floor \/ m \in w
        PROVE  m <= least \/ m \in w \ {least}
    <3>1. r.floor \in Nat /\ least > r.floor
      BY <1>1, <1>3
    <3>2. CASE m <= r.floor
      BY <1>3, <3>1, <3>2
    <3>3. CASE m \in w
      BY <1>3, <3>3
    <3> QED
      BY <2>3, <3>2, <3>3
  <2>4. n \in w /\ r.window \subseteq w
    BY DEF w
  <2> QED
    <3>1. DW!Admit(r, n) \in [floor : Nat, window : SUBSET Nat]
      BY <1>5, <2>1
    <3>2. \A m \in DW!Admit(r, n).window : m > DW!Admit(r, n).floor
      BY <2>1, <2>2
    <3>3. ASSUME NEW m \in Nat, m <= r.floor \/ m \in w
          PROVE  ~DW!Admissible(DW!Admit(r, n), m)
      <4>1. m <= least \/ m \in w \ {least}
        BY <2>3, <3>3
      <4>2. least \in Nat
        BY <1>3
      <4> QED
        BY <2>1, <4>1, <4>2 DEF DW!Admissible
    <3>4. ASSUME NEW m \in Nat, ~DW!Admissible(r, m)
          PROVE  m <= r.floor \/ m \in w
      BY <2>4, <3>4 DEF DW!Admissible
    <3> QED
      BY <2>4, <3>1, <3>2, <3>3, <3>4
<1>6. CASE DW!Admit(r, n) = [r EXCEPT !.window = w]
  <2>1. /\ [r EXCEPT !.window = w] \in [floor : Nat, window : SUBSET Nat]
        /\ DW!Admit(r, n).floor = r.floor /\ DW!Admit(r, n).window = w
    BY <1>1, <1>6
  <2>2. n \in w /\ r.window \subseteq w
    OBVIOUS
  <2> HIDE DEF w
  <2> QED
    BY <1>1, <1>6, <2>1, <2>2 DEF DW!Admissible
<1> QED
  BY <1>4, <1>5, <1>6

LEMMA MoneyInitially ==
    ASSUME Init
    PROVE  MoneyIInv
<1>1. /\ moved = [o \in DepositOps \cup WithdrawOps |-> 0]
      /\ nonce = [h \in Handles |-> 0]
      /\ dn = [h \in Handles |-> [floor |-> 0, window |-> {}]]
  BY DEF Init, LedgerInit
<1>2. MoneyTypeOK
  BY <1>1 DEF MoneyTypeOK
<1>3. WindowAboveFloor
  BY <1>1 DEF WindowAboveFloor
<1>4. DepositsSpent /\ WithdrawalsSpent /\ AtMostOnce
  BY <1>1 DEF DepositsSpent, WithdrawalsSpent, AtMostOnce
<1> QED
  BY <1>2, <1>3, <1>4 DEF MoneyIInv

\* Settlements, registrations, treasury payments and the market leave deposits'
\* records, nonces and what moved alone.
LEMMA MoneyUntouched ==
    ASSUME MoneyIInv, UNCHANGED <<moved, nonce, dn>>
    PROVE  MoneyIInv'
  BY DEF MoneyIInv, MoneyTypeOK, WindowAboveFloor, DepositsSpent, WithdrawalsSpent, AtMostOnce, DW!Admissible

\* A nonce that goes up keeps every paid withdrawal spent.
LEMMA NonceRises ==
    ASSUME MoneyIInv, NEW h \in Handles, nonce' = [nonce EXCEPT ![h] = @ + 1]
    PROVE  /\ nonce' \in [Handles -> Nat]
           /\ \A g \in Handles : nonce'[g] >= nonce[g]
           /\ nonce'[h] = nonce[h] + 1
  BY DEF MoneyIInv, MoneyTypeOK

LEMMA DepositKeepsMoney ==
    ASSUME MoneyIInv, NEW d \in DepositOps, Deposit(d)
    PROVE  MoneyIInv'
<1>1. /\ moved \in [DepositOps \cup WithdrawOps -> Nat] /\ dn \in [Handles -> [floor : Nat, window : SUBSET Nat]]
      /\ d.account \in Handles /\ d.nonce \in Nat
  BY LedgerAssumption DEF MoneyIInv, MoneyTypeOK
<1>2. /\ dn' = [dn EXCEPT ![d.account] = DW!Admit(dn[d.account], d.nonce)]
      /\ moved' = [moved EXCEPT ![d] = moved[d] + 1]
      /\ nonce' = nonce
      /\ DW!Admissible(dn[d.account], d.nonce)
  BY DEF Deposit
<1>3. PICK s : s = DW!Admit(dn[d.account], d.nonce)
  OBVIOUS
<1>4. /\ s \in [floor : Nat, window : SUBSET Nat]
      /\ \A m \in s.window : m > s.floor
      /\ ~DW!Admissible(s, d.nonce)
      /\ \A m \in Nat : ~DW!Admissible(dn[d.account], m) => ~DW!Admissible(s, m)
  BY <1>1, <1>2, <1>3, AdmitRemembers DEF MoneyIInv, WindowAboveFloor
<1>5. \A h \in Handles : dn'[h] = IF h = d.account THEN s ELSE dn[h]
  BY <1>1, <1>2, <1>3
<1>6. dn' \in [Handles -> [floor : Nat, window : SUBSET Nat]]
  BY <1>1, <1>2, <1>3, <1>4
<1>7. moved[d] = 0
  BY <1>1, <1>2 DEF MoneyIInv, AtMostOnce, DepositsSpent
<1>8. \A x \in DepositOps \cup WithdrawOps : moved'[x] = IF x = d THEN 1 ELSE moved[x]
  BY <1>1, <1>2, <1>7
<1>9. moved' \in [DepositOps \cup WithdrawOps -> Nat]
  BY <1>1, <1>2
<1>10. MoneyTypeOK'
  BY <1>2, <1>6, <1>9 DEF MoneyIInv, MoneyTypeOK
<1>11. WindowAboveFloor'
  BY <1>4, <1>5 DEF MoneyIInv, WindowAboveFloor
<1>12. DepositsSpent'
  <2> SUFFICES ASSUME NEW e \in DepositOps, moved'[e] > 0
               PROVE  ~DW!Admissible(dn'[e.account], e.nonce)
    BY DEF DepositsSpent, DW!Admissible
  <2>1. e.account \in Handles /\ e.nonce \in Nat
    BY LedgerAssumption
  <2>2. CASE e = d
    BY <1>1, <1>4, <1>5, <2>2
  <2>3. CASE e # d
    <3>1. ~DW!Admissible(dn[e.account], e.nonce)
      BY <1>8, <2>3 DEF MoneyIInv, DepositsSpent
    <3> QED
      BY <1>4, <1>5, <2>1, <3>1
  <2> QED
    BY <2>2, <2>3
<1>13. WithdrawalsSpent'
  BY <1>2, <1>8, LedgerAssumption DEF MoneyIInv, WithdrawalsSpent
<1>14. AtMostOnce'
  BY <1>8 DEF MoneyIInv, AtMostOnce
<1> QED
  BY <1>10, <1>11, <1>12, <1>13, <1>14 DEF MoneyIInv

\* A withdrawal consumes the nonce it was signed with, paid or not.
LEMMA WithdrawKeepsMoney ==
    ASSUME MoneyIInv, NEW w \in WithdrawOps, Withdraw(w)
    PROVE  MoneyIInv'
<1>1. moved \in [DepositOps \cup WithdrawOps -> Nat] /\ nonce \in [Handles -> Nat] /\ w.account \in Handles /\ w.nonce \in Nat
  BY LedgerAssumption DEF MoneyIInv, MoneyTypeOK
<1>2. /\ nonce' = [nonce EXCEPT ![w.account] = @ + 1] /\ dn' = dn
      /\ w.nonce = nonce[w.account]
      /\ moved' = moved \/ moved' = [moved EXCEPT ![w] = moved[w] + 1]
  BY DEF Withdraw, Authentic
<1>3. /\ nonce' \in [Handles -> Nat]
      /\ \A g \in Handles : nonce'[g] >= nonce[g]
      /\ nonce'[w.account] = nonce[w.account] + 1
  BY <1>1, <1>2, NonceRises
<1>4. moved[w] = 0
  <2>1. ~(nonce[w.account] > w.nonce)
    BY <1>1, <1>2
  <2> QED
    BY <1>1, <2>1 DEF MoneyIInv, AtMostOnce, WithdrawalsSpent
<1>5. \A x \in DepositOps \cup WithdrawOps : moved'[x] = moved[x] \/ (x = w /\ moved'[x] = 1)
  BY <1>1, <1>2, <1>4
<1>6. moved' \in [DepositOps \cup WithdrawOps -> Nat]
  BY <1>1, <1>2
<1>7. MoneyTypeOK' /\ WindowAboveFloor'
  BY <1>2, <1>3, <1>6 DEF MoneyIInv, MoneyTypeOK, WindowAboveFloor
<1>8. DepositsSpent'
  BY <1>2, <1>5, LedgerAssumption DEF MoneyIInv, DepositsSpent, DW!Admissible
<1>9. WithdrawalsSpent'
  <2> SUFFICES ASSUME NEW v \in WithdrawOps, moved'[v] > 0
               PROVE  nonce'[v.account] > v.nonce
    BY DEF WithdrawalsSpent
  <2>1. v.account \in Handles /\ v.nonce \in Nat
    BY LedgerAssumption
  <2>2. CASE v = w
    BY <1>1, <1>2, <1>3, <2>2
  <2>3. CASE v # w
    <3>1. nonce[v.account] > v.nonce
      BY <1>5, <2>3 DEF MoneyIInv, WithdrawalsSpent
    <3>2. nonce[v.account] \in Nat /\ nonce'[v.account] \in Nat /\ nonce'[v.account] >= nonce[v.account]
      BY <1>1, <1>3, <2>1
    <3> QED
      BY <2>1, <3>1, <3>2
  <2> QED
    BY <2>2, <2>3
<1>10. AtMostOnce'
  BY <1>5 DEF MoneyIInv, AtMostOnce
<1> QED
  BY <1>7, <1>8, <1>9, <1>10 DEF MoneyIInv

\* A cancel consumes a nonce too.
LEMMA CancelKeepsMoney ==
    ASSUME MoneyIInv, NEW x, x.account \in Handles, Cancel(x)
    PROVE  MoneyIInv'
<1>1. nonce' = [nonce EXCEPT ![x.account] = @ + 1] /\ dn' = dn /\ moved' = moved
  BY DEF Cancel
<1>2. /\ nonce' \in [Handles -> Nat]
      /\ \A g \in Handles : nonce'[g] >= nonce[g]
  BY <1>1, NonceRises
<1>3. MoneyTypeOK' /\ WindowAboveFloor' /\ DepositsSpent' /\ AtMostOnce'
  BY <1>1, <1>2 DEF MoneyIInv, MoneyTypeOK, WindowAboveFloor, DepositsSpent, AtMostOnce, DW!Admissible
<1>4. WithdrawalsSpent'
  <2> SUFFICES ASSUME NEW v \in WithdrawOps, moved[v] > 0
               PROVE  nonce'[v.account] > v.nonce
    BY <1>1 DEF WithdrawalsSpent
  <2>1. v.account \in Handles /\ v.nonce \in Nat
    BY LedgerAssumption
  <2>2. nonce[v.account] > v.nonce
    BY DEF MoneyIInv, WithdrawalsSpent
  <2>3. nonce[v.account] \in Nat /\ nonce'[v.account] \in Nat /\ nonce'[v.account] >= nonce[v.account]
    BY <1>2, <2>1 DEF MoneyIInv, MoneyTypeOK
  <2> QED
    BY <2>1, <2>2, <2>3
<1> QED
  BY <1>3, <1>4 DEF MoneyIInv

LEMMA MoneyStep ==
    ASSUME MoneyIInv, [Next]_vars
    PROVE  MoneyIInv'
<1>1. CASE UNCHANGED vars
  BY <1>1, MoneyUntouched DEF vars, ledgerVars
<1>2. CASE LedgerStep
  BY <1>2, MoneyUntouched, DepositKeepsMoney, WithdrawKeepsMoney DEF LedgerStep, Register, Treasury
<1>3. CASE MarketStep
  BY <1>3, MoneyUntouched DEF MarketStep, ledgerVars
<1>4. ASSUME NEW x \in CancelOps, Cancel(x)
      PROVE  MoneyIInv'
  BY <1>4, CancelKeepsMoney, CancelAssumption
<1>5. ASSUME NEW p, SettleRound(p)
      PROVE  MoneyIInv'
  BY <1>5, MoneyUntouched DEF SettleRound, ApplySettlement
<1> QED
  BY <1>1, <1>2, <1>3, <1>4, <1>5 DEF Next

\* Every deposit credits and every withdrawal debits at most once, for any
\* accounts, operations and window size, whatever is delivered again, evicted
\* from the window, cancelled or settled in between (DEPOSIT's `admit',
\* WITHDRAW's nonce).
THEOREM MoneyMovesOnce == Spec => []MovedOnce
<1>1. MoneyIInv => MovedOnce
  BY DEF MoneyIInv, MoneyTypeOK, AtMostOnce, MovedOnce
<1> QED
  BY <1>1, MoneyInitially, MoneyStep, PTL DEF Spec
-----------------------------------------------------------------------------
HandlesInOrder ==
    /\ nexthandle \in Nat
    /\ pk \in [Handles -> Keys \cup {NoKey}]
    /\ \A h \in Handles : pk[h] # NoKey => h < nexthandle

\* A key owns at most one handle.
OneHandlePerKey == \A g, h \in Handles : pk[g] # NoKey /\ pk[g] = pk[h] => g = h

\* A handle that has a key keeps it.
KeysStay == [][\A h \in Handles : pk[h] # NoKey => pk'[h] = pk[h]]_vars

KeysIInv == HandlesInOrder /\ OneHandlePerKey

LEMMA KeysInitially == Init => KeysIInv
  BY LedgerAssumption DEF Init, LedgerInit, KeysIInv, HandlesInOrder, OneHandlePerKey

\* REGISTER takes a handle that has no key for a key that has no handle.
LEMMA RegisterKeepsKeys ==
    ASSUME KeysIInv, NEW k \in Keys, Register(k)
    PROVE  KeysIInv' /\ \A h \in Handles : pk[h] # NoKey => pk'[h] = pk[h]
<1>1. /\ nexthandle \in Nat /\ nexthandle \in Handles /\ nexthandle' = nexthandle + 1
      /\ pk \in [Handles -> Keys \cup {NoKey}] /\ pk' = [pk EXCEPT ![nexthandle] = k]
      /\ \A h \in Handles : pk[h] # k
      /\ Handles \subseteq Nat /\ k # NoKey
  BY LedgerAssumption DEF Register, KeysIInv, HandlesInOrder
<1>2. \A h \in Handles : pk'[h] = IF h = nexthandle THEN k ELSE pk[h]
  BY <1>1
<1>3. HandlesInOrder'
  <2>1. pk' \in [Handles -> Keys \cup {NoKey}] /\ nexthandle' \in Nat
    BY <1>1
  <2>2. \A h \in Handles : pk'[h] # NoKey => h < nexthandle'
    BY <1>1, <1>2 DEF KeysIInv, HandlesInOrder
  <2> QED
    BY <2>1, <2>2 DEF HandlesInOrder
<1>4. OneHandlePerKey'
  BY <1>1, <1>2 DEF KeysIInv, OneHandlePerKey
<1>5. pk[nexthandle] = NoKey
  BY <1>1 DEF KeysIInv, HandlesInOrder
<1> QED
  BY <1>2, <1>3, <1>4, <1>5 DEF KeysIInv

\* Only REGISTER writes a key.
LEMMA KeysStep ==
    ASSUME KeysIInv, [Next]_vars
    PROVE  KeysIInv' /\ \A h \in Handles : pk[h] # NoKey => pk'[h] = pk[h]
<1>1. CASE \E k \in Keys : Register(k)
  BY <1>1, RegisterKeepsKeys
<1>2. CASE UNCHANGED <<pk, nexthandle>>
  BY <1>2 DEF KeysIInv, HandlesInOrder, OneHandlePerKey
<1>3. (\E k \in Keys : Register(k)) \/ UNCHANGED <<pk, nexthandle>>
  <2>1. CASE UNCHANGED vars
    BY <2>1 DEF vars, ledgerVars
  <2>2. CASE LedgerStep
    BY <2>2 DEF LedgerStep, Deposit, Withdraw, Treasury
  <2>3. CASE MarketStep
    BY <2>3 DEF MarketStep, ledgerVars
  <2>4. CASE \E x \in CancelOps : Cancel(x)
    BY <2>4 DEF Cancel
  <2>5. CASE \E p \in net : SettleRound(p)
    BY <2>5 DEF SettleRound, ApplySettlement
  <2> QED
    BY <2>1, <2>2, <2>3, <2>4, <2>5 DEF Next
<1> QED
  BY <1>1, <1>2, <1>3

\* No key ever owns two handles, whatever is registered again and in whatever
\* order (REGISTER's search for a known key).
THEOREM OneAccountPerKey == Spec => []OneHandlePerKey
<1>1. KeysIInv => OneHandlePerKey
  BY DEF KeysIInv
<1> QED
  BY <1>1, KeysInitially, KeysStep, PTL DEF Spec

\* Whoever owns an account owns it for good: no later registration, round or
\* operation replaces the key its signatures are checked against (pk and
\* nexthandle in REGISTER).
THEOREM AccountsKeepKeys == Spec => KeysStay
<1>1. ASSUME KeysIInv, [Next]_vars
      PROVE  KeysIInv' /\ [\A h \in Handles : pk[h] # NoKey => pk'[h] = pk[h]]_vars
  BY <1>1, KeysStep
<1> QED
  BY <1>1, KeysInitially, PTL DEF Spec, KeysStay

-----------------------------------------------------------------------------
\* The engine's orders: of a signed order, its side, account and, unless it is a
\* market order, its price.
Entries == {e \in [account : Traders, id : Nat, side : Sides, price : Nat, qty : Nat, src : Orders, gen : Nat] :
               /\ e.account = Terms[e.src].account /\ e.side = Terms[e.src].side
               /\ Terms[e.src].type # "market" => e.price = Terms[e.src].price}

PayloadOK(p) ==
    /\ p.new \in Seq(Entries) /\ p.sealed \in Seq(Entries) /\ p.book \in Seq(Entries)
    /\ \A i \in 1..Len(p.new) : /\ p.new[i].src \in Public /\ p.new[i].gen = 0
                                 /\ p.new[i].qty = Terms[p.new[i].src].qty

MarketTypeOK ==
    /\ sq \in [Traders -> Nat] /\ sc \in [Traders -> Nat]
    /\ book \in Seq(Entries)
    /\ commits \subseteq Entries /\ reseals \subseteq Entries /\ held \subseteq Entries
    /\ oid \in [Orders -> Nat] /\ nextoid \in Nat \ {0} /\ restarts \in Nat /\ late \in Nat
    /\ \A p \in net : PayloadOK(p)
    /\ entered \in [Orders -> Nat] /\ filled \in [Orders -> Nat]
    /\ DOMAIN accepted \subseteq net /\ \A p \in DOMAIN accepted : accepted[p] \in Nat
    /\ world \in Worlds

-----------------------------------------------------------------------------
LEMMA EntryFields ==
    ASSUME NEW e \in Entries
    PROVE  /\ e.account \in Traders /\ e.id \in Nat /\ e.side \in Sides /\ e.price \in Nat /\ e.qty \in Nat
           /\ e.src \in Orders /\ e.gen \in Nat
           /\ e.account = Terms[e.src].account /\ e.side = Terms[e.src].side
           /\ Terms[e.src].type # "market" => e.price = Terms[e.src].price
  BY DEF Entries

LEMMA EntriesAreBatch ==
    ASSUME NEW s \in Seq(Entries)
    PROVE  IsBatch(s) /\ \A i \in 1..Len(s) : s[i] \in Entries
<1>1. Len(s) \in Nat /\ \A i \in 1..Len(s) : s[i] \in Entries
  OBVIOUS
<1> QED
  BY <1>1, EntryFields DEF IsBatch

\* The same order, with another quantity.
SameOrder(a, b) ==
    /\ a.src = b.src /\ a.id = b.id /\ a.gen = b.gen /\ a.account = b.account
    /\ a.side = b.side /\ a.price = b.price

LEMMA OtherQty ==
    ASSUME NEW e \in Entries, NEW q \in Nat
    PROVE  [e EXCEPT !.qty = q] \in Entries /\ SameOrder([e EXCEPT !.qty = q], e)
  BY DEF Entries, SameOrder

LEMMA NextGen ==
    ASSUME NEW e \in Entries
    PROVE  LET f == [e EXCEPT !.gen = @ + 1]
           IN  f \in Entries /\ f.gen # 0 /\ f.src = e.src /\ f.id = e.id /\ f.qty = e.qty
  BY DEF Entries

\* An engine order of a signed one.
LEMMA EngineOrderOK ==
    ASSUME NEW o \in Orders, NEW id \in Nat, NEW price \in Nat, NEW qty \in Nat,
           Terms[o].type # "market" => price = Terms[o].price
    PROVE  LET e == EngineOrder(o, id, price, qty)
           IN  /\ e \in Entries /\ e.src = o /\ e.id = id /\ e.price = price /\ e.qty = qty /\ e.gen = 0
               /\ e.account = Terms[o].account
<1>1. Terms[o].account \in Traders /\ Terms[o].side \in Sides
  BY RoundsAssumption DEF Traders
<1> QED
  BY <1>1 DEF EngineOrder, Entries

\* resting, on entries.
LEMMA RestingEntries ==
    ASSUME NEW s \in Seq(Entries)
    PROVE  /\ Resting(s, Clear(s)) \in Seq(Entries)
           /\ \A n \in 1..Len(Resting(s, Clear(s))) : \E i \in 1..Len(s) : SameOrder(Resting(s, Clear(s))[n], s[i])
<1> DEFINE rest == Resting(s, Clear(s))
<1>1. IsBatch(s) /\ \A i \in 1..Len(s) : s[i] \in Entries
  BY EntriesAreBatch
<1>2. /\ Len(rest) \in Nat /\ rest = [n \in 1..Len(rest) |-> rest[n]]
      /\ \A n \in 1..Len(rest) : \E i \in 1..Len(s) : \E q \in Nat : rest[n] = [s[i] EXCEPT !.qty = q]
  BY <1>1, RestingFromBatch
<1> HIDE DEF rest
<1>3. ASSUME NEW n \in 1..Len(rest)
      PROVE  rest[n] \in Entries /\ \E i \in 1..Len(s) : SameOrder(rest[n], s[i])
  <2>1. PICK i \in 1..Len(s) : \E q \in Nat : rest[n] = [s[i] EXCEPT !.qty = q]
    BY <1>2
  <2>2. PICK q \in Nat : rest[n] = [s[i] EXCEPT !.qty = q]
    BY <2>1
  <2> QED
    BY <1>1, <2>2, OtherQty
<1>4. rest \in Seq(Entries)
  <2>1. rest \in [1..Len(rest) -> Entries]
    BY <1>2, <1>3
  <2> QED
    BY <1>2, <2>1
<1> QED
  BY <1>3, <1>4 DEF rest

-----------------------------------------------------------------------------
\* Hidden: an id of one of the payload's sealed orders.
HiddenIn(p, o) == \E i \in 1..Len(p.sealed) : p.sealed[i].id = o.id

Listed(p, o) == \/ \E i \in 1..Len(p.book) : o = p.book[i]
                \/ \E i \in 1..Len(p.new) : o = p.new[i]
                \/ \E i \in 1..Len(p.sealed) : o = p.sealed[i]

\* What refine makes of a payload.
LEMMA RefineParts ==
    ASSUME NEW p, PayloadOK(p)
    PROVE  LET r == Refine(p)
           IN  /\ r.batch \in Seq(Entries) /\ r.book \in Seq(Entries) /\ r.carry \in Seq(Entries)
               /\ \A i \in 1..Len(r.batch) : Listed(p, r.batch[i])
               /\ \A n \in 1..Len(r.book) : /\ ~HiddenIn(p, r.book[n])
                                            /\ \E i \in 1..Len(r.batch) : SameOrder(r.book[n], r.batch[i])
               /\ \A n \in 1..Len(r.carry) : /\ HiddenIn(p, r.carry[n])
                                             /\ \E i \in 1..Len(r.batch) : SameOrder(r.carry[n], r.batch[i])
               /\ r.clearing = Clear(r.batch) /\ r.settle = Settlement(r.batch, r.clearing)
<1> DEFINE pruned(o) == [account |-> o.account, id |-> o.id] \in p.prune
           K == {i \in 1..Len(p.book) : ~pruned(p.book[i])}
           kept == Pick(p.book, K)
           all == kept \o p.new \o p.sealed
           rest == Resting(all, Clear(all))
           B == {i \in 1..Len(rest) : ~HiddenIn(p, rest[i])}
           C == {i \in 1..Len(rest) : HiddenIn(p, rest[i])}
           r == Refine(p)
<1>0. p.new \in Seq(Entries) /\ p.sealed \in Seq(Entries) /\ p.book \in Seq(Entries)
  BY DEF PayloadOK
<1>1. /\ r.batch = all /\ r.clearing = Clear(all) /\ r.settle = Settlement(all, Clear(all))
      /\ r.book = Pick(rest, B) /\ r.carry = Pick(rest, C)
  BY DEF Refine, HiddenIn
<1> HIDE DEF r
<1>2. K \in SUBSET (1..Len(p.book))
  OBVIOUS
<1> HIDE DEF K
<1>3. kept \in Seq(Entries) /\ \A n \in 1..Len(kept) : \E i \in 1..Len(p.book) : kept[n] = p.book[i]
  <2>1. kept \in Seq(Entries) /\ \A n \in 1..Len(kept) : \E i \in K : kept[n] = p.book[i]
    BY <1>0, <1>2, PickIsPart
  <2> QED
    BY <1>2, <2>1
<1> HIDE DEF kept
<1> DEFINE front == kept \o p.new
<1>4a. /\ front \in Seq(Entries)
       /\ \A i \in 1..Len(front) :
             \/ i \in 1..Len(kept) /\ front[i] = kept[i]
             \/ i - Len(kept) \in 1..Len(p.new) /\ front[i] = p.new[i - Len(kept)]
  BY <1>0, <1>3, ConcatAt
<1>4b. all = front \o p.sealed
  OBVIOUS
<1> HIDE DEF front, all
<1>4c. /\ all \in Seq(Entries)
       /\ \A i \in 1..Len(all) :
             \/ i \in 1..Len(front) /\ all[i] = front[i]
             \/ i - Len(front) \in 1..Len(p.sealed) /\ all[i] = p.sealed[i - Len(front)]
  <2>1. /\ front \o p.sealed \in Seq(Entries)
        /\ \A i \in 1..Len(front \o p.sealed) :
             \/ i \in 1..Len(front) /\ (front \o p.sealed)[i] = front[i]
             \/ i - Len(front) \in 1..Len(p.sealed) /\ (front \o p.sealed)[i] = p.sealed[i - Len(front)]
    BY <1>0, <1>4a, ConcatAt
  <2> QED
    BY <1>4b, <2>1, Zenon
<1>4. all \in Seq(Entries)
  BY <1>4c
<1>5. ASSUME NEW i \in 1..Len(all) PROVE Listed(p, all[i])
  <2>1. CASE i \in 1..Len(front) /\ all[i] = front[i]
    <3>1. CASE i \in 1..Len(kept) /\ front[i] = kept[i]
      BY <1>3, <2>1, <3>1 DEF Listed
    <3>2. CASE i - Len(kept) \in 1..Len(p.new) /\ front[i] = p.new[i - Len(kept)]
      BY <2>1, <3>2 DEF Listed
    <3> QED
      BY <1>4a, <2>1, <3>1, <3>2
  <2>2. CASE i - Len(front) \in 1..Len(p.sealed) /\ all[i] = p.sealed[i - Len(front)]
    BY <2>2 DEF Listed
  <2> QED
    BY <1>4c, <2>1, <2>2
<1>6. rest \in Seq(Entries) /\ \A n \in 1..Len(rest) : \E i \in 1..Len(all) : SameOrder(rest[n], all[i])
  BY <1>4, RestingEntries
<1> HIDE DEF rest
<1>7. /\ Pick(rest, B) \in Seq(Entries) /\ \A n \in 1..Len(Pick(rest, B)) : \E i \in B : Pick(rest, B)[n] = rest[i]
  <2>1. B \in SUBSET (1..Len(rest))
    OBVIOUS
  <2> HIDE DEF B
  <2> QED
    BY <1>6, <2>1, PickIsPart
<1>8. /\ Pick(rest, C) \in Seq(Entries) /\ \A n \in 1..Len(Pick(rest, C)) : \E i \in C : Pick(rest, C)[n] = rest[i]
  <2>1. C \in SUBSET (1..Len(rest))
    OBVIOUS
  <2> HIDE DEF C
  <2> QED
    BY <1>6, <2>1, PickIsPart
<1>9. ASSUME NEW n \in 1..Len(r.book)
      PROVE  ~HiddenIn(p, r.book[n]) /\ \E i \in 1..Len(all) : SameOrder(r.book[n], all[i])
  <2>1. PICK i \in B : r.book[n] = rest[i]
    BY <1>1, <1>7
  <2>2. i \in 1..Len(rest) /\ ~HiddenIn(p, rest[i])
    OBVIOUS
  <2> QED
    BY <1>6, <2>1, <2>2
<1>10. ASSUME NEW n \in 1..Len(r.carry)
      PROVE  HiddenIn(p, r.carry[n]) /\ \E i \in 1..Len(all) : SameOrder(r.carry[n], all[i])
  <2>1. PICK i \in C : r.carry[n] = rest[i]
    BY <1>1, <1>8
  <2>2. i \in 1..Len(rest) /\ HiddenIn(p, rest[i])
    OBVIOUS
  <2> QED
    BY <1>6, <2>1, <2>2
<1> QED
  BY <1>1, <1>4, <1>5, <1>7, <1>8, <1>9, <1>10 DEF r

-----------------------------------------------------------------------------
\* The positions of account h among the first n new orders.
Own(new, n, h) == {i \in 1..n : Terms[new[i].src].account = h}

LEMMA FloorIs ==
    ASSUME NEW new, NEW n, NEW h
    PROVE  RunningFloor(new, n, h) = IF Own(new, n, h) = {} THEN sq[h] ELSE Terms[new[Max(Own(new, n, h))].src].seq
  BY DEF RunningFloor, Own

\* One order more: the floor of its account becomes its seq.
LEMMA FloorNext ==
    ASSUME NEW new, NEW n \in Nat, NEW h
    PROVE  RunningFloor(new, n + 1, h) = IF Terms[new[n + 1].src].account = h THEN Terms[new[n + 1].src].seq
                                         ELSE RunningFloor(new, n, h)
<1>1. CASE Terms[new[n + 1].src].account = h
  <2>1. Own(new, n + 1, h) \in SUBSET Nat /\ n + 1 \in Own(new, n + 1, h) /\ \A y \in Own(new, n + 1, h) : y <= n + 1
    BY <1>1 DEF Own
  <2>2. Max(Own(new, n + 1, h)) = n + 1
    BY <2>1, MaxIs
  <2>3. Own(new, n + 1, h) # {}
    BY <2>1
  <2> QED
    BY <1>1, <2>2, <2>3, FloorIs
<1>2. CASE Terms[new[n + 1].src].account # h
  <2>1. Own(new, n + 1, h) = Own(new, n, h)
    BY <1>2 DEF Own
  <2>2. RunningFloor(new, n + 1, h) = RunningFloor(new, n, h)
    BY <2>1, FloorIs, Zenon
  <2> QED
    BY <1>2, <2>2
<1> QED
  BY <1>1, <1>2

\* check_bindings: a round's orders raise the floors, each above its account's
\* floor and above the account's orders before it in the round.
LEMMA FloorsRise ==
    ASSUME sq \in [Traders -> Nat], NEW new \in Seq(Entries), NEW key, CheckBindings(new, key)
    PROVE  /\ \A h \in Traders : RunningFloor(new, Len(new), h) \in Nat /\ sq[h] <= RunningFloor(new, Len(new), h)
           /\ \A i \in 1..Len(new) :
                 LET t == Terms[new[i].src]
                 IN  /\ t.account \in Traders /\ t.seq \in Nat /\ key[t.account] = t.key
                     /\ sq[t.account] < t.seq /\ t.seq <= RunningFloor(new, Len(new), t.account)
           /\ \A i, j \in 1..Len(new) : new[i].src = new[j].src => i = j
<1> DEFINE acc(i) == Terms[new[i].src].account
           seq(i) == Terms[new[i].src].seq
           RF(n, h) == RunningFloor(new, n, h)
           P(n) == \A h \in Traders : /\ RF(n, h) \in Nat /\ sq[h] <= RF(n, h)
                                      /\ \A i \in 1..n : acc(i) = h => seq(i) <= RF(n, h)
           N == {n \in Nat : n <= Len(new) => P(n)}
<1>0. Len(new) \in Nat /\ \A i \in 1..Len(new) : acc(i) \in Traders /\ seq(i) \in Nat
  <2>1. Len(new) \in Nat /\ \A i \in 1..Len(new) : new[i] \in Entries
    OBVIOUS
  <2>2. \A i \in 1..Len(new) : new[i].src \in Orders
    BY <2>1, EntryFields
  <2> QED
    BY <2>1, <2>2, RoundsAssumption DEF Traders
<1>1. \A i \in 1..Len(new) : seq(i) > RF(i - 1, acc(i)) /\ key[acc(i)] = Terms[new[i].src].key
  BY DEF CheckBindings
<1>2. \A n \in Nat : \A h : RF(n + 1, h) = IF acc(n + 1) = h THEN seq(n + 1) ELSE RF(n, h)
  BY FloorNext
<1>3. \A h : RF(0, h) = sq[h]
  <2>1. \A h : Own(new, 0, h) = {}
    BY DEF Own
  <2> QED
    BY <2>1, FloorIs
<1> HIDE DEF RF, acc, seq
<1>4. 0 \in N
  BY <1>3
<1>5. ASSUME NEW n \in N PROVE n + 1 \in N
  <2> SUFFICES ASSUME n + 1 <= Len(new), NEW h \in Traders
               PROVE  /\ RF(n + 1, h) \in Nat /\ sq[h] <= RF(n + 1, h)
                      /\ \A i \in 1..(n + 1) : acc(i) = h => seq(i) <= RF(n + 1, h)
    OBVIOUS
  <2>0. n \in Nat /\ n <= Len(new) /\ n + 1 \in 1..Len(new) /\ (n + 1) - 1 = n
    BY <1>0
  <2>1. /\ RF(n, h) \in Nat /\ sq[h] <= RF(n, h) /\ sq[h] \in Nat
        /\ \A i \in 1..n : acc(i) = h => seq(i) <= RF(n, h)
    BY <2>0
  <2>2. \A i \in 1..(n + 1) : i \in 1..n \/ i = n + 1
    BY <2>0
  <2>3. \A i \in 1..(n + 1) : i \in 1..Len(new)
    BY <1>0, <2>0
  <2>4. CASE acc(n + 1) = h
    <3>1. RF(n + 1, h) = seq(n + 1) /\ seq(n + 1) > RF(n, h) /\ seq(n + 1) \in Nat
      BY <1>0, <1>1, <1>2, <2>0, <2>4
    <3>2. ASSUME NEW i \in 1..(n + 1), acc(i) = h PROVE seq(i) <= RF(n + 1, h)
      <4>1. seq(i) \in Nat
        BY <1>0, <2>3
      <4>2. CASE i \in 1..n
        <5>1. seq(i) <= RF(n, h)
          BY <2>1, <3>2, <4>2
        <5> QED
          BY <2>1, <3>1, <4>1, <5>1
      <4>3. CASE i = n + 1
        BY <3>1, <4>3
      <4> QED
        BY <2>2, <4>2, <4>3
    <3> QED
      BY <2>1, <3>1, <3>2
  <2>5. CASE acc(n + 1) # h
    <3>1. RF(n + 1, h) = RF(n, h)
      BY <1>2, <2>0, <2>5
    <3> QED
      BY <2>1, <2>2, <2>5, <3>1
  <2> QED
    BY <2>4, <2>5
<1>6. \A n \in Nat : n \in N
  <2> HIDE DEF N
  <2>1. N \subseteq Nat
    BY DEF N
  <2> QED
    BY <1>4, <1>5, <2>1, CountUp
<1>7. \A n \in Nat : n <= Len(new) => P(n)
  BY <1>6
<1>8. P(Len(new))
  BY <1>0, <1>7
<1>9. ASSUME NEW i \in 1..Len(new) PROVE sq[acc(i)] < seq(i) /\ seq(i) <= RF(Len(new), acc(i))
  <2>1. acc(i) \in Traders /\ seq(i) \in Nat /\ i - 1 \in Nat /\ i - 1 <= Len(new)
    BY <1>0
  <2>2. sq[acc(i)] <= RF(i - 1, acc(i)) /\ RF(i - 1, acc(i)) \in Nat /\ sq[acc(i)] \in Nat
    BY <1>7, <2>1
  <2>3. seq(i) > RF(i - 1, acc(i))
    BY <1>1
  <2>4. seq(i) <= RF(Len(new), acc(i))
    BY <1>8, <2>1
  <2> QED
    BY <2>1, <2>2, <2>3, <2>4
<1>10. ASSUME NEW i \in 1..Len(new), NEW j \in 1..Len(new), i < j, acc(i) = acc(j), seq(i) = seq(j) PROVE FALSE
  <2>1. j - 1 \in Nat /\ j - 1 <= Len(new) /\ i \in 1..(j - 1) /\ acc(j) \in Traders /\ seq(j) \in Nat
    BY <1>0, <1>10
  <2>2. seq(i) <= RF(j - 1, acc(j)) /\ RF(j - 1, acc(j)) \in Nat
    BY <1>7, <1>10, <2>1
  <2>3. seq(j) > RF(j - 1, acc(j))
    BY <1>1
  <2> QED
    BY <1>10, <2>1, <2>2, <2>3
<1>11. ASSUME NEW i \in 1..Len(new), NEW j \in 1..Len(new), new[i].src = new[j].src PROVE i = j
  <2>1. acc(i) = acc(j) /\ seq(i) = seq(j)
    BY <1>11 DEF acc, seq
  <2>2. i \in Int /\ j \in Int
    OBVIOUS
  <2>3. ~(i < j) /\ ~(j < i)
    BY <1>10, <2>1
  <2> QED
    BY <2>2, <2>3
<1> QED
  BY <1>0, <1>1, <1>8, <1>9, <1>11 DEF RF, acc, seq

-----------------------------------------------------------------------------
\* A hidden order a round consumed: what let it on chain does not let it on
\* again, unless it is a re-seal of which a copy comes late.
Spent(e) ==
    /\ e.gen = 0 => Terms[e.src].seq <= sc[e.account]
    /\ e.gen # 0 => e \in opened

EntersOnce == \A o \in Orders : /\ entered[o] \in {0, 1}
                                /\ entered[o] = 1 => Terms[o].seq <= sq[Terms[o].account]

CommitsKnown ==
    /\ \A e \in reseals : e.gen # 0
    /\ \A e \in commits : /\ e.gen = 0 => Terms[e.src].seq <= sc[e.account]
                          /\ e.gen # 0 => e \in reseals

\* Signed under the key of the account it trades for.
IsSigned(o) == pk[Terms[o].account] = Terms[o].key

SignedByOwner ==
    /\ \A i \in 1..Len(book) : IsSigned(book[i].src) /\ book[i].src \in Public
    /\ \A e \in commits \cup reseals : IsSigned(e.src)
    /\ \A o \in Orders : entered[o] > 0 \/ filled[o] > 0 => IsSigned(o)

MarketIInv == MarketTypeOK /\ EntersOnce /\ CommitsKnown /\ SignedByOwner

\* What was accepted cannot be accepted again, but for what late copies put back.
AcceptedSpent == \A p \in DOMAIN accepted :
    /\ accepted[p] \in Nat
    /\ p.new # <<>> => accepted[p] = 1
    /\ p.sealed # <<>> => accepted[p] <= 1 + late
    /\ \A i \in 1..Len(p.new) : Terms[p.new[i].src].seq <= sq[Terms[p.new[i].src].account]
    /\ \A i \in 1..Len(p.sealed) : /\ Spent(p.sealed[i])
                                   /\ p.sealed[i] \in commits => accepted[p] <= late

-----------------------------------------------------------------------------
LEMMA MarketInitially ==
    ASSUME Init
    PROVE  MarketIInv /\ AcceptedSpent
<1>1. /\ sq = [h \in Traders |-> 0] /\ sc = [h \in Traders |-> 0] /\ book = <<>> /\ commits = {}
      /\ oid = [o \in Orders |-> 0] /\ nextoid = FirstOid /\ restarts = 0 /\ late = 0
      /\ net = {} /\ reseals = {} /\ held = {}
      /\ filled = [o \in Orders |-> 0] /\ entered = [o \in Orders |-> 0] /\ accepted = [p \in {} |-> 0]
      /\ world \in Worlds
  BY DEF Init, RoundsInit
<1>2. DOMAIN accepted = {} /\ <<>> \in Seq(Entries) /\ Len(<<>>) = 0
  BY <1>1
<1>3. MarketTypeOK
  BY <1>1, <1>2, RoundsAssumption DEF MarketTypeOK
<1>4. EntersOnce /\ CommitsKnown
  BY <1>1 DEF EntersOnce, CommitsKnown
<1>5. SignedByOwner
  BY <1>1, <1>2 DEF SignedByOwner
<1>6. AcceptedSpent
  BY <1>2 DEF AcceptedSpent
<1> QED
  BY <1>3, <1>4, <1>5, <1>6 DEF MarketIInv

\* A payload that is put together and passes parse_public_section.
LEMMA SubmittedOK ==
    ASSUME MarketTypeOK, NEW p \in Payloads, \A i \in 1..Len(p.new) : SignedAsSubmitted(p.new[i])
    PROVE  /\ PayloadOK(p) /\ p.book = book
           /\ \A i \in 1..Len(p.new) : p.new[i].id = oid[p.new[i].src] /\ oid[p.new[i].src] # 0
           /\ \A i \in 1..Len(p.sealed) : p.sealed[i] \in commits
<1> DEFINE taken == {o \in Public : oid[o] # 0}
           priced(o) == {EngineOrder(o, oid[o], x, Terms[o].qty) : x \in ExecPrices}
           S == UNION {priced(o) : o \in taken}
<1>1. /\ p.new \in BoundedSeq(S, MaxBatch) /\ p.book = book
      /\ p.sealed = <<>> \/ \E c \in commits : p.sealed = <<c>>
  BY DEF Payloads
<1>2. PICK m \in 0..MaxBatch : p.new \in [1..m -> S]
  BY <1>1 DEF BoundedSeq, SeqOf
<1>3. m \in Nat /\ Len(p.new) = m /\ \A i \in 1..Len(p.new) : p.new[i] \in S
  BY <1>2, RoundsAssumption
<1>4. ASSUME NEW i \in 1..Len(p.new)
      PROVE  /\ p.new[i] \in Entries /\ p.new[i].src \in Public /\ p.new[i].gen = 0
             /\ p.new[i].qty = Terms[p.new[i].src].qty
             /\ p.new[i].id = oid[p.new[i].src] /\ oid[p.new[i].src] # 0
  <2>1. PICK o \in Public : oid[o] # 0 /\ p.new[i] \in priced(o)
    BY <1>3
  <2>2. PICK x \in ExecPrices : p.new[i] = EngineOrder(o, oid[o], x, Terms[o].qty)
    BY <2>1
  <2>3. o \in Orders /\ oid[o] \in Nat /\ x \in Nat /\ Terms[o].qty \in Nat /\ Terms[o].type \in {"limit", "market"}
    <3>1. o \in Orders /\ Terms[o].type # "sealed"
      BY DEF Public
    <3>2. Terms[o].type \in {"limit", "market", "sealed"} /\ Terms[o].qty \in 1..(U32 - 1)
      BY <3>1, RoundsAssumption
    <3>3. Terms[o].qty \in Nat
      BY <3>2, U32Assumption
    <3> QED
      BY <3>1, <3>2, <3>3, RoundsAssumption DEF MarketTypeOK
  <2>4. p.new[i].src = o /\ p.new[i].price = x
    BY <2>2 DEF EngineOrder
  <2>5. Terms[o].type # "market" => x = Terms[o].price
    BY <2>3, <2>4 DEF SignedAsSubmitted
  <2> DEFINE id == oid[o]
             q == Terms[o].qty
             e == EngineOrder(o, id, x, q)
  <2>6. o \in Orders /\ id \in Nat /\ x \in Nat /\ q \in Nat
    BY <2>3
  <2>7. p.new[i] = e /\ id # 0 /\ id = oid[o] /\ q = Terms[o].qty
    BY <2>1, <2>2
  <2> HIDE DEF id, q, taken, priced, S
  <2>8. e \in Entries /\ e.src = o /\ e.id = id /\ e.qty = q /\ e.gen = 0
    BY <2>5, <2>6, EngineOrderOK
  <2> HIDE DEF e
  <2> QED
    BY <2>7, <2>8
<1>5. p.new \in Seq(Entries)
  <2>1. p.new \in [1..m -> Entries]
    BY <1>2, <1>3, <1>4
  <2> QED
    BY <1>3, <2>1
<1>6. p.sealed \in Seq(Entries) /\ \A i \in 1..Len(p.sealed) : p.sealed[i] \in commits
  <2>1. CASE p.sealed = <<>>
    BY <2>1
  <2>2. CASE \E c \in commits : p.sealed = <<c>>
    <3>1. PICK c \in commits : p.sealed = <<c>>
      BY <2>2
    <3>2. c \in Entries
      BY DEF MarketTypeOK
    <3>3. <<c>> \in Seq(Entries) /\ Len(<<c>>) = 1 /\ <<c>>[1] = c
      BY <3>2
    <3>4. \A i \in 1..Len(p.sealed) : p.sealed[i] = c
      BY <3>1, <3>3
    <3> QED
      BY <3>1, <3>3, <3>4
  <2> QED
    BY <1>1, <2>1, <2>2
<1> QED
  BY <1>1, <1>4, <1>5, <1>6 DEF PayloadOK, MarketTypeOK

-----------------------------------------------------------------------------
\* How often an order is among a list's.
LEMMA CountOfOne ==
    ASSUME NEW new \in Seq(Entries), \A i, j \in 1..Len(new) : new[i].src = new[j].src => i = j, NEW o
    PROVE  LET n == Cardinality({i \in 1..Len(new) : new[i].src = o})
           IN  IF \E i \in 1..Len(new) : new[i].src = o THEN n = 1 ELSE n = 0
<1>1. CASE \E i \in 1..Len(new) : new[i].src = o
  <2>1. PICK i \in 1..Len(new) : new[i].src = o
    BY <1>1
  <2>2. {j \in 1..Len(new) : new[j].src = o} = {i}
    BY <2>1
  <2>3. Cardinality({i}) = 1
    BY FS_Singleton
  <2> QED
    BY <1>1, <2>2, <2>3
<1>2. CASE ~\E i \in 1..Len(new) : new[i].src = o
  <2>1. {j \in 1..Len(new) : new[j].src = o} = {}
    BY <1>2
  <2>2. Cardinality({}) = 0
    BY FS_EmptySet
  <2> QED
    BY <1>2, <2>1, <2>2
<1> QED
  BY <1>1, <1>2

\* What a round fills of an order.
FilledNow(r, o) ==
    SumFunctionOnSet([i \in 1..Len(r.batch) |-> FilledQty(r.batch, r.clearing.fills, r.batch[i].id)],
                     {i \in 1..Len(r.batch) : r.batch[i].src = o})

LEMMA FilledNowType ==
    ASSUME NEW r, r.batch \in Seq(Entries), r.clearing = Clear(r.batch), NEW o
    PROVE  /\ FilledNow(r, o) \in Nat
           /\ (\A i \in 1..Len(r.batch) : r.batch[i].src # o) => FilledNow(r, o) = 0
<1> DEFINE f == [i \in 1..Len(r.batch) |-> FilledQty(r.batch, r.clearing.fills, r.batch[i].id)]
           K == {i \in 1..Len(r.batch) : r.batch[i].src = o}
<1>1. IsBatch(r.batch) /\ Len(r.batch) \in Nat
  BY EntriesAreBatch
<1>2. \A i \in 1..Len(r.batch) : FilledQty(r.batch, r.clearing.fills, r.batch[i].id) \in Nat
  BY <1>1, FilledType
<1>3. \A i \in K : f[i] \in Nat
  BY <1>2
<1>4. IsFiniteSet(K)
  <2>1. IsFiniteSet(1..Len(r.batch))
    BY <1>1, FS_Interval
  <2> QED
    BY <2>1, FS_Subset
<1>5. (\A i \in 1..Len(r.batch) : r.batch[i].src # o) => K = {}
  OBVIOUS
<1>6. FilledNow(r, o) = SumFunctionOnSet(f, K)
  BY DEF FilledNow
<1> HIDE DEF f, K
<1>7. SumFunctionOnSet(f, K) \in Nat
  BY <1>3, <1>4, SumNat
<1>8. K = {} => SumFunctionOnSet(f, K) = 0
  BY SumEmpty
<1> QED
  BY <1>5, <1>6, <1>7, <1>8

\* A settled round, in the terms of the invariant.
LEMMA RoundFacts ==
    ASSUME MarketTypeOK, NEW p \in net, NEW r, r = Refine(p), Round(p, r, pk)
    PROVE  /\ PayloadOK(p) /\ p.book = book
           /\ \A h \in Traders : sq'[h] \in Nat /\ sq[h] <= sq'[h]
           /\ \A i \in 1..Len(p.new) :
                 LET o == p.new[i].src
                 IN  /\ o \in Orders /\ o \in Public /\ IsSigned(o)
                     /\ sq[Terms[o].account] < Terms[o].seq /\ Terms[o].seq <= sq'[Terms[o].account]
           /\ \A i, j \in 1..Len(p.new) : p.new[i].src = p.new[j].src => i = j
           /\ \A i \in 1..Len(p.sealed) : p.sealed[i] \in commits /\ p.sealed[i] \notin commits'
           /\ commits' \subseteq commits
           /\ \A o \in Orders : entered'[o] = entered[o] + (IF \E i \in 1..Len(p.new) : p.new[i].src = o THEN 1 ELSE 0)
           /\ \A o \in Orders : filled'[o] = filled[o] + FilledNow(r, o)
<1>1. PayloadOK(p) /\ p.new \in Seq(Entries) /\ sq \in [Traders -> Nat]
  BY DEF MarketTypeOK, PayloadOK
<1>2. /\ p.book = book /\ CheckBindings(p.new, pk) /\ \A i \in 1..Len(p.sealed) : p.sealed[i] \in commits
  BY DEF Round, Acceptable, BookMatches, Consumes
<1>3. /\ commits' = commits \ ToSet(p.sealed)
      /\ sq' = [h \in Traders |-> RunningFloor(p.new, Len(p.new), h)]
      /\ entered' = [o \in Orders |-> entered[o] + Cardinality({i \in 1..Len(p.new) : p.new[i].src = o})]
  BY DEF Round, Consumed
<1>4. /\ \A h \in Traders : RunningFloor(p.new, Len(p.new), h) \in Nat /\ sq[h] <= RunningFloor(p.new, Len(p.new), h)
      /\ \A i \in 1..Len(p.new) :
                 LET t == Terms[p.new[i].src]
                 IN  /\ t.account \in Traders /\ t.seq \in Nat /\ pk[t.account] = t.key
                     /\ sq[t.account] < t.seq /\ t.seq <= RunningFloor(p.new, Len(p.new), t.account)
      /\ \A i, j \in 1..Len(p.new) : p.new[i].src = p.new[j].src => i = j
  BY <1>1, <1>2, FloorsRise
<1>5. \A i \in 1..Len(p.new) : p.new[i].src \in Orders /\ p.new[i].src \in Public
  BY <1>1 DEF PayloadOK, Public
<1>6. \A i \in 1..Len(p.sealed) : p.sealed[i] \in ToSet(p.sealed)
  BY DEF ToSet
<1>7. \A o \in Orders : LET n == Cardinality({i \in 1..Len(p.new) : p.new[i].src = o})
                        IN  IF \E i \in 1..Len(p.new) : p.new[i].src = o THEN n = 1 ELSE n = 0
  BY <1>1, <1>4, CountOfOne
<1>8. \A o \in Orders : entered'[o] = entered[o] + (IF \E i \in 1..Len(p.new) : p.new[i].src = o THEN 1 ELSE 0)
  BY <1>3, <1>7
<1>9. \A o \in Orders : filled'[o] = filled[o] + FilledNow(r, o)
  BY DEF Round, FilledNow
<1>10. \A h \in Traders : sq'[h] = RunningFloor(p.new, Len(p.new), h)
  BY <1>3
<1> QED
  BY <1>1, <1>2, <1>3, <1>4, <1>5, <1>6, <1>8, <1>9, <1>10 DEF IsSigned

-----------------------------------------------------------------------------
\* A signed order in the batch of a round: nobody else's can be.
LEMMA BatchSigned ==
    ASSUME MarketIInv, NEW p \in net, NEW r, r = Refine(p), Round(p, r, pk), NEW e, Listed(p, e)
    PROVE  IsSigned(e.src) /\ (HiddenIn(p, e) \/ e.src \in Public)
<1>1. /\ p.book = book /\ \A i \in 1..Len(p.new) : p.new[i].src \in Public /\ IsSigned(p.new[i].src)
      /\ \A i \in 1..Len(p.sealed) : p.sealed[i] \in commits
  BY RoundFacts DEF MarketIInv
<1>2. CASE \E i \in 1..Len(p.book) : e = p.book[i]
  BY <1>1, <1>2 DEF MarketIInv, SignedByOwner
<1>3. CASE \E i \in 1..Len(p.new) : e = p.new[i]
  BY <1>1, <1>3
<1>4. CASE \E i \in 1..Len(p.sealed) : e = p.sealed[i]
  BY <1>1, <1>4 DEF MarketIInv, SignedByOwner, HiddenIn
<1> QED
  BY <1>2, <1>3, <1>4 DEF Listed

\* The re-seals of a carry list are entries of its orders.
LEMMA ResealsAre ==
    ASSUME NEW carry \in Seq(Entries), NEW e \in Reseals(carry)
    PROVE  e \in Entries /\ e.gen # 0 /\ \E n \in 1..Len(carry) : /\ e = [carry[n] EXCEPT !.gen = @ + 1]
                                                                  /\ e.src = carry[n].src /\ e.id = carry[n].id
                                                                  /\ e.qty = carry[n].qty
<1>1. PICK n \in 1..Len(carry) : e = [carry[n] EXCEPT !.gen = @ + 1]
  BY DEF Reseals
<1>2. carry[n] \in Entries
  OBVIOUS
<1> QED
  BY <1>1, <1>2, NextGen

LEMMA RoundKeepsMarket ==
    ASSUME MarketIInv, NEW p \in net, NEW r, r = Refine(p), Round(p, r, pk), UNCHANGED <<pk, world>>
    PROVE  MarketIInv'
<1>1. /\ PayloadOK(p) /\ p.book = book
      /\ \A h \in Traders : sq'[h] \in Nat /\ sq[h] <= sq'[h]
      /\ \A i \in 1..Len(p.new) :
            LET o == p.new[i].src
            IN  /\ o \in Orders /\ o \in Public /\ IsSigned(o)
                /\ sq[Terms[o].account] < Terms[o].seq /\ Terms[o].seq <= sq'[Terms[o].account]
      /\ \A i \in 1..Len(p.sealed) : p.sealed[i] \in commits /\ p.sealed[i] \notin commits'
      /\ commits' \subseteq commits
      /\ \A o \in Orders : entered'[o] = entered[o] + (IF \E i \in 1..Len(p.new) : p.new[i].src = o THEN 1 ELSE 0)
      /\ \A o \in Orders : filled'[o] = filled[o] + FilledNow(r, o)
  BY RoundFacts DEF MarketIInv
<1>2. /\ r.batch \in Seq(Entries) /\ r.book \in Seq(Entries) /\ r.carry \in Seq(Entries)
      /\ \A i \in 1..Len(r.batch) : Listed(p, r.batch[i])
      /\ \A n \in 1..Len(r.book) : /\ ~HiddenIn(p, r.book[n])
                                   /\ \E i \in 1..Len(r.batch) : SameOrder(r.book[n], r.batch[i])
      /\ \A n \in 1..Len(r.carry) : \E i \in 1..Len(r.batch) : SameOrder(r.carry[n], r.batch[i])
      /\ r.clearing = Clear(r.batch)
  BY <1>1, RefineParts
<1>3. /\ book' = r.book /\ sc' = sc /\ oid' = oid /\ nextoid' = nextoid /\ restarts' = restarts /\ net' = net /\ late' = late
      /\ \E posted \in {{}, Reseals(r.carry)} : reseals' = reseals \cup posted /\ held' = held \cup posted
      /\ DOMAIN accepted' = DOMAIN accepted \cup {p}
      /\ \A q \in DOMAIN accepted' : accepted'[q] = (IF q \in DOMAIN accepted THEN accepted[q] ELSE 0) + (IF q = p THEN 1 ELSE 0)
      /\ sq' = [h \in Traders |-> RunningFloor(p.new, Len(p.new), h)]
      /\ entered' = [o \in Orders |-> entered'[o]] /\ filled' = [o \in Orders |-> filled'[o]]
  BY DEF Round
<1>4. PICK posted \in {{}, Reseals(r.carry)} : reseals' = reseals \cup posted /\ held' = held \cup posted
  BY <1>3
<1>5. \A i \in 1..Len(r.batch) : IsSigned(r.batch[i].src) /\ (HiddenIn(p, r.batch[i]) \/ r.batch[i].src \in Public)
  BY <1>2, BatchSigned
<1>6. \A e \in posted : e \in Entries /\ e.gen # 0 /\ IsSigned(e.src)
  <2> SUFFICES ASSUME NEW e \in Reseals(r.carry) PROVE e \in Entries /\ e.gen # 0 /\ IsSigned(e.src)
    OBVIOUS
  <2>1. e \in Entries /\ e.gen # 0 /\ \E n \in 1..Len(r.carry) : e.src = r.carry[n].src
    BY <1>2, ResealsAre
  <2>2. PICK n \in 1..Len(r.carry) : e.src = r.carry[n].src
    BY <2>1
  <2>3. PICK i \in 1..Len(r.batch) : SameOrder(r.carry[n], r.batch[i])
    BY <1>2
  <2> QED
    BY <1>5, <2>1, <2>2, <2>3 DEF SameOrder
<1>7. \A o \in Orders : /\ FilledNow(r, o) \in Nat
                        /\ (\A i \in 1..Len(r.batch) : r.batch[i].src # o) => FilledNow(r, o) = 0
  BY <1>2, FilledNowType
<1>8. MarketTypeOK'
  <2>1. sq' \in [Traders -> Nat]
    BY <1>1, <1>3
  <2>2. entered' \in [Orders -> Nat] /\ filled' \in [Orders -> Nat]
    <3>1. ASSUME NEW o \in Orders PROVE entered'[o] \in Nat /\ filled'[o] \in Nat
      <4>1. entered[o] \in Nat /\ filled[o] \in Nat
        BY DEF MarketIInv, MarketTypeOK
      <4>2. entered'[o] = entered[o] + 1 \/ entered'[o] = entered[o] + 0
        BY <1>1
      <4>3. filled'[o] = filled[o] + FilledNow(r, o) /\ FilledNow(r, o) \in Nat
        BY <1>1, <1>7
      <4> QED
        BY <4>1, <4>2, <4>3
    <3> QED
      BY <1>3, <3>1
  <2>3. \A q \in DOMAIN accepted' : accepted'[q] \in Nat
    BY <1>3 DEF MarketIInv, MarketTypeOK
  <2>4. DOMAIN accepted' \subseteq net'
    BY <1>3 DEF MarketIInv, MarketTypeOK
  <2>5. \A q \in net' : PayloadOK(q)'
    BY <1>3 DEF MarketIInv, MarketTypeOK, PayloadOK
  <2>6. commits' \subseteq Entries /\ reseals' \subseteq Entries /\ held' \subseteq Entries
    BY <1>1, <1>4, <1>6 DEF MarketIInv, MarketTypeOK
  <2> QED
    BY <1>2, <1>3, <2>1, <2>2, <2>3, <2>4, <2>5, <2>6 DEF MarketIInv, MarketTypeOK
<1>9. EntersOnce'
  <2> SUFFICES ASSUME NEW o \in Orders
               PROVE  entered'[o] \in {0, 1} /\ (entered'[o] = 1 => Terms[o].seq <= sq'[Terms[o].account])
    BY DEF EntersOnce
  <2>1. Terms[o].account \in Traders /\ Terms[o].seq \in Nat
    BY RoundsAssumption DEF Traders
  <2>2. /\ entered[o] \in {0, 1} /\ (entered[o] = 1 => Terms[o].seq <= sq[Terms[o].account])
        /\ sq[Terms[o].account] \in Nat /\ sq'[Terms[o].account] \in Nat /\ sq[Terms[o].account] <= sq'[Terms[o].account]
    BY <1>1, <2>1 DEF MarketIInv, EntersOnce, MarketTypeOK
  <2>3. CASE \E i \in 1..Len(p.new) : p.new[i].src = o
    <3>1. sq[Terms[o].account] < Terms[o].seq /\ Terms[o].seq <= sq'[Terms[o].account]
      BY <1>1, <2>3
    <3>2. entered[o] = 0
      BY <2>1, <2>2, <3>1
    <3>3. entered'[o] = 1
      BY <1>1, <2>3, <3>2
    <3> QED
      BY <3>1, <3>3
  <2>4. CASE ~\E i \in 1..Len(p.new) : p.new[i].src = o
    <3>1. entered'[o] = entered[o] + 0
      BY <1>1, <2>4
    <3>2. entered'[o] = entered[o]
      BY <2>2, <3>1
    <3> QED
      BY <2>1, <2>2, <3>2
  <2> QED
    BY <2>3, <2>4
<1>10. CommitsKnown'
  BY <1>1, <1>3, <1>4, <1>6 DEF MarketIInv, CommitsKnown
<1>11. SignedByOwner'
  <2>1. \A o : IsSigned(o)' <=> IsSigned(o)
    BY DEF IsSigned
  <2>2. ASSUME NEW n \in 1..Len(r.book) PROVE IsSigned(r.book[n].src) /\ r.book[n].src \in Public
    <3>1. PICK i \in 1..Len(r.batch) : SameOrder(r.book[n], r.batch[i])
      BY <1>2
    <3>2. ~HiddenIn(p, r.batch[i])
      BY <1>2, <3>1 DEF HiddenIn, SameOrder
    <3> QED
      BY <1>5, <3>1, <3>2 DEF SameOrder
  <2>3. ASSUME NEW o \in Orders, entered'[o] > 0 \/ filled'[o] > 0 PROVE IsSigned(o)
    <3>1. CASE entered[o] > 0 \/ filled[o] > 0
      BY <3>1 DEF MarketIInv, SignedByOwner
    <3>2. CASE \E i \in 1..Len(p.new) : p.new[i].src = o
      BY <1>1, <3>2
    <3>3. CASE \E i \in 1..Len(r.batch) : r.batch[i].src = o
      BY <1>5, <3>3
    <3>4. CASE /\ ~(entered[o] > 0 \/ filled[o] > 0) /\ ~\E i \in 1..Len(p.new) : p.new[i].src = o
               /\ ~\E i \in 1..Len(r.batch) : r.batch[i].src = o
      <4>1. entered[o] = 0 /\ filled[o] = 0
        BY <3>4 DEF MarketIInv, MarketTypeOK
      <4>2. entered'[o] = 0 /\ filled'[o] = 0
        BY <1>1, <1>7, <3>4, <4>1
      <4> QED
        BY <2>3, <4>2
    <3> QED
      BY <3>1, <3>2, <3>3, <3>4
  <2>4. \A e \in commits' \cup reseals' : IsSigned(e.src)
    BY <1>1, <1>4, <1>6 DEF MarketIInv, SignedByOwner
  <2>5. \A i \in 1..Len(book') : IsSigned(book'[i].src) /\ book'[i].src \in Public
    BY <1>3, <2>2
  <2> QED
    BY <2>1, <2>3, <2>4, <2>5 DEF SignedByOwner
<1> QED
  BY <1>8, <1>9, <1>10, <1>11 DEF MarketIInv

\* Its effects are gone: nothing of an accepted payload is acceptable again.
LEMMA RoundKeepsSpent ==
    ASSUME MarketIInv, AcceptedSpent, NEW p \in net, NEW r, r = Refine(p), Round(p, r, pk)
    PROVE  AcceptedSpent'
<1>1. /\ PayloadOK(p)
      /\ \A h \in Traders : sq'[h] \in Nat /\ sq[h] <= sq'[h]
      /\ \A i \in 1..Len(p.new) :
            LET o == p.new[i].src
            IN  /\ o \in Orders /\ sq[Terms[o].account] < Terms[o].seq /\ Terms[o].seq <= sq'[Terms[o].account]
      /\ \A i \in 1..Len(p.sealed) : p.sealed[i] \in commits /\ p.sealed[i] \notin commits'
      /\ commits' \subseteq commits
  BY RoundFacts DEF MarketIInv
<1>2. /\ sc' = sc /\ opened' = opened \cup (ToSet(p.sealed) \cap reseals)
      /\ DOMAIN accepted' = DOMAIN accepted \cup {p}
      /\ \A q \in DOMAIN accepted' : accepted'[q] = (IF q \in DOMAIN accepted THEN accepted[q] ELSE 0) + (IF q = p THEN 1 ELSE 0)
  BY DEF Round
<1>3. \A q \in DOMAIN accepted' : PayloadOK(q) /\ q \in net
  BY <1>2 DEF MarketIInv, MarketTypeOK
<1>0. late \in Nat /\ late' = late
  BY DEF MarketIInv, MarketTypeOK, Round
<1>4. ASSUME p \in DOMAIN accepted PROVE p.new = <<>>
  <2>1. \A i \in 1..Len(p.new) : FALSE
    <3> SUFFICES ASSUME NEW i \in 1..Len(p.new) PROVE FALSE
      OBVIOUS
    <3> DEFINE t == Terms[p.new[i].src]
    <3>1. t.seq <= sq[t.account]
      BY <1>4 DEF AcceptedSpent
    <3>2. p.new[i].src \in Orders /\ sq[t.account] < t.seq
      BY <1>1
    <3>3. t.seq \in Nat /\ sq[t.account] \in Nat
      BY <3>2, RoundsAssumption DEF MarketIInv, MarketTypeOK, Traders
    <3> QED
      BY <3>1, <3>2, <3>3
  <2>3. p.new \in Seq(Entries)
    BY <1>1 DEF PayloadOK
  <2>4. \A s \in Seq(Entries) : (\A i \in 1..Len(s) : FALSE) => s = <<>>
    OBVIOUS
  <2> QED
    BY <2>1, <2>3, <2>4
<1>10. ASSUME p \in DOMAIN accepted, p.sealed # <<>> PROVE accepted[p] <= late
  <2>1. p.sealed \in Seq(Entries)
    BY <1>1 DEF PayloadOK
  <2>2. 1 \in 1..Len(p.sealed)
    BY <1>10, <2>1
  <2>3. p.sealed[1] \in commits
    BY <1>1, <2>2
  <2> QED
    BY <1>10, <2>2, <2>3 DEF AcceptedSpent
<1>11. ASSUME NEW q \in DOMAIN accepted'
       PROVE  accepted'[q] \in Nat /\ (q # p => q \in DOMAIN accepted /\ accepted'[q] = accepted[q])
  <2>1. q # p => q \in DOMAIN accepted /\ accepted'[q] = accepted[q] + 0
    BY <1>2
  <2>2. q \in DOMAIN accepted => accepted[q] \in Nat
    BY DEF AcceptedSpent
  <2> QED
    BY <1>2, <2>1, <2>2
<1>5. ASSUME NEW q \in DOMAIN accepted'
      PROVE  (q.new # <<>> => accepted'[q] = 1) /\ (q.sealed # <<>> => accepted'[q] <= 1 + late)
  <2>1. CASE q = p /\ q \notin DOMAIN accepted
    BY <1>0, <1>2, <2>1
  <2>2. CASE q = p /\ q \in DOMAIN accepted
    <3>1. q.new = <<>> /\ accepted[q] \in Nat /\ accepted'[q] = accepted[q] + 1
      BY <1>2, <1>4, <2>2 DEF AcceptedSpent
    <3> QED
      BY <1>0, <1>10, <2>2, <3>1
  <2>3. CASE q # p
    BY <1>11, <2>3 DEF AcceptedSpent
  <2> QED
    BY <2>1, <2>2, <2>3
<1>6. ASSUME NEW q \in DOMAIN accepted', NEW i \in 1..Len(q.new)
      PROVE  Terms[q.new[i].src].seq <= sq'[Terms[q.new[i].src].account]
  <2>1. CASE q = p
    BY <1>1, <2>1
  <2>2. CASE q # p
    <3>1. Terms[q.new[i].src].seq <= sq[Terms[q.new[i].src].account]
      BY <1>2, <2>2 DEF AcceptedSpent
    <3>2. q.new[i].src \in Orders
      BY <1>3 DEF PayloadOK, Public
    <3>3. Terms[q.new[i].src].seq \in Nat /\ Terms[q.new[i].src].account \in Traders
      BY <3>2, RoundsAssumption DEF Traders
    <3>4. sq[Terms[q.new[i].src].account] \in Nat
      BY <3>3 DEF MarketIInv, MarketTypeOK
    <3> QED
      BY <1>1, <3>1, <3>3, <3>4
  <2> QED
    BY <2>1, <2>2
<1>7. ASSUME NEW q \in DOMAIN accepted', NEW i \in 1..Len(q.sealed)
      PROVE  Spent(q.sealed[i])' /\ (q.sealed[i] \in commits' => accepted'[q] <= late)
  <2>1. CASE q = p
    <3>1. q.sealed[i] \in ToSet(p.sealed)
      BY <2>1 DEF ToSet
    <3> QED
      BY <1>1, <1>2, <2>1, <3>1 DEF Spent, MarketIInv, CommitsKnown
  <2>2. CASE q # p
    <3>1. Spent(q.sealed[i]) /\ (q.sealed[i] \in commits => accepted[q] <= late)
      BY <1>2, <2>2 DEF AcceptedSpent
    <3> QED
      BY <1>1, <1>2, <1>11, <2>2, <3>1 DEF Spent
  <2> QED
    BY <2>1, <2>2
<1> QED
  BY <1>0, <1>5, <1>6, <1>7, <1>11 DEF AcceptedSpent

-----------------------------------------------------------------------------
\* An account keeps its key, so what was signed under it stays signed.
LEMMA SignedStays ==
    ASSUME KeysIInv, [Next]_vars, NEW o \in Orders, IsSigned(o)
    PROVE  IsSigned(o)'
<1>1. Terms[o].account \in Handles /\ Terms[o].key \in Keys /\ Terms[o].key # NoKey
  BY CancelAssumption, SignersAssumption, LedgerAssumption DEF Traders
<1>2. \A h \in Handles : pk[h] # NoKey => pk'[h] = pk[h]
  BY KeysStep
<1> QED
  BY <1>1, <1>2 DEF IsSigned

\* Listing, taking an order, a restart, and every step on the ledger.
LEMMA OtherKeepsMarket ==
    ASSUME MarketIInv, \A o \in Orders : IsSigned(o) => IsSigned(o)',
           UNCHANGED <<sq, sc, book, commits, net, reseals, opened, late, filled, entered, accepted>>,
           oid' \in [Orders -> Nat], nextoid' \in Nat \ {0}, restarts' \in Nat, held' \subseteq held, world' = world
    PROVE  MarketIInv' /\ (AcceptedSpent => AcceptedSpent')
<1>1. MarketTypeOK'
  BY DEF MarketIInv, MarketTypeOK, PayloadOK
<1>2. EntersOnce' /\ CommitsKnown'
  BY DEF MarketIInv, EntersOnce, CommitsKnown
<1>3. SignedByOwner'
  <2>1. /\ \A i \in 1..Len(book) : book[i].src \in Orders
        /\ \A e \in commits \cup reseals : e.src \in Orders
    BY EntryFields DEF MarketIInv, MarketTypeOK
  <2> QED
    BY <2>1 DEF MarketIInv, SignedByOwner
<1>4. AcceptedSpent => AcceptedSpent'
  BY DEF AcceptedSpent, Spent
<1> QED
  BY <1>1, <1>2, <1>3, <1>4 DEF MarketIInv

\* The entry a commitment puts on chain.
LEMMA CommitEntry ==
    ASSUME MarketTypeOK, NEW o \in Orders, o \in Sealed
    PROVE  LET e == EngineOrder(o, oid[o], Terms[o].price, Terms[o].qty)
           IN  /\ e \in Entries /\ e.src = o /\ e.id = oid[o] /\ e.gen = 0 /\ e.account = Terms[o].account
               /\ e.qty = Terms[o].qty /\ Terms[o].account \in Traders /\ Terms[o].seq \in Nat
<1>1. /\ oid[o] \in Nat /\ Terms[o].price \in Nat /\ Terms[o].account \in Traders /\ Terms[o].seq \in Nat
      /\ Terms[o].qty \in 1..(U32 - 1)
  BY RoundsAssumption DEF MarketTypeOK, Traders
<1>2. Terms[o].qty \in Nat
  BY <1>1, U32Assumption
<1> QED
  BY <1>1, <1>2, EngineOrderOK

LEMMA CommitKeepsMarket ==
    ASSUME MarketIInv, NEW o \in Orders, Commit(o, pk), UNCHANGED <<pk, world>>
    PROVE  MarketIInv' /\ (AcceptedSpent => AcceptedSpent')
<1> DEFINE e == EngineOrder(o, oid[o], Terms[o].price, Terms[o].qty)
           a == Terms[o].account
<1>1. /\ IsSigned(o) /\ o \in Sealed /\ Terms[o].seq > sc[a]
      /\ sc' = [sc EXCEPT ![a] = Terms[o].seq]
      /\ commits' = commits \cup {e} /\ held' = held \cup {e}
      /\ UNCHANGED <<sq, book, oid, nextoid, restarts, net, reseals, opened, late, filled, entered, accepted>>
  BY DEF Commit, IsSigned, traceVars
<1>2. /\ e \in Entries /\ e.src = o /\ e.gen = 0 /\ e.account = a
      /\ a \in Traders /\ Terms[o].seq \in Nat
  BY <1>1, CommitEntry DEF MarketIInv
<1> HIDE DEF e, a
<1>3. \A h \in Traders : sc[h] \in Nat /\ sc'[h] \in Nat /\ sc[h] <= sc'[h]
  BY <1>1, <1>2 DEF MarketIInv, MarketTypeOK
<1>4. sc'[a] = Terms[o].seq
  BY <1>1, <1>2 DEF MarketIInv, MarketTypeOK
<1>5. MarketTypeOK'
  <2>1. sc' \in [Traders -> Nat]
    BY <1>1, <1>2 DEF MarketIInv, MarketTypeOK
  <2> QED
    BY <1>1, <1>2, <2>1 DEF MarketIInv, MarketTypeOK, PayloadOK
<1>6. EntersOnce' /\ SignedByOwner'
  BY <1>1, <1>2 DEF MarketIInv, EntersOnce, SignedByOwner, IsSigned
<1>7. ASSUME NEW f \in Entries, Terms[f.src].seq <= sc[f.account]
      PROVE  Terms[f.src].seq <= sc'[f.account] /\ f # e
  <2>1. f.account \in Traders /\ f.account = Terms[f.src].account /\ f.src \in Orders
    BY EntryFields
  <2>2. Terms[f.src].seq \in Nat
    BY <2>1, RoundsAssumption
  <2>3. Terms[f.src].seq <= sc'[f.account]
    BY <1>3, <1>7, <2>1, <2>2
  <2>4. Terms[e.src].seq > sc[e.account] /\ sc[e.account] \in Nat
    BY <1>1, <1>2, <1>3
  <2>5. f # e
    BY <1>2, <1>7, <2>4
  <2> QED
    BY <2>3, <2>5
<1>8. CommitsKnown'
  <2> SUFFICES ASSUME NEW f \in commits \cup {e}
               PROVE  (f.gen = 0 => Terms[f.src].seq <= sc'[f.account]) /\ (f.gen # 0 => f \in reseals)
    BY <1>1 DEF CommitsKnown, MarketIInv
  <2>1. CASE f = e
    BY <1>2, <1>4, <2>1
  <2>2. CASE f \in commits
    BY <1>7, <2>2 DEF MarketIInv, MarketTypeOK, CommitsKnown
  <2> QED
    BY <2>1, <2>2
<1>9. ASSUME AcceptedSpent PROVE AcceptedSpent'
  <2>1. ASSUME NEW p \in DOMAIN accepted, NEW i \in 1..Len(p.sealed)
        PROVE  Spent(p.sealed[i])' /\ (p.sealed[i] \in commits' => p.sealed[i] \in commits)
    <3>1. p.sealed[i] \in Entries
      BY DEF MarketIInv, MarketTypeOK, PayloadOK
    <3>2. Spent(p.sealed[i])
      BY <1>9 DEF AcceptedSpent
    <3>3. p.sealed[i] # e
      BY <1>2, <1>7, <3>1, <3>2 DEF Spent
    <3> QED
      BY <1>1, <1>2, <1>7, <3>1, <3>2, <3>3 DEF Spent
  <2> QED
    BY <1>1, <1>9, <2>1 DEF AcceptedSpent
<1> QED
  BY <1>5, <1>6, <1>8, <1>9 DEF MarketIInv

LEMMA CarryKeepsMarket ==
    ASSUME MarketIInv, NEW e, CarryCommit(e), UNCHANGED <<pk, world>>
    PROVE  MarketIInv' /\ (AcceptedSpent => AcceptedSpent')
<1>1. /\ e \in reseals /\ commits' = commits \cup {e} /\ late' = late + (IF e \in opened THEN 1 ELSE 0)
      /\ UNCHANGED <<sq, sc, book, oid, nextoid, restarts, net, reseals, held, opened, filled, entered, accepted>>
  BY DEF CarryCommit, builderVars
<1>5. late \in Nat /\ late' \in Nat /\ late <= late' /\ (e \in opened => late' = late + 1)
  BY <1>1 DEF MarketIInv, MarketTypeOK
<1>2. MarketTypeOK'
  BY <1>1, <1>5 DEF MarketIInv, MarketTypeOK, PayloadOK
<1>3. EntersOnce' /\ CommitsKnown' /\ SignedByOwner'
  BY <1>1 DEF MarketIInv, EntersOnce, CommitsKnown, SignedByOwner, IsSigned
<1>4. ASSUME AcceptedSpent PROVE AcceptedSpent'
  <2> SUFFICES ASSUME NEW p \in DOMAIN accepted
               PROVE  /\ p.sealed # <<>> => accepted[p] <= 1 + late'
                      /\ \A i \in 1..Len(p.sealed) : p.sealed[i] \in commits' => accepted[p] <= late'
    BY <1>1, <1>4 DEF AcceptedSpent, Spent
  <2>1. accepted[p] \in Nat /\ (p.sealed # <<>> => accepted[p] <= 1 + late)
    BY <1>4 DEF AcceptedSpent
  <2>2. ASSUME NEW i \in 1..Len(p.sealed), p.sealed[i] \in commits' PROVE accepted[p] <= late'
    <3>1. CASE p.sealed[i] \in commits
      BY <1>4, <1>5, <2>1, <3>1 DEF AcceptedSpent
    <3>2. CASE p.sealed[i] = e
      <4>1. e.gen # 0 /\ Spent(e)
        BY <1>1, <1>4, <3>2 DEF AcceptedSpent, MarketIInv, CommitsKnown
      <4>2. e \in opened
        BY <4>1 DEF Spent
      <4>3. p.sealed # <<>>
        BY <2>2
      <4> QED
        BY <1>5, <2>1, <4>2, <4>3
    <3> QED
      BY <1>1, <2>2, <3>1, <3>2
  <2> QED
    BY <1>5, <2>1, <2>2
<1> QED
  BY <1>2, <1>3, <1>4 DEF MarketIInv

LEMMA SubmitKeepsMarket ==
    ASSUME MarketIInv, NEW p \in Payloads, Submit(p), UNCHANGED <<pk, world>>
    PROVE  MarketIInv' /\ (AcceptedSpent => AcceptedSpent')
<1>1. /\ \A i \in 1..Len(p.new) : SignedAsSubmitted(p.new[i])
      /\ net' = net \cup {p}
      /\ UNCHANGED <<sq, sc, book, commits, oid, nextoid, restarts, reseals, held, opened, late, filled, entered, accepted>>
  BY DEF Submit, chainVars, traceVars
<1>2. PayloadOK(p)
  BY <1>1, SubmittedOK DEF MarketIInv
<1>3. MarketTypeOK'
  BY <1>1, <1>2 DEF MarketIInv, MarketTypeOK, PayloadOK
<1>4. EntersOnce' /\ CommitsKnown' /\ SignedByOwner' /\ (AcceptedSpent => AcceptedSpent')
  BY <1>1 DEF MarketIInv, EntersOnce, CommitsKnown, SignedByOwner, IsSigned, AcceptedSpent, Spent
<1> QED
  BY <1>3, <1>4 DEF MarketIInv

LEMMA CancelKeepsMarket ==
    ASSUME MarketIInv, NEW h, NEW id, CancelResting(h, id), UNCHANGED <<pk, world>>
    PROVE  /\ MarketIInv' /\ (AcceptedSpent => AcceptedSpent')
           /\ \A n \in 1..Len(book') : \E i \in 1..Len(book) : book'[n] = book[i]
<1> DEFINE K == {i \in 1..Len(book) : ~(book[i].account = h /\ book[i].id = id)}
<1>1. /\ book' = Pick(book, K)
      /\ UNCHANGED <<sq, sc, commits, oid, nextoid, restarts, net, reseals, held, opened, late, filled, entered, accepted>>
  BY DEF CancelResting, builderVars, traceVars
<1>2. book \in Seq(Entries) /\ K \in SUBSET (1..Len(book))
  BY DEF MarketIInv, MarketTypeOK
<1> HIDE DEF K
<1>3. Pick(book, K) \in Seq(Entries) /\ \A n \in 1..Len(Pick(book, K)) : \E i \in K : Pick(book, K)[n] = book[i]
  BY <1>2, PickIsPart
<1>4. /\ book' \in Seq(Entries)
      /\ \A n \in 1..Len(book') : \E i \in 1..Len(book) : book'[n] = book[i]
  BY <1>1, <1>2, <1>3
<1>5. MarketTypeOK'
  BY <1>1, <1>4 DEF MarketIInv, MarketTypeOK, PayloadOK
<1>6. EntersOnce' /\ CommitsKnown' /\ (AcceptedSpent => AcceptedSpent')
  BY <1>1 DEF MarketIInv, EntersOnce, CommitsKnown, AcceptedSpent, Spent
<1>7. SignedByOwner'
  BY <1>1, <1>4 DEF MarketIInv, SignedByOwner, IsSigned
<1> QED
  BY <1>4, <1>5, <1>6, <1>7 DEF MarketIInv

-----------------------------------------------------------------------------
\* What a step can do to the market.
RoundSettles(p) == Round(p, Refine(p), pk)

Elsewhere ==
    /\ UNCHANGED <<sq, sc, book, commits, net, reseals, opened, late, filled, entered, accepted>>
    /\ \/ UNCHANGED <<oid, nextoid, restarts, held>>
       \/ \E o \in Orders : TakeOrder(o)
       \/ BuilderRestart

LEMMA StepCases ==
    ASSUME MarketTypeOK, [Next]_vars
    PROVE  /\ world' = world
           /\ \/ Elsewhere
              \/ /\ pk' = pk
                 /\ \/ \E o \in Orders : Commit(o, pk)
                    \/ \E e \in reseals : CarryCommit(e)
                    \/ \E p \in Payloads : Submit(p)
                    \/ \E x : CancelResting(x.account, x.oid)
                    \/ \E p \in net : RoundSettles(p)
<1>0. world.orders \subseteq Orders
  BY WorldsAssumption DEF MarketTypeOK
<1>1. CASE UNCHANGED vars
  BY <1>1 DEF vars, roundVars, chainVars, builderVars, traceVars, Elsewhere
<1>2. CASE LedgerStep /\ world' = world
  BY <1>2 DEF LedgerStep, roundVars, chainVars, builderVars, traceVars, Elsewhere
<1>3. CASE MarketStep /\ world' = world
  <2>0. pk' = pk
    BY <1>3 DEF MarketStep, ledgerVars
  <2>1. CASE List
    BY <1>3, <2>1 DEF List, builderVars, traceVars, Elsewhere
  <2>2. CASE \E o \in world.orders : TakeOrder(o)
    BY <1>0, <1>3, <2>2 DEF TakeOrder, chainVars, traceVars, Elsewhere
  <2>3. CASE BuilderRestart
    BY <1>3, <2>3 DEF BuilderRestart, chainVars, traceVars, Elsewhere
  <2> QED
    BY <1>0, <1>3, <2>0, <2>1, <2>2, <2>3 DEF MarketStep
<1>4. CASE (\E x \in CancelOps \cap world.ops : Cancel(x)) /\ world' = world
  BY <1>4 DEF Cancel
<1>5. CASE (\E p \in net : SettleRound(p)) /\ world' = world
  <2>1. PICK p \in net : SettleRound(p)
    BY <1>5
  <2>2. RoundSettles(p) /\ pk' = pk
    BY <2>1 DEF SettleRound, ApplySettlement, RoundSettles
  <2> QED
    BY <1>5, <2>2
<1> QED
  BY <1>1, <1>2, <1>3, <1>4, <1>5 DEF Next

LEMMA ElsewhereIds ==
    ASSUME MarketTypeOK, Elsewhere
    PROVE  oid' \in [Orders -> Nat] /\ nextoid' \in Nat \ {0} /\ restarts' \in Nat /\ held' \subseteq held
<1>1. CASE UNCHANGED <<oid, nextoid, restarts, held>>
  BY <1>1 DEF MarketTypeOK
<1>2. CASE \E o \in Orders : TakeOrder(o)
  BY <1>2 DEF MarketTypeOK, TakeOrder
<1>3. CASE BuilderRestart
  BY <1>3, RoundsAssumption DEF MarketTypeOK, BuilderRestart
<1> QED
  BY <1>1, <1>2, <1>3 DEF Elsewhere

LEMMA MarketStepKeeps ==
    ASSUME KeysIInv, MarketIInv, [Next]_vars
    PROVE  MarketIInv' /\ (AcceptedSpent => AcceptedSpent')
<1>0. MarketTypeOK /\ world' = world
  BY StepCases DEF MarketIInv
<1>1. CASE Elsewhere
  <2>1. \A o \in Orders : IsSigned(o) => IsSigned(o)'
    BY SignedStays
  <2> QED
    BY <1>0, <1>1, <2>1, ElsewhereIds, OtherKeepsMarket DEF Elsewhere
<1>2. ASSUME pk' = pk, NEW o \in Orders, Commit(o, pk) PROVE MarketIInv' /\ (AcceptedSpent => AcceptedSpent')
  BY <1>0, <1>2, CommitKeepsMarket
<1>3. ASSUME pk' = pk, NEW e \in reseals, CarryCommit(e) PROVE MarketIInv' /\ (AcceptedSpent => AcceptedSpent')
  BY <1>0, <1>3, CarryKeepsMarket
<1>4. ASSUME pk' = pk, NEW p \in Payloads, Submit(p) PROVE MarketIInv' /\ (AcceptedSpent => AcceptedSpent')
  BY <1>0, <1>4, SubmitKeepsMarket
<1>5. ASSUME pk' = pk, NEW x, CancelResting(x.account, x.oid) PROVE MarketIInv' /\ (AcceptedSpent => AcceptedSpent')
  BY <1>0, <1>5, CancelKeepsMarket
<1>6. ASSUME pk' = pk, NEW p \in net, RoundSettles(p) PROVE MarketIInv' /\ (AcceptedSpent => AcceptedSpent')
  BY <1>0, <1>6, RoundKeepsMarket, RoundKeepsSpent DEF RoundSettles
<1> QED
  BY <1>0, <1>1, <1>2, <1>3, <1>4, <1>5, <1>6, StepCases

LEMMA MarketAlways == Spec => []MarketIInv
<1>1. Init => KeysIInv /\ MarketIInv
  BY KeysInitially, MarketInitially
<1>2. KeysIInv /\ MarketIInv /\ [Next]_vars => (KeysIInv /\ MarketIInv)'
  BY KeysStep, MarketStepKeeps
<1> QED
  BY <1>1, <1>2, PTL DEF Spec

\* A signature introduces its order at most once, for any orders, floors and
\* payloads, whatever lands late, again or after a restart (b"sq" in
\* check_bindings).
THEOREM SignaturesIntroduceOnce == Spec => []OrderEntersOnce
<1>1. MarketIInv => OrderEntersOnce
  BY DEF MarketIInv, EntersOnce, OrderEntersOnce
<1> QED
  BY <1>1, MarketAlways, PTL

\* Nobody trades what they did not sign, and nothing of a sealed order rests in
\* the public book, for any orders, keys and registrations, late payloads, id
\* collisions after a restart and copies of re-seals included.
THEOREM OnlySignedTrade == Spec => []OnlySignedOrders
<1>1. MarketIInv => OnlySignedOrders
  BY DEF MarketIInv, SignedByOwner, IsSigned, OnlySignedOrders
<1> QED
  BY <1>1, MarketAlways, PTL

\* Everything signed takes effect once, for any orders, operations and payloads,
\* whatever is delivered late or again; a round that only reveals comes again at
\* most once for each copy of a re-seal admitted after its original was consumed
\* (the commit sets keep no record of what was consumed).
THEOREM EffectsHappenOnce == Spec => []EffectOnce
<1>1. Init => MoneyIInv /\ KeysIInv /\ MarketIInv /\ AcceptedSpent
  BY MoneyInitially, KeysInitially, MarketInitially
<1>2. MoneyIInv /\ KeysIInv /\ MarketIInv /\ AcceptedSpent /\ [Next]_vars
         => (MoneyIInv /\ KeysIInv /\ MarketIInv /\ AcceptedSpent)'
  BY MoneyStep, KeysStep, MarketStepKeeps
<1>3. MarketIInv => OrderEntersOnce
  BY DEF MarketIInv, EntersOnce, OrderEntersOnce
<1>4. AcceptedSpent => AcceptedOncePerCopy
  BY DEF AcceptedSpent, AcceptedOncePerCopy
<1>5. MoneyIInv => MovedOnce
  BY DEF MoneyIInv, MoneyTypeOK, AtMostOnce, MovedOnce
<1>6. MoneyIInv /\ MarketIInv /\ AcceptedSpent => EffectOnce
  BY <1>3, <1>4, <1>5 DEF EffectOnce
<1> QED
  BY <1>1, <1>2, <1>6, PTL DEF Spec

-----------------------------------------------------------------------------
\* A settled round puts into the book what rests there or is introduced.
LEMMA BookFromRound ==
    ASSUME MarketIInv, NEW p \in net, NEW r, r = Refine(p), Round(p, r, pk), NEW n \in 1..Len(book')
    PROVE  \/ \E i \in 1..Len(book) : book'[n].src = book[i].src
           \/ \E i \in 1..Len(p.new) : book'[n].src = p.new[i].src
<1>1. PayloadOK(p) /\ p.book = book /\ book' = r.book
  BY RoundFacts DEF MarketIInv, Round
<1>2. /\ ~HiddenIn(p, r.book[n]) /\ \E i \in 1..Len(r.batch) : SameOrder(r.book[n], r.batch[i])
      /\ \A i \in 1..Len(r.batch) : Listed(p, r.batch[i])
  BY <1>1, RefineParts
<1>3. PICK i \in 1..Len(r.batch) : SameOrder(r.book[n], r.batch[i])
  BY <1>2
<1>4. Listed(p, r.batch[i]) /\ ~HiddenIn(p, r.batch[i])
  BY <1>2, <1>3 DEF HiddenIn, SameOrder
<1>5. \/ \E j \in 1..Len(p.book) : r.batch[i] = p.book[j]
      \/ \E j \in 1..Len(p.new) : r.batch[i] = p.new[j]
  BY <1>4 DEF Listed, HiddenIn
<1> QED
  BY <1>1, <1>3, <1>5 DEF SameOrder

LEMMA StaysAway ==
    ASSUME MarketIInv, [Next]_vars, NEW o \in Public, entered[o] > 0, ~Rests(o)
    PROVE  ~Rests(o)'
<1>0. MarketTypeOK /\ o \in Orders
  BY DEF MarketIInv, Public
<1>1. CASE book' = book
  BY <1>1 DEF Rests
<1>2. ASSUME pk' = pk, world' = world, NEW x, CancelResting(x.account, x.oid) PROVE ~Rests(o)'
  BY <1>2, CancelKeepsMarket DEF Rests
<1>3. ASSUME NEW p \in net, RoundSettles(p) PROVE ~Rests(o)'
  <2> SUFFICES ASSUME NEW n \in 1..Len(book'), book'[n].src = o PROVE FALSE
    BY DEF Rests
  <2>1. \/ \E i \in 1..Len(book) : o = book[i].src
        \/ \E i \in 1..Len(p.new) : o = p.new[i].src
    BY <1>3, BookFromRound DEF RoundSettles
  <2>2. PICK i \in 1..Len(p.new) : o = p.new[i].src
    BY <2>1 DEF Rests
  <2>3. sq[Terms[o].account] < Terms[o].seq
    BY <1>0, <1>3, <2>2, RoundFacts DEF RoundSettles
  <2>4. Terms[o].seq <= sq[Terms[o].account]
    BY <1>0 DEF MarketIInv, EntersOnce
  <2>5. Terms[o].seq \in Nat /\ sq[Terms[o].account] \in Nat
    BY <1>0, RoundsAssumption DEF MarketTypeOK, Traders
  <2> QED
    BY <2>3, <2>4, <2>5
<1>4. \/ book' = book \/ (pk' = pk /\ world' = world /\ \E x : CancelResting(x.account, x.oid))
      \/ \E p \in net : RoundSettles(p)
  BY <1>0, StepCases DEF Elsewhere, Commit, CarryCommit, Submit, chainVars
<1> QED
  BY <1>1, <1>2, <1>3, <1>4

\* An order that left the book never comes back, for any orders, cancels and
\* payloads in flight (check_round_auth's book test with the order floors).
THEOREM NothingResurrected == Spec => NoResurrection
<1>1. MarketIInv /\ [Next]_vars => [\A o \in Public : entered[o] > 0 /\ ~Rests(o) => ~Rests(o)']_vars
  BY StaysAway
<1> QED
  BY <1>1, MarketAlways, PTL DEF Spec, NoResurrection

-----------------------------------------------------------------------------
(***************************************************************************)
(* Within one builder process ids are unique, so the engine's fills by id  *)
(* are fills of signed orders.  A hidden order is live while it is on      *)
(* chain or while its re-seal is still to land.                            *)
(***************************************************************************)
HasId(e) == e.id = oid[e.src] /\ oid[e.src] # 0

Live == commits \cup (reseals \ opened)

IdsUnique ==
    /\ \A o \in Orders : oid[o] < nextoid
    /\ \A o, q \in Orders : oid[o] # 0 /\ oid[o] = oid[q] => o = q

IdsKept ==
    /\ \A i \in 1..Len(book) : HasId(book[i])
    /\ \A e \in commits \cup reseals : HasId(e)
    /\ \A p \in net : \A i \in 1..Len(p.new) : HasId(p.new[i])

UniqueSrcs(s) == \A i, j \in 1..Len(s) : s[i].src = s[j].src => i = j

RestsOnce == UniqueSrcs(book) /\ \A i \in 1..Len(book) : entered[book[i].src] = 1

HiddenOnce ==
    /\ \A e \in commits \cup reseals : e.src \in Sealed /\ Terms[e.src].seq <= sc[e.account]
    /\ \A e, f \in Live : e.src = f.src => e = f

WithinSigned ==
    /\ \A o \in Orders : filled[o] <= Terms[o].qty
    /\ \A i \in 1..Len(book) : book[i].qty + filled[book[i].src] <= Terms[book[i].src].qty
    /\ \A e \in Live : e.qty + filled[e.src] <= Terms[e.src].qty
    /\ \A o \in Public : entered[o] = 0 => filled[o] = 0
    /\ \A o \in Sealed : Terms[o].seq > sc[Terms[o].account] => filled[o] = 0

ProcessIInv == IdsUnique /\ IdsKept /\ RestsOnce /\ HiddenOnce /\ WithinSigned

-----------------------------------------------------------------------------
DisjointSrcs(a, b) == \A i \in 1..Len(a) : \A j \in 1..Len(b) : a[i].src # b[j].src

LEMMA ConcatUnique ==
    ASSUME NEW a \in Seq(Entries), NEW b \in Seq(Entries), UniqueSrcs(a), UniqueSrcs(b), DisjointSrcs(a, b)
    PROVE  UniqueSrcs(a \o b)
<1> DEFINE s == a \o b
<1>1. /\ Len(a) \in Nat /\ Len(b) \in Nat /\ Len(s) = Len(a) + Len(b)
      /\ \A i \in 1..Len(s) : \/ i \in 1..Len(a) /\ s[i] = a[i]
                              \/ i - Len(a) \in 1..Len(b) /\ s[i] = b[i - Len(a)]
  BY ConcatAt
<1> HIDE DEF s
<1> SUFFICES ASSUME NEW i \in 1..Len(s), NEW j \in 1..Len(s), s[i].src = s[j].src PROVE i = j
  BY DEF UniqueSrcs, s
<1>2. CASE i \in 1..Len(a) /\ s[i] = a[i]
  <2>1. CASE j \in 1..Len(a) /\ s[j] = a[j]
    BY <1>2, <2>1 DEF UniqueSrcs
  <2>2. CASE j - Len(a) \in 1..Len(b) /\ s[j] = b[j - Len(a)]
    BY <1>2, <2>2 DEF DisjointSrcs
  <2> QED
    BY <1>1, <2>1, <2>2
<1>3. CASE i - Len(a) \in 1..Len(b) /\ s[i] = b[i - Len(a)]
  <2>1. CASE j \in 1..Len(a) /\ s[j] = a[j]
    BY <1>3, <2>1 DEF DisjointSrcs
  <2>2. CASE j - Len(a) \in 1..Len(b) /\ s[j] = b[j - Len(a)]
    <3>1. i - Len(a) = j - Len(a)
      BY <1>3, <2>2 DEF UniqueSrcs
    <3> QED
      BY <1>1, <3>1
  <2> QED
    BY <1>1, <2>1, <2>2
<1> QED
  BY <1>1, <1>2, <1>3

\* Picking keeps an order's place, so it keeps the orders apart.
LEMMA PickPlaces ==
    ASSUME NEW s \in Seq(Entries), NEW K \in SUBSET (1..Len(s))
    PROVE  \E at \in [1..Len(Pick(s, K)) -> K] :
              /\ \A m, n \in 1..Len(Pick(s, K)) : at[m] = at[n] => m = n
              /\ \A n \in 1..Len(Pick(s, K)) : Pick(s, K)[n] = s[at[n]]
<1>1. K \in SUBSET Nat /\ IsFiniteSet(K)
  <2>1. IsFiniteSet(1..Len(s)) /\ 1..Len(s) \subseteq Nat
    BY FS_Interval
  <2> QED
    BY <2>1, FS_Subset
<1> DEFINE N == Cardinality(K)
<1>2. N \in Nat /\ Len(Pick(s, K)) = N
  BY PickIsPart
<1>3. PICK at : PicksAt(s, K, at)
  BY <1>1, PickAt
<1>4. /\ at \in [1..N -> K] /\ \A m, n \in 1..N : m < n => at[m] < at[n]
      /\ Pick(s, K) = [n \in 1..N |-> s[at[n]]]
  BY <1>3 DEF PicksAt
<1> HIDE DEF N
<1>5. ASSUME NEW m \in 1..N, NEW n \in 1..N, at[m] = at[n] PROVE m = n
  <2>1. at[m] \in Nat /\ at[n] \in Nat
    BY <1>1, <1>4
  <2>2. ~(m < n) /\ ~(n < m)
    BY <1>4, <1>5, <2>1
  <2> QED
    BY <1>2, <2>2
<1>6. \A n \in 1..N : Pick(s, K)[n] = s[at[n]]
  BY <1>4
<1> QED
  BY <1>2, <1>4, <1>5, <1>6

LEMMA PickUnique ==
    ASSUME NEW s \in Seq(Entries), NEW K \in SUBSET (1..Len(s)), UniqueSrcs(s)
    PROVE  UniqueSrcs(Pick(s, K))
<1>1. PICK at \in [1..Len(Pick(s, K)) -> K] :
              /\ \A m, n \in 1..Len(Pick(s, K)) : at[m] = at[n] => m = n
              /\ \A n \in 1..Len(Pick(s, K)) : Pick(s, K)[n] = s[at[n]]
  BY PickPlaces
<1>2. \A n \in 1..Len(Pick(s, K)) : at[n] \in 1..Len(s)
  BY <1>1
<1> QED
  BY <1>1, <1>2 DEF UniqueSrcs

\* The batch of a round: what is kept of the book, the new and the sealed orders.
LEMMA BatchIs ==
    ASSUME NEW p
    PROVE  \E K \in SUBSET (1..Len(p.book)) : Refine(p).batch = Pick(p.book, K) \o p.new \o p.sealed
<1> DEFINE K == {i \in 1..Len(p.book) : ~([account |-> p.book[i].account, id |-> p.book[i].id] \in p.prune)}
<1>1. Refine(p).batch = Pick(p.book, K) \o p.new \o p.sealed
  BY DEF Refine
<1> QED
  BY <1>1

\* One builder process never puts two orders of one id into a batch, and none
\* beyond its signed quantity.
LEMMA BatchUnique ==
    ASSUME MarketIInv, ProcessIInv, NEW p \in net, NEW r, r = Refine(p), Round(p, r, pk)
    PROVE  /\ UniqueSrcs(r.batch) /\ UniqueIds(r.batch)
           /\ \A i \in 1..Len(r.batch) :
                 LET e == r.batch[i]
                 IN  /\ e \in Entries /\ HasId(e) /\ Listed(p, e)
                     /\ e.qty + filled[e.src] <= Terms[e.src].qty /\ e.qty < U32
<1>1. /\ PayloadOK(p) /\ p.book = book
      /\ \A i \in 1..Len(p.new) :
            LET o == p.new[i].src
            IN  /\ o \in Orders /\ o \in Public /\ sq[Terms[o].account] < Terms[o].seq
      /\ \A i, j \in 1..Len(p.new) : p.new[i].src = p.new[j].src => i = j
      /\ \A i \in 1..Len(p.sealed) : p.sealed[i] \in commits
  BY RoundFacts DEF MarketIInv
<1>2. p.new \in Seq(Entries) /\ p.sealed \in Seq(Entries) /\ book \in Seq(Entries)
  BY <1>1 DEF PayloadOK
<1>3. PICK K \in SUBSET (1..Len(p.book)) : r.batch = Pick(p.book, K) \o p.new \o p.sealed
  BY BatchIs
<1> DEFINE kept == Pick(book, K)
<1>4. /\ kept \in Seq(Entries) /\ UniqueSrcs(kept)
      /\ \A n \in 1..Len(kept) : \E i \in 1..Len(book) : kept[n] = book[i]
  <2>1. K \in SUBSET (1..Len(book)) /\ UniqueSrcs(book)
    BY <1>1 DEF ProcessIInv, RestsOnce
  <2>2. kept \in Seq(Entries) /\ \A n \in 1..Len(kept) : \E i \in K : kept[n] = book[i]
    BY <1>2, <2>1, PickIsPart
  <2> QED
    BY <1>2, <2>1, <2>2, PickUnique
<1>5. r.batch = kept \o p.new \o p.sealed
  BY <1>1, <1>3
<1> HIDE DEF kept
<1>6. UniqueSrcs(p.new)
  BY <1>1 DEF UniqueSrcs
<1>7. UniqueSrcs(p.sealed)
  <2> SUFFICES ASSUME NEW i \in 1..Len(p.sealed), NEW j \in 1..Len(p.sealed), p.sealed[i].src = p.sealed[j].src
               PROVE  i = j
    BY DEF UniqueSrcs
  <2>1. p.sealed[i] = p.sealed[j]
    BY <1>1 DEF ProcessIInv, HiddenOnce, Live
  <2>2. IsInjective(p.sealed)
    BY DEF Round, Acceptable, Consumes
  <2>3. i \in DOMAIN p.sealed /\ j \in DOMAIN p.sealed
    BY <1>2
  <2> QED
    BY <2>1, <2>2, <2>3 DEF IsInjective
<1>8. \A i \in 1..Len(p.new) : entered[p.new[i].src] = 0
  <2> SUFFICES ASSUME NEW i \in 1..Len(p.new) PROVE entered[p.new[i].src] = 0
    OBVIOUS
  <2> DEFINE o == p.new[i].src
  <2>1. o \in Orders /\ sq[Terms[o].account] < Terms[o].seq
    BY <1>1
  <2>2. entered[o] \in {0, 1} /\ (entered[o] = 1 => Terms[o].seq <= sq[Terms[o].account])
    BY <2>1 DEF MarketIInv, EntersOnce
  <2>3. Terms[o].seq \in Nat /\ sq[Terms[o].account] \in Nat
    BY <2>1, RoundsAssumption DEF MarketIInv, MarketTypeOK, Traders
  <2> QED
    BY <2>1, <2>2, <2>3
<1>9. DisjointSrcs(kept, p.new)
  BY <1>4, <1>8 DEF DisjointSrcs, ProcessIInv, RestsOnce
<1> DEFINE front == kept \o p.new
<1>10. front \in Seq(Entries) /\ UniqueSrcs(front)
  BY <1>2, <1>4, <1>6, <1>9, ConcatUnique, ConcatAt
<1>11. \A i \in 1..Len(front) : (\E n \in 1..Len(kept) : front[i] = kept[n]) \/ (\E n \in 1..Len(p.new) : front[i] = p.new[n])
  <2>1. kept \in Seq(Entries) /\ p.new \in Seq(Entries)
    BY <1>2, <1>4
  <2> HIDE DEF kept
  <2>2. \A i \in 1..Len(front) : \/ i \in 1..Len(kept) /\ front[i] = kept[i]
                                 \/ i - Len(kept) \in 1..Len(p.new) /\ front[i] = p.new[i - Len(kept)]
    BY <2>1, ConcatAt, SMT
  <2> QED
    BY ONLY <2>2
<1>12. r.batch = front \o p.sealed
  BY <1>5
<1> HIDE DEF front
<1>13. \A i \in 1..Len(front) : front[i].src \in Public
  <2>1. \A n \in 1..Len(kept) : kept[n].src \in Public
    BY <1>1, <1>4 DEF MarketIInv, SignedByOwner
  <2>2. \A n \in 1..Len(p.new) : p.new[n].src \in Public
    BY <1>1
  <2> QED
    BY ONLY <1>11, <2>1, <2>2
<1>14. DisjointSrcs(front, p.sealed)
  BY <1>1, <1>13 DEF DisjointSrcs, ProcessIInv, HiddenOnce, Sealed
<1>15. UniqueSrcs(front \o p.sealed)
  BY <1>2, <1>7, <1>10, <1>14, ConcatUnique
<1>16. UniqueSrcs(r.batch)
  BY <1>12, <1>15, Zenon
<1>17. r.batch \in Seq(Entries) /\ \A i \in 1..Len(r.batch) : Listed(p, r.batch[i])
  BY <1>1, RefineParts
<1>18. ASSUME NEW e \in Entries, Listed(p, e)
       PROVE  HasId(e) /\ e.qty + filled[e.src] <= Terms[e.src].qty
  <2>1. CASE \E i \in 1..Len(p.book) : e = p.book[i]
    BY <1>1, <2>1 DEF ProcessIInv, IdsKept, WithinSigned
  <2>2. CASE \E i \in 1..Len(p.new) : e = p.new[i]
    <3>1. PICK i \in 1..Len(p.new) : e = p.new[i]
      BY <2>2
    <3>2. e.qty = Terms[e.src].qty /\ e.src \in Public /\ entered[e.src] = 0
      BY <1>1, <1>8, <3>1 DEF PayloadOK
    <3>3. filled[e.src] = 0 /\ e.qty \in Nat
      BY <3>2, EntryFields DEF ProcessIInv, WithinSigned
    <3>4. HasId(e)
      BY <3>1 DEF ProcessIInv, IdsKept
    <3> QED
      BY <3>2, <3>3, <3>4
  <2>3. CASE \E i \in 1..Len(p.sealed) : e = p.sealed[i]
    <3>1. e \in commits
      BY <1>1, <2>3
    <3> QED
      BY <3>1 DEF ProcessIInv, IdsKept, WithinSigned, Live
  <2> QED
    BY <1>18, <2>1, <2>2, <2>3 DEF Listed
<1>19. ASSUME NEW i \in 1..Len(r.batch)
       PROVE  LET e == r.batch[i]
              IN  /\ e \in Entries /\ HasId(e) /\ Listed(p, e)
                  /\ e.qty + filled[e.src] <= Terms[e.src].qty /\ e.qty < U32
  <2> DEFINE e == r.batch[i]
  <2>1. e \in Entries /\ Listed(p, e)
    BY <1>17
  <2>2. HasId(e) /\ e.qty + filled[e.src] <= Terms[e.src].qty
    BY <1>18, <2>1
  <2>3. e.src \in Orders /\ e.qty \in Nat
    BY <2>1, EntryFields
  <2>4. filled[e.src] \in Nat /\ Terms[e.src].qty \in 1..(U32 - 1)
    BY <2>3, RoundsAssumption DEF MarketIInv, MarketTypeOK
  <2> HIDE DEF e
  <2>5. e.qty < U32
    BY <2>2, <2>3, <2>4, U32Assumption
  <2> QED
    BY <2>1, <2>2, <2>5 DEF e
<1>20. UniqueIds(r.batch)
  <2> SUFFICES ASSUME NEW i \in 1..Len(r.batch), NEW j \in 1..Len(r.batch), r.batch[i].id = r.batch[j].id
               PROVE  i = j
    BY DEF UniqueIds
  <2>1. r.batch[i].src \in Orders /\ r.batch[j].src \in Orders /\ HasId(r.batch[i]) /\ HasId(r.batch[j])
    BY <1>19, EntryFields
  <2>2. r.batch[i].src = r.batch[j].src
    BY <2>1 DEF HasId, ProcessIInv, IdsUnique
  <2> QED
    BY <1>16, <2>2 DEF UniqueSrcs
<1> QED
  BY <1>16, <1>19, <1>20

-----------------------------------------------------------------------------
\* What is left of the order at position i of a round's batch.
RestOf(r, i) == [r.batch[i] EXCEPT !.qty = r.batch[i].qty - Taken(r.batch, r.clearing)[i]]

LEMMA SplitIs ==
    ASSUME NEW p
    PROVE  LET r == Refine(p)
               rest == Resting(r.batch, Clear(r.batch))
           IN  \E B, C \in SUBSET (1..Len(rest)) : r.book = Pick(rest, B) /\ r.carry = Pick(rest, C)
<1> DEFINE r == Refine(p)
           rest == Resting(r.batch, Clear(r.batch))
           B == {i \in 1..Len(rest) : ~HiddenIn(p, rest[i])}
           C == {i \in 1..Len(rest) : HiddenIn(p, rest[i])}
<1>1. r.book = Pick(rest, B) /\ r.carry = Pick(rest, C)
  BY DEF Refine, HiddenIn
<1>2. B \in SUBSET (1..Len(rest)) /\ C \in SUBSET (1..Len(rest))
  OBVIOUS
<1> HIDE DEF B, C, rest
<1> QED
  BY <1>1, <1>2 DEF rest

LEMMA RefineRests ==
    ASSUME NEW p, PayloadOK(p), NEW r, r = Refine(p), UniqueIds(r.batch),
           \A i \in 1..Len(r.batch) : r.batch[i].qty < U32
    PROVE  /\ \E at \in [1..Len(r.book) -> 1..Len(r.batch)] :
                 /\ \A m, n \in 1..Len(r.book) : at[m] = at[n] => m = n
                 /\ \A n \in 1..Len(r.book) : r.book[n] = RestOf(r, at[n])
           /\ \A n \in 1..Len(r.carry) : \E i \in 1..Len(r.batch) : r.carry[n] = RestOf(r, i)
<1> DEFINE all == r.batch
           rest == Resting(all, Clear(all))
           t == Taken(all, Clear(all))
<1>1. r.batch \in Seq(Entries) /\ r.clearing = Clear(r.batch)
  BY RefineParts
<1>2. IsBatch(all) /\ rest \in Seq(Entries) /\ UniqueIds(all) /\ \A i \in 1..Len(all) : all[i].qty < U32
  BY <1>1, EntriesAreBatch, RestingEntries
<1> HIDE DEF all
<1>3. PICK at \in [1..Len(rest) -> {i \in 1..Len(all) : t[i] < all[i].qty}] :
         /\ \A m, n \in 1..Len(rest) : m < n => at[m] < at[n]
         /\ \A n \in 1..Len(rest) : rest[n] = [all[at[n]] EXCEPT !.qty = all[at[n]].qty - t[at[n]]]
  BY <1>2, RestingIs
<1>4. PICK B \in SUBSET (1..Len(rest)) : \E C \in SUBSET (1..Len(rest)) : r.book = Pick(rest, B) /\ r.carry = Pick(rest, C)
  BY SplitIs DEF all
<1>5. PICK C \in SUBSET (1..Len(rest)) : r.book = Pick(rest, B) /\ r.carry = Pick(rest, C)
  BY <1>4
<1>6. \A n \in 1..Len(rest) : at[n] \in 1..Len(r.batch) /\ rest[n] = RestOf(r, at[n])
  <2>1. \A n \in 1..Len(rest) : at[n] \in 1..Len(all)
    BY <1>3
  <2> QED
    BY <1>1, <1>3, <2>1 DEF RestOf, all
<1>7. Len(r.batch) \in Nat /\ Len(rest) \in Nat
  BY <1>1, <1>2
<1> HIDE DEF rest, t
<1>8. ASSUME NEW m \in 1..Len(rest), NEW n \in 1..Len(rest), at[m] = at[n] PROVE m = n
  <2>1. at[m] \in Nat /\ at[n] \in Nat
    BY <1>6, <1>7
  <2>2. ~(m < n) /\ ~(n < m)
    BY <1>3, <1>8, <2>1
  <2> QED
    BY <1>7, <2>2
<1>9. PICK ib \in [1..Len(r.book) -> B] : /\ \A m, n \in 1..Len(r.book) : ib[m] = ib[n] => m = n
                                          /\ \A n \in 1..Len(r.book) : r.book[n] = rest[ib[n]]
  BY <1>2, <1>5, PickPlaces
<1>10. \A n \in 1..Len(r.carry) : \E i \in C : r.carry[n] = rest[i]
  BY <1>2, <1>5, PickIsPart
<1>11. \A n \in 1..Len(r.book) : ib[n] \in 1..Len(rest)
  BY <1>9
<1> DEFINE ab == [n \in 1..Len(r.book) |-> at[ib[n]]]
<1>13. /\ ab \in [1..Len(r.book) -> 1..Len(r.batch)]
       /\ \A m, n \in 1..Len(r.book) : ab[m] = ab[n] => m = n
       /\ \A n \in 1..Len(r.book) : r.book[n] = RestOf(r, ab[n])
  BY <1>6, <1>8, <1>9, <1>11
<1>14. ASSUME NEW n \in 1..Len(r.carry) PROVE \E i \in 1..Len(r.batch) : r.carry[n] = RestOf(r, i)
  <2>1. PICK i \in C : r.carry[n] = rest[i]
    BY <1>10
  <2>2. i \in 1..Len(rest)
    OBVIOUS
  <2> QED
    BY <1>6, <2>1, <2>2
<1> HIDE DEF ab
<1> QED
  BY <1>13, <1>14

\* What a round fills of an order, when ids are unique.
LEMMA FilledNowIs ==
    ASSUME NEW r, r.batch \in Seq(Entries), r.clearing = Clear(r.batch), UniqueIds(r.batch), UniqueSrcs(r.batch),
           NEW i \in 1..Len(r.batch)
    PROVE  /\ FilledNow(r, r.batch[i].src) = Taken(r.batch, r.clearing)[i]
           /\ Taken(r.batch, r.clearing)[i] \in Nat /\ Taken(r.batch, r.clearing)[i] <= r.batch[i].qty
           /\ Taken(r.batch, r.clearing)[i] > 0 =>
                 i \in Eligible(r.batch, r.batch[i].side, r.clearing.price) /\ i \in DOMAIN r.clearing.fills
<1> DEFINE f == [j \in 1..Len(r.batch) |-> FilledQty(r.batch, r.clearing.fills, r.batch[j].id)]
           K == {j \in 1..Len(r.batch) : r.batch[j].src = r.batch[i].src}
           t == Taken(r.batch, r.clearing)
<1>1. IsBatch(r.batch)
  BY EntriesAreBatch
<1>2. /\ t[i] \in Nat /\ t[i] <= r.batch[i].qty
      /\ t[i] > 0 => i \in Eligible(r.batch, r.batch[i].side, r.clearing.price)
  BY <1>1, TakenAt
<1>3. i \notin DOMAIN r.clearing.fills => t[i] = 0
  BY <1>1, FillsAre
<1>4. K = {i}
  BY DEF UniqueSrcs
<1>5. f[i] = t[i]
  BY <1>1, FilledIsTaken
<1>6. FilledNow(r, r.batch[i].src) = SumFunctionOnSet(f, K)
  BY DEF FilledNow
<1> HIDE DEF f, K, t
<1>7. SumFunctionOnSet(f, {i}) = f[i]
  <2>1. f[i] \in Int
    BY <1>2, <1>5
  <2> QED
    BY <2>1, SumOne
<1>8. FilledNow(r, r.batch[i].src) = t[i]
  BY <1>4, <1>5, <1>6, <1>7
<1>9. t[i] > 0 => i \in DOMAIN r.clearing.fills
  BY <1>2, <1>3
<1> QED
  BY <1>2, <1>8, <1>9 DEF t

LEMMA RestFields ==
    ASSUME NEW r, NEW i \in 1..Len(r.batch), r.batch[i] \in Entries,
           Taken(r.batch, r.clearing)[i] \in Nat, Taken(r.batch, r.clearing)[i] <= r.batch[i].qty
    PROVE  /\ SameOrder(RestOf(r, i), r.batch[i]) /\ RestOf(r, i) \in Entries
           /\ RestOf(r, i).qty + Taken(r.batch, r.clearing)[i] = r.batch[i].qty
<1>1. r.batch[i].qty \in Nat
  BY EntryFields
<1>2. r.batch[i].qty - Taken(r.batch, r.clearing)[i] \in Nat
  BY <1>1
<1>3. /\ SameOrder(RestOf(r, i), r.batch[i]) /\ RestOf(r, i) \in Entries
  BY <1>2, OtherQty DEF RestOf
<1>4. RestOf(r, i).qty = r.batch[i].qty - Taken(r.batch, r.clearing)[i]
  BY <1>2 DEF RestOf, Entries
<1> QED
  BY <1>1, <1>3, <1>4

\* What a round makes of the orders within one process: of each what is left of
\* it rests or is re-sealed, and it was filled the rest.
LEMMA RoundLeaves ==
    ASSUME MarketIInv, ProcessIInv, NEW p \in net, NEW r, r = Refine(p), Round(p, r, pk), UNCHANGED <<pk, world>>
    PROVE  /\ \A i \in 1..Len(r.batch) :
                 LET o == r.batch[i].src
                 IN  /\ r.batch[i] \in Entries /\ o \in Orders /\ HasId(r.batch[i]) /\ SameOrder(RestOf(r, i), r.batch[i])
                     /\ filled'[o] \in Nat /\ RestOf(r, i).qty \in Nat
                     /\ RestOf(r, i).qty + filled'[o] <= Terms[o].qty
                     /\ filled[o] \in Nat /\ filled'[o] = filled[o] + Taken(r.batch, r.clearing)[i]
           /\ \A o \in Orders : (\A i \in 1..Len(r.batch) : r.batch[i].src # o) => filled'[o] = filled[o]
           /\ \A i \in 1..Len(r.batch) : r.batch[i].src \in Public => entered'[r.batch[i].src] = 1
           /\ \A i \in 1..Len(r.batch) : r.batch[i].src \in Sealed => r.batch[i] \in commits /\ r.batch[i] \in ToSet(p.sealed)
           /\ \E at \in [1..Len(r.book) -> 1..Len(r.batch)] :
                 /\ \A m, n \in 1..Len(r.book) : at[m] = at[n] => m = n
                 /\ \A n \in 1..Len(r.book) : r.book[n] = RestOf(r, at[n])
           /\ \A n \in 1..Len(r.carry) : \E i \in 1..Len(r.batch) : r.carry[n] = RestOf(r, i) /\ r.batch[i].src \in Sealed
<1>1. /\ PayloadOK(p) /\ p.book = book
      /\ \A i \in 1..Len(p.new) : p.new[i].src \in Public /\ p.new[i].src \in Orders
      /\ \A i \in 1..Len(p.sealed) : p.sealed[i] \in commits
      /\ \A o \in Orders : entered'[o] = entered[o] + (IF \E i \in 1..Len(p.new) : p.new[i].src = o THEN 1 ELSE 0)
      /\ \A o \in Orders : filled'[o] = filled[o] + FilledNow(r, o)
  BY RoundFacts DEF MarketIInv
<1>2. /\ UniqueSrcs(r.batch) /\ UniqueIds(r.batch)
      /\ \A i \in 1..Len(r.batch) : /\ r.batch[i] \in Entries /\ HasId(r.batch[i]) /\ Listed(p, r.batch[i])
                                    /\ r.batch[i].qty + filled[r.batch[i].src] <= Terms[r.batch[i].src].qty
                                    /\ r.batch[i].qty < U32
  BY BatchUnique
<1>3. /\ r.batch \in Seq(Entries) /\ r.clearing = Clear(r.batch)
      /\ \A n \in 1..Len(r.carry) : HiddenIn(p, r.carry[n])
  BY <1>1, RefineParts
<1>4. /\ \E at \in [1..Len(r.book) -> 1..Len(r.batch)] :
                 /\ \A m, n \in 1..Len(r.book) : at[m] = at[n] => m = n
                 /\ \A n \in 1..Len(r.book) : r.book[n] = RestOf(r, at[n])
      /\ \A n \in 1..Len(r.carry) : \E i \in 1..Len(r.batch) : r.carry[n] = RestOf(r, i)
  BY <1>1, <1>2, RefineRests
<1>5. ASSUME NEW i \in 1..Len(r.batch)
      PROVE  LET o == r.batch[i].src
             IN  /\ o \in Orders /\ SameOrder(RestOf(r, i), r.batch[i])
                 /\ filled'[o] \in Nat /\ RestOf(r, i).qty \in Nat
                 /\ RestOf(r, i).qty + filled'[o] <= Terms[o].qty
                 /\ filled[o] \in Nat /\ filled'[o] = filled[o] + Taken(r.batch, r.clearing)[i]
  <2> DEFINE o == r.batch[i].src
             t == Taken(r.batch, r.clearing)[i]
             q == RestOf(r, i).qty
  <2>1. FilledNow(r, o) = t /\ t \in Nat /\ t <= r.batch[i].qty
    BY <1>2, <1>3, FilledNowIs
  <2>2. o \in Orders /\ r.batch[i].qty \in Nat
    BY <1>2, EntryFields
  <2>3. SameOrder(RestOf(r, i), r.batch[i]) /\ RestOf(r, i) \in Entries /\ q + t = r.batch[i].qty
    BY <1>2, <2>1, RestFields
  <2>4. q \in Nat
    BY <2>3, EntryFields
  <2>5. filled'[o] = filled[o] + t
    BY <1>1, <2>1, <2>2
  <2>6. filled[o] \in Nat /\ Terms[o].qty \in Nat
    <3>1. Terms[o].qty \in 1..(U32 - 1) /\ filled[o] \in Nat
      BY <2>2, RoundsAssumption DEF MarketIInv, MarketTypeOK
    <3> QED
      BY <3>1, U32Assumption
  <2>7. r.batch[i].qty + filled[o] <= Terms[o].qty
    BY <1>2
  <2> HIDE DEF o, t, q
  <2>8. filled'[o] \in Nat /\ q + filled'[o] <= Terms[o].qty
    BY <2>1, <2>2, <2>3, <2>4, <2>5, <2>6, <2>7
  <2> QED
    BY <2>2, <2>3, <2>4, <2>5, <2>6, <2>8 DEF o, t, q
<1>6. ASSUME NEW o \in Orders, \A i \in 1..Len(r.batch) : r.batch[i].src # o PROVE filled'[o] = filled[o]
  <2>1. FilledNow(r, o) = 0
    BY <1>3, <1>6, FilledNowType
  <2>2. filled[o] \in Nat
    BY DEF MarketIInv, MarketTypeOK
  <2> QED
    BY <1>1, <2>1, <2>2
<1>7. ASSUME NEW i \in 1..Len(r.batch)
      PROVE  /\ r.batch[i].src \in Public => entered'[r.batch[i].src] = 1
             /\ r.batch[i].src \in Sealed => r.batch[i] \in commits /\ r.batch[i] \in ToSet(p.sealed)
  <2> DEFINE e == r.batch[i]
  <2>0. e.src \in Orders /\ entered[e.src] \in {0, 1} /\ entered'[e.src] \in {0, 1}
    <3>1. e.src \in Orders
      BY <1>5
    <3>2. EntersOnce /\ EntersOnce'
      BY RoundKeepsMarket DEF MarketIInv
    <3> QED
      BY <3>1, <3>2 DEF EntersOnce
  <2>1. CASE \E j \in 1..Len(p.book) : e = p.book[j]
    <3>1. entered[e.src] = 1 /\ e.src \in Public
      BY <1>1, <2>1 DEF ProcessIInv, RestsOnce, MarketIInv, SignedByOwner
    <3>2. entered'[e.src] = entered[e.src] + 1 \/ entered'[e.src] = entered[e.src] + 0
      BY <1>1, <2>0
    <3>3. entered'[e.src] = 1
      BY <2>0, <3>1, <3>2
    <3> QED
      BY <3>1, <3>3 DEF Sealed
  <2>2. CASE \E j \in 1..Len(p.new) : e = p.new[j]
    <3>1. \E j \in 1..Len(p.new) : p.new[j].src = e.src
      BY <2>2
    <3>2. entered'[e.src] = entered[e.src] + 1
      BY <1>1, <2>0, <3>1
    <3>3. entered'[e.src] = 1
      BY <2>0, <3>2
    <3> QED
      BY <1>1, <2>2, <3>3 DEF Sealed
  <2>3. CASE \E j \in 1..Len(p.sealed) : e = p.sealed[j]
    BY <1>1, <2>3 DEF ToSet, ProcessIInv, HiddenOnce, Sealed
  <2> QED
    BY <1>2, <2>1, <2>2, <2>3 DEF Listed
<1>8. ASSUME NEW n \in 1..Len(r.carry)
      PROVE  \E i \in 1..Len(r.batch) : r.carry[n] = RestOf(r, i) /\ r.batch[i].src \in Sealed
  <2>1. PICK i \in 1..Len(r.batch) : r.carry[n] = RestOf(r, i)
    BY <1>4
  <2>2. PICK j \in 1..Len(p.sealed) : p.sealed[j].id = r.carry[n].id
    BY <1>3 DEF HiddenIn
  <2>3. r.batch[i].id = p.sealed[j].id /\ r.batch[i].src \in Orders /\ HasId(r.batch[i])
    BY <1>2, <1>5, <2>1, <2>2 DEF SameOrder
  <2>4. p.sealed[j] \in commits /\ p.sealed[j].src \in Orders /\ p.sealed[j].src \in Sealed /\ HasId(p.sealed[j])
    BY <1>1 DEF ProcessIInv, HiddenOnce, IdsKept, Sealed
  <2>5. r.batch[i].src = p.sealed[j].src
    BY <2>3, <2>4 DEF HasId, ProcessIInv, IdsUnique
  <2> QED
    BY <2>1, <2>4, <2>5
<1> QED
  BY <1>2, <1>4, <1>5, <1>6, <1>7, <1>8

-----------------------------------------------------------------------------
\* Where the live hidden orders are after a round.
LEMMA LiveAfterRound ==
    ASSUME MarketIInv, ProcessIInv, NEW p \in net, NEW r, r = Refine(p), Round(p, r, pk), UNCHANGED <<pk, world>>,
           NEW e \in Live'
    PROVE  \/ e \in Live /\ e \notin ToSet(p.sealed)
           \/ \E i \in 1..Len(r.batch) : /\ e = [RestOf(r, i) EXCEPT !.gen = @ + 1] /\ r.batch[i].src \in Sealed
                                         /\ e.src = r.batch[i].src /\ e.id = r.batch[i].id /\ e.qty = RestOf(r, i).qty
                                         /\ e.account = Terms[r.batch[i].src].account
<1>1. /\ commits' = commits \ ToSet(p.sealed) /\ opened' = opened \cup (ToSet(p.sealed) \cap reseals)
      /\ reseals' = reseals \/ reseals' = reseals \cup Reseals(r.carry)
  BY DEF Round, Consumed
<1>2. CASE e \in commits' \/ e \in reseals
  BY <1>1, <1>2 DEF Live
<1>3. CASE e \in Reseals(r.carry)
  <2>1. r.carry \in Seq(Entries)
    BY RefineParts, RoundFacts DEF MarketIInv
  <2>2. /\ e \in Entries
        /\ \E n \in 1..Len(r.carry) : /\ e = [r.carry[n] EXCEPT !.gen = @ + 1]
                                      /\ e.src = r.carry[n].src /\ e.id = r.carry[n].id /\ e.qty = r.carry[n].qty
    BY <1>3, <2>1, ResealsAre
  <2>3. PICK n \in 1..Len(r.carry) : /\ e = [r.carry[n] EXCEPT !.gen = @ + 1]
                                     /\ e.src = r.carry[n].src /\ e.id = r.carry[n].id /\ e.qty = r.carry[n].qty
    BY <2>2
  <2>4. PICK i \in 1..Len(r.batch) : r.carry[n] = RestOf(r, i) /\ r.batch[i].src \in Sealed
    BY RoundLeaves
  <2>5. SameOrder(RestOf(r, i), r.batch[i])
    BY RoundLeaves
  <2>6. e.account = Terms[e.src].account
    BY <2>2, EntryFields
  <2> QED
    BY <2>3, <2>4, <2>5, <2>6 DEF SameOrder
<1> QED
  BY <1>1, <1>2, <1>3 DEF Live

LEMMA RoundKeepsProcess ==
    ASSUME MarketIInv, ProcessIInv, NEW p \in net, NEW r, r = Refine(p), Round(p, r, pk), UNCHANGED <<pk, world>>
    PROVE  ProcessIInv'
<1>1. /\ book' = r.book /\ sc' = sc /\ oid' = oid /\ nextoid' = nextoid /\ net' = net
      /\ commits' = commits \ ToSet(p.sealed)
      /\ reseals' = reseals \/ reseals' = reseals \cup Reseals(r.carry)
  BY DEF Round, Consumed
<1>2. /\ \A i \in 1..Len(r.batch) :
                 LET o == r.batch[i].src
                 IN  /\ r.batch[i] \in Entries /\ o \in Orders /\ HasId(r.batch[i]) /\ SameOrder(RestOf(r, i), r.batch[i])
                     /\ filled'[o] \in Nat /\ RestOf(r, i).qty \in Nat
                     /\ RestOf(r, i).qty + filled'[o] <= Terms[o].qty
      /\ \A o \in Orders : (\A i \in 1..Len(r.batch) : r.batch[i].src # o) => filled'[o] = filled[o]
      /\ \A i \in 1..Len(r.batch) : r.batch[i].src \in Public => entered'[r.batch[i].src] = 1
      /\ \A i \in 1..Len(r.batch) : r.batch[i].src \in Sealed => r.batch[i] \in commits /\ r.batch[i] \in ToSet(p.sealed)
      /\ \A n \in 1..Len(r.carry) : \E i \in 1..Len(r.batch) : r.carry[n] = RestOf(r, i) /\ r.batch[i].src \in Sealed
  <2>1. ASSUME NEW i \in 1..Len(r.batch)
        PROVE  LET o == r.batch[i].src
               IN  /\ r.batch[i] \in Entries /\ o \in Orders /\ HasId(r.batch[i]) /\ SameOrder(RestOf(r, i), r.batch[i])
                   /\ filled'[o] \in Nat /\ RestOf(r, i).qty \in Nat
                   /\ RestOf(r, i).qty + filled'[o] <= Terms[o].qty
    BY RoundLeaves
  <2>2. \A o \in Orders : (\A i \in 1..Len(r.batch) : r.batch[i].src # o) => filled'[o] = filled[o]
    BY RoundLeaves
  <2>3. \A i \in 1..Len(r.batch) : r.batch[i].src \in Public => entered'[r.batch[i].src] = 1
    BY RoundLeaves
  <2>4. \A i \in 1..Len(r.batch) : r.batch[i].src \in Sealed => r.batch[i] \in commits /\ r.batch[i] \in ToSet(p.sealed)
    BY RoundLeaves
  <2>5. \A n \in 1..Len(r.carry) : \E i \in 1..Len(r.batch) : r.carry[n] = RestOf(r, i) /\ r.batch[i].src \in Sealed
    BY RoundLeaves
  <2> QED
    BY <2>1, <2>2, <2>3, <2>4, <2>5
<1>3. PICK at \in [1..Len(r.book) -> 1..Len(r.batch)] :
                 /\ \A m, n \in 1..Len(r.book) : at[m] = at[n] => m = n
                 /\ \A n \in 1..Len(r.book) : r.book[n] = RestOf(r, at[n])
  BY RoundLeaves
<1>4. UniqueSrcs(r.batch)
  BY BatchUnique
<1>5. /\ r.carry \in Seq(Entries)
      /\ \A n \in 1..Len(r.book) : r.book[n].src \in Public
  <2>1. r.carry \in Seq(Entries)
    BY RefineParts, RoundFacts DEF MarketIInv
  <2>2. SignedByOwner'
    BY RoundKeepsMarket DEF MarketIInv
  <2> QED
    BY <1>1, <2>1, <2>2 DEF SignedByOwner
<1>6. ASSUME NEW n \in 1..Len(r.book)
      PROVE  /\ at[n] \in 1..Len(r.batch) /\ r.book[n].src = r.batch[at[n]].src /\ r.book[n].id = r.batch[at[n]].id
             /\ r.book[n].qty = RestOf(r, at[n]).qty
  <2>1. at[n] \in 1..Len(r.batch) /\ r.book[n] = RestOf(r, at[n])
    BY <1>3
  <2>2. SameOrder(RestOf(r, at[n]), r.batch[at[n]])
    BY <1>2, <2>1
  <2> QED
    BY <2>1, <2>2 DEF SameOrder
<1>7. ASSUME NEW e \in Reseals(r.carry)
      PROVE  /\ e.src \in Sealed /\ HasId(e)
             /\ \E f \in commits : e.src = f.src /\ e.account = f.account
  <2>1. e \in Entries /\ \E n \in 1..Len(r.carry) : e.src = r.carry[n].src /\ e.id = r.carry[n].id
    BY <1>5, ResealsAre
  <2>2. PICK n \in 1..Len(r.carry) : e.src = r.carry[n].src /\ e.id = r.carry[n].id
    BY <2>1
  <2>3. PICK i \in 1..Len(r.batch) : r.carry[n] = RestOf(r, i) /\ r.batch[i].src \in Sealed
    BY <1>2
  <2>4. r.batch[i] \in commits /\ HasId(r.batch[i]) /\ SameOrder(RestOf(r, i), r.batch[i]) /\ r.batch[i] \in Entries
    BY <1>2, <2>3
  <2>5. e.src = r.batch[i].src /\ e.id = r.batch[i].id
    BY <2>2, <2>3, <2>4 DEF SameOrder
  <2>6. e.account = r.batch[i].account
    BY <2>1, <2>4, <2>5, EntryFields
  <2> QED
    BY <2>3, <2>4, <2>5, <2>6 DEF HasId
<1>8. IdsUnique'
  BY <1>1 DEF ProcessIInv, IdsUnique
<1>9. IdsKept'
  <2>1. \A e : HasId(e)' <=> HasId(e)
    BY <1>1 DEF HasId
  <2>2. ASSUME NEW n \in 1..Len(r.book) PROVE HasId(r.book[n])
    <3>1. HasId(r.batch[at[n]])
      BY <1>2, <1>6
    <3> QED
      BY <1>6, <3>1 DEF HasId
  <2>3. \A e \in commits' \cup reseals' : HasId(e)
    BY <1>1, <1>7 DEF ProcessIInv, IdsKept
  <2>4. \A q \in net' : \A i \in 1..Len(q.new) : HasId(q.new[i])
    BY <1>1 DEF ProcessIInv, IdsKept
  <2>5. \A n \in 1..Len(book') : HasId(book'[n])
    BY <1>1, <2>2
  <2> QED
    BY <2>1, <2>3, <2>4, <2>5 DEF IdsKept
<1>10. RestsOnce'
  <2>a. \A i \in 1..Len(r.batch) : r.batch[i].src \in Public => entered'[r.batch[i].src] = 1
    BY <1>2
  <2>b. \A n \in 1..Len(r.book) : r.book[n].src \in Public
    BY <1>5
  <2>1. ASSUME NEW n \in 1..Len(r.book) PROVE entered'[r.book[n].src] = 1
    <3>1. at[n] \in 1..Len(r.batch) /\ r.book[n].src = r.batch[at[n]].src
      BY <1>6
    <3> QED
      BY <2>a, <2>b, <3>1
  <2>2. UniqueSrcs(r.book)
    <3> SUFFICES ASSUME NEW m \in 1..Len(r.book), NEW n \in 1..Len(r.book), r.book[m].src = r.book[n].src
                 PROVE  m = n
      BY DEF UniqueSrcs
    <3>1. /\ at[m] \in 1..Len(r.batch) /\ at[n] \in 1..Len(r.batch)
          /\ r.batch[at[m]].src = r.batch[at[n]].src
      BY <1>6
    <3>2. at[m] = at[n]
      BY <1>4, <3>1 DEF UniqueSrcs
    <3> QED
      BY <1>3, <3>2
  <2> QED
    BY <1>1, <2>1, <2>2 DEF RestsOnce, UniqueSrcs
<1>11. \A e \in commits' \cup reseals' : e.src \in Sealed /\ Terms[e.src].seq <= sc'[e.account]
  <2> SUFFICES ASSUME NEW e \in commits' \cup reseals' PROVE e.src \in Sealed /\ Terms[e.src].seq <= sc[e.account]
    BY <1>1
  <2>1. CASE e \in commits \cup reseals
    BY <2>1 DEF ProcessIInv, HiddenOnce
  <2>2. CASE e \in Reseals(r.carry)
    <3>1. PICK f \in commits : e.src = f.src /\ e.account = f.account
      BY <1>7, <2>2
    <3>2. Terms[f.src].seq <= sc[f.account]
      BY DEF ProcessIInv, HiddenOnce
    <3> QED
      BY <1>7, <2>2, <3>1, <3>2
  <2> QED
    BY <1>1, <2>1, <2>2
<1>12. ASSUME NEW e \in Live', NEW f \in Live', e.src = f.src PROVE e = f
  <2> DEFINE Old(g) == g \in Live /\ g \notin ToSet(p.sealed)
             New(g) == \E i \in 1..Len(r.batch) : /\ g = [RestOf(r, i) EXCEPT !.gen = @ + 1]
                                                  /\ r.batch[i].src \in Sealed /\ g.src = r.batch[i].src
  <2>1. (Old(e) \/ New(e)) /\ (Old(f) \/ New(f))
    BY LiveAfterRound
  <2>2. ASSUME NEW g, NEW h, Old(g), New(h), g.src = h.src PROVE FALSE
    <3>1. PICK i \in 1..Len(r.batch) : r.batch[i].src \in Sealed /\ h.src = r.batch[i].src
      BY <2>2
    <3>2. r.batch[i] \in Live /\ r.batch[i] \in ToSet(p.sealed)
      BY <1>2, <3>1 DEF Live
    <3>3. g = r.batch[i]
      BY <2>2, <3>1, <3>2 DEF ProcessIInv, HiddenOnce
    <3> QED
      BY <2>2, <3>2, <3>3
  <2>3. CASE Old(e) /\ Old(f)
    BY <1>12, <2>3 DEF ProcessIInv, HiddenOnce
  <2>4. CASE New(e) /\ New(f)
    BY <1>4, <1>12, <2>4 DEF UniqueSrcs
  <2> QED
    BY <1>12, <2>1, <2>2, <2>3, <2>4
<1>13. HiddenOnce'
  BY <1>11, <1>12 DEF HiddenOnce
<1>14. WithinSigned'
  <2>0. \A o \in Orders : filled[o] \in Nat /\ filled'[o] \in Nat /\ Terms[o].qty \in Nat
    <3>1. MarketTypeOK /\ MarketTypeOK'
      BY RoundKeepsMarket DEF MarketIInv
    <3>2. \A o \in Orders : Terms[o].qty \in 1..(U32 - 1)
      BY RoundsAssumption
    <3> QED
      BY <3>1, <3>2, U32Assumption DEF MarketTypeOK
  <2>1. ASSUME NEW o \in Orders PROVE filled'[o] <= Terms[o].qty
    <3>1. CASE \E i \in 1..Len(r.batch) : r.batch[i].src = o
      <4>1. PICK i \in 1..Len(r.batch) : r.batch[i].src = o
        BY <3>1
      <4>2. RestOf(r, i).qty + filled'[o] <= Terms[o].qty /\ RestOf(r, i).qty \in Nat
        BY <1>2, <4>1
      <4> QED
        BY <2>0, <4>2
    <3>2. CASE \A i \in 1..Len(r.batch) : r.batch[i].src # o
      BY <1>2, <3>2 DEF ProcessIInv, WithinSigned
    <3> QED
      BY <3>1, <3>2
  <2>2. ASSUME NEW n \in 1..Len(book') PROVE book'[n].qty + filled'[book'[n].src] <= Terms[book'[n].src].qty
    BY <1>1, <1>2, <1>6
  <2>3. ASSUME NEW e \in Live' PROVE e.qty + filled'[e.src] <= Terms[e.src].qty
    <3>1. CASE e \in Live /\ e \notin ToSet(p.sealed)
      <4>1. \A i \in 1..Len(r.batch) : r.batch[i].src # e.src
        <5> SUFFICES ASSUME NEW i \in 1..Len(r.batch), r.batch[i].src = e.src PROVE FALSE
          OBVIOUS
        <5>1. e.src \in Sealed
          BY <3>1 DEF Live, ProcessIInv, HiddenOnce
        <5>2. r.batch[i] \in Live /\ r.batch[i] \in ToSet(p.sealed)
          BY <1>2, <5>1 DEF Live
        <5>3. e = r.batch[i]
          BY <3>1, <5>2 DEF ProcessIInv, HiddenOnce
        <5> QED
          BY <3>1, <5>2, <5>3
      <4>2. e.src \in Orders
        BY <3>1 DEF Live, ProcessIInv, HiddenOnce, Sealed
      <4>3. filled'[e.src] = filled[e.src]
        BY <1>2, <4>1, <4>2
      <4> QED
        BY <3>1, <4>3 DEF ProcessIInv, WithinSigned
    <3>2. CASE \E i \in 1..Len(r.batch) : e.src = r.batch[i].src /\ e.qty = RestOf(r, i).qty
      BY <1>2, <3>2
    <3> QED
      BY <3>1, <3>2, LiveAfterRound
  <2>4. ASSUME NEW o \in Public, entered'[o] = 0 PROVE filled'[o] = 0
    <3>1. o \in Orders
      BY DEF Public
    <3>2. \A i \in 1..Len(r.batch) : r.batch[i].src # o
      BY <1>2, <2>4
    <3>3. entered[o] = 0
      <4>1. entered[o] \in {0, 1} /\ (entered'[o] = entered[o] + 1 \/ entered'[o] = entered[o] + 0)
        BY <3>1, RoundFacts DEF MarketIInv, EntersOnce
      <4> QED
        BY <2>4, <4>1
    <3> QED
      BY <1>2, <3>1, <3>2, <3>3 DEF ProcessIInv, WithinSigned
  <2>5. ASSUME NEW o \in Sealed, Terms[o].seq > sc'[Terms[o].account] PROVE filled'[o] = 0
    <3>1. o \in Orders
      BY DEF Sealed
    <3>2. filled[o] = 0
      BY <1>1, <2>5 DEF ProcessIInv, WithinSigned
    <3>3. ASSUME NEW i \in 1..Len(r.batch), r.batch[i].src = o PROVE FALSE
      <4>1. r.batch[i] \in commits /\ r.batch[i] \in Entries
        BY <1>2, <3>3
      <4>2. Terms[o].seq <= sc[r.batch[i].account] /\ r.batch[i].account = Terms[o].account
        BY <3>3, <4>1, EntryFields DEF ProcessIInv, HiddenOnce
      <4>3. Terms[o].seq \in Nat /\ sc[Terms[o].account] \in Nat
        BY <3>1, RoundsAssumption DEF MarketIInv, MarketTypeOK, Traders
      <4> QED
        BY <1>1, <2>5, <4>2, <4>3
    <3> QED
      BY <1>2, <3>1, <3>2, <3>3
  <2> QED
    BY <2>1, <2>2, <2>3, <2>4, <2>5 DEF WithinSigned
<1> QED
  BY <1>8, <1>9, <1>10, <1>13, <1>14 DEF ProcessIInv

LEMMA ElsewhereKeepsProcess ==
    ASSUME MarketIInv, ProcessIInv, Elsewhere, restarts' = 0
    PROVE  ProcessIInv'
<1>0. UNCHANGED <<sq, sc, book, commits, net, reseals, opened, filled, entered>>
  BY DEF Elsewhere
<1>1. RestsOnce' /\ HiddenOnce' /\ WithinSigned'
  BY <1>0 DEF ProcessIInv, RestsOnce, UniqueSrcs, HiddenOnce, WithinSigned, Live
<1>2. CASE UNCHANGED <<oid, nextoid>>
  BY <1>0, <1>1, <1>2 DEF ProcessIInv, IdsUnique, IdsKept, HasId
<1>3. ASSUME NEW o \in Orders, TakeOrder(o) PROVE ProcessIInv'
  <2>1. /\ oid[o] = 0 /\ oid' = [oid EXCEPT ![o] = nextoid] /\ nextoid' = nextoid + 1
        /\ oid \in [Orders -> Nat] /\ nextoid \in Nat \ {0}
    BY <1>3 DEF TakeOrder, MarketIInv, MarketTypeOK
  <2>2. \A q \in Orders : oid'[q] = (IF q = o THEN nextoid ELSE oid[q]) /\ oid[q] \in Nat /\ oid[q] < nextoid
    BY <2>1 DEF ProcessIInv, IdsUnique
  <2>3. IdsUnique'
    <3>1. \A q \in Orders : oid'[q] < nextoid'
      BY <2>1, <2>2
    <3>2. \A q, s \in Orders : oid'[q] # 0 /\ oid'[q] = oid'[s] => q = s
      BY <2>1, <2>2 DEF ProcessIInv, IdsUnique
    <3> QED
      BY <3>1, <3>2 DEF IdsUnique
  <2>4. ASSUME NEW e \in Entries, HasId(e) PROVE HasId(e)'
    <3>1. e.src \in Orders
      BY EntryFields
    <3> QED
      BY <2>1, <2>2, <2>4, <3>1 DEF HasId
  <2>5. /\ \A i \in 1..Len(book) : book[i] \in Entries
        /\ \A e \in commits \cup reseals : e \in Entries
        /\ \A p \in net : \A i \in 1..Len(p.new) : p.new[i] \in Entries
    BY DEF MarketIInv, MarketTypeOK, PayloadOK
  <2>6. IdsKept'
    BY <1>0, <2>4, <2>5 DEF ProcessIInv, IdsKept
  <2> QED
    BY <1>1, <2>3, <2>6 DEF ProcessIInv
<1>4. ~BuilderRestart
  <2>1. restarts \in Nat
    BY DEF MarketIInv, MarketTypeOK
  <2> QED
    BY <2>1 DEF BuilderRestart
<1> QED
  BY <1>2, <1>3, <1>4 DEF Elsewhere

LEMMA CommitKeepsProcess ==
    ASSUME MarketIInv, ProcessIInv, NEW o \in Orders, Commit(o, pk)
    PROVE  ProcessIInv'
<1> DEFINE e == EngineOrder(o, oid[o], Terms[o].price, Terms[o].qty)
           a == Terms[o].account
<1>1. /\ o \in Sealed /\ Terms[o].seq > sc[a] /\ oid[o] # 0
      /\ sc' = [sc EXCEPT ![a] = Terms[o].seq]
      /\ commits' = commits \cup {e}
      /\ UNCHANGED <<sq, book, oid, nextoid, net, reseals, opened, filled, entered>>
  BY DEF Commit, traceVars
<1>2. /\ e \in Entries /\ e.src = o /\ e.id = oid[o] /\ e.qty = Terms[o].qty /\ e.account = a
      /\ a \in Traders /\ Terms[o].seq \in Nat
  BY <1>1, CommitEntry DEF MarketIInv
<1> HIDE DEF e, a
<1>3. \A h \in Traders : sc[h] \in Nat /\ sc'[h] \in Nat /\ sc[h] <= sc'[h]
  BY <1>1, <1>2 DEF MarketIInv, MarketTypeOK
<1>4. sc'[a] = Terms[o].seq
  BY <1>1, <1>2 DEF MarketIInv, MarketTypeOK
<1>5. ASSUME NEW f \in commits \cup reseals
      PROVE  f.src # o /\ Terms[f.src].seq <= sc'[f.account]
  <2>1. f.src \in Orders /\ f.account \in Traders /\ f.account = Terms[f.src].account
    BY EntryFields DEF MarketIInv, MarketTypeOK
  <2>2. Terms[f.src].seq \in Nat /\ Terms[f.src].seq <= sc[f.account]
    BY <2>1, RoundsAssumption DEF ProcessIInv, HiddenOnce
  <2>3. Terms[f.src].seq <= sc'[f.account]
    BY <1>3, <2>1, <2>2
  <2>4. f.src # o
    BY <1>1, <1>2, <1>3, <2>1, <2>2 DEF a
  <2> QED
    BY <2>3, <2>4
<1>6. Live' = Live \cup {e} /\ \A f \in Live : f.src # o
  BY <1>1, <1>5 DEF Live
<1>7. IdsUnique' /\ RestsOnce'
  BY <1>1 DEF ProcessIInv, IdsUnique, RestsOnce, UniqueSrcs
<1>8. IdsKept'
  <2>1. \A f : HasId(f)' <=> HasId(f)
    BY <1>1 DEF HasId
  <2>2. HasId(e)
    BY <1>1, <1>2 DEF HasId
  <2> QED
    BY <1>1, <2>1, <2>2 DEF ProcessIInv, IdsKept
<1>9. HiddenOnce'
  <2>1. \A f \in commits' \cup reseals' : f.src \in Sealed /\ Terms[f.src].seq <= sc'[f.account]
    <3> SUFFICES ASSUME NEW f \in commits' \cup reseals' PROVE f.src \in Sealed /\ Terms[f.src].seq <= sc'[f.account]
      OBVIOUS
    <3>1. CASE f \in commits \cup reseals
      BY <1>5, <3>1 DEF ProcessIInv, HiddenOnce
    <3>2. CASE f = e
      BY <1>1, <1>2, <1>4, <3>2
    <3> QED
      BY <1>1, <3>1, <3>2
  <2>2. \A f, g \in Live' : f.src = g.src => f = g
    BY <1>2, <1>6 DEF ProcessIInv, HiddenOnce
  <2> QED
    BY <2>1, <2>2 DEF HiddenOnce
<1>10. WithinSigned'
  <2>1. filled[o] = 0 /\ Terms[o].qty \in Nat
    <3>1. filled[o] = 0
      BY <1>1 DEF ProcessIInv, WithinSigned, a
    <3> QED
      BY <1>2, <3>1, EntryFields
  <2>2. \A f \in Live' : f.qty + filled[f.src] <= Terms[f.src].qty
    <3> SUFFICES ASSUME NEW f \in Live' PROVE f.qty + filled[f.src] <= Terms[f.src].qty
      OBVIOUS
    <3>1. CASE f \in Live
      BY <3>1 DEF ProcessIInv, WithinSigned
    <3>2. CASE f = e
      BY <1>2, <2>1, <3>2
    <3> QED
      BY <1>6, <3>1, <3>2
  <2>3. \A q \in Sealed : Terms[q].seq > sc'[Terms[q].account] => filled[q] = 0
    <3> SUFFICES ASSUME NEW q \in Sealed, Terms[q].seq > sc'[Terms[q].account] PROVE filled[q] = 0
      OBVIOUS
    <3>1. Terms[q].account \in Traders /\ Terms[q].seq \in Nat
      BY RoundsAssumption DEF Sealed, Traders
    <3>2. Terms[q].seq > sc[Terms[q].account]
      BY <1>3, <3>1
    <3> QED
      BY <3>2 DEF ProcessIInv, WithinSigned
  <2> QED
    BY <1>1, <2>2, <2>3 DEF ProcessIInv, WithinSigned
<1> QED
  BY <1>7, <1>8, <1>9, <1>10 DEF ProcessIInv

LEMMA CarryKeepsProcess ==
    ASSUME MarketIInv, ProcessIInv, NEW e, e \notin opened, CarryCommit(e)
    PROVE  ProcessIInv'
<1>1. /\ e \in reseals /\ e \notin opened /\ commits' = commits \cup {e}
      /\ UNCHANGED <<sq, sc, book, oid, nextoid, net, reseals, opened, filled, entered>>
  BY DEF CarryCommit, builderVars
<1>2. Live' = Live /\ commits' \cup reseals' = commits \cup reseals
  BY <1>1 DEF Live
<1>3. IdsUnique' /\ RestsOnce' /\ HiddenOnce'
  BY <1>1, <1>2 DEF ProcessIInv, IdsUnique, RestsOnce, UniqueSrcs, HiddenOnce
<1>4. IdsKept' /\ WithinSigned'
  BY <1>1, <1>2 DEF ProcessIInv, IdsKept, HasId, WithinSigned
<1> QED
  BY <1>3, <1>4 DEF ProcessIInv

LEMMA SubmitKeepsProcess ==
    ASSUME MarketIInv, ProcessIInv, NEW p \in Payloads, Submit(p)
    PROVE  ProcessIInv'
<1>1. /\ \A i \in 1..Len(p.new) : SignedAsSubmitted(p.new[i])
      /\ net' = net \cup {p}
      /\ UNCHANGED <<sq, sc, book, commits, oid, nextoid, reseals, opened, filled, entered>>
  BY DEF Submit, chainVars, traceVars
<1>2. \A i \in 1..Len(p.new) : HasId(p.new[i])
  BY <1>1, SubmittedOK DEF MarketIInv, HasId
<1>3. IdsUnique' /\ RestsOnce' /\ HiddenOnce' /\ WithinSigned'
  BY <1>1 DEF ProcessIInv, IdsUnique, RestsOnce, UniqueSrcs, HiddenOnce, WithinSigned, Live
<1>4. IdsKept'
  BY <1>1, <1>2 DEF ProcessIInv, IdsKept, HasId
<1> QED
  BY <1>3, <1>4 DEF ProcessIInv

LEMMA CancelKeepsProcess ==
    ASSUME MarketIInv, ProcessIInv, NEW h, NEW id, CancelResting(h, id)
    PROVE  ProcessIInv'
<1> DEFINE K == {i \in 1..Len(book) : ~(book[i].account = h /\ book[i].id = id)}
<1>1. /\ book' = Pick(book, K)
      /\ UNCHANGED <<sq, sc, commits, oid, nextoid, net, reseals, opened, filled, entered>>
  BY DEF CancelResting, builderVars, traceVars
<1>2. book \in Seq(Entries) /\ K \in SUBSET (1..Len(book)) /\ UniqueSrcs(book)
  BY DEF MarketIInv, MarketTypeOK, ProcessIInv, RestsOnce
<1> HIDE DEF K
<1>3. \A n \in 1..Len(Pick(book, K)) : \E i \in K : Pick(book, K)[n] = book[i]
  BY <1>2, PickIsPart
<1>4. \A n \in 1..Len(book') : \E i \in 1..Len(book) : book'[n] = book[i]
  BY <1>1, <1>2, <1>3
<1>5. UniqueSrcs(book')
  BY <1>1, <1>2, PickUnique
<1>6. RestsOnce'
  BY <1>1, <1>4, <1>5 DEF ProcessIInv, RestsOnce, UniqueSrcs
<1>7. IdsUnique' /\ HiddenOnce'
  BY <1>1 DEF ProcessIInv, IdsUnique, HiddenOnce, Live
<1>8. IdsKept' /\ WithinSigned'
  BY <1>1, <1>4 DEF ProcessIInv, IdsKept, HasId, WithinSigned, Live
<1> QED
  BY <1>6, <1>7, <1>8 DEF ProcessIInv

-----------------------------------------------------------------------------
LEMMA ProcessInitially ==
    ASSUME Init
    PROVE  ProcessIInv
<1>1. /\ book = <<>> /\ commits = {} /\ reseals = {} /\ net = {} /\ sc = [h \in Traders |-> 0]
      /\ oid = [o \in Orders |-> 0] /\ nextoid = FirstOid
      /\ filled = [o \in Orders |-> 0] /\ entered = [o \in Orders |-> 0]
  BY DEF Init, RoundsInit
<1>2. Len(<<>>) = 0 /\ 1..0 = {}
  OBVIOUS
<1>3. IdsUnique
  BY <1>1, RoundsAssumption DEF IdsUnique
<1>4. IdsKept /\ RestsOnce /\ HiddenOnce
  BY <1>1, <1>2 DEF IdsKept, RestsOnce, UniqueSrcs, HiddenOnce, Live
<1>5. WithinSigned
  <2>1. \A o \in Orders : Terms[o].qty \in 1..(U32 - 1)
    BY RoundsAssumption
  <2>2. \A o \in Orders : 0 <= Terms[o].qty
    BY <2>1, U32Assumption
  <2> QED
    BY <1>1, <1>2, <2>2 DEF WithinSigned, Live, Public, Sealed
<1> QED
  BY <1>3, <1>4, <1>5 DEF ProcessIInv

\* Restarts and late copies are counted, never forgotten.
LEMMA UndisturbedBefore ==
    ASSUME MarketIInv, [Next]_vars, Undisturbed'
    PROVE  Undisturbed
<1>0. MarketTypeOK /\ restarts \in Nat /\ late \in Nat
  BY DEF MarketIInv, MarketTypeOK
<1>1. restarts' = restarts \/ restarts' = restarts + 1
  BY <1>0, StepCases
     DEF Elsewhere, Commit, CarryCommit, Submit, CancelResting, RoundSettles, Round, TakeOrder, BuilderRestart, builderVars
<1>2. late' = late \/ late' = late + 1
  <2>1. CASE \E e \in reseals : CarryCommit(e)
    BY <1>0, <2>1 DEF CarryCommit
  <2> QED
    BY <1>0, <2>1, StepCases DEF Elsewhere, Commit, Submit, CancelResting, RoundSettles, Round, traceVars
<1> QED
  BY <1>0, <1>1, <1>2 DEF Undisturbed

LEMMA ProcessStep ==
    ASSUME MarketIInv, Undisturbed => ProcessIInv, [Next]_vars
    PROVE  (Undisturbed => ProcessIInv)'
<1> SUFFICES ASSUME Undisturbed' PROVE ProcessIInv'
  OBVIOUS
<1>0. MarketTypeOK /\ world' = world
  BY StepCases DEF MarketIInv
<1>1. Undisturbed /\ ProcessIInv
  BY UndisturbedBefore
<1>2. CASE Elsewhere
  BY <1>1, <1>2, ElsewhereKeepsProcess DEF Undisturbed
<1>3. CASE \E o \in Orders : Commit(o, pk)
  BY <1>1, <1>3, CommitKeepsProcess
<1>4. CASE \E e \in reseals : CarryCommit(e)
  <2>1. PICK e \in reseals : CarryCommit(e)
    BY <1>4
  <2>2. e \notin opened
    BY <1>1, <2>1 DEF Undisturbed, CarryCommit
  <2> QED
    BY <1>1, <2>1, <2>2, CarryKeepsProcess
<1>5. CASE \E p \in Payloads : Submit(p)
  BY <1>1, <1>5, SubmitKeepsProcess
<1>6. CASE \E x : CancelResting(x.account, x.oid)
  BY <1>1, <1>6, CancelKeepsProcess
<1>7. CASE pk' = pk /\ \E p \in net : RoundSettles(p)
  BY <1>0, <1>1, <1>7, RoundKeepsProcess DEF RoundSettles
<1> QED
  BY <1>0, <1>2, <1>3, <1>4, <1>5, <1>6, <1>7, StepCases

\* Everybody trades what they signed, under their own key, and no more of it:
\* for any orders, payloads, cancels and accounts, whatever lands late or again
\* (the quantity until a restart gives an id again or a consumed re-seal is
\* admitted again).
THEOREM TradesAlwaysAsSigned == Spec => []TradesAsSigned
<1> DEFINE I == KeysIInv /\ MarketIInv /\ (Undisturbed => ProcessIInv)
<1>1. Init => I
  BY KeysInitially, MarketInitially, ProcessInitially
<1>2. I /\ [Next]_vars => I'
  BY KeysStep, MarketStepKeeps, ProcessStep
<1>3. I => TradesAsSigned
  <2>1. MarketIInv => OnlySignedOrders
    BY DEF MarketIInv, SignedByOwner, IsSigned, OnlySignedOrders
  <2>2. (Undisturbed => ProcessIInv) => FilledWithinSigned
    BY DEF ProcessIInv, WithinSigned, FilledWithinSigned
  <2> QED
    BY <2>1, <2>2 DEF TradesAsSigned
<1> QED
  BY <1>1, <1>2, <1>3, PTL DEF Spec

-----------------------------------------------------------------------------
\* A step that fills an order is a round that settles, at a price it accepts.
LEMMA FillsWithinLimit ==
    ASSUME MarketIInv, Undisturbed => ProcessIInv, [Next]_vars, Undisturbed,
           NEW o \in Orders, filled'[o] > filled[o], Terms[o].type # "market"
    PROVE  IF Terms[o].side = "buy" THEN lp' <= Terms[o].price ELSE lp' >= Terms[o].price
<1>0. MarketTypeOK /\ ProcessIInv /\ filled[o] \in Nat
  BY DEF MarketIInv, MarketTypeOK
<1>1. world' = world /\ pk' = pk /\ \E p \in net : RoundSettles(p)
  <2>1. ~(filled' = filled)
    BY <1>0
  <2> QED
    BY <1>0, <2>1, StepCases DEF Elsewhere, Commit, CarryCommit, Submit, CancelResting, traceVars
<1>2. PICK p \in net : RoundSettles(p)
  BY <1>1
<1>3. PICK r : r = Refine(p)
  OBVIOUS
<1>4. Round(p, r, pk) /\ UNCHANGED <<pk, world>>
  BY <1>1, <1>2, <1>3 DEF RoundSettles
<1>5. PICK i \in 1..Len(r.batch) : r.batch[i].src = o
  BY <1>0, <1>3, <1>4, RoundLeaves
<1>6. r.batch[i] \in Entries /\ filled'[o] = filled[o] + Taken(r.batch, r.clearing)[i]
  BY <1>0, <1>3, <1>4, <1>5, RoundLeaves
<1>7. UniqueSrcs(r.batch) /\ UniqueIds(r.batch) /\ PayloadOK(p)
  BY <1>0, <1>3, <1>4, BatchUnique, RoundFacts
<1>8. /\ r.batch \in Seq(Entries) /\ r.clearing = Clear(r.batch) /\ r.settle = Settlement(r.batch, r.clearing)
  BY <1>3, <1>7, RefineParts
<1>9. Taken(r.batch, r.clearing)[i] \in Nat /\ Taken(r.batch, r.clearing)[i] > 0
  <2>1. Taken(r.batch, r.clearing)[i] \in Nat
    BY <1>7, <1>8, FilledNowIs
  <2> QED
    BY <1>0, <1>6, <2>1
<1>10. i \in Eligible(r.batch, r.batch[i].side, r.clearing.price) /\ i \in DOMAIN r.clearing.fills
  BY <1>7, <1>8, <1>9, FilledNowIs
<1>11. r.settle # <<>>
  <2>1. DOMAIN r.settle = DOMAIN r.clearing.fills
    BY <1>7, <1>8, SettlementIs, EntriesAreBatch
  <2> QED
    BY <1>10, <2>1
<1>12. lp' = r.clearing.price
  BY <1>4, <1>11 DEF Round
<1>13. r.batch[i].side = Terms[o].side /\ r.batch[i].price = Terms[o].price
  BY <1>5, <1>6, EntryFields
<1>14. IF Terms[o].side = "buy" THEN Terms[o].price >= lp' ELSE Terms[o].price <= lp'
  BY <1>10, <1>12, <1>13 DEF Eligible
<1>15. lp' \in Nat /\ Terms[o].price \in Nat
  BY <1>8, <1>12, ClearIs, EntriesAreBatch, RoundsAssumption
<1> QED
  BY <1>14, <1>15

\* Nobody trades beyond the price they signed, for any orders, prices put beside
\* them and payloads (parse_public_section with the engine's eligibility test).
THEOREM LimitsAlwaysHonoured == Spec => LimitsHonoured
<1> DEFINE I == KeysIInv /\ MarketIInv /\ (Undisturbed => ProcessIInv)
           A == Undisturbed => \A o \in Orders : filled'[o] > filled[o] /\ Terms[o].type # "market" =>
                   IF Terms[o].side = "buy" THEN lp' <= Terms[o].price ELSE lp' >= Terms[o].price
<1>1. Init => I
  BY KeysInitially, MarketInitially, ProcessInitially
<1>2. I /\ [Next]_vars => I'
  BY KeysStep, MarketStepKeeps, ProcessStep
<1>3. I /\ [Next]_vars => [A]_vars
  BY FillsWithinLimit
<1> QED
  BY <1>1, <1>2, <1>3, PTL DEF Spec, LimitsHonoured

-----------------------------------------------------------------------------
\* The deltas of a settlement move money between holders and create none.
SumOfEntries(f, e, h) == SumFunctionOnSet(f, EntriesOf(e, h))

Keyed(K, A, f, g, key) ==
    /\ IsFiniteSet(K) /\ IsFiniteSet(A)
    /\ \A i \in K : f[i] \in Int /\ key[i] \in A
    /\ \A h \in A : g[h] = SumOfKey(f, K, key, h)

LEMMA SumKeyed ==
    ASSUME NEW K, NEW A, NEW f, NEW g, NEW key, Keyed(K, A, f, g, key)
    PROVE  SumFunctionOnSet(g, A) = SumFunctionOnSet(f, K)
<1>1. IsFiniteSet(K) /\ IsFiniteSet(A) /\ (\A i \in K : f[i] \in Int /\ key[i] \in A)
      /\ \A h \in A : g[h] = SumOfKey(f, K, key, h)
  BY DEF Keyed
<1> QED
  BY <1>1, SumByKey

LEMMA GroupedByHolder ==
    ASSUME NEW e, IsFiniteSet(DOMAIN e), \A i \in DOMAIN e : e[i].account \in Holders,
           NEW f, \A i \in DOMAIN e : f[i] \in Int,
           NEW g, \A h \in Holders : g[h] = SumOfEntries(f, e, h)
    PROVE  SumFunctionOnSet(g, Holders) = SumFunctionOnSet(f, DOMAIN e) /\ \A h \in Holders : g[h] \in Int
<1> DEFINE key == [i \in DOMAIN e |-> e[i].account]
<1>1. IsFiniteSet(Holders)
  BY LedgerAssumption, FS_AddElement DEF Holders
<1>2. \A h : EntriesOf(e, h) = {i \in DOMAIN e : key[i] = h}
  BY DEF EntriesOf
<1>3. \A i \in DOMAIN e : key[i] \in Holders
  OBVIOUS
<1> HIDE DEF key
<1>4. \A h \in Holders : g[h] = SumOfKey(f, DOMAIN e, key, h)
  <2> SUFFICES ASSUME NEW h \in Holders PROVE g[h] = SumOfKey(f, DOMAIN e, key, h)
    OBVIOUS
  <2>1. g[h] = SumFunctionOnSet(f, EntriesOf(e, h))
    BY DEF SumOfEntries
  <2> QED
    BY <1>2, <2>1, Zenon DEF SumOfKey
<1>5. SumFunctionOnSet(g, Holders) = SumFunctionOnSet(f, DOMAIN e)
  <2>1. Keyed(DOMAIN e, Holders, f, g, key)
    BY <1>1, <1>3, <1>4 DEF Keyed
  <2> QED
    BY <2>1, SumKeyed
<1>6. ASSUME NEW h \in Holders PROVE g[h] \in Int
  <2>1. IsFiniteSet(EntriesOf(e, h)) /\ \A i \in EntriesOf(e, h) : f[i] \in Int
    BY FS_Subset DEF EntriesOf
  <2>2. SumFunctionOnSet(f, EntriesOf(e, h)) \in Int
    BY <2>1, SumPeel
  <2> QED
    BY <2>2 DEF SumOfEntries
<1> QED
  BY <1>5, <1>6

LEMMA DeltasBalance ==
    ASSUME NEW orders, IsBatch(orders), UniqueIds(orders), \A i \in 1..Len(orders) : orders[i].account \in Handles,
           NEW c, c = Clear(orders), NEW e, e = Settlement(orders, c), NEW a \in Assets
    PROVE  /\ \A h \in Holders : Deltas(c.price, e)[a][h] \in Int
           /\ SumFunctionOnSet(Deltas(c.price, e)[a], Holders) = 0
<1> DEFINE p == c.price
           d == Deltas(p, e)
           bm == BaseMove(e)
           qm == QuoteMove(p, e, SCALE)
           bd == [h \in Holders |-> BaseDelta(e, h)]
           qd == [h \in Holders |-> QuoteDelta(p, e, SCALE, h)]
           res == Residual(p, e, SCALE)
           rest == [h \in Holders |-> IF h = FEE_ACCOUNT THEN res ELSE 0]
           qs == [h \in Holders |-> QuoteDelta(p, e, SCALE, h) + (IF h = FEE_ACCOUNT THEN res ELSE 0)]
<1>0. IsFiniteSet(Holders) /\ FEE_ACCOUNT \in Holders /\ Handles \subseteq Holders
  BY LedgerAssumption, FS_AddElement DEF Holders
<1>1. d["base"] = bd /\ d["quote"] = qs
  BY DEF Deltas
<1>2. /\ IsFiniteSet(DOMAIN e) /\ SumFunctionOnSet(bm, DOMAIN e) = 0
      /\ \A i \in DOMAIN e : bm[i] \in Int
  BY BaseBalances
<1>3. /\ res \in Int /\ \A i \in DOMAIN e : qm[i] \in Int
  BY LedgerAssumption, ResidualBounds
<1>4. \A i \in DOMAIN e : e[i].account \in Holders
  BY <1>0, SettlementIs
<1>5. res = -SumFunctionOnSet(qm, DOMAIN e)
  <2>1. DOMAIN qm = DOMAIN e
    BY DEF QuoteMove
  <2>2. res = -SumFunctionOnSet(qm, DOMAIN qm)
    BY DEF Residual, SumFunction
  <2> QED
    BY <2>1, <2>2, Zenon
<1>6. /\ \A h \in Holders : bd[h] = SumOfEntries(bm, e, h)
      /\ \A h \in Holders : qd[h] = SumOfEntries(qm, e, h)
  BY DEF BaseDelta, QuoteDelta, SumOfEntries
<1>7. \A h \in Holders : qs[h] = qd[h] + rest[h]
  OBVIOUS
<1>8. \A h \in Holders : rest[h] = IF h = FEE_ACCOUNT THEN res ELSE 0
  OBVIOUS
<1> HIDE DEF p, d, bm, qm, bd, qd, res, rest, qs
<1>9. SumFunctionOnSet(bd, Holders) = SumFunctionOnSet(bm, DOMAIN e) /\ \A h \in Holders : bd[h] \in Int
  <2>1. \A h \in Holders : bd[h] = SumOfEntries(bm, e, h)
    BY <1>6
  <2> QED
    BY <1>2, <1>4, <2>1, GroupedByHolder
<1>10. SumFunctionOnSet(qd, Holders) = SumFunctionOnSet(qm, DOMAIN e) /\ \A h \in Holders : qd[h] \in Int
  <2>1. IsFiniteSet(DOMAIN e) /\ \A i \in DOMAIN e : qm[i] \in Int
    BY <1>2, <1>3
  <2>2. \A h \in Holders : qd[h] = SumOfEntries(qm, e, h)
    BY <1>6
  <2> QED
    BY <1>4, <2>1, <2>2, GroupedByHolder
<1>11. SumFunctionOnSet(rest, Holders) = res
  <2> DEFINE T == {FEE_ACCOUNT}
  <2>1. T \in SUBSET Holders /\ (\A h \in Holders : rest[h] \in Int) /\ \A h \in Holders \ T : rest[h] = 0
    BY <1>0, <1>3, <1>8
  <2>2. rest[FEE_ACCOUNT] = res /\ rest[FEE_ACCOUNT] \in Int
    BY <1>0, <1>3, <1>8
  <2>3. SumFunctionOnSet(rest, T) = rest[FEE_ACCOUNT]
    BY <2>2, SumOne
  <2> HIDE DEF T
  <2>4. SumFunctionOnSet(rest, Holders) = SumFunctionOnSet(rest, T)
    BY <1>0, <2>1, SumOfPart
  <2> QED
    BY <2>2, <2>3, <2>4
<1>12. \A h \in Holders : qd[h] \in Int /\ rest[h] \in Int /\ qs[h] = qd[h] + rest[h]
  BY <1>3, <1>7, <1>8, <1>10
<1>13. SumFunctionOnSet(qs, Holders) = SumFunctionOnSet(qd, Holders) + SumFunctionOnSet(rest, Holders)
  BY <1>0, <1>12, SumPlus
<1>14. SumFunctionOnSet(qm, DOMAIN e) \in Int
  BY <1>2, <1>3, SumPeel
<1>15. SumFunctionOnSet(qs, Holders) = 0
  BY <1>5, <1>10, <1>11, <1>13, <1>14
<1>16. SumFunctionOnSet(bd, Holders) = 0
  BY <1>2, <1>9
<1>17. \A h \in Holders : qs[h] \in Int
  BY <1>12
<1>18. CASE a = "base"
  BY <1>1, <1>9, <1>16, <1>18 DEF d, p
<1>19. CASE a = "quote"
  BY <1>1, <1>15, <1>17, <1>19 DEF d, p
<1> QED
  BY <1>18, <1>19 DEF Assets

-----------------------------------------------------------------------------
\* The balances an asset is held in add up to its custody and what clamping
\* created.
Held(b, a) == SumFunctionOnSet(b[a], Holders)

Balances == [Assets -> [Holders -> Nat]]

BooksTypeOK == bal \in Balances /\ cust \in [Assets -> Nat] /\ created \in [Assets -> Int]

BooksBalance == \A a \in Assets : Held(bal, a) = cust[a] + created[a]

BooksIInv == BooksTypeOK /\ BooksBalance

LEMMA HoldersFinite == IsFiniteSet(Holders) /\ FEE_ACCOUNT \in Holders /\ Handles \subseteq Holders
BY LedgerAssumption, FS_AddElement DEF Holders

LEMMA HeldInt ==
    ASSUME NEW b \in Balances, NEW a \in Assets
    PROVE  Held(b, a) \in Int
<1> DEFINE f == b[a]
<1>1. \A h \in Holders : f[h] \in Int
  BY DEF Balances
<1> HIDE DEF f
<1>2. SumFunctionOnSet(f, Holders) \in Int
  BY <1>1, HoldersFinite, SumPeel
<1> QED
  BY <1>2 DEF Held, f

WithBalance(b, a, h, v) == [b EXCEPT ![a][h] = v]

\* What one balance gains, its asset gains.
LEMMA OneBalance ==
    ASSUME NEW b \in Balances, NEW a \in Assets, NEW h \in Holders, NEW v \in Nat,
           NEW n, n = WithBalance(b, a, h, v)
    PROVE  /\ n \in Balances /\ n[a][h] = v
           /\ Held(n, a) = Held(b, a) + v - b[a][h]
           /\ \A c \in Assets \ {a} : Held(n, c) = Held(b, c)
<1> DEFINE f == b[a]
           g == n[a]
<1>1. n \in Balances /\ n[a][h] = v /\ \A c \in Assets \ {a} : n[c] = b[c]
  BY DEF Balances, WithBalance
<1>2. \A k \in Holders : f[k] \in Int
  BY <1>1 DEF Balances
<1>a. g[h] \in Int
  BY <1>1
<1>b. IsFiniteSet(Holders)
  BY HoldersFinite
<1>3. \A k \in Holders \ {h} : g[k] = f[k]
  BY DEF Balances, WithBalance
<1> HIDE DEF f, g
<1>4. SumFunctionOnSet(g, Holders) = SumFunctionOnSet(f, Holders) + g[h] - f[h]
  BY <1>2, <1>3, <1>a, <1>b, SumUpdate
<1>5. Held(n, a) = Held(b, a) + v - b[a][h]
  BY <1>1, <1>4 DEF Held, f, g
<1> QED
  BY <1>1, <1>5 DEF Held

LEMMA SatAddNat == ASSUME NEW x \in Nat, NEW y \in Nat PROVE SatAdd64(x, y) \in Nat
BY LedgerAssumption DEF SatAdd64

LEMMA DepositKeepsBooks ==
    ASSUME BooksIInv, NEW d \in DepositOps, Deposit(d)
    PROVE  BooksIInv'
<1> DEFINE a == d.asset
           h == d.account
           v == SatAdd64(bal[a][h], d.amount)
           w == SatAdd64(cust[a], d.amount)
<1>1. a \in Assets /\ h \in Holders /\ d.amount \in Nat
  BY LedgerAssumption, HoldersFinite
<1>2. bal \in Balances /\ bal[a][h] \in Nat /\ cust[a] \in Nat /\ created[a] \in Int
  BY <1>1 DEF BooksIInv, BooksTypeOK, Balances
<1>3. v \in Nat /\ w \in Nat
  BY <1>1, <1>2, SatAddNat
<1>4. bal' = WithBalance(bal, a, h, v)
  BY DEF Deposit, WithBalance
<1>5. cust' = [cust EXCEPT ![a] = w]
  BY DEF Deposit
<1>6. created' = [created EXCEPT ![a] = @ + (bal'[a][h] - bal[a][h]) - (cust'[a] - cust[a])]
  BY DEF Deposit
<1> HIDE DEF a, h, v, w
<1>7. /\ bal' \in Balances /\ bal'[a][h] = v
      /\ Held(bal', a) = Held(bal, a) + v - bal[a][h]
      /\ \A c \in Assets \ {a} : Held(bal', c) = Held(bal, c)
  BY <1>1, <1>2, <1>3, <1>4, OneBalance
<1>8. /\ cust' \in [Assets -> Nat] /\ cust'[a] = w
      /\ created'[a] = created[a] + (v - bal[a][h]) - (w - cust[a])
      /\ \A c \in Assets \ {a} : cust'[c] = cust[c] /\ created'[c] = created[c]
  BY <1>1, <1>2, <1>3, <1>5, <1>6, <1>7 DEF BooksIInv, BooksTypeOK
<1>9. created' \in [Assets -> Int]
  BY <1>1, <1>2, <1>3, <1>6, <1>8 DEF BooksIInv, BooksTypeOK
<1>10. Held(bal', a) = cust'[a] + created'[a]
  <2>1. Held(bal, a) = cust[a] + created[a]
    BY <1>1 DEF BooksIInv, BooksBalance
  <2> QED
    BY <1>2, <1>3, <1>7, <1>8, <2>1
<1>11. \A c \in Assets \ {a} : Held(bal', c) = cust'[c] + created'[c]
  BY <1>7, <1>8 DEF BooksIInv, BooksBalance
<1> QED
  BY <1>7, <1>8, <1>9, <1>10, <1>11 DEF BooksIInv, BooksTypeOK, BooksBalance, Held

LEMMA WithdrawKeepsBooks ==
    ASSUME BooksIInv, NEW x \in WithdrawOps, Withdraw(x)
    PROVE  BooksIInv'
<1> DEFINE a == x.asset
           h == x.account
           v == bal[a][h] - x.amount
           w == SatSub(cust[a], x.amount)
<1>1. a \in Assets /\ h \in Holders /\ x.amount \in Nat
  BY LedgerAssumption, HoldersFinite
<1>2. bal \in Balances /\ bal[a][h] \in Nat /\ cust[a] \in Nat /\ created[a] \in Int
  BY <1>1 DEF BooksIInv, BooksTypeOK, Balances
<1>a. CASE UNCHANGED <<bal, cust, created>>
  BY <1>a DEF BooksIInv, BooksTypeOK, BooksBalance, Held
<1>b. CASE /\ bal[a][h] >= x.amount
           /\ bal' = WithBalance(bal, a, h, v)
           /\ cust' = [cust EXCEPT ![a] = w]
           /\ created' = [created EXCEPT ![a] = @ - x.amount - (cust'[a] - cust[a])]
  <2>1. v \in Nat /\ w \in Nat
    BY <1>1, <1>2, <1>b DEF SatSub
  <2>2. v = bal[a][h] - x.amount
    OBVIOUS
  <2> HIDE DEF a, h, v, w
  <2>3. /\ bal' \in Balances
        /\ Held(bal', a) = Held(bal, a) + v - bal[a][h]
        /\ \A c \in Assets \ {a} : Held(bal', c) = Held(bal, c)
    BY <1>1, <1>2, <1>b, <2>1, OneBalance
  <2>4. /\ cust' \in [Assets -> Nat] /\ cust'[a] = w
        /\ created'[a] = created[a] - x.amount - (w - cust[a])
        /\ \A c \in Assets \ {a} : cust'[c] = cust[c] /\ created'[c] = created[c]
    BY <1>1, <1>2, <1>b, <2>1 DEF BooksIInv, BooksTypeOK
  <2>5. created' \in [Assets -> Int]
    BY <1>1, <1>2, <1>b, <2>1, <2>4 DEF BooksIInv, BooksTypeOK
  <2>6. Held(bal', a) = cust'[a] + created'[a]
    <3>1. Held(bal, a) = cust[a] + created[a]
      BY <1>1 DEF BooksIInv, BooksBalance
    <3> QED
      BY <1>1, <1>2, <2>1, <2>2, <2>3, <2>4, <3>1
  <2>7. \A c \in Assets \ {a} : Held(bal', c) = cust'[c] + created'[c]
    BY <2>3, <2>4 DEF BooksIInv, BooksBalance
  <2> QED
    BY <2>3, <2>4, <2>5, <2>6, <2>7 DEF BooksIInv, BooksTypeOK, BooksBalance, Held
<1> QED
  BY <1>a, <1>b DEF Withdraw, WithBalance

LEMMA TreasuryKeepsBooks ==
    ASSUME BooksIInv, NEW t \in TreasuryOps, Treasury(t)
    PROVE  BooksIInv'
<1> DEFINE a == t.asset
           f == FEE_ACCOUNT
           h == t.dest
           m == Smaller(t.amount, bal[a][f])
           u == bal[a][f] - m
           paid == [bal EXCEPT ![a][f] = u]
           v == SatAdd64(paid[a][h], m)
<1>1. a \in Assets /\ h \in Holders /\ f \in Holders /\ t.amount \in Nat
  BY LedgerAssumption, HoldersFinite
<1>2. bal \in Balances /\ bal[a][f] \in Nat /\ cust[a] \in Nat /\ created[a] \in Int
  BY <1>1 DEF BooksIInv, BooksTypeOK, Balances
<1>3. m \in Nat /\ u \in Nat /\ u = bal[a][f] - m
  BY <1>1, <1>2 DEF Smaller
<1>4. bal' = WithBalance(paid, a, h, v) /\ cust' = cust
  BY DEF Treasury, WithBalance
<1>5. created' = [created EXCEPT ![a] = @ + (bal'[a][h] - paid[a][h]) - m]
  BY DEF Treasury
<1>p. paid = WithBalance(bal, a, f, u) /\ v = SatAdd64(paid[a][h], m)
  BY DEF WithBalance
<1> HIDE DEF a, f, h, m, u, paid, v
<1>6. /\ paid \in Balances
      /\ Held(paid, a) = Held(bal, a) + u - bal[a][f]
      /\ \A c \in Assets \ {a} : Held(paid, c) = Held(bal, c)
  <2>1. bal \in Balances /\ a \in Assets /\ f \in Holders /\ u \in Nat /\ paid = WithBalance(bal, a, f, u)
    BY <1>1, <1>2, <1>3, <1>p
  <2> QED
    BY ONLY <2>1, OneBalance
<1>7. paid[a][h] \in Nat /\ v \in Nat
  BY <1>1, <1>3, <1>6, <1>p, SatAddNat DEF Balances
<1>8. /\ bal' \in Balances /\ bal'[a][h] = v
      /\ Held(bal', a) = Held(paid, a) + v - paid[a][h]
      /\ \A c \in Assets \ {a} : Held(bal', c) = Held(paid, c)
  <2>1. paid \in Balances /\ a \in Assets /\ h \in Holders /\ v \in Nat /\ bal' = WithBalance(paid, a, h, v)
    BY <1>1, <1>4, <1>6, <1>7
  <2> QED
    BY ONLY <2>1, OneBalance
<1>9. /\ created'[a] = created[a] + (v - paid[a][h]) - m
      /\ \A c \in Assets \ {a} : created'[c] = created[c]
  BY <1>1, <1>5, <1>8 DEF BooksIInv, BooksTypeOK
<1>10. created' \in [Assets -> Int]
  BY <1>1, <1>2, <1>3, <1>5, <1>7, <1>9 DEF BooksIInv, BooksTypeOK
<1>11. Held(bal', a) = cust'[a] + created'[a]
  <2>1. Held(bal, a) = cust[a] + created[a] /\ cust'[a] = cust[a]
    BY <1>1, <1>4 DEF BooksIInv, BooksBalance
  <2> QED
    BY <1>2, <1>3, <1>6, <1>7, <1>8, <1>9, <2>1
<1>12. \A c \in Assets \ {a} : Held(bal', c) = cust'[c] + created'[c]
  BY <1>4, <1>6, <1>8, <1>9 DEF BooksIInv, BooksBalance
<1> QED
  BY <1>4, <1>8, <1>10, <1>11, <1>12 DEF BooksIInv, BooksTypeOK, BooksBalance, Held

\* The fees of a round go from their payers to the treasury, but for what the
\* treasury's saturation cuts off.
LEMMA FeesMove ==
    ASSUME NEW b \in [Holders -> Nat], NEW payers, IsFiniteSet(DOMAIN payers),
           NEW F, F = SumFunctionOnSet(Fees(b, payers), Handles),
           NEW g, g = ChargeFees(b, payers)
    PROVE  /\ g \in [Holders -> Nat] /\ F \in Nat
           /\ SumFunctionOnSet(g, Holders)
                 = SumFunctionOnSet(b, Holders) + Clamp(b[FEE_ACCOUNT] + F) - (b[FEE_ACCOUNT] + F)
<1> DEFINE fees == Fees(b, payers)
           top == FEE_ACCOUNT
<1>1. IsFiniteSet(Handles) /\ top \notin Handles /\ Holders = Handles \cup {top}
  BY LedgerAssumption DEF Holders
<1>2. \A h \in Holders : fees[h] \in Nat /\ fees[h] <= b[h]
  <2> SUFFICES ASSUME NEW h \in Holders PROVE fees[h] \in Nat /\ fees[h] <= b[h]
    OBVIOUS
  <2> DEFINE n == Cardinality({i \in DOMAIN payers : payers[i] = h})
  <2>1. n \in Nat
    BY FS_Subset, FS_CardinalityType
  <2>2. fees[h] = Smaller(FEE_FLAT * n, b[h])
    BY DEF Fees
  <2> HIDE DEF n, fees
  <2>3. FEE_FLAT * n \in Nat /\ b[h] \in Nat
    BY <2>1, LedgerAssumption
  <2> HIDE DEF top
  <2> QED
    BY <2>2, <2>3 DEF Smaller
<1>3. /\ \A h \in Handles : g[h] = b[h] - fees[h]
      /\ g[top] = SatAdd64(b[top], F)
      /\ g = [h \in Holders |-> g[h]]
  BY <1>1 DEF ChargeFees
<1>e. F = SumFunctionOnSet(fees, Handles)
  OBVIOUS
<1> HIDE DEF fees, top
<1>4. \A h \in Handles : /\ g[h] \in Int /\ fees[h] \in Int /\ b[h] = g[h] + fees[h]
  BY <1>1, <1>2, <1>3
<1>5. F \in Nat
  <2>1. \A h \in Handles : fees[h] \in Nat
    BY <1>1, <1>2
  <2> QED
    BY <1>1, <1>e, <2>1, SumNat
<1>6. SumFunctionOnSet(b, Handles) = SumFunctionOnSet(g, Handles) + F
  BY <1>1, <1>4, <1>e, SumPlus
<1>7. /\ b[top] \in Nat /\ g[top] \in Nat /\ g[top] = Clamp(b[top] + F)
  <2>1. b[top] \in Nat
    BY <1>1
  <2> QED
    BY <1>3, <1>5, <2>1, LedgerAssumption DEF SatAdd64, Clamp
<1>8. g \in [Holders -> Nat]
  <2>1. \A h \in Holders : g[h] \in Nat
    BY <1>1, <1>2, <1>3, <1>7
  <2> QED
    BY <1>3, <2>1
<1>9. \A h \in Handles \cup {top} : g[h] \in Int /\ b[h] \in Int
  BY <1>1, <1>8
<1>10. /\ SumFunctionOnSet(g, Handles) \in Int
       /\ SumFunctionOnSet(g, Handles \cup {top}) = g[top] + SumFunctionOnSet(g, Handles)
  BY <1>1, <1>9, SumAdd
<1>11. SumFunctionOnSet(b, Handles \cup {top}) = b[top] + SumFunctionOnSet(b, Handles)
  BY <1>1, <1>9, SumAdd
<1>12. SumFunctionOnSet(g, Handles \cup {top})
          = SumFunctionOnSet(b, Handles \cup {top}) + Clamp(b[top] + F) - (b[top] + F)
  BY <1>5, <1>6, <1>7, <1>10, <1>11
<1>13. SumFunctionOnSet(g, Holders)
          = SumFunctionOnSet(b, Holders) + Clamp(b[top] + F) - (b[top] + F)
  BY <1>1, <1>12, Zenon
<1> QED
  BY <1>5, <1>8, <1>13 DEF top

\* Clamping account by account: what the clamps add is what they create.
Clamped(b, d, s, x) ==
    /\ b \in [Holders -> Nat] /\ (\A h \in Holders : d[h] \in Int) /\ SumFunctionOnSet(d, Holders) = 0
    /\ s = [h \in Holders |-> Clamp(b[h] + d[h])]
    /\ x = [h \in Holders |-> s[h] - (b[h] + d[h])]

LEMMA ClampedSum ==
    ASSUME NEW b, NEW d, NEW s, NEW x, Clamped(b, d, s, x)
    PROVE  /\ s \in [Holders -> Nat] /\ SumFunction(x) \in Int
           /\ SumFunctionOnSet(s, Holders) = SumFunctionOnSet(b, Holders) + SumFunction(x)
<1> DEFINE m == [h \in Holders |-> b[h] + d[h]]
<1>0. b \in [Holders -> Nat] /\ (\A h \in Holders : d[h] \in Int) /\ SumFunctionOnSet(d, Holders) = 0
  BY DEF Clamped
<1>1. \A h \in Holders : m[h] = b[h] + d[h] /\ s[h] = Clamp(m[h]) /\ x[h] = s[h] - m[h]
  BY DEF Clamped
<1>2. DOMAIN x = Holders
  BY DEF Clamped
<1>3. s = [h \in Holders |-> s[h]]
  BY DEF Clamped
<1> HIDE DEF m
<1>4. \A h \in Holders : b[h] \in Int /\ d[h] \in Int /\ m[h] = b[h] + d[h]
  BY <1>0, <1>1
<1>5. \A h \in Holders : m[h] \in Int /\ s[h] \in Nat
  BY <1>1, <1>4, LedgerAssumption DEF Clamp
<1>6. \A h \in Holders : m[h] \in Int /\ x[h] \in Int /\ s[h] = m[h] + x[h]
  BY <1>1, <1>5
<1>7. IsFiniteSet(Holders)
  BY HoldersFinite
<1>8. SumFunctionOnSet(m, Holders) = SumFunctionOnSet(b, Holders) + SumFunctionOnSet(d, Holders)
  BY <1>4, <1>7, SumPlus
<1>9. SumFunctionOnSet(s, Holders) = SumFunctionOnSet(m, Holders) + SumFunctionOnSet(x, Holders)
  BY <1>6, <1>7, SumPlus
<1>10. SumFunctionOnSet(x, Holders) \in Int
  BY <1>6, <1>7, SumPeel
<1>11. SumFunctionOnSet(b, Holders) \in Int
  BY <1>4, <1>7, SumPeel
<1>12. SumFunction(x) = SumFunctionOnSet(x, DOMAIN x)
  BY DEF SumFunction
<1>13. SumFunction(x) = SumFunctionOnSet(x, Holders)
  BY <1>2, <1>12, Zenon
<1> QED
  BY <1>0, <1>3, <1>5, <1>8, <1>9, <1>10, <1>11, <1>13

LEMMA SettlementKeepsBooks ==
    ASSUME BooksIInv, NEW orders, IsBatch(orders), UniqueIds(orders),
           \A i \in 1..Len(orders) : orders[i].account \in Handles,
           NEW c, c = Clear(orders), NEW e, e = Settlement(orders, c),
           NEW payers, IsFiniteSet(DOMAIN payers), ApplySettlement(c.price, e, payers)
    PROVE  BooksIInv'
<1> DEFINE d == Deltas(c.price, e)
           s(a) == [h \in Holders |-> Clamp(bal[a][h] + d[a][h])]
           x(a) == [h \in Holders |-> s(a)[h] - (bal[a][h] + d[a][h])]
           F == SumFunctionOnSet(Fees(s("base"), payers), Handles)
           due == s("base")[FEE_ACCOUNT] + F
           g == ChargeFees(s("base"), payers)
<1>0. "base" \in Assets /\ "quote" \in Assets /\ Assets = {"base", "quote"}
  BY DEF Assets
<1>1. /\ bal' = [[a \in Assets |-> s(a)] EXCEPT !["base"] = ChargeFees(@, payers)]
      /\ created' = [a \in Assets |-> created[a] + SumFunction(x(a)) + (IF a = "base" THEN Clamp(due) - due ELSE 0)]
      /\ cust' = cust
  BY DEF ApplySettlement
<1>2. /\ bal' = [a \in Assets |-> IF a = "base" THEN g ELSE s(a)]
  BY <1>0, <1>1
<1>3. ASSUME NEW a \in Assets
      PROVE  /\ s(a) \in [Holders -> Nat] /\ SumFunction(x(a)) \in Int
             /\ SumFunctionOnSet(s(a), Holders) = SumFunctionOnSet(bal[a], Holders) + SumFunction(x(a))
  <2>1. bal[a] \in [Holders -> Nat]
    BY DEF BooksIInv, BooksTypeOK, Balances
  <2>2. (\A h \in Holders : d[a][h] \in Int) /\ SumFunctionOnSet(d[a], Holders) = 0
    BY DeltasBalance
  <2> DEFINE b == bal[a]
             da == d[a]
             sa == s(a)
             xa == x(a)
  <2>3. Clamped(b, da, sa, xa)
    BY <2>1, <2>2 DEF Clamped
  <2> HIDE DEF b, da, sa, xa, s, x, d
  <2>4. /\ sa \in [Holders -> Nat] /\ SumFunction(xa) \in Int
        /\ SumFunctionOnSet(sa, Holders) = SumFunctionOnSet(b, Holders) + SumFunction(xa)
    BY <2>3, ClampedSum
  <2> QED
    BY <2>4, Zenon DEF b, sa, xa
<1> DEFINE sb == s("base")
<1>4. s("base") \in [Holders -> Nat]
  BY <1>0, <1>3
<1>5. sb \in [Holders -> Nat] /\ F = SumFunctionOnSet(Fees(sb, payers), Handles)
      /\ g = ChargeFees(sb, payers) /\ due = sb[FEE_ACCOUNT] + F
  BY <1>4
<1>b. sb = s("base")
  OBVIOUS
<1> HIDE DEF d, s, x, F, due, g, sb
<1>6. /\ g \in [Holders -> Nat] /\ F \in Nat
      /\ SumFunctionOnSet(g, Holders)
            = SumFunctionOnSet(sb, Holders) + Clamp(sb[FEE_ACCOUNT] + F) - (sb[FEE_ACCOUNT] + F)
  BY <1>5, FeesMove
<1>7. due \in Int /\ Clamp(due) \in Int
  <2>1. sb[FEE_ACCOUNT] \in Nat
    BY <1>5, HoldersFinite
  <2> QED
    BY <1>5, <1>6, <2>1, LedgerAssumption DEF Clamp
<1>8. \A a \in Assets : created[a] \in Int /\ cust[a] \in Int
  BY DEF BooksIInv, BooksTypeOK
<1>9. bal' \in Balances
  BY <1>2, <1>3, <1>6 DEF Balances
<1>10. cust' \in [Assets -> Nat]
  BY <1>1 DEF BooksIInv, BooksTypeOK
<1>11. created' \in [Assets -> Int]
  <2>1. \A a \in Assets : created[a] + SumFunction(x(a)) + (IF a = "base" THEN Clamp(due) - due ELSE 0) \in Int
    BY <1>3, <1>7, <1>8
  <2> QED
    BY <1>1, <2>1
<1>12. Held(bal', "base") = cust'["base"] + created'["base"]
  <2>1. bal'["base"] = g
    BY <1>0, <1>2
  <2>2. Held(bal', "base") = SumFunctionOnSet(g, Holders)
    BY <2>1, Zenon DEF Held
  <2>3. SumFunctionOnSet(g, Holders) = SumFunctionOnSet(sb, Holders) + Clamp(due) - due
    BY <1>5, <1>6
  <2>4. /\ SumFunction(x("base")) \in Int
        /\ SumFunctionOnSet(sb, Holders) = Held(bal, "base") + SumFunction(x("base"))
    BY <1>0, <1>3, <1>b DEF Held
  <2>5. Held(bal, "base") = cust["base"] + created["base"]
    BY <1>0 DEF BooksIInv, BooksBalance
  <2>6. created'["base"] = created["base"] + SumFunction(x("base")) + (Clamp(due) - due)
    BY <1>0, <1>1
  <2>7. created["base"] \in Int /\ cust["base"] \in Int /\ cust'["base"] = cust["base"]
    BY <1>0, <1>1, <1>8
  <2> QED
    BY <1>7, <2>2, <2>3, <2>4, <2>5, <2>6, <2>7
<1>13. Held(bal', "quote") = cust'["quote"] + created'["quote"]
  <2>1. bal'["quote"] = s("quote")
    BY <1>0, <1>2
  <2>2. Held(bal', "quote") = SumFunctionOnSet(s("quote"), Holders)
    BY <2>1, Zenon DEF Held
  <2>4. /\ SumFunction(x("quote")) \in Int
        /\ SumFunctionOnSet(s("quote"), Holders) = Held(bal, "quote") + SumFunction(x("quote"))
    BY <1>0, <1>3 DEF Held
  <2>5. Held(bal, "quote") = cust["quote"] + created["quote"]
    BY <1>0 DEF BooksIInv, BooksBalance
  <2>6. created'["quote"] = created["quote"] + SumFunction(x("quote")) + 0
    BY <1>0, <1>1
  <2>7. created["quote"] \in Int /\ cust["quote"] \in Int /\ cust'["quote"] = cust["quote"]
    BY <1>0, <1>1, <1>8
  <2> QED
    BY <2>2, <2>4, <2>5, <2>6, <2>7
<1> QED
  BY <1>0, <1>9, <1>10, <1>11, <1>12, <1>13 DEF BooksIInv, BooksTypeOK, BooksBalance, Held

LEMMA BooksInitially ==
    ASSUME Init
    PROVE  BooksIInv
<1>1. bal = [a \in Assets |-> [h \in Holders |-> 0]] /\ cust = [a \in Assets |-> 0] /\ created = [a \in Assets |-> 0]
  BY DEF Init, LedgerInit
<1>2. ASSUME NEW a \in Assets PROVE Held(bal, a) = 0
  <2> DEFINE f == bal[a]
  <2>1. \A h \in Holders : f[h] = 0
    BY <1>1
  <2> HIDE DEF f
  <2>2. SumFunctionOnSet(f, Holders) = 0
    BY <2>1, HoldersFinite, SumZero
  <2> QED
    BY <2>2 DEF Held, f
<1>3. BooksTypeOK
  BY <1>1 DEF BooksTypeOK, Balances
<1>4. BooksBalance
  BY <1>1, <1>2 DEF BooksBalance
<1> QED
  BY <1>3, <1>4 DEF BooksIInv

LEMMA RoundKeepsBooks ==
    ASSUME MarketIInv, ProcessIInv, BooksIInv, NEW p \in net, SettleRound(p)
    PROVE  BooksIInv'
<1> DEFINE payers == [i \in 1..Len(p.new) |-> p.new[i].account]
<1>1. PICK r : /\ r = Refine(p) /\ Round(p, r, pk)
               /\ ApplySettlement(r.clearing.price, r.settle, payers)
  BY DEF SettleRound
<1>2. /\ UniqueIds(r.batch) /\ \A i \in 1..Len(r.batch) : r.batch[i] \in Entries
  BY <1>1, BatchUnique
<1>3. /\ p.new \in Seq(Entries) /\ PayloadOK(p)
  BY <1>1, RoundFacts DEF MarketIInv, PayloadOK
<1>4. r.batch \in Seq(Entries) /\ r.clearing = Clear(r.batch) /\ r.settle = Settlement(r.batch, r.clearing)
  BY <1>1, <1>3, RefineParts DEF PayloadOK
<1>5. IsBatch(r.batch)
  BY <1>4, EntriesAreBatch
<1>6. \A i \in 1..Len(r.batch) : r.batch[i].account \in Handles
  BY <1>2, CancelAssumption, EntryFields
<1>7. IsFiniteSet(DOMAIN payers)
  <2>1. Len(p.new) \in Nat /\ DOMAIN payers = 1..Len(p.new)
    BY <1>3
  <2>2. IsFiniteSet(1..Len(p.new))
    BY <2>1, FS_Interval
  <2> QED
    BY <2>1, <2>2, Zenon
<1> HIDE DEF payers
<1> QED
  BY <1>1, <1>2, <1>4, <1>5, <1>6, <1>7, SettlementKeepsBooks

LEMMA BooksStep ==
    ASSUME MarketIInv, Undisturbed => ProcessIInv /\ BooksIInv, [Next]_vars, Undisturbed'
    PROVE  BooksIInv'
<1>0. MarketTypeOK
  BY DEF MarketIInv
<1>1. ProcessIInv /\ BooksIInv
  BY UndisturbedBefore
<1>2. CASE UNCHANGED <<bal, cust, created>>
  BY <1>1, <1>2 DEF BooksIInv, BooksTypeOK, BooksBalance, Held
<1>3. CASE UNCHANGED vars
  BY <1>2, <1>3 DEF vars, ledgerVars
<1>4. CASE LedgerStep
  BY <1>1, <1>2, <1>4, DepositKeepsBooks, WithdrawKeepsBooks, TreasuryKeepsBooks DEF LedgerStep, Register
<1>5. CASE MarketStep
  BY <1>2, <1>5 DEF MarketStep, ledgerVars
<1>6. CASE \E x \in CancelOps \cap world.ops : Cancel(x)
  BY <1>2, <1>6 DEF Cancel
<1>7. CASE \E p \in net : SettleRound(p)
  BY <1>1, <1>7, RoundKeepsBooks
<1> QED
  BY <1>3, <1>4, <1>5, <1>6, <1>7 DEF Next

\* The books balance but for the clamps, for any accounts, operations, fees and
\* orders: what all holders have of an asset is its custody and what clamping
\* created (apply_settlement, deposit, withdraw, treasury; until a restart gives
\* an id again or a consumed re-seal is admitted again).
THEOREM CustodyAlwaysAccounted == Spec => []CustodyAccounted
<1> DEFINE I == KeysIInv /\ MarketIInv /\ (Undisturbed => ProcessIInv) /\ (Undisturbed => BooksIInv)
<1>1. Init => I
  BY KeysInitially, MarketInitially, ProcessInitially, BooksInitially
<1>2. I /\ [Next]_vars => I'
  BY KeysStep, MarketStepKeeps, ProcessStep, BooksStep
<1>3. I => CustodyAccounted
  <2> SUFFICES ASSUME BooksIInv, NEW a \in Assets PROVE Total(a) = cust[a] + created[a]
    BY DEF CustodyAccounted
  <2>1. DOMAIN bal[a] = Holders
    BY DEF BooksIInv, BooksTypeOK, Balances
  <2>2. Total(a) = SumFunctionOnSet(bal[a], DOMAIN bal[a])
    BY DEF Total, SumFunction
  <2>3. Total(a) = Held(bal, a)
    BY <2>1, <2>2, Zenon DEF Held
  <2> QED
    BY <2>3 DEF BooksIInv, BooksBalance
<1> QED
  BY <1>1, <1>2, <1>3, PTL DEF Spec
=============================================================================
