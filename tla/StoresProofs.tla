---------------------------- MODULE StoresProofs ----------------------------
(***************************************************************************)
(* The service's bounded stores: the deposit record, the landed-round      *)
(* markers and the hidden-order sets.                                      *)
(***************************************************************************)
EXTENDS DepositWindow, LandedMarkers, SealedSets, CollectionLemmas, FiniteSetTheorems, SequenceTheorems, TLAPS

(***************************************************************************)
(* The deposit rule is correct for every set of accounts, every set of     *)
(* nonces and every window size.                                           *)
(*                                                                         *)
(* CreditedOnce is not inductive: it needs Remembered (a copy of a         *)
(* credited nonce is inadmissible), and LostOnlyBeyondWindow needs to know *)
(* that a floor above zero is only ever the mark of a full window.         *)
(***************************************************************************)
\* A floor above 0 was raised by an eviction, which left the window full.
FloorMarksFullWindow ==
    \A a \in Depositors : dn[a].floor > 0 => Cardinality(dn[a].window) = WINDOW

\* Finitely many deposits were credited, so counting them makes sense.
FinitelyMany == \A a \in Depositors : IsFiniteSet(Credited(a))

WindowIInv ==
    /\ WindowTypeOK
    /\ CreditedOnce
    /\ Remembered
    /\ FloorMarksFullWindow
    /\ FinitelyMany

\* What `admit' does to the record, in the terms the invariant is stated in.
LEMMA AdmitRecord ==
    ASSUME NEW r \in DepositRecord, NEW n \in Nonces, Admissible(r, n),
           IsFiniteSet(r.window), Cardinality(r.window) <= WINDOW,
           \A m \in r.window : m > r.floor,
           r.floor > 0 => Cardinality(r.window) = WINDOW
    PROVE  LET s == Admit(r, n)
           IN  /\ s \in DepositRecord
               /\ s.floor >= r.floor
               /\ s.window \subseteq r.window \cup {n}
               /\ \A m \in r.window \cup {n} : m \in s.window \/ m <= s.floor
               /\ \A m \in s.window : m > s.floor
               /\ IsFiniteSet(s.window)
               /\ Cardinality(s.window) <= WINDOW
               /\ s.floor > 0 => Cardinality(s.window) = WINDOW
<1> DEFINE w == r.window \cup {n}
<1>1. /\ IsFiniteSet(w)
      /\ Cardinality(w) = Cardinality(r.window) + 1
      /\ Cardinality(r.window) \in Nat
  BY FS_AddElement, FS_CardinalityType DEF Admissible
<1>2. /\ w \in SUBSET Nat /\ w \in SUBSET Nonces /\ w # {}
      /\ r.floor \in Nat /\ n > r.floor
  BY NoncesAssumption DEF DepositRecord, Admissible
<1>3. Min(w) \in w /\ \A y \in w : Min(w) <= y
  BY <1>2, MinIsLeast
<1>4. CASE Cardinality(w) > WINDOW
  <2>1. Admit(r, n) = [floor |-> Min(w), window |-> w \ {Min(w)}]
    BY <1>4 DEF Admit
  <2>2. IsFiniteSet(w \ {Min(w)}) /\ Cardinality(w \ {Min(w)}) = WINDOW
    <3>1. /\ IsFiniteSet(w \ {Min(w)})
          /\ Cardinality(w \ {Min(w)}) = Cardinality(w) - 1
      BY <1>1, <1>3, FS_RemoveElement
    <3>2. Cardinality(w) = WINDOW + 1
      BY <1>1, <1>4, WindowAssumption
    <3> QED
      BY <3>1, <3>2, WindowAssumption
  <2>3. Min(w) > r.floor
    BY <1>2, <1>3
  <2>4. Min(w) \in Nat /\ w \ {Min(w)} \in SUBSET Nonces
    BY <1>2, <1>3
  <2>5. \A m \in w \ {Min(w)} : m > Min(w)
    BY <1>2, <1>3
  <2> QED
    BY <1>2, <2>1, <2>2, <2>3, <2>4, <2>5, WindowAssumption DEF DepositRecord
<1>5. CASE ~(Cardinality(w) > WINDOW)
  <2>1. Admit(r, n) = [r EXCEPT !.window = w]
    BY <1>5 DEF Admit
  <2>2. Admit(r, n).floor = r.floor /\ Admit(r, n).window = w /\ Admit(r, n) \in DepositRecord
    BY <1>2, <2>1 DEF DepositRecord
  <2>3. Cardinality(w) <= WINDOW /\ ~(r.floor > 0)
    BY <1>1, <1>5, WindowAssumption
  <2> QED
    BY <1>1, <1>2, <2>2, <2>3
<1> QED
  BY <1>4, <1>5

LEMMA WindowInitially == WindowInit => WindowIInv
<1> SUFFICES ASSUME WindowInit PROVE WindowIInv
  OBVIOUS
<1>1. \A a \in Depositors : dn[a] = [floor |-> 0, window |-> {}] /\ Credited(a) = {}
  BY DEF WindowInit, Credited
<1>2. WindowTypeOK
  <2>1. [floor |-> 0, window |-> {}] \in DepositRecord
    BY DEF DepositRecord
  <2>2. dn \in [Depositors -> DepositRecord] /\ credited \in [Depositors -> [Nonces -> Nat]]
    BY <2>1 DEF WindowInit
  <2>3. \A a \in Depositors : /\ IsFiniteSet(dn[a].window)
                            /\ Cardinality(dn[a].window) <= WINDOW
    BY <1>1, FS_EmptySet, WindowAssumption
  <2> QED
    BY <2>2, <2>3 DEF WindowTypeOK
<1> QED
  BY <1>1, <1>2, FS_EmptySet DEF WindowInit, WindowIInv, CreditedOnce, Remembered,
     FloorMarksFullWindow, FinitelyMany

LEMMA DepositKeeps ==
    ASSUME WindowIInv, NEW a \in Depositors, NEW n \in Nonces, Deposit(a, n)
    PROVE  WindowIInv'
<1> DEFINE r == dn[a]
           s == Admit(r, n)
<1>1. /\ r \in DepositRecord /\ IsFiniteSet(r.window) /\ Cardinality(r.window) <= WINDOW
      /\ \A m \in r.window : m > r.floor
      /\ r.floor > 0 => Cardinality(r.window) = WINDOW
      /\ Admissible(r, n)
  BY DEF WindowIInv, WindowTypeOK, Remembered, FloorMarksFullWindow, Deposit
<1>2. /\ s \in DepositRecord
      /\ s.floor >= r.floor
      /\ s.window \subseteq r.window \cup {n}
      /\ \A m \in r.window \cup {n} : m \in s.window \/ m <= s.floor
      /\ \A m \in s.window : m > s.floor
      /\ IsFiniteSet(s.window)
      /\ Cardinality(s.window) <= WINDOW
      /\ s.floor > 0 => Cardinality(s.window) = WINDOW
  BY <1>1, AdmitRecord
<1>3. dn'[a] = s /\ \A b \in Depositors \ {a} : dn'[b] = dn[b]
  BY DEF WindowIInv, WindowTypeOK, Deposit
<1>4. /\ credited' \in [Depositors -> [Nonces -> Nat]]
      /\ credited'[a][n] = credited[a][n] + 1
      /\ \A b \in Depositors, m \in Nonces :
            b # a \/ m # n => credited'[b][m] = credited[b][m]
  BY DEF WindowIInv, WindowTypeOK, Deposit
<1>5. credited[a][n] = 0
  <2>1. n \notin Credited(a)
    BY <1>1, NoncesAssumption DEF WindowIInv, Remembered, Admissible, DepositRecord
  <2> QED
    BY <2>1 DEF WindowIInv, WindowTypeOK, Credited
<1>6. /\ Credited(a)' = Credited(a) \cup {n}
      /\ \A b \in Depositors \ {a} : Credited(b)' = Credited(b)
  BY <1>4, <1>5 DEF Credited
<1>7. WindowTypeOK'
  BY <1>2, <1>3, <1>4 DEF WindowIInv, WindowTypeOK, Deposit
<1>8. CreditedOnce'
  BY <1>4, <1>5 DEF WindowIInv, CreditedOnce
<1>9. Remembered'
  <2>1. ASSUME NEW b \in Depositors \ {a}
        PROVE  /\ \A m \in Credited(b)' : m \in dn'[b].window \/ m <= dn'[b].floor
               /\ \A m \in dn'[b].window : m \in Credited(b)' /\ m > dn'[b].floor
    BY <1>3, <1>6 DEF WindowIInv, Remembered
  <2>2. ASSUME NEW m \in Credited(a)'
        PROVE  m \in dn'[a].window \/ m <= dn'[a].floor
    <3>1. m \in Credited(a) => m \in r.window \/ m <= r.floor
      BY DEF WindowIInv, Remembered
    <3>2. m \in Nat /\ r.floor \in Nat /\ s.floor \in Nat
      BY <1>1, <1>2, NoncesAssumption DEF Credited, DepositRecord
    <3>3. m \in r.window \cup {n} \/ m <= r.floor
      BY <1>6, <2>2, <3>1
    <3> QED
      BY <1>2, <1>3, <3>2, <3>3
  <2>3. \A m \in dn'[a].window : m \in Credited(a)' /\ m > dn'[a].floor
    BY <1>2, <1>3, <1>6 DEF WindowIInv, Remembered
  <2> QED
    BY <2>1, <2>2, <2>3 DEF Remembered
<1>10. FloorMarksFullWindow'
  BY <1>2, <1>3 DEF WindowIInv, FloorMarksFullWindow
<1>11. FinitelyMany'
  BY <1>6, FS_AddElement DEF WindowIInv, FinitelyMany
<1> QED
  BY <1>7, <1>8, <1>9, <1>10, <1>11 DEF WindowIInv

LEMMA WindowStep == WindowIInv /\ [WindowNext]_windowVars => WindowIInv'
<1> SUFFICES ASSUME WindowIInv, [WindowNext]_windowVars PROVE WindowIInv'
  OBVIOUS
<1>1. ASSUME NEW a \in Depositors, NEW n \in Nonces, Deposit(a, n) PROVE WindowIInv'
  BY <1>1, DepositKeeps
<1>2. CASE UNCHANGED windowVars
  BY <1>2 DEF windowVars, WindowIInv, WindowTypeOK, CreditedOnce, Remembered, FloorMarksFullWindow,
     FinitelyMany, Credited
<1>3. ASSUME NEW a \in Depositors, NEW n \in Nonces, Refuse(a, n) PROVE WindowIInv'
  BY <1>2, <1>3 DEF Refuse
<1> QED
  BY <1>1, <1>2, <1>3 DEF WindowNext

\* A refused, uncredited nonce lies at or below the floor, so the whole (full)
\* window lies above it.
LEMMA RefusedBeyondWindow == WindowIInv => LostOnlyBeyondWindow
<1> SUFFICES ASSUME WindowIInv, NEW a \in Depositors, NEW n \in Nonces,
                    n \notin Credited(a), ~Admissible(dn[a], n)
             PROVE  Cardinality({m \in Credited(a) : m > n}) >= WINDOW
  BY DEF LostOnlyBeyondWindow
<1> DEFINE above == {m \in Credited(a) : m > n}
           win == dn[a].window
<1>1. n \notin win
  BY DEF WindowIInv, Remembered
<1>2. n \in Nat \ {0} /\ dn[a].floor \in Nat /\ n <= dn[a].floor
  BY <1>1, NoncesAssumption DEF WindowIInv, WindowTypeOK, DepositRecord, Admissible
<1>3. Cardinality(win) = WINDOW
  BY <1>2 DEF WindowIInv, FloorMarksFullWindow
<1>4. win \subseteq above
  <2>1. \A m \in win : m \in Credited(a) /\ m > dn[a].floor /\ m \in Nat
    BY NoncesAssumption DEF WindowIInv, Remembered, WindowTypeOK, DepositRecord
  <2> QED
    BY <1>2, <2>1
<1>5. IsFiniteSet(above)
  <2>1. IsFiniteSet(Credited(a)) /\ above \in SUBSET Credited(a)
    BY DEF WindowIInv, FinitelyMany
  <2> QED
    BY <2>1, FS_Subset
<1>6. Cardinality(win) <= Cardinality(above) /\ Cardinality(above) \in Nat
  BY <1>4, <1>5, FS_Subset, FS_CardinalityType
<1> QED
  BY <1>3, <1>6, WindowAssumption

LEMMA WindowAlways == WindowSpec => []WindowIInv
  BY WindowInitially, WindowStep, PTL DEF WindowSpec

\* The record has its type and its bound in every reachable state.
THEOREM DepositTypeOK == WindowSpec => []WindowTypeOK
<1>1. WindowIInv => WindowTypeOK
  BY DEF WindowIInv
<1> QED
  BY <1>1, WindowAlways, PTL

\* `admit' credits no deposit twice, whatever is delivered, in whatever order.
THEOREM DepositCreditedOnce == WindowSpec => []CreditedOnce
<1>1. WindowIInv => CreditedOnce
  BY DEF WindowIInv
<1> QED
  BY <1>1, WindowAlways, PTL

\* Every credited nonce stays in the window or at or below the floor.
THEOREM DepositRemembered == WindowSpec => []Remembered
<1>1. WindowIInv => Remembered
  BY DEF WindowIInv
<1> QED
  BY <1>1, WindowAlways, PTL

\* `admit' loses no deposit that was overtaken by fewer than WINDOW others.
THEOREM DepositLostOnlyBeyondWindow == WindowSpec => []LostOnlyBeyondWindow
  BY WindowAlways, RefusedBeyondWindow, PTL

-----------------------------------------------------------------------------
(***************************************************************************)
(* Markers are neither lost early nor orphaned, for every TTL, every       *)
(* GC_STEPS, every slot width and every number of rounds per block.        *)
(*                                                                         *)
(* LiveMarkerKept is strengthened to the age test the code really makes    *)
(* (with the saturated deadline, and in the last slot too): in that form   *)
(* it is inductive, because a reaped entry removes a marker only when the  *)
(* marker carries the entry's own, expired, slot.                          *)
(***************************************************************************)
\* A landing whose saturated deadline is ahead still has its marker.
KeptUntilDeadline ==
    \A i \in RoundIds :
        landedAt[i] # NoSlot /\ SatAdd(landedAt[i], LANDED_TTL_SLOTS) > now
            => marks[i] = landedAt[i]

MarkersIInv == MarkerTypeOK /\ KeptUntilDeadline /\ NoOrphanMarker

\* What the reaping loop takes is a prefix of the rlq, all of it expired.
LEMMA ReapedIsExpiredPrefix ==
    ASSUME NEW q \in Seq(MarkerEntry), NEW slot \in Slots
    PROVE  /\ Reaped(q, slot) \in 0..Len(q)
           /\ \A j \in 1..Reaped(q, slot) : Expired(q[j], slot)
<1> DEFINE limit == IF Len(q) < GC_STEPS THEN Len(q) ELSE GC_STEPS
           S == {k \in 0..limit : k = limit \/ ~Expired(q[k + 1], slot)}
<1>1. limit \in Nat /\ limit <= Len(q) /\ Len(q) \in Nat
  BY GcAssumption, LenProperties
<1>2. S \in SUBSET Nat /\ limit \in S
  BY <1>1
<1>3. Min(S) \in S /\ \A k \in S : Min(S) <= k
  BY <1>2, MinIsLeast
<1>4. Reaped(q, slot) = Min(S)
  BY DEF Reaped
<1> HIDE DEF limit
<1>5. Min(S) \in 0..limit
  BY <1>3
<1>6. ASSUME NEW j \in 1..Min(S) PROVE Expired(q[j], slot)
  <2>1. j - 1 \in 0..limit /\ ~(Min(S) <= j - 1) /\ (j - 1) + 1 = j
    BY <1>1, <1>5
  <2>2. j - 1 \notin S
    BY <1>3, <2>1
  <2> QED
    BY <2>1, <2>2
<1> QED
  BY <1>1, <1>4, <1>5, <1>6

LEMMA MarkersInitially == MarkersInit => MarkersIInv
  BY SlotMaxAssumption, PerSlotAssumption
     DEF MarkersInit, MarkersIInv, MarkerTypeOK, KeptUntilDeadline, NoOrphanMarker, Slots, NoSlot

LEMMA NextBlockKeeps == ASSUME MarkersIInv, NextBlock PROVE MarkersIInv'
<1>1. MarkerTypeOK'
  BY SlotMaxAssumption, PerSlotAssumption DEF MarkersIInv, MarkerTypeOK, NextBlock, Slots
<1>2. KeptUntilDeadline'
  <2> SUFFICES ASSUME NEW i \in RoundIds, landedAt[i] # NoSlot,
                      SatAdd(landedAt[i], LANDED_TTL_SLOTS) > now + 1
               PROVE  marks[i] = landedAt[i]
    BY DEF KeptUntilDeadline, NextBlock
  <2>1. SatAdd(landedAt[i], LANDED_TTL_SLOTS) \in Int /\ now \in Int
    BY TtlAssumption, SlotMaxAssumption DEF MarkersIInv, MarkerTypeOK, SatAdd, Slots, NoSlot
  <2> QED
    BY <2>1 DEF MarkersIInv, KeptUntilDeadline
<1>3. NoOrphanMarker'
  BY DEF MarkersIInv, NoOrphanMarker, NextBlock
<1> QED
  BY <1>1, <1>2, <1>3 DEF MarkersIInv

LEMMA LandingKeeps == ASSUME MarkersIInv, NEW rid \in RoundIds, MarkLanded(rid) PROVE MarkersIInv'
<1> DEFINE k == Reaped(rlq, now)
           e == [id |-> rid, slot |-> now]
           rest == SubSeq(rlq, k + 1, Len(rlq))
           m == Unmark(marks, rlq, k)
<1>1. /\ rlq \in Seq(MarkerEntry) /\ now \in Slots /\ Len(rlq) \in Nat
      /\ marks \in [RoundIds -> Slots \cup {NoSlot}]
      /\ landedAt \in [RoundIds -> Slots \cup {NoSlot}]
  BY LenProperties DEF MarkersIInv, MarkerTypeOK
<1>2. /\ k \in 0..Len(rlq)
      /\ \A j \in 1..k : Expired(rlq[j], now)
  BY <1>1, ReapedIsExpiredPrefix
<1>3. /\ marks' = [m EXCEPT ![rid] = now] /\ rlq' = Append(rest, e)
      /\ landedAt' = [landedAt EXCEPT ![rid] = now] /\ now' = now
      /\ room > 0 /\ room' = room - 1
  BY DEF MarkLanded
<1> HIDE DEF k
<1>4. e \in MarkerEntry
  BY <1>1 DEF MarkerEntry
<1>5. /\ rest \in Seq(MarkerEntry)
      /\ Len(rest) = Len(rlq) - k
      /\ \A j \in 1..Len(rlq) - k : rest[j] = rlq[j + k]
  BY <1>1, <1>2, SubSeqProperties
<1>6. /\ rlq' \in Seq(MarkerEntry)
      /\ Len(rlq') = Len(rlq) - k + 1
      /\ rlq'[Len(rlq) - k + 1] = e
      /\ \A j \in 1..Len(rlq) - k : rlq'[j] = rlq[j + k]
  <2> HIDE DEF rest, e
  <2>1. /\ Append(rest, e) \in Seq(MarkerEntry) /\ Len(Append(rest, e)) = Len(rest) + 1
        /\ Append(rest, e)[Len(rest) + 1] = e
        /\ \A j \in 1..Len(rest) : Append(rest, e)[j] = rest[j]
    BY <1>4, <1>5, AppendProperties
  <2> QED
    BY <1>3, <1>5, <2>1
<1>7. \A i \in RoundIds : /\ m[i] \in {marks[i], NoSlot}
                          /\ m[i] # marks[i] => \E j \in 1..k : rlq[j] = [id |-> i, slot |-> marks[i]]
                          /\ m[i] # NoSlot => ~\E j \in 1..k : rlq[j] = [id |-> i, slot |-> marks[i]]
  BY DEF Unmark
<1>8. m \in [RoundIds -> Slots \cup {NoSlot}]
  BY <1>1 DEF Unmark
<1> HIDE DEF m, rest, e
<1>9. /\ marks'[rid] = now /\ \A i \in RoundIds \ {rid} : marks'[i] = m[i]
      /\ landedAt'[rid] = now /\ \A i \in RoundIds \ {rid} : landedAt'[i] = landedAt[i]
  BY <1>1, <1>3, <1>8
<1>10. MarkerTypeOK'
  BY <1>1, <1>3, <1>6, <1>8, PerSlotAssumption DEF MarkersIInv, MarkerTypeOK
<1>11. KeptUntilDeadline'
  <2> SUFFICES ASSUME NEW i \in RoundIds \ {rid}, landedAt[i] # NoSlot,
                      SatAdd(landedAt[i], LANDED_TTL_SLOTS) > now
               PROVE  m[i] = landedAt[i]
    BY <1>3, <1>9 DEF KeptUntilDeadline
  <2>1. marks[i] = landedAt[i]
    BY DEF MarkersIInv, KeptUntilDeadline
  <2>2. SUFFICES ASSUME m[i] # marks[i] PROVE FALSE
    BY <2>1
  <2>3. PICK j \in 1..k : rlq[j] = [id |-> i, slot |-> marks[i]]
    BY <1>7, <2>2
  <2>4. SatAdd(marks[i], LANDED_TTL_SLOTS) <= now
    BY <1>2, <2>3 DEF Expired
  <2>5. SatAdd(marks[i], LANDED_TTL_SLOTS) \in Int /\ now \in Int
    BY <1>1, TtlAssumption, SlotMaxAssumption DEF SatAdd, Slots, NoSlot
  <2> QED
    BY <2>1, <2>4, <2>5
<1>12. NoOrphanMarker'
  <2> SUFFICES ASSUME NEW i \in RoundIds, marks'[i] # NoSlot
               PROVE  \E j \in 1..Len(rlq') : rlq'[j] = [id |-> i, slot |-> marks'[i]]
    BY DEF NoOrphanMarker
  <2>1. CASE i = rid
    <3>1. rlq'[Len(rlq) - k + 1] = [id |-> i, slot |-> marks'[i]]
      BY <1>6, <1>9, <2>1 DEF e
    <3>2. Len(rlq) - k + 1 \in 1..Len(rlq')
      BY <1>1, <1>2, <1>6
    <3> QED
      BY <3>1, <3>2
  <2>2. CASE i # rid
    <3>1. marks'[i] = marks[i] /\ marks[i] # NoSlot
      BY <1>7, <1>9, <2>2
    <3>2. PICK j \in 1..Len(rlq) : rlq[j] = [id |-> i, slot |-> marks[i]]
      BY <3>1 DEF MarkersIInv, NoOrphanMarker
    <3>3. j \notin 1..k
      BY <1>7, <1>9, <2>2, <3>1, <3>2
    <3>4. j - k \in 1..Len(rlq) - k /\ (j - k) + k = j /\ j - k \in 1..Len(rlq')
      BY <1>1, <1>2, <1>6, <3>3
    <3>5. rlq'[j - k] = rlq[j]
      BY <1>6, <3>4
    <3> QED
      BY <3>1, <3>2, <3>4, <3>5
  <2> QED
    BY <2>1, <2>2
<1> QED
  BY <1>10, <1>11, <1>12 DEF MarkersIInv

LEMMA MarkersAlways == MarkersSpec => []MarkersIInv
<1>1. MarkersIInv /\ [MarkersNext]_markersVars => MarkersIInv'
  <2> SUFFICES ASSUME MarkersIInv, [MarkersNext]_markersVars PROVE MarkersIInv'
    OBVIOUS
  <2>1. CASE UNCHANGED markersVars
    BY <2>1 DEF markersVars, MarkersIInv, MarkerTypeOK, KeptUntilDeadline, NoOrphanMarker
  <2> QED
    BY <2>1, NextBlockKeeps, LandingKeeps DEF MarkersNext
<1> QED
  BY <1>1, MarkersInitially, PTL DEF MarkersSpec

\* Markers, rlq and slots keep their types.
THEOREM MarkersTypeOK == MarkersSpec => []MarkerTypeOK
<1>1. MarkersIInv => MarkerTypeOK
  BY DEF MarkersIInv
<1> QED
  BY <1>1, MarkersAlways, PTL

\* mark_landed never removes a marker younger than LANDED_TTL_SLOTS.
THEOREM MarkersKept == MarkersSpec => []LiveMarkerKept
<1>1. MarkersIInv => LiveMarkerKept
  <2> SUFFICES ASSUME MarkersIInv, now < SLOT_MAX, NEW i \in RoundIds, landedAt[i] # NoSlot,
                      landedAt[i] + LANDED_TTL_SLOTS > now
               PROVE  marks[i] = landedAt[i]
    BY DEF LiveMarkerKept
  <2>1. SatAdd(landedAt[i], LANDED_TTL_SLOTS) > now
    BY TtlAssumption, SlotMaxAssumption DEF MarkersIInv, MarkerTypeOK, SatAdd, Slots
  <2> QED
    BY <2>1 DEF MarkersIInv, KeptUntilDeadline
<1> QED
  BY <1>1, MarkersAlways, PTL

\* Every marker keeps the rlq entry that will reap it.
THEOREM MarkersNotOrphaned == MarkersSpec => []NoOrphanMarker
<1>1. MarkersIInv => NoOrphanMarker
  BY DEF MarkersIInv
<1> QED
  BY <1>1, MarkersAlways, PTL

-----------------------------------------------------------------------------
(***************************************************************************)
(* The counters of the hidden-order sets, for any number of accounts,      *)
(* signed commits and deliveries.                                          *)
(*                                                                         *)
(* A commit signature is spent once because the floor it raised stays at   *)
(* or above its seq (FloorHolds).  Credits match remainders because a      *)
(* round mints one for each of the commitments it draws, and those are     *)
(* fresh: the remainders owed are finitely many (Owing) and no two of      *)
(* them are one.                                                           *)
(***************************************************************************)
SetsTypeOK ==
    /\ sc \in [Accounts -> Nat] /\ cw \in [Accounts -> Int] /\ twins \in [Accounts -> Int]
    /\ admitted \in [SignedCommits -> Nat]

\* A signature that took effect left its account's floor at or above its seq.
FloorHolds == \A s \in SignedCommits : admitted[s] > 0 => sc[s.account] >= s.seq

\* Only owed remainders are carried, and there are finitely many.
Owing == IsFiniteSet(owed) /\ carried \subseteq owed

SetsIInv == SetsTypeOK /\ FloorHolds /\ AdmittedOnce /\ Owing /\ CreditsCoverRemainders

\* An account's remainders, and those of them not yet re-sealed.
Of(S, a) == {r \in S : r.account = a}
OpenOf(o, c, a) == {r \in o \ c : r.account = a}

\* What a round leaves behind, and how many of them are an account's.
LeftOf(mode, consumed, part, fresh) ==
    {[mode |-> mode, cid |-> fresh[i], account |-> consumed[i].account] : i \in part}
MintedTo(consumed, part, a) == Cardinality({i \in part : consumed[i].account = a})

-----------------------------------------------------------------------------
\* Drawing a fresh commitment for each remainder makes as many as there are.
LEMMA FreshCounts ==
    ASSUME NEW part, IsFiniteSet(part), NEW consumed, NEW mode, NEW known, NEW a,
           NEW fresh \in [part -> known], IsInjective(fresh)
    PROVE  /\ IsFiniteSet(LeftOf(mode, consumed, part, fresh))
           /\ Cardinality(Of(LeftOf(mode, consumed, part, fresh), a)) = MintedTo(consumed, part, a)
<1> DEFINE rec(i) == [mode |-> mode, cid |-> fresh[i], account |-> consumed[i].account]
           left == LeftOf(mode, consumed, part, fresh)
           mine == {i \in part : consumed[i].account = a}
           theirs == {r \in left : r.account = a}
           all == [i \in part |-> rec(i)]
           f == [i \in mine |-> rec(i)]
<1>1. \A i \in part : rec(i).cid = fresh[i] /\ rec(i).account = consumed[i].account
  OBVIOUS
<1>2. \A i, j \in part : rec(i) = rec(j) => i = j
  <2> SUFFICES ASSUME NEW i \in part, NEW j \in part, rec(i) = rec(j) PROVE i = j
    OBVIOUS
  <2>1. fresh[i] = fresh[j]
    BY <1>1
  <2> QED
    BY <2>1 DEF IsInjective
<1>a. left = {rec(i) : i \in part}
  BY DEF LeftOf
<1> HIDE DEF rec
<1>3. IsFiniteSet(left)
  <2>1. all \in Surjection(part, left)
    BY <1>a DEF Surjection
  <2> QED
    BY <2>1, FS_Surjection
<1>4. f \in Bijection(mine, theirs)
  <2>1. f \in [mine -> theirs]
    BY <1>a, <1>1
  <2>2. \A x, y \in mine : f[x] = f[y] => x = y
    BY <1>2
  <2>3. \A r \in theirs : \E i \in mine : f[i] = r
    BY <1>a, <1>1
  <2> QED
    BY <2>1, <2>2, <2>3 DEF Bijection, Injection, Surjection, IsInjective
<1>5. IsFiniteSet(mine)
  BY FS_Subset
<1>6. Cardinality(theirs) = Cardinality(mine)
  BY <1>4, <1>5, FS_Bijection DEF ExistsBijection
<1> QED
  BY <1>3, <1>6 DEF MintedTo, Of

-----------------------------------------------------------------------------
LEMMA SetsInitially == SetsInit => SetsIInv
<1> SUFFICES ASSUME SetsInit PROVE SetsIInv
  OBVIOUS
<1>1. SetsTypeOK /\ FloorHolds /\ AdmittedOnce
  BY DEF SetsInit, SetsTypeOK, FloorHolds, AdmittedOnce
<1>2. Owing /\ CreditsCoverRemainders
  <2>1. \A a \in Accounts : {r \in owed \ carried : r.account = a} = {}
    BY DEF SetsInit
  <2> QED
    BY <2>1, FS_EmptySet DEF SetsInit, Owing, CreditsCoverRemainders
<1> QED
  BY <1>1, <1>2 DEF SetsIInv

\* A signed commit is admitted: its floor was below its seq, so it is the first time.
LEMMA SignatureSpent ==
    ASSUME SetsIInv, NEW s \in SignedCommits, AdmitCommit(s),
           sc' = [sc EXCEPT ![s.account] = s.seq], admitted' = [admitted EXCEPT ![s] = @ + 1],
           UNCHANGED <<cw, owed, carried, twins>>
    PROVE  SetsIInv'
<1>1. s.account \in Accounts /\ s.seq \in Nat
  BY SealedAssumption
<1>2. sc \in [Accounts -> Nat] /\ admitted \in [SignedCommits -> Nat]
  BY DEF SetsIInv, SetsTypeOK
<1>3. admitted[s] = 0
  <2>1. ~(admitted[s] > 0)
    <3>1. admitted[s] > 0 => sc[s.account] >= s.seq
      BY DEF SetsIInv, FloorHolds
    <3>2. s.seq > sc[s.account] /\ sc[s.account] \in Nat
      BY <1>1, <1>2 DEF AdmitCommit
    <3> QED
      BY <1>1, <3>1, <3>2
  <2> QED
    BY <1>2, <2>1
<1>4. SetsTypeOK' /\ AdmittedOnce'
  BY <1>1, <1>2, <1>3 DEF SetsIInv, SetsTypeOK, AdmittedOnce
<1>5. FloorHolds'
  <2> SUFFICES ASSUME NEW t \in SignedCommits, admitted'[t] > 0 PROVE sc'[t.account] >= t.seq
    BY DEF FloorHolds
  <2>1. t.account \in Accounts /\ t.seq \in Nat
    BY SealedAssumption
  <2>2. CASE t = s
    BY <1>1, <1>2, <2>1, <2>2
  <2>3. CASE t # s
    <3>1. sc[t.account] >= t.seq /\ sc[t.account] \in Nat
      BY <1>2, <2>1, <2>3 DEF SetsIInv, FloorHolds
    <3>2. sc'[t.account] >= sc[t.account] /\ sc'[t.account] \in Nat
      BY <1>1, <1>2, <2>1 DEF AdmitCommit
    <3> QED
      BY <2>1, <3>1, <3>2
  <2> QED
    BY <2>2, <2>3
<1>6. Owing' /\ CreditsCoverRemainders'
  BY DEF SetsIInv, Owing, CreditsCoverRemainders
<1> QED
  BY <1>4, <1>5, <1>6 DEF SetsIInv

\* A re-seal is admitted: its credit goes to its remainder, or to a twin.
LEMMA CreditSpent ==
    ASSUME SetsIInv, NEW r \in owed, CarryAdmit(r), SpendCredit(r) PROVE SetsIInv'
<1>1. /\ cw' = [cw EXCEPT ![r.account] = @ - 1] /\ carried' = carried \cup {r} /\ owed' = owed
      /\ twins' = [twins EXCEPT ![r.account] = IF r \in carried THEN @ + 1 ELSE @]
      /\ sc' = sc /\ admitted' = admitted
  BY DEF CarryAdmit, SpendCredit
<1>2. cw \in [Accounts -> Int] /\ twins \in [Accounts -> Int]
  BY DEF SetsIInv, SetsTypeOK
<1>3. SetsTypeOK' /\ FloorHolds' /\ AdmittedOnce' /\ Owing'
  <2>1. cw' \in [Accounts -> Int] /\ twins' \in [Accounts -> Int]
    <3>1. CASE r.account \in Accounts
      <4>1. cw[r.account] - 1 \in Int /\ (IF r \in carried THEN twins[r.account] + 1 ELSE twins[r.account]) \in Int
        BY <1>2, <3>1
      <4> QED
        BY <1>1, <1>2, <4>1
    <3>2. CASE r.account \notin Accounts
      <4>1. cw' = cw /\ twins' = twins
        BY <1>1, <1>2, <3>2
      <4> QED
        BY <1>2, <4>1
    <3> QED
      BY <3>1, <3>2
  <2> QED
    BY <1>1, <2>1 DEF SetsIInv, SetsTypeOK, FloorHolds, AdmittedOnce, Owing
<1>4. CreditsCoverRemainders'
  <2> SUFFICES ASSUME NEW a \in Accounts
               PROVE  cw'[a] + twins'[a] = Cardinality(OpenOf(owed', carried', a))
    BY DEF CreditsCoverRemainders, OpenOf
  <2>1. cw[a] + twins[a] = Cardinality(OpenOf(owed, carried, a)) /\ cw[a] \in Int /\ twins[a] \in Int
    BY <1>2 DEF SetsIInv, CreditsCoverRemainders, OpenOf
  <2>2. IsFiniteSet(OpenOf(owed, carried, a))
    BY FS_Subset DEF SetsIInv, Owing, OpenOf
  <2>3. Cardinality(OpenOf(owed, carried, a)) \in Nat
    BY <2>2, FS_CardinalityType
  <2>4. CASE r.account # a \/ r \in carried
    <3>1. OpenOf(owed', carried', a) = OpenOf(owed, carried, a)
      BY <1>1, <2>4 DEF OpenOf
    <3>2. cw'[a] + twins'[a] = cw[a] + twins[a]
      BY <1>1, <1>2, <2>1, <2>4
    <3> QED
      BY <2>1, <3>1, <3>2
  <2>5. CASE r.account = a /\ r \notin carried
    <3>1. OpenOf(owed', carried', a) = OpenOf(owed, carried, a) \ {r} /\ r \in OpenOf(owed, carried, a)
      BY <1>1, <2>5 DEF OpenOf
    <3>2. Cardinality(OpenOf(owed', carried', a)) = Cardinality(OpenOf(owed, carried, a)) - 1
      BY <2>2, <3>1, FS_RemoveElement
    <3>3. cw'[a] = cw[a] - 1 /\ twins'[a] = twins[a]
      BY <1>1, <1>2, <2>5
    <3> QED
      BY <2>1, <2>3, <3>2, <3>3
  <2> QED
    BY <2>4, <2>5
<1> QED
  BY <1>3, <1>4 DEF SetsIInv

\* A round mints a credit for each remainder it leaves.
LEMMA CreditsMinted ==
    ASSUME SetsIInv, NEW mode, NEW consumed, NEW part, IsFiniteSet(part), NEW fresh \in FreshFor(part),
           SettleSealed(mode, consumed, part, fresh)
    PROVE  SetsIInv'
<1> DEFINE left == LeftOf(mode, consumed, part, fresh)
           minted(a) == MintedTo(consumed, part, a)
<1>1. /\ cw' = [a \in Accounts |-> cw[a] + minted(a)] /\ owed' = owed \cup left
      /\ UNCHANGED <<sc, admitted, carried, twins>>
  BY DEF SettleSealed, LeftOf, MintedTo
<1>2. cw \in [Accounts -> Int] /\ twins \in [Accounts -> Int] /\ IsFiniteSet(owed) /\ carried \subseteq owed
  BY DEF SetsIInv, SetsTypeOK, Owing
<1>4. fresh \in [part -> CarryIds \ {r.cid : r \in owed}] /\ IsInjective(fresh)
  BY DEF FreshFor
<1>5. /\ IsFiniteSet(left)
      /\ \A a \in Accounts : Cardinality(Of(left, a)) = minted(a)
  <2>1. PICK known : fresh \in [part -> known]
    BY <1>4
  <2>2. IsInjective(fresh)
    BY <1>4
  <2>3. ASSUME NEW a PROVE IsFiniteSet(left) /\ Cardinality(Of(left, a)) = minted(a)
    BY <2>1, <2>2, FreshCounts
  <2> QED
    BY <2>3
<1>6. \A a \in Accounts : minted(a) \in Nat
  <2> TAKE a \in Accounts
  <2>1. IsFiniteSet({i \in part : consumed[i].account = a})
    BY FS_Subset
  <2> QED
    BY <2>1, FS_CardinalityType DEF MintedTo
<1>7. left \cap owed = {}
  <2> SUFFICES ASSUME NEW i \in part,
                      [mode |-> mode, cid |-> fresh[i], account |-> consumed[i].account] \in owed
               PROVE  FALSE
    BY DEF LeftOf
  <2>1. fresh[i] \in {r.cid : r \in owed}
    OBVIOUS
  <2> QED
    BY <1>4, <2>1
<1> HIDE DEF left, minted
<1>8. SetsTypeOK'
  <2>1. \A a \in Accounts : cw[a] + minted(a) \in Int
    BY <1>2, <1>6
  <2>2. cw' \in [Accounts -> Int]
    BY <1>1, <2>1
  <2> QED
    BY <1>1, <2>2 DEF SetsIInv, SetsTypeOK
<1>9. FloorHolds' /\ AdmittedOnce'
  BY <1>1 DEF SetsIInv, FloorHolds, AdmittedOnce
<1>10. Owing'
  <2>1. IsFiniteSet(owed')
    BY <1>1, <1>2, <1>5, FS_Union
  <2> QED
    BY <1>1, <1>2, <2>1 DEF Owing
<1>11. CreditsCoverRemainders'
  <2> SUFFICES ASSUME NEW a \in Accounts
               PROVE  cw'[a] + twins'[a] = Cardinality(OpenOf(owed', carried', a))
    BY DEF CreditsCoverRemainders, OpenOf
  <2> DEFINE old == OpenOf(owed, carried, a)
             new == Of(left, a)
  <2>1. cw[a] + twins[a] = Cardinality(old) /\ cw[a] \in Int /\ twins[a] \in Int
    BY <1>2 DEF SetsIInv, CreditsCoverRemainders, OpenOf
  <2>2. IsFiniteSet(old) /\ IsFiniteSet(new)
    BY <1>2, <1>5, FS_Subset DEF OpenOf, Of
  <2>3. OpenOf(owed', carried', a) = old \cup new /\ old \cap new = {}
    BY <1>1, <1>2, <1>7 DEF OpenOf, Of
  <2>4. Cardinality(new) = minted(a) /\ minted(a) \in Nat
    BY <1>5, <1>6
  <2> HIDE DEF old, new
  <2>5. Cardinality(old) \in Nat /\ Cardinality({}) = 0
    BY <2>2, FS_CardinalityType, FS_EmptySet
  <2>6. Cardinality(OpenOf(owed', carried', a)) = Cardinality(old) + minted(a)
    <3>1. Cardinality(old \cup new) = Cardinality(old) + Cardinality(new) - Cardinality(old \cap new)
      BY <2>2, FS_Union
    <3>2. Cardinality(old \cap new) = 0
      BY <2>3, <2>5
    <3>3. Cardinality(old \cup new) = Cardinality(old) + minted(a) - 0
      BY <2>4, <3>1, <3>2
    <3> QED
      BY <2>3, <2>4, <2>5, <3>3
  <2>7. cw'[a] = cw[a] + minted(a) /\ twins'[a] = twins[a]
    BY <1>1
  <2> QED
    BY <2>1, <2>4, <2>5, <2>6, <2>7
<1> QED
  BY <1>8, <1>9, <1>10, <1>11 DEF SetsIInv

LEMMA SetsStep == SetsIInv /\ [SetsNext]_setsVars => SetsIInv'
<1> SUFFICES ASSUME SetsIInv, [SetsNext]_setsVars PROVE SetsIInv'
  OBVIOUS
<1>1. ASSUME NEW s \in SignedCommits, Commit(s) \/ EncCommit(s) PROVE SetsIInv'
  BY <1>1, SignatureSpent DEF Commit, EncCommit
<1>2. ASSUME NEW r \in owed, CarryCommit(r) \/ CarryEncCommit(r) PROVE SetsIInv'
  BY <1>2, CreditSpent DEF CarryCommit, CarryEncCommit
<1>a. ASSUME NEW part \in SUBSET (1..2) PROVE IsFiniteSet(part)
  <2>1. part \in SUBSET Nat /\ \A i \in part : i <= 2
    OBVIOUS
  <2>2. 2 \in Nat
    OBVIOUS
  <2> QED
    BY <2>1, <2>2, FS_BoundedSetOfNaturals
<1>3. ASSUME NEW c \in Batches("commits"), NEW part \in SUBSET (1..2), NEW f \in FreshFor(part),
             Reveal(c, part, f)
      PROVE  SetsIInv'
  BY <1>a, <1>3, CreditsMinted DEF Reveal
<1>4. ASSUME NEW c \in Batches("encset"), NEW part \in SUBSET (1..2), NEW f \in FreshFor(part),
             EncRound(c, part, f)
      PROVE  SetsIInv'
  BY <1>a, <1>4, CreditsMinted DEF EncRound
<1>5. CASE NextSlot \/ UNCHANGED setsVars
  BY <1>5 DEF NextSlot, setsVars, SetsIInv, SetsTypeOK, FloorHolds, AdmittedOnce, Owing, CreditsCoverRemainders
<1> QED
  BY <1>1, <1>2, <1>3, <1>4, <1>5 DEF SetsNext

LEMMA SetsAlways == SetsSpec => []SetsIInv
  BY SetsInitially, SetsStep, PTL DEF SetsSpec

\* A commit signature takes effect at most once (floors::admit_commit), however
\* often and in whatever order its work item is delivered.
THEOREM SignedCommitOnce == SetsSpec => []AdmittedOnce
<1>1. SetsIInv => AdmittedOnce
  BY DEF SetsIInv
<1> QED
  BY <1>1, SetsAlways, PTL

\* carry::mint and carry::admit keep the credits and the remainders in step: no
\* re-seal delivered twice costs another remainder its credit while the original
\* is in the set.
THEOREM CreditsAlwaysCover == SetsSpec => []CreditsCoverRemainders
<1>1. SetsIInv => CreditsCoverRemainders
  BY DEF SetsIInv
<1> QED
  BY <1>1, SetsAlways, PTL

-----------------------------------------------------------------------------
(***************************************************************************)
(* The sets themselves.  How often an entry is in a list is how many of    *)
(* its positions hold it, so what appending, removing the first matches    *)
(* and reaping do to it can be counted, for lists of any length.           *)
(***************************************************************************)
Less(m, n) == IF n <= m THEN m - n ELSE 0
Places(s, K, e) == {i \in K : EntryOf(s[i]) = e}

LEMMA PlacesFinite ==
    ASSUME NEW S, NEW s \in Seq(S), NEW K \in SUBSET (1..Len(s)), NEW e
    PROVE  /\ Places(s, K, e) \in SUBSET Nat /\ IsFiniteSet(Places(s, K, e))
           /\ Cardinality(Places(s, K, e)) \in Nat
           /\ Copies(s, e) = Cardinality(Places(s, 1..Len(s), e)) /\ Copies(s, e) \in Nat
<1>1. Len(s) \in Nat /\ IsFiniteSet(1..Len(s)) /\ 1..Len(s) \subseteq Nat
  BY FS_Interval
<1>2. Places(s, K, e) \subseteq 1..Len(s) /\ Places(s, 1..Len(s), e) \subseteq 1..Len(s)
  BY DEF Places
<1>3. IsFiniteSet(Places(s, K, e)) /\ IsFiniteSet(Places(s, 1..Len(s), e))
  BY <1>1, <1>2, FS_Subset
<1>4. Cardinality(Places(s, K, e)) \in Nat /\ Cardinality(Places(s, 1..Len(s), e)) \in Nat
  BY <1>3, FS_CardinalityType
<1>5. Copies(s, e) = Cardinality(Places(s, 1..Len(s), e))
  BY DEF Copies, Places
<1> QED
  BY <1>1, <1>2, <1>3, <1>4, <1>5

LEMMA CopiesNat ==
    ASSUME NEW S, NEW s \in Seq(S), NEW e
    PROVE  Copies(s, e) \in Nat
<1>1. 1..Len(s) \in SUBSET (1..Len(s))
  OBVIOUS
<1> QED
  BY <1>1, PlacesFinite

LEMMA CopiesAppend ==
    ASSUME NEW S, NEW s \in Seq(S), NEW x \in S, NEW e
    PROVE  /\ Append(s, x) \in Seq(S)
           /\ Copies(Append(s, x), e) = Copies(s, e) + (IF EntryOf(x) = e THEN 1 ELSE 0)
<1> DEFINE t == Append(s, x)
           n == Len(s)
           old == Places(s, 1..n, e)
           new == Places(t, 1..Len(t), e)
<1>1. /\ t \in Seq(S) /\ n \in Nat /\ Len(t) = n + 1 /\ t[n + 1] = x
      /\ \A i \in 1..n : t[i] = s[i]
  OBVIOUS
<1>2. /\ IsFiniteSet(old) /\ Cardinality(old) \in Nat /\ Copies(s, e) = Cardinality(old)
      /\ Copies(t, e) = Cardinality(new)
  BY <1>1, PlacesFinite
<1>3. n + 1 \notin old
  BY <1>1 DEF Places
<1> HIDE DEF t, n
<1>4. CASE EntryOf(x) = e
  <2>1. new = old \cup {n + 1}
    BY <1>1, <1>4 DEF Places
  <2>2. Cardinality(new) = Cardinality(old) + 1
    BY <1>2, <1>3, <2>1, FS_AddElement
  <2> QED
    BY <1>1, <1>2, <1>4, <2>2 DEF t
<1>5. CASE EntryOf(x) # e
  <2>1. new = old
    BY <1>1, <1>5 DEF Places
  <2>2. Copies(t, e) = Copies(s, e)
    BY <1>2, <2>1, Zenon
  <2> QED
    BY <1>1, <1>2, <1>5, <2>2 DEF t
<1> QED
  BY <1>4, <1>5

LEMMA CopiesPicked ==
    ASSUME NEW S, NEW s \in Seq(S), NEW K \in SUBSET (1..Len(s)), NEW e
    PROVE  Copies(Pick(s, K), e) = Cardinality(Places(s, K, e))
<1> DEFINE t == Pick(s, K)
           N == Cardinality(K)
           src == Places(t, 1..Len(t), e)
           dst == Places(s, K, e)
<1>1. K \in SUBSET Nat /\ IsFiniteSet(K)
  <2>1. IsFiniteSet(1..Len(s)) /\ 1..Len(s) \subseteq Nat
    BY FS_Interval
  <2> QED
    BY <2>1, FS_Subset
<1>2. t \in Seq(S) /\ N \in Nat /\ Len(t) = N
  BY PickIsPart
<1>3. PICK at : PicksAt(s, K, at)
  BY <1>1, PickAt
<1>4. /\ at \in [1..N -> K] /\ (\A m, n \in 1..N : m < n => at[m] < at[n])
      /\ (\A i \in K : \E n \in 1..N : at[n] = i)
      /\ t = [n \in 1..N |-> s[at[n]]]
  BY <1>3 DEF PicksAt
<1> HIDE DEF N
<1>5. \A m, n \in 1..N : at[m] = at[n] => m = n
  <2> SUFFICES ASSUME NEW m \in 1..N, NEW n \in 1..N, at[m] = at[n] PROVE m = n
    OBVIOUS
  <2>1. at[m] \in Nat /\ at[n] \in Nat
    BY <1>1, <1>4
  <2>2. ~(m < n) /\ ~(n < m)
    BY <1>4, <2>1
  <2> QED
    BY <1>2, <2>2
<1>6. \A n \in 1..N : t[n] = s[at[n]]
  BY <1>4
<1> HIDE DEF t
<1> DEFINE f == [n \in src |-> at[n]]
<1>7. \A n \in src : n \in 1..N /\ at[n] \in dst
  BY <1>2, <1>4, <1>6 DEF Places
<1>8. \A i \in dst : \E n \in src : at[n] = i
  BY <1>2, <1>4, <1>6 DEF Places
<1>9. f \in Bijection(src, dst)
  <2>1. f \in [src -> dst] /\ (\A m, n \in src : f[m] = f[n] => m = n) /\ (\A i \in dst : \E n \in src : f[n] = i)
    BY <1>5, <1>7, <1>8
  <2> HIDE DEF f, src, dst
  <2> QED
    BY <2>1 DEF Bijection, Injection, Surjection, IsInjective
<1>10. IsFiniteSet(src) /\ Copies(t, e) = Cardinality(src)
  BY <1>2, PlacesFinite
<1>11. Cardinality(src) = Cardinality(dst)
  <2> HIDE DEF f, src, dst
  <2>1. ExistsBijection(src, dst)
    BY <1>9 DEF ExistsBijection
  <2> QED
    BY <1>10, <2>1, FS_Bijection
<1> QED
  BY <1>10, <1>11 DEF t

\* remove_first_match takes as many copies away as there are targets, or all.
LEMMA CopiesRemoved ==
    ASSUME NEW S, NEW s \in Seq(S), NEW T, NEW t \in Seq(T), NEW e
    PROVE  /\ RemoveEach(s, t) \in Seq(S)
           /\ Copies(RemoveEach(s, t), e) = Less(Copies(s, e), Copies(t, e))
           /\ \A n \in 1..Len(RemoveEach(s, t)) : \E i \in 1..Len(s) : RemoveEach(s, t)[n] = s[i]
<1> DEFINE all == 1..Len(s)
           upTo(i) == {j \in 1..i : EntryOf(s[j]) = EntryOf(s[i])}
           K == all \ {i \in all : Cardinality(upTo(i)) <= Copies(t, EntryOf(s[i]))}
           M == Places(s, all, e)
<1>1. RemoveEach(s, t) = Pick(s, K) /\ K \in SUBSET all
  BY DEF RemoveEach
<1>2. /\ M \in SUBSET Nat /\ IsFiniteSet(M) /\ Copies(s, e) = Cardinality(M) /\ Copies(t, e) \in Nat
  BY PlacesFinite
<1>3. Len(s) \in Nat
  OBVIOUS
<1>4. \A i \in M : upTo(i) = {j \in M : j <= i}
  BY <1>3 DEF Places
<1>5. \A i \in M : Cardinality(upTo(i)) = RankIn(M, i) /\ EntryOf(s[i]) = e /\ i \in all
  BY <1>4 DEF RankIn, Places
<1>6. Places(s, K, e) = {i \in M : ~(RankIn(M, i) <= Copies(t, e))}
  <2> HIDE DEF upTo
  <2>1. \A i \in all : EntryOf(s[i]) = e <=> i \in M
    BY DEF Places
  <2> HIDE DEF M, all
  <2> QED
    BY <1>5, <2>1 DEF Places
<1> HIDE DEF upTo, K, M
<1>7. Cardinality(Places(s, K, e)) = Less(Copies(s, e), Copies(t, e))
  <2>1. Cardinality({i \in M : ~(RankIn(M, i) <= Copies(t, e))})
           = IF Copies(t, e) <= Cardinality(M) THEN Cardinality(M) - Copies(t, e) ELSE 0
    BY <1>2, RanksAbove
  <2>2. Cardinality(Places(s, K, e)) = Cardinality({i \in M : ~(RankIn(M, i) <= Copies(t, e))})
    BY <1>6, Zenon
  <2> QED
    BY <1>2, <2>1, <2>2 DEF Less
<1>8. /\ Pick(s, K) \in Seq(S) /\ \A n \in 1..Len(Pick(s, K)) : \E i \in K : Pick(s, K)[n] = s[i]
  BY <1>1, PickIsPart
<1>9. Copies(Pick(s, K), e) = Cardinality(Places(s, K, e))
  BY <1>1, CopiesPicked
<1> QED
  BY <1>1, <1>7, <1>8, <1>9

\* reap_expired splits its list.
LEMMA CopiesReaped ==
    ASSUME NEW S, NEW c \in Seq(S), NEW slot, NEW e
    PROVE  /\ Kept(c, slot) \in Seq(S) /\ Dead(c, slot) \in Seq(S)
           /\ Copies(c, e) = Copies(Kept(c, slot), e) + Copies(Dead(c, slot), e)
<1> DEFINE all == 1..Len(c)
           D == {i \in all : c[i].expiry <= slot}
           L == {i \in all : ~(c[i].expiry <= slot)}
<1>1. Kept(c, slot) = Pick(c, L) /\ Dead(c, slot) = Pick(c, D)
  BY DEF Kept, Dead
<1>2. D \in SUBSET all /\ L \in SUBSET all /\ D \cap L = {} /\ D \cup L = all
  OBVIOUS
<1> HIDE DEF D, L
<1>3. Pick(c, L) \in Seq(S) /\ Pick(c, D) \in Seq(S)
  BY <1>2, PickIsPart
<1>4. /\ Copies(Pick(c, L), e) = Cardinality(Places(c, L, e))
      /\ Copies(Pick(c, D), e) = Cardinality(Places(c, D, e))
  BY <1>2, CopiesPicked
<1>5. /\ IsFiniteSet(Places(c, L, e)) /\ IsFiniteSet(Places(c, D, e))
      /\ Cardinality(Places(c, L, e)) \in Nat /\ Cardinality(Places(c, D, e)) \in Nat
      /\ Copies(c, e) = Cardinality(Places(c, all, e))
  BY <1>2, PlacesFinite
<1>6. Places(c, all, e) = Places(c, L, e) \cup Places(c, D, e) /\ Places(c, L, e) \cap Places(c, D, e) = {}
  BY <1>2 DEF Places
<1>7. Cardinality(Places(c, L, e) \cup Places(c, D, e)) = Cardinality(Places(c, L, e)) + Cardinality(Places(c, D, e))
  <2>1. Cardinality(Places(c, L, e) \cup Places(c, D, e))
          = Cardinality(Places(c, L, e)) + Cardinality(Places(c, D, e))
            - Cardinality(Places(c, L, e) \cap Places(c, D, e))
    BY <1>5, FS_Union
  <2>2. Cardinality(Places(c, L, e) \cap Places(c, D, e)) = 0
    BY <1>6, FS_EmptySet
  <2> QED
    BY <1>5, <2>1, <2>2
<1>8. Copies(c, e) = Cardinality(Places(c, L, e)) + Cardinality(Places(c, D, e))
  BY <1>5, <1>6, <1>7, Zenon
<1> QED
  BY <1>1, <1>3, <1>4, <1>8

\* A sweep takes the same entries from the set and from the index.
LEMMA SweptAlike ==
    ASSUME NEW S, NEW s \in Seq(S), NEW A, NEW c \in Seq(A), NEW slot, NEW e,
           NEW k \in Nat, Copies(s, e) = Copies(c, e) + k
    PROVE  Copies(RemoveEach(s, Dead(c, slot)), e) = Copies(Kept(c, slot), e) + k
<1>1. /\ Kept(c, slot) \in Seq(A) /\ Dead(c, slot) \in Seq(A)
      /\ Copies(c, e) = Copies(Kept(c, slot), e) + Copies(Dead(c, slot), e)
  BY CopiesReaped
<1>2. Copies(Kept(c, slot), e) \in Nat /\ Copies(Dead(c, slot), e) \in Nat
  BY <1>1, PlacesFinite
<1>3. Copies(RemoveEach(s, Dead(c, slot)), e) = Less(Copies(s, e), Copies(Dead(c, slot), e))
  BY <1>1, CopiesRemoved
<1> QED
  BY <1>1, <1>2, <1>3 DEF Less

LEMMA NoCopies ==
    ASSUME NEW S, NEW s \in Seq(S), NEW e, \A i \in 1..Len(s) : EntryOf(s[i]) # e
    PROVE  Copies(s, e) = 0
<1>1. {i \in 1..Len(s) : EntryOf(s[i]) = e} = {}
  OBVIOUS
<1>2. Cardinality({}) = 0
  BY FS_EmptySet
<1> QED
  BY <1>1, <1>2, Zenon DEF Copies

LEMMA EntryIsOf == ASSUME NEW x \in Entry PROVE EntryOf(x) = x
BY DEF Entry, EntryOf

-----------------------------------------------------------------------------
(***************************************************************************)
(* The age index in step with the set is inductive.  That a re-seal is in  *)
(* its set at most once is not: a fresh commitment must not be there yet,  *)
(* so every entry with a re-seal's commitment is of a remainder owed       *)
(* (CarriesKnown).                                                         *)
(***************************************************************************)
Aged == [cid : Cids, account : Accounts, expiry : Int]
Remainder == [mode : Modes, cid : CarryIds, account : Accounts]

ListsTypeOK ==
    /\ set \in [Modes -> Seq(Entry)] /\ cage \in Seq(Aged)
    /\ now \in Int /\ owed \subseteq Remainder

\* A re-seal in a set is of a remainder that some round left.
CarriesKnown ==
    \A m \in Modes : \A i \in 1..Len(set[m]) :
        set[m][i].cid \in CarryIds => \E r \in owed : r.cid = set[m][i].cid

CarriedOnce == \A r \in owed : Copies(set[r.mode], EntryOf(r)) <= 1

ListsIInv == ListsTypeOK /\ CageInStep /\ CarriesKnown /\ CarriedOnce

\* What may happen to a list: x at most comes once, others may go.
Changes(old, new, x) ==
    /\ new \in Seq(Entry)
    /\ \A e : Copies(new, e) <= Copies(old, e) + (IF EntryOf(x) = e THEN 1 ELSE 0)
    /\ \A n \in 1..Len(new) : new[n] = x \/ \E i \in 1..Len(old) : new[n] = old[i]

LEMMA AppendChanges ==
    ASSUME NEW s \in Seq(Entry), NEW x \in Entry
    PROVE  Changes(s, Append(s, x), x)
<1>1. Append(s, x) \in Seq(Entry)
  OBVIOUS
<1>2. \A e : Copies(Append(s, x), e) <= Copies(s, e) + (IF EntryOf(x) = e THEN 1 ELSE 0)
  <2> SUFFICES ASSUME NEW e PROVE Copies(Append(s, x), e) <= Copies(s, e) + (IF EntryOf(x) = e THEN 1 ELSE 0)
    OBVIOUS
  <2>1. Copies(Append(s, x), e) = Copies(s, e) + (IF EntryOf(x) = e THEN 1 ELSE 0)
    BY CopiesAppend
  <2>2. Copies(s, e) \in Nat
    BY CopiesNat
  <2> QED
    BY <2>1, <2>2
<1>3. \A n \in 1..Len(Append(s, x)) : Append(s, x)[n] = x \/ \E i \in 1..Len(s) : Append(s, x)[n] = s[i]
  OBVIOUS
<1> QED
  BY <1>1, <1>2, <1>3 DEF Changes

Lessens(s, t, r) ==
    /\ r = RemoveEach(s, t) /\ r \in Seq(Entry)
    /\ \A e : Copies(s, e) \in Nat /\ Copies(r, e) \in Nat /\ Copies(r, e) <= Copies(s, e)
    /\ \A n \in 1..Len(r) : \E i \in 1..Len(s) : r[n] = s[i]

LEMMA RemoveLessens ==
    ASSUME NEW s \in Seq(Entry), NEW T, NEW t \in Seq(T)
    PROVE  Lessens(s, t, RemoveEach(s, t))
<1>1. ASSUME NEW e
      PROVE  /\ Copies(s, e) \in Nat /\ Copies(RemoveEach(s, t), e) \in Nat
             /\ Copies(RemoveEach(s, t), e) <= Copies(s, e)
  <2>1. Copies(RemoveEach(s, t), e) = Less(Copies(s, e), Copies(t, e))
    BY CopiesRemoved
  <2>2. Copies(s, e) \in Nat
    BY CopiesNat
  <2>3. Copies(t, e) \in Nat
    BY CopiesNat
  <2> QED
    BY <2>1, <2>2, <2>3 DEF Less
<1>2. RemoveEach(s, t) \in Seq(Entry) /\ \A n \in 1..Len(RemoveEach(s, t)) : \E i \in 1..Len(s) : RemoveEach(s, t)[n] = s[i]
  BY CopiesRemoved
<1> QED
  BY <1>1, <1>2 DEF Lessens

LEMMA RemoveThenAppendChanges ==
    ASSUME NEW s \in Seq(Entry), NEW T, NEW t \in Seq(T), NEW x \in Entry
    PROVE  /\ Changes(s, Append(RemoveEach(s, t), x), x)
           /\ Changes(s, RemoveEach(Append(s, x), t), x)
           /\ Changes(s, RemoveEach(s, t), x)
<1> DEFINE a == Append(s, x)
           r == RemoveEach(s, t)
           ra == RemoveEach(a, t)
<1>1. Changes(s, a, x) /\ a \in Seq(Entry)
  BY AppendChanges
<1>2. /\ Lessens(s, t, r) /\ Lessens(a, t, ra)
  BY <1>1, RemoveLessens
<1> HIDE DEF a
<1>3. /\ r \in Seq(Entry) /\ ra \in Seq(Entry)
      /\ \A e : Copies(s, e) \in Nat /\ Copies(r, e) \in Nat /\ Copies(r, e) <= Copies(s, e)
      /\ \A e : Copies(a, e) \in Nat /\ Copies(ra, e) \in Nat /\ Copies(ra, e) <= Copies(a, e)
      /\ \A n \in 1..Len(r) : \E i \in 1..Len(s) : r[n] = s[i]
      /\ \A n \in 1..Len(ra) : \E i \in 1..Len(a) : ra[n] = a[i]
  BY <1>2 DEF Lessens
<1> HIDE DEF r, ra
<1>4. Changes(r, Append(r, x), x)
  BY <1>3, AppendChanges
<1>5. Changes(s, Append(r, x), x)
  <2>1. ASSUME NEW e PROVE Copies(Append(r, x), e) <= Copies(s, e) + (IF EntryOf(x) = e THEN 1 ELSE 0)
    <3>1. Copies(Append(r, x), e) <= Copies(r, e) + (IF EntryOf(x) = e THEN 1 ELSE 0)
      BY <1>4 DEF Changes
    <3>2. Copies(s, e) \in Nat /\ Copies(r, e) \in Nat /\ Copies(r, e) <= Copies(s, e)
      BY <1>3
    <3>3. Append(r, x) \in Seq(Entry)
      BY <1>3
    <3>4. Copies(Append(r, x), e) \in Nat
      BY <3>3, PlacesFinite
    <3> QED
      BY <3>1, <3>2, <3>4
  <2> QED
    BY <1>3, <1>4, <2>1 DEF Changes
<1>6. Changes(s, ra, x)
  <2>1. ASSUME NEW e PROVE Copies(ra, e) <= Copies(s, e) + (IF EntryOf(x) = e THEN 1 ELSE 0)
    <3>1. Copies(a, e) <= Copies(s, e) + (IF EntryOf(x) = e THEN 1 ELSE 0)
      BY <1>1 DEF Changes
    <3>2. Copies(s, e) \in Nat /\ Copies(a, e) \in Nat /\ Copies(ra, e) \in Nat /\ Copies(ra, e) <= Copies(a, e)
      BY <1>3
    <3> QED
      BY <3>1, <3>2
  <2>2. ASSUME NEW n \in 1..Len(ra) PROVE ra[n] = x \/ \E i \in 1..Len(s) : ra[n] = s[i]
    <3>1. PICK j \in 1..Len(a) : ra[n] = a[j]
      BY <1>3
    <3> QED
      BY <1>1, <3>1 DEF Changes
  <2> QED
    BY <1>3, <2>1, <2>2 DEF Changes
<1>7. Changes(s, r, x)
  <2>1. \A e : Copies(r, e) <= Copies(s, e) + (IF EntryOf(x) = e THEN 1 ELSE 0)
    BY <1>3
  <2> QED
    BY <1>3, <2>1 DEF Changes
<1> QED
  BY <1>5, <1>6, <1>7 DEF r, ra, a

LEMMA CageStepEntry ==
    ASSUME NEW x \in Entry, NEW slot \in Int
    PROVE  LET a == [cid |-> x.cid, account |-> x.account, expiry |-> SatAdd(slot, COMMIT_TTL_SLOTS)]
           IN  a \in Aged /\ EntryOf(a) = x
<1>1. SatAdd(slot, COMMIT_TTL_SLOTS) \in Int
  BY SealedAssumption, SlotMaxAssumption DEF SatAdd
<1> QED
  BY <1>1 DEF Aged, Entry, EntryOf

\* A signed commit, or a re-seal that is not in its set, joins its set.
LEMMA EntryJoins ==
    ASSUME ListsIInv, NEW m \in Modes, NEW x \in Entry, NEW L, Changes(set[m], L, x),
           set' = [set EXCEPT ![m] = L], owed' = owed,
           \/ x.cid \notin CarryIds
           \/ (\E r \in owed : r.cid = x.cid) /\ Copies(set[m], x) = 0
    PROVE  set' \in [Modes -> Seq(Entry)] /\ CarriesKnown' /\ CarriedOnce'
<1>1. set \in [Modes -> Seq(Entry)] /\ L \in Seq(Entry) /\ EntryOf(x) = x
  BY EntryIsOf DEF ListsIInv, ListsTypeOK, Changes
<1>2. set' \in [Modes -> Seq(Entry)] /\ set'[m] = L /\ \A k \in Modes \ {m} : set'[k] = set[k]
  BY <1>1
<1>3. CarriesKnown'
  <2> SUFFICES ASSUME NEW k \in Modes, NEW i \in 1..Len(set'[k]), set'[k][i].cid \in CarryIds
               PROVE  \E r \in owed : r.cid = set'[k][i].cid
    BY DEF CarriesKnown
  <2>1. CASE k # m
    BY <1>2, <2>1 DEF ListsIInv, CarriesKnown
  <2>2. CASE k = m
    <3>1. L[i] = x \/ \E j \in 1..Len(set[m]) : L[i] = set[m][j]
      BY <1>2, <2>2 DEF Changes
    <3> QED
      BY <1>2, <2>2, <3>1 DEF ListsIInv, CarriesKnown
  <2> QED
    BY <2>1, <2>2
<1>4. CarriedOnce'
  <2> SUFFICES ASSUME NEW r \in owed PROVE Copies(set'[r.mode], EntryOf(r)) <= 1
    BY DEF CarriedOnce
  <2>1. r \in Remainder /\ r.mode \in Modes /\ r.cid \in CarryIds /\ EntryOf(r).cid = r.cid
    BY DEF ListsIInv, ListsTypeOK, Remainder, EntryOf
  <2>2. Copies(set[r.mode], EntryOf(r)) <= 1
    BY DEF ListsIInv, CarriedOnce
  <2>3. CASE r.mode # m
    BY <1>2, <2>1, <2>2, <2>3
  <2>4. CASE r.mode = m
    <3> DEFINE e == EntryOf(r)
    <3>1. Copies(L, e) <= Copies(set[m], e) + (IF x = e THEN 1 ELSE 0)
      BY <1>1 DEF Changes
    <3>2. Copies(L, e) \in Nat
      BY <1>1, CopiesNat
    <3>3. Copies(set[m], e) \in Nat
      BY <1>1, CopiesNat
    <3>4. x = e => Copies(set[m], e) = 0
      BY <2>1
    <3>5. Copies(L, e) <= 1
      BY <2>2, <2>4, <3>1, <3>2, <3>3, <3>4
    <3> QED
      BY <1>2, <2>4, <3>5
  <2> QED
    BY <2>3, <2>4
<1> QED
  BY <1>2, <1>3, <1>4

LEMMA CommitKeepsLists ==
    ASSUME ListsIInv, NEW s \in SignedCommits, Commit(s) PROVE ListsIInv'
<1> DEFINE C == set["commits"]
           x == EntryOf(s)
           L == Append(RemoveEach(C, Dead(cage, now)), x)
           kept == Kept(cage, now)
           a == [cid |-> x.cid, account |-> x.account, expiry |-> SatAdd(now, COMMIT_TTL_SLOTS)]
<1>1. /\ set' = [set EXCEPT !["commits"] = L] /\ cage' = Append(kept, a)
      /\ now' = now /\ owed' = owed
  BY DEF Commit, GcCommits, CageAdd
<1>2. /\ set \in [Modes -> Seq(Entry)] /\ cage \in Seq(Aged) /\ now \in Int /\ "commits" \in Modes /\ C \in Seq(Entry)
  BY DEF ListsIInv, ListsTypeOK, Modes
<1>3. x \in Entry /\ x.cid \notin CarryIds
  BY SealedAssumption DEF Entry, EntryOf, Cids
<1>4. a \in Aged /\ EntryOf(a) = x /\ EntryOf(x) = x
  BY <1>2, <1>3, CageStepEntry, EntryIsOf
<1>5. Dead(cage, now) \in Seq(Aged) /\ kept \in Seq(Aged)
  BY <1>2, CopiesReaped
<1> HIDE DEF x, a, kept
<1>6. Changes(C, L, x)
  BY <1>2, <1>3, <1>5, RemoveThenAppendChanges
<1>7. set' \in [Modes -> Seq(Entry)] /\ CarriesKnown' /\ CarriedOnce'
  <2> HIDE DEF L
  <2> QED
    BY <1>1, <1>2, <1>3, <1>6, EntryJoins
<1>8. CageInStep'
  <2> SUFFICES ASSUME NEW e \in Entry PROVE Copies(L, e) = Copies(cage', e)
    BY <1>1, <1>2 DEF CageInStep
  <2> DEFINE R == RemoveEach(C, Dead(cage, now))
             one == IF x = e THEN 1 ELSE 0
  <2>1. Copies(C, e) = Copies(cage, e) + 0
    <3>1. Copies(C, e) = Copies(cage, e)
      BY DEF ListsIInv, CageInStep
    <3>2. Copies(C, e) \in Nat
      BY <1>2, CopiesNat
    <3> QED
      BY <3>1, <3>2
  <2>2. Copies(R, e) = Copies(kept, e) + 0
    BY <1>2, <2>1, SweptAlike DEF kept
  <2>3. R \in Seq(Entry)
    BY <1>2, <1>5, CopiesRemoved
  <2> HIDE DEF R
  <2>4. Copies(Append(R, x), e) = Copies(R, e) + one
    BY <1>3, <1>4, <2>3, CopiesAppend
  <2>5. Copies(Append(kept, a), e) = Copies(kept, e) + one
    BY <1>4, <1>5, CopiesAppend
  <2>6. Copies(kept, e) \in Nat
    BY <1>5, CopiesNat
  <2>7. Copies(Append(R, x), e) = Copies(Append(kept, a), e)
    BY <2>2, <2>4, <2>5, <2>6
  <2> QED
    BY <1>1, <2>7 DEF R
<1>9. ListsTypeOK'
  <2>1. cage' \in Seq(Aged)
    BY <1>1, <1>4, <1>5
  <2> QED
    BY <1>1, <1>7, <2>1 DEF ListsIInv, ListsTypeOK
<1> QED
  BY <1>7, <1>8, <1>9 DEF ListsIInv

LEMMA CarryKeepsLists ==
    ASSUME ListsIInv, NEW r \in owed, CarryCommit(r) PROVE ListsIInv'
<1> DEFINE C == set["commits"]
           x == EntryOf(r)
           A == Append(C, x)
           L == RemoveEach(A, Dead(cage, now))
           kept == Kept(cage, now)
           a == [cid |-> x.cid, account |-> x.account, expiry |-> SatAdd(now, COMMIT_TTL_SLOTS)]
<1>1. /\ set' = [set EXCEPT !["commits"] = L] /\ cage' = Append(kept, a)
      /\ now' = now /\ owed' = owed
  BY DEF CarryCommit, SpendCredit, GcCommits, CageAdd
<1>2. /\ set \in [Modes -> Seq(Entry)] /\ cage \in Seq(Aged) /\ now \in Int /\ "commits" \in Modes /\ C \in Seq(Entry)
  BY DEF ListsIInv, ListsTypeOK, Modes
<1>3. x \in Entry /\ r.cid = x.cid
  <2>1. r \in Remainder
    BY DEF ListsIInv, ListsTypeOK
  <2> QED
    BY <2>1 DEF Remainder, Entry, EntryOf, Cids
<1>4. a \in Aged /\ EntryOf(a) = x /\ EntryOf(x) = x
  BY <1>2, <1>3, CageStepEntry, EntryIsOf
<1>5. Dead(cage, now) \in Seq(Aged) /\ kept \in Seq(Aged)
  BY <1>2, CopiesReaped
<1>6. Copies(C, x) = 0
  <2>1. r.mode = "commits" /\ ~Contains(C, x)
    BY DEF CarryCommit, CarryAdmit
  <2>2. \A i \in 1..Len(C) : EntryOf(C[i]) # x
    BY <1>2, <2>1, EntryIsOf DEF Contains
  <2> HIDE DEF C, x
  <2> QED
    BY <1>2, <2>2, NoCopies
<1> HIDE DEF x, a, kept
<1>7. Changes(C, L, x)
  BY <1>2, <1>3, <1>5, RemoveThenAppendChanges
<1>8. set' \in [Modes -> Seq(Entry)] /\ CarriesKnown' /\ CarriedOnce'
  <2> HIDE DEF L
  <2> QED
    BY <1>1, <1>2, <1>3, <1>6, <1>7, EntryJoins
<1>9. CageInStep'
  <2> SUFFICES ASSUME NEW e \in Entry PROVE Copies(L, e) = Copies(cage', e)
    BY <1>1, <1>2 DEF CageInStep
  <2> DEFINE one == IF x = e THEN 1 ELSE 0
  <2>0. one \in Nat
    OBVIOUS
  <2>1. A \in Seq(Entry) /\ Copies(A, e) = Copies(C, e) + (IF EntryOf(x) = e THEN 1 ELSE 0)
    BY <1>2, <1>3, CopiesAppend
  <2>2. Copies(C, e) = Copies(cage, e)
    BY DEF ListsIInv, CageInStep
  <2>3. Copies(A, e) = Copies(cage, e) + one
    BY <1>4, <2>1, <2>2
  <2> HIDE DEF A, one
  <2>4. Copies(RemoveEach(A, Dead(cage, now)), e) = Copies(Kept(cage, now), e) + one
    BY <1>2, <2>0, <2>1, <2>3, SweptAlike
  <2>5. Copies(Append(kept, a), e) = Copies(kept, e) + (IF EntryOf(a) = e THEN 1 ELSE 0)
    BY <1>4, <1>5, CopiesAppend
  <2> QED
    BY <1>1, <1>4, <2>4, <2>5 DEF kept, one
<1>10. ListsTypeOK'
  <2>1. cage' \in Seq(Aged)
    BY <1>1, <1>4, <1>5
  <2> QED
    BY <1>1, <1>8, <2>1 DEF ListsIInv, ListsTypeOK
<1> QED
  BY <1>8, <1>9, <1>10 DEF ListsIInv

Joins(x) ==
    /\ set' = [set EXCEPT !["encset"] = Append(set["encset"], x)]
    /\ \/ x.cid \notin CarryIds
       \/ (\E r \in owed : r.cid = x.cid) /\ Copies(set["encset"], x) = 0

\* The set without an index: ENC_COMMIT and CARRY_ENC_COMMIT.
LEMMA EncKeepsLists ==
    ASSUME ListsIInv,
           \/ \E s \in SignedCommits : EncCommit(s)
           \/ \E r \in owed : CarryEncCommit(r)
    PROVE  ListsIInv'
<1> DEFINE E == set["encset"]
<1>1. /\ set \in [Modes -> Seq(Entry)] /\ "encset" \in Modes /\ "commits" \in Modes /\ E \in Seq(Entry)
  BY DEF ListsIInv, ListsTypeOK, Modes
<1>2. \E x \in Entry : Joins(x)
  <2>1. ASSUME NEW s \in SignedCommits, EncCommit(s) PROVE \E x \in Entry : Joins(x)
    <3>1. EntryOf(s) \in Entry /\ EntryOf(s).cid \notin CarryIds
      BY SealedAssumption DEF Entry, EntryOf, Cids
    <3> QED
      BY <2>1, <3>1 DEF EncCommit, Joins
  <2>2. ASSUME NEW r \in owed, CarryEncCommit(r) PROVE \E x \in Entry : Joins(x)
    <3>1. r \in Remainder
      BY DEF ListsIInv, ListsTypeOK
    <3>2. EntryOf(r) \in Entry /\ EntryOf(r).cid = r.cid
      BY <3>1 DEF Remainder, Entry, EntryOf, Cids
    <3>3. ~Contains(E, EntryOf(r)) /\ set' = [set EXCEPT !["encset"] = Append(E, EntryOf(r))]
      BY <2>2 DEF CarryEncCommit, CarryAdmit
    <3>4. \A i \in 1..Len(E) : EntryOf(E[i]) # EntryOf(r)
      BY <1>1, <3>3, EntryIsOf DEF Contains
    <3>5. Copies(E, EntryOf(r)) = 0
      <4> HIDE DEF E
      <4> QED
        BY <1>1, <3>4, NoCopies
    <3> QED
      BY <3>2, <3>3, <3>5 DEF Joins
  <2> QED
    BY <2>1, <2>2
<1>a. PICK x \in Entry : Joins(x)
  BY <1>2
<1>3. /\ set' = [set EXCEPT !["encset"] = Append(E, x)]
      /\ \/ x.cid \notin CarryIds
         \/ (\E r \in owed : r.cid = x.cid) /\ Copies(E, x) = 0
  BY <1>a DEF Joins
<1>4. cage' = cage /\ now' = now /\ owed' = owed
  BY DEF EncCommit, CarryEncCommit, SpendCredit
<1>5. Changes(E, Append(E, x), x)
  BY <1>1, AppendChanges
<1>6. set' \in [Modes -> Seq(Entry)] /\ CarriesKnown' /\ CarriedOnce'
  BY <1>1, <1>3, <1>4, <1>5, EntryJoins
<1>7. set'["commits"] = set["commits"]
  BY <1>1, <1>3
<1> QED
  BY <1>4, <1>6, <1>7 DEF ListsIInv, ListsTypeOK, CageInStep

LEMMA BatchIsEntries ==
    ASSUME ListsTypeOK, NEW m \in Modes, NEW c \in Batches(m)
    PROVE  c \in Seq(Entry)
<1>1. set[m] \in Seq(Entry)
  BY DEF ListsTypeOK
<1>2. ToSet(set[m]) \subseteq Entry
  BY <1>1 DEF ToSet
<1>3. PICK n \in 0..2 : c \in [1..n -> ToSet(set[m])]
  BY DEF Batches, BoundedSeq, SeqOf
<1>4. c \in [1..n -> Entry] /\ n \in Nat
  BY <1>2, <1>3
<1> QED
  BY <1>4

\* A round consumes from its set, and what it leaves behind is new to both.
LEMMA RoundKeepsLists ==
    ASSUME ListsIInv, NEW m \in Modes, NEW c \in Seq(Entry), NEW part, part \subseteq 1..Len(c),
           NEW fresh \in FreshFor(part), SettleSealed(m, c, part, fresh)
    PROVE  /\ set' \in [Modes -> Seq(Entry)] /\ now' \in Int /\ owed' \subseteq Remainder
           /\ CarriesKnown' /\ CarriedOnce'
           /\ set'[m] = RemoveEach(set[m], c) /\ \A k \in Modes \ {m} : set'[k] = set[k]
<1> DEFINE L == RemoveEach(set[m], c)
           left == LeftOf(m, c, part, fresh)
<1>1. set' = [set EXCEPT ![m] = L] /\ owed' = owed \cup left /\ now' = now
  BY DEF SettleSealed, LeftOf
<1>2. set \in [Modes -> Seq(Entry)] /\ owed \subseteq Remainder /\ now \in Int
  BY DEF ListsIInv, ListsTypeOK
<1>3. /\ L \in Seq(Entry)
      /\ \A e : Copies(set[m], e) \in Nat /\ Copies(L, e) \in Nat /\ Copies(L, e) <= Copies(set[m], e)
      /\ \A n \in 1..Len(L) : \E i \in 1..Len(set[m]) : L[n] = set[m][i]
  <2>1. set[m] \in Seq(Entry)
    BY <1>2
  <2>2. Lessens(set[m], c, L)
    BY <2>1, RemoveLessens
  <2> QED
    BY <2>2 DEF Lessens
<1> HIDE DEF L
<1>4. set' \in [Modes -> Seq(Entry)] /\ set'[m] = L /\ \A k \in Modes \ {m} : set'[k] = set[k]
  BY <1>1, <1>2, <1>3
<1>5. \A r \in left : r \in Remainder /\ r.mode = m /\ ~(\E o \in owed : o.cid = r.cid)
  <2> SUFFICES ASSUME NEW i \in part, NEW r, r = [mode |-> m, cid |-> fresh[i], account |-> c[i].account]
               PROVE  r \in Remainder /\ r.mode = m /\ ~(\E o \in owed : o.cid = r.cid)
    BY DEF LeftOf
  <2>1. c[i] \in Entry
    OBVIOUS
  <2>2. c[i].account \in Accounts
    BY <2>1 DEF Entry
  <2>3. fresh[i] \in CarryIds /\ ~(\E o \in owed : o.cid = fresh[i])
    BY DEF FreshFor
  <2> QED
    BY <2>2, <2>3 DEF Remainder
<1> HIDE DEF left
<1>6. owed' \subseteq Remainder
  BY <1>1, <1>2, <1>5
<1>7. CarriesKnown'
  <2> SUFFICES ASSUME NEW k \in Modes, NEW i \in 1..Len(set'[k]), set'[k][i].cid \in CarryIds
               PROVE  \E r \in owed' : r.cid = set'[k][i].cid
    BY DEF CarriesKnown
  <2>1. \E j \in 1..Len(set[k]) : set'[k][i] = set[k][j]
    <3>1. CASE k = m
      BY <1>3, <1>4, <3>1
    <3>2. CASE k # m
      BY <1>4, <3>2
    <3> QED
      BY <3>1, <3>2
  <2>2. \E r \in owed : r.cid = set'[k][i].cid
    BY <2>1 DEF ListsIInv, CarriesKnown
  <2> QED
    BY <1>1, <2>2
<1>8. CarriedOnce'
  <2> SUFFICES ASSUME NEW r \in owed' PROVE Copies(set'[r.mode], EntryOf(r)) <= 1
    BY DEF CarriedOnce
  <2>1. CASE r \in owed
    <3>1. r.mode \in Modes
      BY <1>2, <2>1 DEF Remainder
    <3>2. Copies(set[r.mode], EntryOf(r)) <= 1
      BY <2>1 DEF ListsIInv, CarriedOnce
    <3>3. CASE r.mode # m
      BY <1>4, <3>1, <3>2, <3>3
    <3>4. CASE r.mode = m
      <4>1. Copies(L, EntryOf(r)) <= Copies(set[m], EntryOf(r)) /\ Copies(L, EntryOf(r)) \in Nat /\ Copies(set[m], EntryOf(r)) \in Nat
        BY <1>3
      <4>2. Copies(L, EntryOf(r)) <= 1
        BY <3>2, <3>4, <4>1
      <4> QED
        BY <1>4, <3>4, <4>2
    <3> QED
      BY <3>3, <3>4
  <2>2. CASE r \in left
    <3>1. r \in Remainder /\ r.mode = m /\ ~(\E o \in owed : o.cid = r.cid)
      BY <1>5, <2>2
    <3>2. r.cid \in CarryIds /\ EntryOf(r).cid = r.cid
      BY <3>1 DEF Remainder, EntryOf
    <3>3. ASSUME NEW i \in 1..Len(L) PROVE EntryOf(L[i]) # EntryOf(r)
      <4>1. PICK j \in 1..Len(set[m]) : L[i] = set[m][j]
        BY <1>3
      <4>2. set[m][j].cid \in CarryIds => \E o \in owed : o.cid = set[m][j].cid
        BY DEF ListsIInv, CarriesKnown
      <4>3. EntryOf(L[i]).cid = L[i].cid
        BY DEF EntryOf
      <4> QED
        BY <3>1, <3>2, <4>1, <4>2, <4>3
    <3>4. Copies(L, EntryOf(r)) = 0
      BY <1>3, <3>3, NoCopies
    <3> QED
      BY <1>4, <3>1, <3>4
  <2> QED
    BY <1>1, <2>1, <2>2
<1> QED
  BY <1>1, <1>2, <1>4, <1>6, <1>7, <1>8 DEF L

LEMMA RevealKeepsLists ==
    ASSUME ListsIInv, NEW c \in Seq(Entry), NEW part, part \subseteq 1..Len(c),
           NEW fresh \in FreshFor(part), Reveal(c, part, fresh)
    PROVE  ListsIInv'
<1>0. "commits" \in Modes
  BY DEF Modes
<1>1. /\ set' \in [Modes -> Seq(Entry)] /\ now' \in Int /\ owed' \subseteq Remainder
      /\ CarriesKnown' /\ CarriedOnce' /\ set'["commits"] = RemoveEach(set["commits"], c)
  BY <1>0, RoundKeepsLists DEF Reveal
<1>2. cage' = RemoveEach(cage, c) /\ cage \in Seq(Aged) /\ set["commits"] \in Seq(Entry)
  BY <1>0 DEF Reveal, ListsIInv, ListsTypeOK
<1>3. cage' \in Seq(Aged)
  BY <1>2, CopiesRemoved
<1>4. CageInStep'
  <2> SUFFICES ASSUME NEW e \in Entry PROVE Copies(set'["commits"], e) = Copies(cage', e)
    BY DEF CageInStep
  <2>1. Copies(RemoveEach(set["commits"], c), e) = Less(Copies(set["commits"], e), Copies(c, e))
    <3> DEFINE C == set["commits"]
    <3>1. C \in Seq(Entry)
      BY <1>2
    <3> HIDE DEF C
    <3>2. Copies(RemoveEach(C, c), e) = Less(Copies(C, e), Copies(c, e))
      BY <3>1, CopiesRemoved
    <3> QED
      BY <3>2 DEF C
  <2>2. Copies(RemoveEach(cage, c), e) = Less(Copies(cage, e), Copies(c, e))
    BY <1>2, CopiesRemoved
  <2>3. Copies(set["commits"], e) = Copies(cage, e)
    BY DEF ListsIInv, CageInStep
  <2> QED
    BY <1>1, <1>2, <2>1, <2>2, <2>3
<1> QED
  BY <1>1, <1>3, <1>4 DEF ListsIInv, ListsTypeOK

LEMMA EncRoundKeepsLists ==
    ASSUME ListsIInv, NEW c \in Seq(Entry), NEW part, part \subseteq 1..Len(c),
           NEW fresh \in FreshFor(part), EncRound(c, part, fresh)
    PROVE  ListsIInv'
<1>0. "encset" \in Modes /\ "commits" \in Modes \ {"encset"}
  BY DEF Modes
<1>1. /\ set' \in [Modes -> Seq(Entry)] /\ now' \in Int /\ owed' \subseteq Remainder
      /\ CarriesKnown' /\ CarriedOnce' /\ set'["commits"] = set["commits"]
  BY <1>0, RoundKeepsLists DEF EncRound
<1>2. cage' = cage
  BY DEF EncRound
<1> QED
  BY <1>1, <1>2 DEF ListsIInv, ListsTypeOK, CageInStep

LEMMA ListsStep == ListsIInv /\ [SetsNext]_setsVars => ListsIInv'
<1> SUFFICES ASSUME ListsIInv, [SetsNext]_setsVars PROVE ListsIInv'
  OBVIOUS
<1>1. ASSUME NEW s \in SignedCommits, Commit(s) \/ EncCommit(s) PROVE ListsIInv'
  BY <1>1, CommitKeepsLists, EncKeepsLists
<1>2. ASSUME NEW r \in owed, CarryCommit(r) \/ CarryEncCommit(r) PROVE ListsIInv'
  BY <1>2, CarryKeepsLists, EncKeepsLists
<1>3. ASSUME NEW c \in Batches("commits"), NEW part \in SUBSET (1..2), part \subseteq 1..Len(c),
             NEW f \in FreshFor(part), Reveal(c, part, f)
      PROVE  ListsIInv'
  <2>1. c \in Seq(Entry)
    BY BatchIsEntries DEF ListsIInv, Modes
  <2> QED
    BY <1>3, <2>1, RevealKeepsLists
<1>4. ASSUME NEW c \in Batches("encset"), NEW part \in SUBSET (1..2), part \subseteq 1..Len(c),
             NEW f \in FreshFor(part), EncRound(c, part, f)
      PROVE  ListsIInv'
  <2>1. c \in Seq(Entry)
    BY BatchIsEntries DEF ListsIInv, Modes
  <2> QED
    BY <1>4, <2>1, EncRoundKeepsLists
<1>5. CASE NextSlot
  BY <1>5 DEF NextSlot, ListsIInv, ListsTypeOK, CageInStep, CarriesKnown, CarriedOnce
<1>6. CASE UNCHANGED setsVars
  BY <1>6 DEF setsVars, ListsIInv, ListsTypeOK, CageInStep, CarriesKnown, CarriedOnce
<1> QED
  BY <1>1, <1>2, <1>3, <1>4, <1>5, <1>6 DEF SetsNext

LEMMA ListsInitially == SetsInit => ListsIInv
<1> SUFFICES ASSUME SetsInit PROVE ListsIInv
  OBVIOUS
<1>1. set = [m \in Modes |-> <<>>] /\ cage = <<>> /\ now = 0 /\ owed = {}
  BY DEF SetsInit
<1>2. \A m \in Modes : set[m] = <<>> /\ Len(set[m]) = 0
  BY <1>1
<1>3. set["commits"] = <<>>
  BY <1>1 DEF Modes
<1> QED
  BY <1>1, <1>2, <1>3 DEF ListsIInv, ListsTypeOK, CageInStep, CarriesKnown, CarriedOnce

LEMMA ListsAlways == SetsSpec => []ListsIInv
  BY ListsInitially, ListsStep, PTL DEF SetsSpec

\* The age index (b"cage") and the commit set stay in step, for any commits,
\* re-seals, rounds and sweeps in any order: no commitment is left without the
\* entry that will reap it, and none has one too many.
THEOREM CageAlwaysInStep == SetsSpec => []CageInStep
<1>1. ListsIInv => CageInStep
  BY DEF ListsIInv
<1> QED
  BY <1>1, ListsAlways, PTL

\* A hidden order is in its set once: its signature is spent once, and a copy of
\* a re-seal never joins its original (floors::admit_commit, carry::admit).
THEOREM HiddenOrdersOnce == SetsSpec => []CommitOnce
<1>1. SetsIInv /\ ListsIInv => CommitOnce
  BY DEF SetsIInv, ListsIInv, CarriedOnce, CommitOnce
<1> QED
  BY <1>1, SetsAlways, ListsAlways, PTL
=============================================================================
