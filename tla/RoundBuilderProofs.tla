------------------------- MODULE RoundBuilderProofs -------------------------
(***************************************************************************)
(* What the builder reports settled is settled for good, or under a settle *)
(* hold until a re-org: for every set of orders and every bound on faults  *)
(* and re-orgs.                                                            *)
(*                                                                         *)
(* SettledStands and SettledIsFinal alone are not inductive: that the      *)
(* finalized part of the chain only grows needs the finalized head to lie  *)
(* on the best chain (ChainOK), and that a re-org is later than every      *)
(* report needs what was seen at the reports (SeenOK).  SettlesOnce holds  *)
(* by the chain's own rules.                                               *)
(***************************************************************************)
EXTENDS RoundBuilder, SequenceTheorems, TLAPS

IsASequence(s) == \E S : s \in Seq(S)

ChainOK == IsASequence(chain) /\ final \in 0..Len(chain)

Reports == {"settled", "rejected", "cancelled"}
ReceiptsOK == receipts \in [Orders -> Seq(Reports)]

SeenOK ==
    /\ reorgs \in Nat /\ "early" \in DOMAIN seen
    /\ \A o \in DOMAIN seen.early : seen.early[o] \in 0..reorgs

ReportsOK == ReceiptsOK /\ SeenOK /\ SettledStands /\ SettledIsFinal
FillsIInv == ChainOK /\ ReportsOK /\ SettlesOnce

-----------------------------------------------------------------------------
\* Sequences without a type: what Append and SubSeq leave.
LEMMA Appended ==
    ASSUME NEW s, IsASequence(s), NEW e
    PROVE  /\ IsASequence(Append(s, e))
           /\ Len(s) \in Nat /\ Len(Append(s, e)) = Len(s) + 1
           /\ \A i \in 1..Len(s) : Append(s, e)[i] = s[i]
           /\ Append(s, e)[Len(s) + 1] = e
<1>1. PICK S : s \in Seq(S)
  BY DEF IsASequence
<1>2. s \in Seq(S \cup {e}) /\ e \in S \cup {e}
  BY <1>1, SeqMonotonic
<1> QED
  BY <1>2, AppendProperties, LenProperties DEF IsASequence

LEMMA Cut ==
    ASSUME NEW s, IsASequence(s), NEW n \in 0..Len(s)
    PROVE  /\ IsASequence(SubSeq(s, 1, n))
           /\ Len(s) \in Nat /\ Len(SubSeq(s, 1, n)) = n
           /\ \A i \in 1..n : SubSeq(s, 1, n)[i] = s[i]
<1>1. PICK S : s \in Seq(S)
  BY DEF IsASequence
<1>2. /\ Len(s) \in Nat /\ n \in Nat
      /\ \A i \in 1..n : s[i] \in S
  BY <1>1, LenProperties, ElementOfSeq
<1>3. /\ SubSeq(s, 1, n) \in Seq(S)
      /\ Len(SubSeq(s, 1, n)) = IF 1 <= n THEN n - 1 + 1 ELSE 0
      /\ \A i \in 1..(n - 1 + 1) : SubSeq(s, 1, n)[i] = s[1 + i - 1]
  BY <1>2, SubSeqProperties
<1> QED
  BY <1>2, <1>3 DEF IsASequence

LEMMA SettledHolds ==
    ASSUME NEW c, NEW o
    PROVE  o \in Settled(c) <=> \E i \in 1..Len(c) : Holds(c, i, o)
  BY DEF Settled, Rounds, Entries, Holds

\* What a prefix settles, the whole settles.
LEMMA PrefixSettles ==
    ASSUME NEW c, NEW d, NEW o,
           Len(c) \in Nat, Len(d) \in Nat, Len(c) <= Len(d),
           \A i \in 1..Len(c) : c[i] = d[i],
           o \in Settled(c)
    PROVE  o \in Settled(d)
<1>1. PICK i \in 1..Len(c) : Holds(c, i, o)
  BY SettledHolds
<1>2. i \in 1..Len(d) /\ Holds(d, i, o)
  BY <1>1 DEF Holds
<1> QED
  BY <1>2, SettledHolds

\* The finalized part only grows while the best chain keeps it.
LEMMA FinalGrows ==
    ASSUME ChainOK, ChainOK', final <= final',
           \A i \in 1..final : chain'[i] = chain[i]
    PROVE  Settled(FinalChain) \subseteq Settled(FinalChain)'
<1>1. /\ Len(FinalChain) = final /\ final \in Nat
      /\ \A i \in 1..final : FinalChain[i] = chain[i]
  BY Cut DEF ChainOK, FinalChain
<1>2. IsASequence(chain') /\ final' \in 0..Len(chain')
  BY DEF ChainOK, IsASequence
<1> DEFINE later == SubSeq(chain', 1, final')
<1>3. /\ Len(later) = final' /\ Len(chain') \in Nat
      /\ \A i \in 1..final' : later[i] = chain'[i]
  BY <1>2, Cut
<1>4. Settled(FinalChain)' = Settled(later)
  BY DEF FinalChain, Settled, Rounds, Entries
<1> HIDE DEF later
<1>5. Len(chain') \in Nat => final' \in Nat
  BY <1>2
<1>6. /\ Len(later) = final' /\ final' \in Nat
      /\ \A i \in 1..final' : later[i] = chain'[i]
  BY <1>3, <1>5
<1>7. Len(FinalChain) <= Len(later) /\ \A i \in 1..Len(FinalChain) : FinalChain[i] = later[i]
  BY <1>1, <1>6
<1>8. ASSUME NEW o, o \in Settled(FinalChain)
      PROVE  o \in Settled(later)
  BY <1>1, <1>6, <1>7, <1>8, PrefixSettles
<1> QED
  BY <1>4, <1>8

\* A step of the chain keeps what was reported: what it settled stays settled,
\* or the step is a re-org.
LEMMA ChainGrows ==
    ASSUME FillsIInv, ChainOK', final <= final',
           \A i \in 1..final : chain'[i] = chain[i],
           receipts' = receipts, seen' = seen,
           \/ reorgs' = reorgs /\ Settled(chain) \subseteq Settled(chain')
           \/ reorgs' = reorgs + 1
    PROVE  ReportsOK'
<1>1. Settled(FinalChain) \subseteq Settled(FinalChain)'
  BY FinalGrows DEF FillsIInv
<1>2. SeenOK /\ SettledStands /\ SettledIsFinal /\ ReceiptsOK
  BY DEF FillsIInv, ReportsOK
<1>3. ReceiptsOK' /\ SettledIsFinal'
  BY <1>1, <1>2 DEF ReceiptsOK, SettledIsFinal, ReportedSettled
<1>4. SeenOK'
  BY <1>2 DEF SeenOK
<1>5. Settled(chain)' = Settled(chain')
  BY DEF Settled, Rounds, Entries
<1>6. ASSUME NEW o \in Orders, ReportedSettled(o)'
      PROVE  \/ o \in Settled(FinalChain)'
             \/ o \in DOMAIN seen'.early /\ o \in Settled(chain')
             \/ Undone(o)'
  <2>1. ReportedSettled(o)
    BY <1>6 DEF ReportedSettled
  <2>2. CASE o \in Settled(FinalChain)
    BY <1>1, <2>2
  <2>3. CASE o \in DOMAIN seen.early /\ reorgs' = reorgs + 1
    <3>1. seen.early[o] \in 0..reorgs /\ reorgs \in Nat
      BY <1>2, <2>3 DEF SeenOK
    <3>2. seen.early[o] < reorgs'
      BY <2>3, <3>1
    <3> QED
      BY <2>3, <3>2 DEF Undone
  <2>4. CASE reorgs' = reorgs /\ Settled(chain) \subseteq Settled(chain') /\ o \notin Settled(FinalChain)
    BY <1>2, <2>1, <2>4 DEF SettledStands, Undone
  <2> QED
    BY <1>2, <2>1, <2>2, <2>3, <2>4 DEF SettledStands, Undone
<1>7. SettledStands'
  BY <1>5, <1>6 DEF SettledStands
<1> QED
  BY <1>3, <1>4, <1>7 DEF ReportsOK

\* Rounds do not leave a chain that only gets an entry which is no round.
LEMMA OtherEntry ==
    ASSUME FillsIInv, NEW kind, kind # "round", NEW x, Extend(kind, x)
    PROVE  FillsIInv'
<1>1. /\ chain' = Append(chain, [k \in {kind} |-> x]) /\ final' = final /\ receipts' = receipts
      /\ seen' = seen /\ reorgs' = reorgs
  BY DEF Extend, queueVars
<1>2. /\ IsASequence(chain') /\ Len(chain) \in Nat /\ Len(chain') = Len(chain) + 1
      /\ \A i \in 1..Len(chain) : chain'[i] = chain[i]
      /\ chain'[Len(chain) + 1] = [k \in {kind} |-> x]
  BY <1>1, Appended DEF FillsIInv, ChainOK
<1>3. ChainOK' /\ final <= final' /\ \A i \in 1..final : chain'[i] = chain[i]
  BY <1>1, <1>2 DEF FillsIInv, ChainOK
<1>4. ReportsOK'
  <2>1. Settled(chain) \subseteq Settled(chain')
    BY <1>2, PrefixSettles
  <2> QED
    BY <1>1, <1>3, <2>1, ChainGrows
<1>5. "round" \notin DOMAIN chain'[Len(chain) + 1]
  BY <1>2
<1>6. SettlesOnce'
  <2> SUFFICES ASSUME NEW o \in Orders, NEW i \in 1..Len(chain'), NEW j \in 1..Len(chain'),
                      Holds(chain', i, o), Holds(chain', j, o)
               PROVE  i = j
    BY DEF SettlesOnce, Holds
  <2>1. i \in 1..Len(chain) /\ j \in 1..Len(chain)
    BY <1>2, <1>5 DEF Holds
  <2> QED
    BY <1>2, <2>1 DEF Holds, FillsIInv, SettlesOnce
<1> QED
  BY <1>3, <1>4, <1>6 DEF FillsIInv

\* A round that lands holds no order that another round of the chain holds:
\* its floor has passed, or its commitment is spent.
LEMMA RoundLands ==
    ASSUME FillsIInv, NEW r, Land(r)
    PROVE  FillsIInv'
<1>1. /\ chain' = Append(chain, [k \in {"round"} |-> r]) /\ final' = final /\ receipts' = receipts
      /\ seen' = seen /\ reorgs' = reorgs
      /\ ~RoundDead(chain, r)
  BY DEF Land, Extend, queueVars
<1>2. /\ IsASequence(chain') /\ Len(chain) \in Nat /\ Len(chain') = Len(chain) + 1
      /\ \A i \in 1..Len(chain) : chain'[i] = chain[i]
      /\ chain'[Len(chain) + 1] = [k \in {"round"} |-> r]
  BY <1>1, Appended DEF FillsIInv, ChainOK
<1>3. ChainOK' /\ final <= final' /\ \A i \in 1..final : chain'[i] = chain[i]
  BY <1>1, <1>2 DEF FillsIInv, ChainOK
<1>4. ReportsOK'
  <2>1. Settled(chain) \subseteq Settled(chain')
    BY <1>2, PrefixSettles
  <2> QED
    BY <1>1, <1>3, <2>1, ChainGrows
<1>5. ASSUME NEW o \in Orders, o \in ToSet(r.orders)
      PROVE  o \notin Settled(chain)
  <2>1. CASE Info[o].sealed
    BY <1>1, <1>5, <2>1 DEF RoundDead, Commits
  <2>2. CASE ~Info[o].sealed
    <3>1. ~FloorPassed(chain, o)
      BY <1>1, <1>5, <2>2 DEF RoundDead
    <3>2. Info[o].seq >= Info[o].seq
      BY BuilderAssumption
    <3> QED
      BY <2>2, <3>1, <3>2 DEF FloorPassed
  <2> QED
    BY <2>1, <2>2
<1>6. chain'[Len(chain) + 1]["round"] = r
  BY <1>2
<1>7. SettlesOnce'
  <2> SUFFICES ASSUME NEW o \in Orders, NEW i \in 1..Len(chain'), NEW j \in 1..Len(chain'),
                      Holds(chain', i, o), Holds(chain', j, o)
               PROVE  i = j
    BY DEF SettlesOnce, Holds
  <2>1. ASSUME NEW k \in 1..Len(chain), Holds(chain', k, o)
        PROVE  o \in Settled(chain)
    BY <1>2, <2>1, SettledHolds DEF Holds
  <2>2. Holds(chain', Len(chain) + 1, o) => o \in ToSet(r.orders)
    BY <1>6 DEF Holds
  <2>3. CASE i \in 1..Len(chain) /\ j \in 1..Len(chain)
    BY <1>2, <2>3 DEF Holds, FillsIInv, SettlesOnce
  <2>4. CASE i = Len(chain) + 1 /\ j \in 1..Len(chain)
    BY <1>5, <2>1, <2>2, <2>4
  <2>5. CASE j = Len(chain) + 1 /\ i \in 1..Len(chain)
    BY <1>5, <2>1, <2>2, <2>5
  <2> QED
    BY <1>2, <2>3, <2>4, <2>5
<1> QED
  BY <1>3, <1>4, <1>7 DEF FillsIInv

LEMMA HeadFinalized ==
    ASSUME FillsIInv, FinalityAdvances
    PROVE  FillsIInv'
<1>1. /\ chain' = chain /\ receipts' = receipts /\ final < Len(chain) /\ final' = final + 1
      /\ seen' = seen /\ reorgs' = reorgs
  BY DEF FinalityAdvances, queueVars
<1>2. ChainOK' /\ final <= final' /\ \A i \in 1..final : chain'[i] = chain[i]
  <2>1. IsASequence(chain)' /\ Len(chain)' = Len(chain) /\ Len(chain) \in Nat
    BY <1>1, Cut DEF FillsIInv, ChainOK, IsASequence
  <2> QED
    BY <1>1, <2>1 DEF FillsIInv, ChainOK
<1>3. ReportsOK'
  BY <1>1, <1>2, ChainGrows
<1> QED
  BY <1>1, <1>2, <1>3 DEF FillsIInv, SettlesOnce, Holds

LEMMA ForkWins ==
    ASSUME FillsIInv, Reorg
    PROVE  FillsIInv'
<1>1. PICK n \in final..(Len(chain) - 1) : chain' = SubSeq(chain, 1, n)
  BY DEF Reorg
<1>2. final' = final /\ receipts' = receipts /\ seen' = seen /\ reorgs' = reorgs + 1
  BY DEF Reorg, queueVars
<1>3. Len(chain) \in Nat /\ final \in 0..Len(chain)
  BY Cut DEF FillsIInv, ChainOK
<1>4. n \in 0..Len(chain) /\ final <= n
  BY <1>3
<1>5. /\ IsASequence(chain') /\ Len(chain') = n
      /\ \A i \in 1..n : chain'[i] = chain[i]
  BY <1>1, <1>4, Cut DEF FillsIInv, ChainOK
<1>6. ChainOK' /\ final <= final' /\ \A i \in 1..final : chain'[i] = chain[i]
  BY <1>2, <1>3, <1>4, <1>5 DEF ChainOK
<1>7. ReportsOK'
  BY <1>2, <1>6, ChainGrows
<1>8. SettlesOnce'
  BY <1>3, <1>4, <1>5 DEF FillsIInv, SettlesOnce, Holds
<1> QED
  BY <1>6, <1>7, <1>8 DEF FillsIInv

-----------------------------------------------------------------------------
\* What a report adds to an order's outcomes.
LEMMA Reported ==
    ASSUME ReceiptsOK, NEW keys, NEW outcome \in Reports, receipts' = Report(keys, outcome)
    PROVE  /\ ReceiptsOK'
           /\ \A o \in Orders : ReportedSettled(o)' => ReportedSettled(o) \/ (o \in keys /\ outcome = "settled")
<1>1. receipts \in [Orders -> Seq(Reports)]
  BY DEF ReceiptsOK
<1>2. ASSUME NEW o \in Orders
      PROVE  /\ receipts'[o] \in Seq(Reports)
             /\ ReportedSettled(o)' => ReportedSettled(o) \/ (o \in keys /\ outcome = "settled")
  <2>1. CASE o \in keys
    <3>1. receipts'[o] = Append(receipts[o], outcome) /\ receipts[o] \in Seq(Reports)
      BY <1>1, <2>1 DEF Report
    <3>2. /\ Append(receipts[o], outcome) \in Seq(Reports)
          /\ Len(receipts[o]) \in Nat
          /\ DOMAIN receipts[o] = 1..Len(receipts[o])
          /\ DOMAIN Append(receipts[o], outcome) = 1..(Len(receipts[o]) + 1)
          /\ \A i \in 1..Len(receipts[o]) : Append(receipts[o], outcome)[i] = receipts[o][i]
          /\ Append(receipts[o], outcome)[Len(receipts[o]) + 1] = outcome
      BY <3>1, AppendProperties, LenProperties
    <3>3. ASSUME NEW i \in DOMAIN Append(receipts[o], outcome),
                 Append(receipts[o], outcome)[i] = "settled"
          PROVE  "settled" \in ToSet(receipts[o]) \/ outcome = "settled"
      <4>1. CASE i \in 1..Len(receipts[o])
        BY <3>2, <3>3, <4>1 DEF ToSet
      <4>2. CASE i = Len(receipts[o]) + 1
        BY <3>2, <3>3, <4>2
      <4> QED
        BY <3>2, <4>1, <4>2
    <3>4. ReportedSettled(o)' => \E i \in DOMAIN receipts'[o] : receipts'[o][i] = "settled"
      BY DEF ReportedSettled, ToSet
    <3> QED
      BY <2>1, <3>1, <3>2, <3>3, <3>4 DEF ReportedSettled
  <2>2. CASE o \notin keys
    <3>1. receipts'[o] = receipts[o]
      BY <2>2 DEF Report
    <3> QED
      BY <1>1, <3>1 DEF ReportedSettled
  <2> QED
    BY <2>1, <2>2
<1>3. receipts' = [o \in Orders |-> receipts'[o]]
  BY DEF Report
<1>4. ReceiptsOK'
  BY <1>2, <1>3 DEF ReceiptsOK
<1> QED
  BY <1>2, <1>4

\* A step that leaves the chain alone and reports nothing settled.
LEMMA ReportsAreTrue ==
    ASSUME FillsIInv, chain' = chain, final' = final, reorgs' = reorgs,
           seen' = seen \/ \E n : seen' = [seen EXCEPT !.cuts = n],
           \/ receipts' = receipts
           \/ \E keys : \E outcome \in Reports \ {"settled"} : receipts' = Report(keys, outcome)
    PROVE  FillsIInv'
<1>1. ChainOK' /\ SettlesOnce' /\ Settled(FinalChain)' = Settled(FinalChain) /\ Settled(chain)' = Settled(chain)
  BY DEF FillsIInv, ChainOK, IsASequence, SettlesOnce, Holds, FinalChain, Settled, Rounds, Entries
<1>2. SeenOK /\ SettledStands /\ SettledIsFinal /\ ReceiptsOK
  BY DEF FillsIInv, ReportsOK
<1>3. SeenOK' /\ seen'.early = seen.early
  BY <1>2 DEF SeenOK
<1>4. \A o : Undone(o)' <=> Undone(o)
  BY <1>3 DEF Undone
<1>5. ReceiptsOK' /\ \A o \in Orders : ReportedSettled(o)' => ReportedSettled(o)
  <2>1. CASE receipts' = receipts
    BY <1>2, <2>1 DEF ReceiptsOK, ReportedSettled
  <2>2. ASSUME NEW keys, NEW outcome \in Reports \ {"settled"}, receipts' = Report(keys, outcome)
        PROVE  ReceiptsOK' /\ \A o \in Orders : ReportedSettled(o)' => ReportedSettled(o)
    BY <1>2, <2>2, Reported
  <2> QED
    BY <2>1, <2>2
<1>6. SettledStands'
  BY <1>1, <1>2, <1>3, <1>4, <1>5 DEF SettledStands
<1>7. SettledIsFinal'
  BY <1>1, <1>2, <1>5 DEF SettledIsFinal
<1> QED
  BY <1>1, <1>3, <1>5, <1>6, <1>7 DEF FillsIInv, ReportsOK

\* The receipts of _finalize_round for a confirmed round that is on the chain.
LEMMA ConfirmedIsTrue ==
    ASSUME FillsIInv, NEW rec, Landed(chain, rec.round), Confirmed(rec), FinalizeRound(rec),
           chain' = chain, final' = final, reorgs' = reorgs
    PROVE  FillsIInv'
<1>1. ChainOK' /\ SettlesOnce' /\ Settled(FinalChain)' = Settled(FinalChain) /\ Settled(chain)' = Settled(chain)
  BY DEF FillsIInv, ChainOK, IsASequence, SettlesOnce, Holds, FinalChain, Settled, Rounds, Entries
<1>2. SeenOK /\ SettledStands /\ SettledIsFinal /\ ReceiptsOK
  BY DEF FillsIInv, ReportsOK
<1>3. /\ ReceiptsOK'
      /\ \A o \in Orders : ReportedSettled(o)' => ReportedSettled(o) \/ o \in OwnKeys(rec)
  <2>1. receipts' = Report(OwnKeys(rec), "settled") /\ "settled" \in Reports
    BY DEF FinalizeRound, Reports
  <2> QED
    BY <1>2, <2>1, Reported
<1>4. OwnKeys(rec) \subseteq Keys(rec) /\ Keys(rec) \subseteq Settled(chain)
  BY DEF OwnKeys, Keys, Landed, Settled
<1>5. Final(rec) => Keys(rec) \subseteq Settled(FinalChain)
  BY DEF Final, Keys, Landed, Settled
<1> DEFINE held == IF Final(rec) THEN {} ELSE Keys(rec)
<1>6. seen' = [seen EXCEPT !.early = [o \in held \cup DOMAIN seen.early |->
                                          IF o \in held THEN reorgs ELSE seen.early[o]]]
  BY DEF FinalizeRound
<1>7. /\ "early" \in DOMAIN seen'
      /\ DOMAIN seen'.early = held \cup DOMAIN seen.early
      /\ \A o \in DOMAIN seen'.early : seen'.early[o] = IF o \in held THEN reorgs ELSE seen.early[o]
  BY <1>2, <1>6 DEF SeenOK
<1>8. SeenOK'
  BY <1>2, <1>7 DEF SeenOK
<1>9. ASSUME NEW o \in Orders, ReportedSettled(o)'
      PROVE  \/ o \in Settled(FinalChain)
             \/ o \in DOMAIN seen'.early /\ o \in Settled(chain)
             \/ Undone(o)'
  <2>1. CASE o \in held
    BY <1>4, <1>7, <2>1
  <2>2. CASE o \notin held /\ o \in OwnKeys(rec)
    BY <1>4, <1>5, <2>2
  <2>3. CASE o \notin held /\ o \notin OwnKeys(rec)
    <3>1. ReportedSettled(o)
      BY <1>3, <1>9, <2>3
    <3>2. Undone(o) => Undone(o)'
      BY <1>7, <2>3 DEF Undone
    <3> QED
      BY <1>2, <1>7, <3>1, <3>2 DEF SettledStands
  <2> QED
    BY <2>1, <2>2, <2>3
<1>10. SettledStands'
  BY <1>1, <1>9 DEF SettledStands
<1>11. SettledIsFinal'
  <2> SUFFICES ASSUME ~SettleHold, NEW o \in Orders, ReportedSettled(o)'
               PROVE  o \in Settled(FinalChain)
    BY <1>1 DEF SettledIsFinal
  <2>1. Final(rec)
    BY DEF Confirmed
  <2> QED
    BY <1>2, <1>3, <1>4, <1>5, <2>1 DEF SettledIsFinal
<1> QED
  BY <1>1, <1>3, <1>8, <1>10, <1>11 DEF FillsIInv, ReportsOK

LEMMA FillsStep ==
    ASSUME FillsIInv, [Next]_vars
    PROVE  FillsIInv'
<1>1. CASE UNCHANGED vars
  BY <1>1, ReportsAreTrue DEF vars, chainVars, queueVars
<1>2. CASE ChainStep
  <2>1. ASSUME NEW r \in relayed, PayloadLost(r)
        PROVE  FillsIInv'
    BY <2>1, ReportsAreTrue DEF PayloadLost, queueVars
  <2>2. ASSUME NEW o, CommitLands(o)
        PROVE  FillsIInv'
    BY <2>2, OtherEntry DEF CommitLands
  <2>3. ASSUME NEW o, CancelLands(o)
        PROVE  FillsIInv'
    BY <2>3, OtherEntry DEF CancelLands
  <2>4. ASSUME NEW o, OtherMarket(o)
        PROVE  FillsIInv'
    BY <2>4, OtherEntry DEF OtherMarket
  <2> QED
    BY <1>2, <2>1, <2>2, <2>3, <2>4, RoundLands, HeadFinalized, ForkWins DEF ChainStep
<1>3. CASE Sweep \/ ReadDead \/ SweepReadFails \/ Build \/ Plan \/ ReadFloors \/ Submit \/ SubmitBusy
  BY <1>3, ReportsAreTrue
  DEF Sweep, ReadDead, SweepReadFails, Build, Plan, ReadFloors, Submit, SubmitBusy, chainVars, queueVars
<1>4. CASE ZombiesDone \/ ZombieReadFails \/ DrainCarryRetry \/ CoolDown
  BY <1>4, ReportsAreTrue
  DEF ZombiesDone, ZombieReadFails, DrainCarryRetry, CoolDown, chainVars, queueVars
<1>5. CASE ResolveInflight
  <2>1. chain' = chain /\ final' = final /\ reorgs' = reorgs
    BY <1>5 DEF ResolveInflight, chainVars
  <2>2. PICK fr : FirstSighting(fr) \/ FinalizeInflight(fr) \/ SettlementReverted(fr)
                  \/ ReleaseDead(fr) \/ ReleaseOverdue(fr) \/ Wait(fr)
    BY <1>5 DEF ResolveInflight
  <2>3. CASE FinalizeInflight(fr)
    BY <2>1, <2>3, ConfirmedIsTrue DEF FinalizeInflight
  <2>4. CASE ~FinalizeInflight(fr)
    <3>1. receipts' = receipts /\ seen' = seen
      BY <2>2, <2>4
      DEF FirstSighting, SettlementReverted, ReleaseDead, ReleaseOverdue, Wait, queueVars
    <3> QED
      BY <2>1, <3>1, ReportsAreTrue
  <2> QED
    BY <2>3, <2>4
<1>6. CASE ResolveZombie
  <2>1. chain' = chain /\ final' = final /\ reorgs' = reorgs
    BY <1>6 DEF ResolveZombie, chainVars
  <2>2. PICK z : ClaimZombie(z) \/ FinalizeZombie(z) \/ UnclaimZombie(z)
                 \/ ForgetZombie(z) \/ KeepZombie(z) \/ SkipZombie
    BY <1>6 DEF ResolveZombie
  <2>3. CASE FinalizeZombie(z)
    BY <2>1, <2>3, ConfirmedIsTrue DEF FinalizeZombie
  <2>4. CASE ~FinalizeZombie(z)
    <3>1. receipts' = receipts /\ seen' = seen
      BY <2>2, <2>4
      DEF ClaimZombie, UnclaimZombie, ForgetZombie, KeepZombie, SkipZombie, queueVars
    <3> QED
      BY <2>1, <3>1, ReportsAreTrue
  <2> QED
    BY <2>3, <2>4
<1>7. CASE Assemble
  BY <1>7, ReportsAreTrue DEF Assemble, Reports, chainVars
<1>8. CASE BuildFails
  BY <1>8, ReportsAreTrue DEF BuildFails, Reports, chainVars
<1>9. CASE TraderStep
  BY <1>9, ReportsAreTrue DEF TraderStep, Place, CancelPending, Reports, chainVars
<1> QED
  BY <1>1, <1>2, <1>3, <1>4, <1>5, <1>6, <1>7, <1>8, <1>9 DEF Next, SweepStep, BuildStep, ZombieStep

LEMMA FillsInit ==
    ASSUME Init
    PROVE  FillsIInv
<1>1. ChainOK
  BY EmptySeq DEF Init, ChainOK, IsASequence
<1>2. receipts = [o \in Orders |-> <<>>] /\ chain = <<>>
  BY DEF Init
<1>3. ReceiptsOK /\ \A o \in Orders : ~ReportedSettled(o)
  BY <1>2, EmptySeq DEF ReceiptsOK, ReportedSettled, ToSet
<1>4. SeenOK
  BY DEF Init, SeenOK
<1> QED
  BY <1>1, <1>2, <1>3, <1>4, EmptySeq DEF FillsIInv, ReportsOK, SettledStands, SettledIsFinal, SettlesOnce

\* An order that the builder reported settled is settled in the finalized chain,
\* whatever is refused, lost, re-orged or lands late, for any orders and bounds;
\* under a settle hold it may instead be on the best chain, which only a re-org
\* later than the report takes from it (_finalize_round runs only for what is
\* marked landed and _confirmed).
THEOREM SettledForGood == Spec => [](SettledStands /\ SettledIsFinal)
<1>1. FillsIInv => SettledStands /\ SettledIsFinal
  BY DEF FillsIInv, ReportsOK
<1> QED
  BY <1>1, FillsInit, FillsStep, PTL DEF Spec

\* Two rounds that share an order are never both on the chain: what
\* _rival_landed takes for granted when it reads two markers.
THEOREM RivalsExclude == Spec => []SettlesOnce
<1>1. FillsIInv => SettlesOnce
  BY DEF FillsIInv
<1> QED
  BY <1>1, FillsInit, FillsStep, PTL DEF Spec

-----------------------------------------------------------------------------
(* One round in flight: where the holder of the market's lock is, tells    *)
(* whether there is a round in flight.                                     *)
IsRecord(rec, r) == "round" \in DOMAIN rec /\ rec.round = r
Tracked(r) == \E rec : inflight = <<rec>> /\ IsRecord(rec, r)
AtMostOne == inflight = <<>> \/ \E r : Tracked(r)

LockKnows ==
    /\ at \in {"plan", "floors", "assemble"} => inflight = <<>>
    /\ at = "zombies" /\ after \in {"plan", "assemble"} => inflight = <<>>
    /\ at \in {"dead", "marker", "submit"} => inflight # <<>>
    /\ at = "zombies" /\ after = "dead" => inflight # <<>>
    /\ at = "zombies" => after \in {"free", "plan", "assemble", "dead"}

LockIInv == AtMostOne /\ LockKnows

KeepsRound == inflight = <<>> \/ inflight' = <<>> \/ inflight'[1].round = inflight[1].round

LEMMA TrackedRound ==
    ASSUME NEW r, Tracked(r)
    PROVE  inflight # <<>> /\ Len(inflight) = 1 /\ inflight = <<inflight[1]>> /\ IsRecord(inflight[1], r)
  BY DEF Tracked

\* The same round, whatever else its record says.
LEMMA SameRound ==
    ASSUME NEW r, Tracked(r), Tracked(r)'
    PROVE  KeepsRound /\ AtMostOne' /\ inflight # <<>> /\ inflight' # <<>>
<1>1. inflight # <<>> /\ inflight[1].round = r
  BY TrackedRound DEF IsRecord
<1>2. inflight' # <<>> /\ inflight'[1].round = r
  BY DEF Tracked, IsRecord
<1> QED
  BY <1>1, <1>2 DEF KeepsRound, AtMostOne

LEMMA Singleton ==
    ASSUME NEW x
    PROVE  [j \in 1..1 |-> x] = <<x>>
<1> DEFINE s == [j \in 1..1 |-> x]
<1>1. s \in Seq({x})
  <2>1. s \in [1..1 -> {x}]
    OBVIOUS
  <2> QED
    BY <2>1, SeqDef
<1>2. Len(s) = 1 /\ s[1] = x
  <2>1. DOMAIN s = 1..1 /\ s[1] = x
    OBVIOUS
  <2>2. DOMAIN s = 1..Len(s) /\ Len(s) \in Nat
    BY <1>1, LenProperties
  <2> HIDE DEF s
  <2> QED
    BY <2>1, <2>2
<1>3. <<x>> \in Seq({x}) /\ Len(<<x>>) = 1 /\ <<x>>[1] = x
  OBVIOUS
<1> HIDE DEF s
<1>4. s = <<x>>
  <2>1. Len(s) = Len(<<x>>) /\ \A i \in 1..Len(s) : s[i] = <<x>>[i]
    BY <1>2, <1>3
  <2> QED
    BY <1>1, <1>3, <2>1, SeqEqual
<1> QED
  BY <1>4 DEF s

\* What a record says of its round does not change with its other fields.
LEMMA ReMarked ==
    ASSUME NEW r, NEW rec, IsRecord(rec, r), NEW x
    PROVE  /\ IsRecord([rec EXCEPT !.ok = TRUE, !.dead = FALSE], r)
           /\ IsRecord([rec EXCEPT !.ok = FALSE], r)
           /\ IsRecord([rec EXCEPT !.dead = TRUE], r)
           /\ IsRecord([rec EXCEPT !.dead = FALSE], r)
           /\ IsRecord([rec EXCEPT !.claimed = x], r)
  BY DEF IsRecord

NotedByAll(z) == [j \in 1..Len(inflight) |-> IF j = 0 THEN inflight[j] ELSE Noted(inflight[j], z)]
UnnotedByAll(z) == [j \in 1..Len(inflight) |-> IF j = 0 THEN inflight[j] ELSE Unnoted(inflight[j], z)]

\* Noting or un-noting what another round holds keeps the round in flight.
LEMMA NotesKeep ==
    ASSUME AtMostOne, NEW z,
           \/ inflight' = NotedByAll(z)
           \/ inflight' = UnnotedByAll(z)
    PROVE  (inflight = <<>> /\ inflight' = <<>>) \/ \E r : Tracked(r) /\ Tracked(r)'
<1>1. CASE inflight = <<>>
  BY <1>1 DEF NotedByAll, UnnotedByAll
<1>2. ASSUME NEW r, Tracked(r)
      PROVE  Tracked(r)'
  <2>1. Len(inflight) = 1 /\ IsRecord(inflight[1], r)
    BY <1>2, TrackedRound
  <2>2. \E c : inflight' = [j \in 1..1 |-> [inflight[1] EXCEPT !.claimed = c]]
    <3>1. CASE inflight' = NotedByAll(z)
      <4> DEFINE d == [o \in Keys(inflight[1]) \cap Keys(z) |-> z.round] @@ inflight[1].claimed
      <4>1. inflight' = [j \in 1..1 |-> [inflight[1] EXCEPT !.claimed = d]]
        BY <2>1, <3>1 DEF NotedByAll, Noted
      <4> QED
        BY <4>1, Zenon
    <3>2. CASE inflight' = UnnotedByAll(z)
      <4> DEFINE c == inflight[1].claimed
                 d == [o \in {k \in DOMAIN c : c[k] # z.round} |-> c[o]]
      <4>1. inflight' = [j \in 1..1 |-> [inflight[1] EXCEPT !.claimed = d]]
        BY <2>1, <3>2 DEF UnnotedByAll, Unnoted
      <4> QED
        BY <4>1
    <3> QED
      BY <3>1, <3>2
  <2>3. PICK c : inflight' = [j \in 1..1 |-> [inflight[1] EXCEPT !.claimed = c]]
    BY <2>2
  <2>4. inflight' = <<[inflight[1] EXCEPT !.claimed = c]>>
    BY <2>3, Singleton, Zenon
  <2>5. IsRecord([inflight[1] EXCEPT !.claimed = c], r)
    BY <2>1, ReMarked
  <2> QED
    BY <2>4, <2>5 DEF Tracked
<1> QED
  BY <1>1, <1>2 DEF AtMostOne

LEMMA InflightKept ==
    ASSUME LockIInv, inflight' = inflight
    PROVE  KeepsRound /\ AtMostOne'
  BY DEF LockIInv, KeepsRound, AtMostOne, Tracked

LEMMA LockStep ==
    ASSUME LockIInv, [Next]_vars
    PROVE  LockIInv' /\ KeepsRound
<1> USE DEF LockIInv
<1>1. CASE UNCHANGED <<inflight, at, after>>
  BY <1>1, InflightKept DEF LockKnows
<1>2. CASE Sweep \/ Build
  BY <1>2, InflightKept DEF Sweep, Build, EnterZombies, LockKnows
<1>3. CASE ReadDead \/ Plan
  BY <1>3, InflightKept DEF ReadDead, Plan, LockKnows
<1>4. CASE ReadFloors
  BY <1>4, InflightKept DEF ReadFloors, EnterZombies, LockKnows
<1>5. CASE SweepReadFails \/ BuildFails \/ Submit \/ ZombieReadFails
  BY <1>5, InflightKept DEF SweepReadFails, BuildFails, Submit, ZombieReadFails, Release, LockKnows
<1>6. CASE SubmitBusy
  BY <1>6 DEF SubmitBusy, Release, LockKnows, AtMostOne, KeepsRound
<1>7. CASE ZombiesDone
  BY <1>7, InflightKept DEF ZombiesDone, LockKnows
<1>8. CASE ResolveInflight
  <2>1. PICK r : Tracked(r)
    BY <1>8 DEF ResolveInflight, LockKnows, AtMostOne
  <2>3. IsRecord(inflight[1], r)
    BY <2>1, TrackedRound
  <2>4. LockKnows'
    BY <1>8 DEF ResolveInflight, Release, LockKnows
  <2>5. \/ inflight' = <<>>
        \/ inflight' = <<[inflight[1] EXCEPT !.ok = TRUE, !.dead = FALSE]>>
        \/ inflight' = <<[inflight[1] EXCEPT !.ok = FALSE]>>
        \/ inflight' = <<[inflight[1] EXCEPT !.dead = TRUE]>>
        \/ inflight' = <<[inflight[1] EXCEPT !.dead = FALSE]>>
    BY <1>8, Zenon
    DEF ResolveInflight, FirstSighting, FinalizeInflight, SettlementReverted, ReleaseDead,
        ReleaseOverdue, Wait, Abandon
  <2>6. inflight' = <<>> \/ \E rec : inflight' = <<rec>> /\ IsRecord(rec, r)
    BY <2>3, <2>5, ReMarked
  <2>7. inflight' = <<>> \/ Tracked(r)'
    BY <2>6 DEF Tracked, IsRecord
  <2> QED
    BY <2>1, <2>4, <2>7, SameRound DEF AtMostOne, KeepsRound
<1>9. CASE ResolveZombie
  <2>1. at' = at /\ after' = after
    BY <1>9 DEF ResolveZombie
  <2>2. CASE inflight' = inflight
    BY <1>1, <2>1, <2>2
  <2>3. CASE inflight' # inflight
    <3>1. PICK z : \/ inflight' = NotedByAll(z)
                   \/ inflight' = UnnotedByAll(z)
      BY <1>9, <2>3, Zenon
      DEF ResolveZombie, ClaimZombie, FinalizeZombie, UnclaimZombie, ForgetZombie, KeepZombie, SkipZombie,
          Elsewhere, NotedByAll, UnnotedByAll
    <3>2. (inflight = <<>> /\ inflight' = <<>>) \/ \E r : Tracked(r) /\ Tracked(r)'
      BY <3>1, NotesKeep
    <3>3. KeepsRound /\ AtMostOne' /\ (inflight' = <<>> <=> inflight = <<>>)
      BY <3>2, SameRound DEF KeepsRound, AtMostOne
    <3> QED
      BY <2>1, <3>3 DEF LockKnows
  <2> QED
    BY <2>2, <2>3
<1>10. CASE Assemble
  <2>1. inflight = <<>>
    BY <1>10 DEF Assemble, LockKnows
  <2>2. CASE inflight' = inflight /\ Release
    BY <2>2, InflightKept DEF Release, LockKnows
  <2>3. CASE at' = "submit" /\ \E rd : inflight' = <<Record(rd)>>
    <3>1. PICK rd : inflight' = <<Record(rd)>>
      BY <2>3
    <3>2. Tracked(rd)'
      BY <3>1 DEF Tracked, Record, IsRecord
    <3>3. inflight' # <<>>
      BY <3>1
    <3> QED
      BY <2>1, <2>3, <3>2, <3>3 DEF AtMostOne, KeepsRound, LockKnows
  <2> QED
    BY <1>10, <2>2, <2>3 DEF Assemble
<1>11. CASE ChainStep \/ TraderStep \/ DrainCarryRetry \/ CoolDown \/ UNCHANGED vars
  <2>1. CASE ChainStep
    BY <1>1, <2>1
    DEF ChainStep, Land, PayloadLost, CommitLands, CancelLands, OtherMarket, FinalityAdvances, Reorg, Extend,
        lockVars
  <2>2. CASE TraderStep \/ DrainCarryRetry \/ CoolDown \/ UNCHANGED vars
    BY <1>1, <2>2 DEF TraderStep, Place, CancelPending, DrainCarryRetry, CoolDown, lockVars, vars
  <2> QED
    BY <1>11, <2>1, <2>2
<1> QED
  BY <1>2, <1>3, <1>4, <1>5, <1>6, <1>7, <1>8, <1>9, <1>10, <1>11
  DEF Next, SweepStep, BuildStep, ZombieStep

\* A market never has two rounds in flight: while one is, no build puts another
\* in its place, whoever held the market's lock in between and whatever failed
\* (_build_round returns early, _resolve_inflight pops it).
THEOREM RoundNeverOvertaken == Spec => NeverOvertaken
<1>1. Init => LockIInv
  BY DEF Init, LockIInv, AtMostOne, LockKnows
<1>2. LockIInv /\ [Next]_vars => LockIInv' /\ [KeepsRound]_vars
  BY LockStep
<1> QED
  BY <1>1, <1>2, PTL DEF Spec, NeverOvertaken, KeepsRound
=============================================================================
