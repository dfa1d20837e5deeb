------------------------------ MODULE Receipts ------------------------------
(***************************************************************************)
(* What the builder shows traders of settled rounds (offchain/server.py):  *)
(* the trade tape, printed when a market's cumulative volume has grown,    *)
(* and the fill receipts with their finality.  Both are kept in files that *)
(* a restart reads back, and both look at a chain that re-organises.       *)
(* Every round has a volume of one.                                        *)
(***************************************************************************)
EXTENDS Integers, Sequences, SequencesExt, FiniteSets

CONSTANTS
    Fills,          \* rounds with fills
    MaxReorgs,      \* bound on re-organisations
    MaxStarts       \* bound on restarts

ASSUME ReceiptsAssumption == MaxReorgs \in Nat /\ MaxStarts \in Nat

Unseen == -1

(***************************************************************************)
(* best: the rounds settled on the best chain, in order; final: how many   *)
(* of them are finalized; reorgs, starts: counted for their bounds.        *)
(* last: _last_cv; tape: the volume on the tape, which every print saves;  *)
(* execs: the receipts, as [round, final]; file: what _save_execs wrote    *)
(* last.                                                                   *)
(* kept: the volume the present process found on the tape; landed: rounds  *)
(* that were on the best chain since it started; landings: how often a     *)
(* round came onto the best chain (history).                               *)
(***************************************************************************)
VARIABLES best, final, reorgs, starts, last, tape, execs, file, kept, landed, landings

receiptVars == <<best, final, reorgs, starts, last, tape, execs, file, kept, landed, landings>>
chainSide == <<best, final, reorgs, kept, landed, landings>>

ReceiptsInit ==
    /\ best = <<>> /\ final = 0 /\ reorgs = 0 /\ starts = 0
    /\ last = Unseen /\ tape = 0 /\ execs = {} /\ file = {}
    /\ kept = 0 /\ landed = {} /\ landings = 0

\* Whether a round's landed marker is in the state at the finalized head.
MarkerFinal(r) == \E i \in 1..final : best[i] = r

-----------------------------------------------------------------------------
Settles(r) ==
    /\ ~Contains(best, r)
    /\ best' = Append(best, r) /\ landed' = landed \cup {r} /\ landings' = landings + 1
    /\ UNCHANGED <<final, reorgs, starts, last, tape, execs, file, kept>>

Finalizes ==
    /\ final < Len(best) /\ final' = final + 1
    /\ UNCHANGED <<best, reorgs, starts, last, tape, execs, file, kept, landed, landings>>

\* The best chain loses rounds that were not final.
Reorganises(n) ==
    /\ reorgs < MaxReorgs /\ n \in final..(Len(best) - 1)
    /\ reorgs' = reorgs + 1 /\ best' = SubSeq(best, 1, n)
    /\ UNCHANGED <<final, starts, last, tape, execs, file, kept, landed, landings>>

-----------------------------------------------------------------------------

\* record_trade: the first look only sets the mark; later ones print growth above it.
RecordTrade ==
    /\ last' = IF Len(best) > last THEN Len(best) ELSE last
    /\ tape' = IF last # Unseen /\ Len(best) > last THEN tape + Len(best) - last ELSE tape
    /\ UNCHANGED <<chainSide, starts, execs, file>>

\* record_executions of a settled round: receipted on the best chain, with the
\* finality its marker has then (read as not final when the read fails).
RecordExecution(r, readable) ==
    /\ Contains(best, r) /\ \A e \in execs : e.round # r
    /\ execs' = execs \cup {[round |-> r, final |-> readable /\ MarkerFinal(r)]}
    /\ file' = execs'
    /\ UNCHANGED <<chainSide, starts, last, tape>>

\* Bug: the marker is looked for at the best head.
RefreshFinalAtBest(shown) ==
    /\ shown # {}
    /\ execs' = {[e EXCEPT !.final = @ \/ (e \in shown /\ Contains(best, e.round))] : e \in execs}
    /\ file' = IF execs' # execs THEN execs' ELSE file
    /\ UNCHANGED <<chainSide, starts, last, tape>>

\* api_executions, _refresh_final: the receipts shown that are not final yet are
\* looked up in the state at the finalized head.
RefreshFinal(shown) ==
    /\ shown # {}
    /\ execs' = {[e EXCEPT !.final = @ \/ (e \in shown /\ MarkerFinal(e.round))] : e \in execs}
    /\ file' = IF execs' # execs THEN execs' ELSE file
    /\ UNCHANGED <<chainSide, starts, last, tape>>

\* load_trades, load_execs: tape and receipts come back from their files, unless
\* those were lost; the volume mark does not.
Restarts(tapeLost, execsLost) ==
    /\ starts < MaxStarts /\ starts' = starts + 1
    /\ last' = Unseen
    /\ tape' = IF tapeLost THEN 0 ELSE tape
    /\ execs' = IF execsLost THEN {} ELSE file
    /\ kept' = tape' /\ landed' = ToSet(best)
    /\ UNCHANGED <<best, final, reorgs, file, landings>>

ReceiptsNext ==
    \/ \E r \in Fills : Settles(r) \/ \E readable \in BOOLEAN : RecordExecution(r, readable)
    \/ Finalizes \/ RecordTrade
    \/ \E n \in 0..Len(best) : Reorganises(n)
    \/ \E shown \in SUBSET {e \in execs : ~e.final} : RefreshFinal(shown)
    \/ \E tapeLost, execsLost \in BOOLEAN : Restarts(tapeLost, execsLost)

ReceiptsSpec == ReceiptsInit /\ [][ReceiptsNext]_receiptVars

-----------------------------------------------------------------------------
(***************************************************************************)
(* No print without a landing of its own.  A process prints a round once:  *)
(* what it added to the tape never exceeds the rounds that were on the     *)
(* best chain while it ran, though they leave it in a re-organisation and  *)
(* land again.  Over restarts the tape goes on, and a round that was       *)
(* printed, lost to a re-organisation and landed again after a restart is  *)
(* on it twice, but it landed twice: the tape never exceeds the landings.  *)
(***************************************************************************)
TapeCountsOnce == tape - kept <= Cardinality(landed) /\ tape <= landings

(***************************************************************************)
(* A receipt that says final is final: its round is in the finalized state *)
(* and stays there, across restarts and re-organisations.                  *)
(***************************************************************************)
FinalMeansFinal == \A e \in execs \cup file : e.final => MarkerFinal(e.round)

(***************************************************************************)
(* What traders are shown is true: volume printed once per landing, and    *)
(* final only when the chain says so.                                      *)
(***************************************************************************)
ReceiptsTrue == TapeCountsOnce /\ FinalMeansFinal
=============================================================================
