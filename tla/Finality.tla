------------------------------ MODULE Finality ------------------------------
(***************************************************************************)
(* When a landed round may be receipted (offchain/server.py):              *)
(* _read_finality with its cache, _track_finality, _finality_advancing,    *)
(* settle_hold_secs and _confirmed.  Several threads look at the finalized *)
(* head (the resolver, requests, scrapes); nothing locks what they share.  *)
(* A look is one step; the resolver's judgement is three, for it asks the  *)
(* chain once and whether finality advances twice, all at the time its     *)
(* sweep was stamped with.  SETTLE_HOLD_SECS is unset (the derived hold).  *)
(***************************************************************************)
EXTENDS Integers

CONSTANTS
    FINALITY_WINDOW,    \* FINALITY_WINDOW_SLOTS * SLOT_SECS
    SETTLE_HOLD,        \* SETTLE_HOLD_SLOTS * SLOT_SECS
    MIN_CONFIRM,        \* MIN_CONFIRM_SECS
    CACHE_SECS,         \* how long a look is remembered
    MaxTime,            \* bound on the time
    MaxFinal            \* bound on the finalized head

ASSUME FinalityAssumption ==
    /\ {FINALITY_WINDOW, SETTLE_HOLD, MIN_CONFIRM, CACHE_SECS, MaxTime, MaxFinal} \subseteq Nat \ {0}
    /\ MIN_CONFIRM < SETTLE_HOLD

(***************************************************************************)
(* time, headFinal and movedAt: the clock, the finalized head and when it  *)
(* really moved last.  home: the block the round landed in, 0 while it is  *)
(* not on the best chain.  readsFinal: the backend reads the finalized     *)
(* state (jip2).  looked and track: _fin_cache and _fin_track.  okSince:   *)
(* the first sighting.  judge: the resolver's judgement under way, `now'   *)
(* its stamp, `yes' the last answer on whether finality advances, `other'  *)
(* whether another thread looked since the first of them.  receipted: how  *)
(* the round was confirmed, which ends the life of this module.            *)
(***************************************************************************)
VARIABLES time, headFinal, movedAt, home, readsFinal, looked, track, okSince, judge, receipted

ledgerSide == <<time, headFinal, movedAt, home, readsFinal>>
finalityVars == <<ledgerSide, looked, track, okSince, judge, receipted>>

Never == -1
NoJudge == [at |-> "idle", now |-> 0, yes |-> FALSE, other |-> FALSE]
NotYet == [how |-> "no", held |-> 0, final |-> FALSE, other |-> FALSE]

FinalityInit ==
    /\ time = 0 /\ headFinal = 1 /\ movedAt = -(FINALITY_WINDOW + 1) /\ home = 0 /\ readsFinal \in BOOLEAN
    /\ looked = [t |-> Never, available |-> FALSE] /\ track = [key |-> 0, seen |-> Never, moved |-> Never]
    /\ okSince = Never /\ judge = NoJudge /\ receipted = NotYet

\* Bug: a move is dated by the look that finds it.
TrackNow(t) ==
    [key |-> headFinal, seen |-> t, moved |-> IF track.key \notin {0, headFinal} THEN t ELSE track.moved]

(* _track_finality.  A move happened at some moment since the look before: *)
(* the earliest one is noted.                                              *)
Track(t) ==
    [key |-> headFinal, seen |-> t,
     moved |-> IF track.key \notin {0, headFinal} THEN track.seen ELSE track.moved]

(* _read_finality at time t: from the cache, or from a chain that may not  *)
(* answer.                                                                 *)
Remembered(t) == looked.t # Never /\ t - looked.t < CACHE_SECS

ReadFinality(t, answers) ==
    IF Remembered(t) THEN UNCHANGED <<looked, track>>
    ELSE /\ looked' = [t |-> t, available |-> answers]
         /\ track' = IF answers THEN Track(t) ELSE track

Advancing(t) ==     \* the value _finality_advancing returns, after its look
    looked'.available /\ track'.moved # Never /\ t - track'.moved <= FINALITY_WINDOW

\* settle_hold_secs
SettleHold(advancing) == IF advancing THEN 0 ELSE SETTLE_HOLD

(* Another thread looks: /api/finality, a receipt, a scrape, a build.      *)
Looks(answers) ==
    /\ ~Remembered(time)
    /\ ReadFinality(time, answers)
    /\ judge' = [judge EXCEPT !.other = judge.at = "hold"]
    /\ UNCHANGED <<ledgerSide, okSince, receipted>>

(* The sweep reads the marker on the best chain: first sighting, reverted, *)
(* or to be judged.  For the judgement the marker is read in the finalized *)
(* state; a read that fails leaves the round for the next sweep.           *)
Sights ==
    /\ judge.at = "idle"
    /\ \/ home # 0 /\ okSince = Never /\ okSince' = time
       \/ home = 0 /\ okSince # Never /\ okSince' = Never
    /\ UNCHANGED <<ledgerSide, looked, track, judge, receipted>>

ReadsMarker ==
    /\ judge.at = "idle" /\ home # 0 /\ okSince # Never
    /\ IF readsFinal /\ home <= headFinal
       THEN receipted' = [NotYet EXCEPT !.how = "final", !.final = TRUE] /\ UNCHANGED judge
       ELSE /\ judge' = [NoJudge EXCEPT !.at = IF readsFinal THEN "asks" ELSE "hold", !.now = time]
            /\ UNCHANGED receipted
    /\ UNCHANGED <<ledgerSide, looked, track, okSince>>

(* A backend that reads the finalized state waits for finality to reach    *)
(* the landing while finality advances.                                    *)
AsksAdvancing(answers) ==
    /\ judge.at = "asks"
    /\ ReadFinality(judge.now, answers)
    /\ LET yes == Advancing(judge.now)
       IN judge' = [judge EXCEPT !.at = IF yes THEN "idle" ELSE "hold", !.yes = yes]
    /\ UNCHANGED <<ledgerSide, okSince, receipted>>

AsksHold(answers) ==
    /\ judge.at = "hold"
    /\ ReadFinality(judge.now, answers)
    /\ LET yes == Advancing(judge.now)
           held == judge.now - okSince
           hold == SettleHold(yes)
       IN /\ judge' = [judge EXCEPT !.at = "idle", !.yes = yes]
          /\ receipted' = IF held >= hold /\ held >= MIN_CONFIRM
                          THEN [how |-> "held", held |-> held, final |-> home \in 1 .. headFinal,
                                other |-> judge.other]
                          ELSE receipted
    /\ UNCHANGED <<ledgerSide, okSince>>

(* The chain: time passes, the finalized head moves, the round lands above *)
(* it, and a re-organisation takes a landing back that is not final.       *)
TimeGoesOn == time < MaxTime /\ time' = time + 1 /\ UNCHANGED <<headFinal, movedAt, home, readsFinal>>
FinalityMoves == headFinal < MaxFinal /\ headFinal' = headFinal + 1 /\ movedAt' = time /\ UNCHANGED <<time, home, readsFinal>>
RoundIsHome == home = 0 /\ home' \in headFinal + 1 .. headFinal + 2 /\ UNCHANGED <<time, headFinal, movedAt, readsFinal>>
RoundReverted == home > headFinal /\ home' = 0 /\ UNCHANGED <<time, headFinal, movedAt, readsFinal>>

ChainMoves ==
    /\ TimeGoesOn \/ FinalityMoves \/ RoundIsHome \/ RoundReverted
    /\ UNCHANGED <<looked, track, okSince, judge, receipted>>

FinalityNext ==
    /\ receipted = NotYet
    /\ \/ \E answers \in BOOLEAN : Looks(answers) \/ AsksAdvancing(answers) \/ AsksHold(answers)
       \/ Sights \/ ReadsMarker \/ ChainMoves

FinalitySpec == FinalityInit /\ [][FinalityNext]_finalityVars

(***************************************************************************)
(* A stalled finality never looks fresh: whenever _finality_advancing says *)
(* yes, the finalized head really moved within the window, whoever looked  *)
(* and however long nobody did.                                            *)
(***************************************************************************)
AdvancingIsRecent == judge.yes => movedAt >= judge.now - FINALITY_WINDOW

(***************************************************************************)
(* On a backend that reads the finalized state a round is receipted when   *)
(* its marker is there or when it held for the whole settle hold, unless   *)
(* another thread looked between the two questions of one judgement (it    *)
(* may have seen finality move: the first answer was no, the second is     *)
(* yes, and the hold is 0 for a landing that is not final).                *)
(***************************************************************************)
HeldOrFinal ==
    (readsFinal /\ receipted.how = "held" /\ ~receipted.other) => receipted.held >= SETTLE_HOLD

(***************************************************************************)
(* Finality replaces the settle hold only while it really advances.        *)
(***************************************************************************)
FinalityTrusted == AdvancingIsRecent /\ HeldOrFinal
=============================================================================
