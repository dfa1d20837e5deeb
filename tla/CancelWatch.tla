---------------------------- MODULE CancelWatch ----------------------------
(***************************************************************************)
(* How a resting order ends (offchain/server.py api_cancel and             *)
(* _resolve_cancels, expired_pairs, and the receipts of a settled round):  *)
(* its owner's signed cancel, a fill and the prune of an expired order     *)
(* race each other on chain, and three loops of the builder find out which *)
(* of them won.  One market; every order has its own account.              *)
(***************************************************************************)
EXTENDS Relay, Sequences, SequencesExt

CONSTANTS
    Resting,        \* the orders that rest on the book
    MaxRounds       \* bound on the rounds built

ASSUME CancelAssumption == MaxRounds \in Nat

(***************************************************************************)
(* On chain: book and its version, used (accounts whose nonce has passed   *)
(* the cancel's); history: taken (another operation used that nonce),      *)
(* filled (in full), removed (by a cancel).  Under way: sent (cancels).    *)
(* In the builder: rounds (in flight, or released and still watched),      *)
(* watch (_cancel_watch), due (order_expiry entries that have passed),     *)
(* ends (the receipts and terminals of each order), lapsed (history).      *)
(***************************************************************************)
VARIABLES book, version, used, taken, filled, removed, sent, rounds, built, watch, due, ends, lapsed

onChain == <<book, version, used, taken, filled, removed>>
cancelVars == <<onChain, sent, rounds, built, watch, due, ends, lapsed>>

CancelInit ==
    /\ book = Resting /\ version = 0 /\ used = {} /\ taken = {} /\ filled = {} /\ removed = {} /\ sent = {}
    /\ rounds = {} /\ built = 0 /\ watch = {} /\ due = {}
    /\ ends = [o \in Resting |-> <<>>] /\ lapsed = {}

Open(o) == ends[o] = <<>>
Ended(os, outcome, e) == [o \in Resting |-> IF o \in os THEN Append(e[o], outcome) ELSE e[o]]

-----------------------------------------------------------------------------
\* api_cancel: only a cancel that was taken, of an order seen resting, is watched.
ApiCancel(o, outcome) ==
    /\ o \in book /\ o \notin sent /\ \A c \in watch : c.order # o
    /\ sent' \in After(sent, o, outcome)
    /\ watch' = IF outcome = "ok" THEN watch \cup {[order |-> o, checked |-> FALSE]} ELSE watch
    /\ UNCHANGED <<onChain, rounds, built, due, ends, lapsed>>

\* CANCEL is accumulated: the nonce moves on, and the order goes if it is there.
CancelLands(o) ==
    /\ o \in sent /\ o \notin used
    /\ used' = used \cup {o}
    /\ book' = book \ {o} /\ removed' = removed \cup ({o} \cap book)
    /\ version' = IF o \in book THEN version + 1 ELSE version
    /\ UNCHANGED <<taken, filled, sent, rounds, built, watch, due, ends, lapsed>>

\* Another operation the owner signed with the same nonce comes first.
NonceTaken(o) ==
    /\ o \in sent \ used
    /\ used' = used \cup {o} /\ taken' = taken \cup {o}
    /\ UNCHANGED <<book, version, filled, removed, sent, rounds, built, watch, due, ends, lapsed>>

-----------------------------------------------------------------------------
Expires(o) ==
    /\ o \notin due /\ Open(o)
    /\ due' = due \cup {o}
    /\ UNCHANGED <<onChain, sent, rounds, built, watch, ends, lapsed>>

\* A round is built from the book: it prunes what expired_pairs names and fills
\* some of the others, in full or in part.
BuildRound(fills, gone) ==
    /\ built < MaxRounds /\ \A r \in rounds : r.released
    /\ gone \subseteq fills /\ fills \subseteq book \ due
    /\ built' = built + 1
    /\ rounds' = rounds \cup {[id |-> built, input |-> version, fills |-> fills, gone |-> gone,
                               pruned |-> book \cap due, landed |-> FALSE, released |-> FALSE]}
    /\ UNCHANGED <<onChain, sent, watch, due, ends, lapsed>>

\* It is accepted while the book is the one it was built on.
RoundLands(r) ==
    /\ r \in rounds /\ ~r.landed /\ r.input = version
    /\ rounds' = (rounds \ {r}) \cup {[r EXCEPT !.landed = TRUE]}
    /\ book' = book \ (r.gone \cup r.pruned) /\ version' = version + 1
    /\ filled' = filled \cup r.gone
    /\ UNCHANGED <<used, taken, removed, sent, built, watch, due, ends, lapsed>>

\* _abandon: it did not land in time, or cannot any more; it stays watched.
RoundReleased(r) ==
    /\ r \in rounds /\ ~r.landed /\ ~r.released
    /\ rounds' = (rounds \ {r}) \cup {[r EXCEPT !.released = TRUE]}
    /\ UNCHANGED <<onChain, sent, built, watch, due, ends, lapsed>>

\* _finalize_round: receipts for the fills, terminals for the pruned orders.
RoundSettles(r) ==
    /\ r \in rounds /\ r.landed
    /\ rounds' = rounds \ {r}
    /\ ends' = Ended(r.pruned, "expired", Ended(r.gone, "filled", ends))
    /\ due' = due \ r.pruned
    /\ UNCHANGED <<onChain, sent, built, watch, lapsed>>

-----------------------------------------------------------------------------
\* Bugs: every round that fills the order holds the cancel back, or none does.
MayFillUnlanded(o) == \E r \in rounds : o \in r.fills
MayFillNever(o) == FALSE

\* _may_fill: a round that fills the order has landed and is not settled yet.
MayFill(o) == \E r \in rounds : o \in r.fills /\ r.landed

\* _resolve_cancels reads the nonce and the rounds' markers first ...
ResolveCheck(c) ==
    /\ c \in watch /\ ~c.checked
    /\ c.order \in used /\ ~MayFill(c.order)
    /\ watch' = (watch \ {c}) \cup {[c EXCEPT !.checked = TRUE]}
    /\ UNCHANGED <<onChain, sent, rounds, built, due, ends, lapsed>>

\* ... and then the book: an order that is gone and still open was cancelled; one
\* that is still there was not, and is watched no more.
ResolveEnd(c) ==
    /\ c \in watch /\ c.checked
    /\ watch' = watch \ {c}
    /\ IF c.order \notin book /\ Open(c.order)
       THEN /\ ends' = Ended({c.order}, "cancelled", ends)
            /\ due' = due \ {c.order}
       ELSE UNCHANGED <<ends, due>>
    /\ UNCHANGED <<onChain, sent, rounds, built, lapsed>>

\* CANCEL_WATCH_SECS have passed.
WatchLapses(c) ==
    /\ c \in watch /\ ~c.checked
    /\ watch' = watch \ {c} /\ lapsed' = lapsed \cup {c.order}
    /\ UNCHANGED <<onChain, sent, rounds, built, due, ends>>

CancelNext ==
    \/ \E o \in Resting : \/ \E outcome \in Outcomes : ApiCancel(o, outcome)
                          \/ CancelLands(o) \/ NonceTaken(o) \/ Expires(o)
    \/ \E fills, gone \in SUBSET Resting : BuildRound(fills, gone)
    \/ \E r \in rounds : RoundLands(r) \/ RoundReleased(r) \/ RoundSettles(r)
    \/ \E c \in watch : ResolveCheck(c) \/ ResolveEnd(c) \/ WatchLapses(c)

CancelSpec == CancelInit /\ [][CancelNext]_cancelVars

\* What runs by itself: the resolver's sweep settles rounds and resolves cancels.
ResolverSteps ==
    \/ \E r \in rounds : RoundSettles(r)
    \/ \E c \in watch : ResolveCheck(c) \/ ResolveEnd(c)

-----------------------------------------------------------------------------
(***************************************************************************)
(* An order reported cancelled was not filled: the fill of a landed round  *)
(* that is not settled yet keeps the cancel from ending it, although the   *)
(* nonce, the rounds' markers and the book are read at different blocks.   *)
(* (It takes the nonce for the cancel: an owner who signed another         *)
(* operation with the same nonce is left out.)                             *)
(***************************************************************************)
CancelledNotFilled ==
    \A o \in Resting \ taken :
        /\ Contains(ends[o], "cancelled") => o \notin filled
        /\ \A i, j \in 1..Len(ends[o]) : ends[o][i] = "cancelled" /\ ends[o][j] = "cancelled" => i = j

(***************************************************************************)
(* A watched cancel that took its order off the book ends it, unless its   *)
(* watch lapses: no round that was released without landing holds it back, *)
(* and nothing else leaves the order open for good.                        *)
(***************************************************************************)
CancelResolves ==
    \A o \in Resting :
        (o \in removed /\ \E c \in watch : c.order = o) ~> (~Open(o) \/ o \in lapsed)
=============================================================================
