--------------------------- MODULE PendingLedger ----------------------------
(***************************************************************************)
(* The ledger of relayed submissions (offchain/metrics.py: track, refused, *)
(* _watch; server.submit).  Request threads file an entry before the relay *)
(* and mark it refused when no guarantor takes it; one watcher settles an  *)
(* entry or times it out.  The list is locked, the counter that names the  *)
(* entries is not: track reads it for the entry and raises it later.       *)
(***************************************************************************)
EXTENDS Integers, Sequences, SequencesExt, FiniteSets

CONSTANTS
    Relays,         \* the submissions with a settle predicate
    Counted,        \* the submissions without one
    LEDGER_KEEP     \* resolved entries kept

ASSUME PendingAssumption == LEDGER_KEEP \in Nat \ {0} /\ Relays \cap Counted = {}

Submissions == Relays \cup Counted

(***************************************************************************)
(* pendings: the list, oldest first.  seqNo: _seq.  relay: how far each    *)
(* thread is, and the id it read.  effect: submissions visible on chain.   *)
(* overdue: submissions older than SETTLE_TIMEOUT.  watching: the open     *)
(* entries of this tick still to be looked at, the ones overdue when it    *)
(* began, and the answer of the first one's predicate.  counts: the        *)
(* counters raised for each submission.                                    *)
(***************************************************************************)
VARIABLES pendings, seqNo, relay, effect, overdue, watching, counts

pendingVars == <<pendings, seqNo, relay, effect, overdue, watching, counts>>

PendingInit ==
    /\ pendings = <<>> /\ seqNo = 0 /\ relay = [s \in Submissions |-> [at |-> "idle", id |-> 0]]
    /\ effect = {} /\ overdue = {} /\ watching = [todo |-> <<>>, old |-> {}, seen |-> "none"]
    /\ counts = [s \in Submissions |-> {}]

EntryOpen(e) == e.check /\ ~e.settled /\ ~e.timedOut
PositionOf(s) == SelectInSeq(pendings, LAMBDA e : e.of = s)

\* Bug: the oldest entries go, open or not.
EvictOldest(list) == SubSeq(list, IF Len(list) > LEDGER_KEEP THEN Len(list) - LEDGER_KEEP + 1 ELSE 1, Len(list))

\* Oldest resolved entries beyond LEDGER_KEEP go; open ones stay.
Evict(list) ==
    LET Resolved(i) == ~EntryOpen(list[i])
        Kept(i) == Resolved(i) =>
            Cardinality({j \in i + 1 .. Len(list) : Resolved(j)}) < LEDGER_KEEP
    IN SelectSeq([i \in 1 .. Len(list) |-> [list[i] EXCEPT !.kept = Kept(i)]], LAMBDA e : e.kept)

(* track: the entry takes its id from the counter ...                      *)
TrackReads(s) ==
    /\ relay[s].at = "idle"
    /\ relay' = [relay EXCEPT ![s] = [at |-> "named", id |-> seqNo]]
    /\ UNCHANGED <<pendings, seqNo, effect, overdue, watching, counts>>

(* ... and later raises it and files the entry under the lock.             *)
TrackFiles(s) ==
    /\ relay[s].at = "named"
    /\ seqNo' = seqNo + 1
    /\ pendings' = Evict(Append(pendings, [of |-> s, id |-> relay[s].id, check |-> s \in Relays,
                                           settled |-> FALSE, timedOut |-> FALSE, kept |-> TRUE]))
    /\ relay' = [relay EXCEPT ![s].at = "sent"]
    /\ UNCHANGED <<effect, overdue, watching, counts>>

(* The relay: taken (or failed with an unknown outcome), or refused by     *)
(* every guarantor; refused() resolves the first entry with the id.        *)
RelayTaken(s) ==
    /\ relay[s].at = "sent"
    /\ relay' = [relay EXCEPT ![s].at = "done"]
    /\ UNCHANGED <<pendings, seqNo, effect, overdue, watching, counts>>

RelayRefused(s) ==
    /\ relay[s].at = "sent"
    /\ relay' = [relay EXCEPT ![s].at = "refused"]
    /\ LET i == SelectInSeq(pendings, LAMBDA e : e.id = relay[s].id)
       IN IF i = 0 THEN UNCHANGED <<pendings, counts>>
          ELSE /\ pendings' = [pendings EXCEPT ![i].check = FALSE]
               /\ counts' = [counts EXCEPT ![pendings[i].of] = @ \cup {"refused"}]
    /\ UNCHANGED <<seqNo, effect, overdue, watching>>

(* The watcher's tick: the open entries, copied under the lock; then, one  *)
(* after the other, the predicate is asked and the entry marked.           *)
TickStarts ==
    /\ watching.todo = <<>>
    /\ \E i \in DOMAIN pendings : EntryOpen(pendings[i])
    /\ LET open == SelectSeq(pendings, EntryOpen)
       IN watching' = [todo |-> [i \in DOMAIN open |-> open[i].of], old |-> overdue, seen |-> "none"]
    /\ UNCHANGED <<pendings, seqNo, relay, effect, overdue, counts>>

(* The predicate reads the chain; it fails when the reader does, and there *)
(* is none to call once the entry was refused.                             *)
AsksPredicate(answers) ==
    /\ watching.todo # <<>> /\ watching.seen = "none"
    /\ LET s == Head(watching.todo)
           i == PositionOf(s)
           callable == i # 0 /\ pendings[i].check
       IN watching' = IF answers /\ callable
                      THEN [watching EXCEPT !.seen = IF s \in effect THEN "effect" ELSE "nothing"]
                      ELSE [watching EXCEPT !.todo = Tail(@)]
    /\ UNCHANGED <<pendings, seqNo, relay, effect, overdue, counts>>

MarksEntry ==
    /\ watching.seen # "none"
    /\ LET s == Head(watching.todo)
           i == PositionOf(s)
           Marked(e) == IF watching.seen = "effect" THEN [e EXCEPT !.settled = TRUE]
                        ELSE IF s \in watching.old THEN [e EXCEPT !.timedOut = TRUE] ELSE e
           count == IF watching.seen = "effect" THEN {"settled"}
                    ELSE IF s \in watching.old THEN {"timed_out"} ELSE {}
       IN /\ pendings' = IF i = 0 THEN pendings ELSE [pendings EXCEPT ![i] = Marked(@)]
          /\ counts' = [counts EXCEPT ![s] = @ \cup count]
          /\ watching' = [watching EXCEPT !.todo = Tail(@), !.seen = "none"]
    /\ UNCHANGED <<seqNo, relay, effect, overdue>>

(* The chain shows the effect of what was taken; SETTLE_TIMEOUT passes.    *)
EffectShows(s) ==
    /\ relay[s].at \in {"sent", "done"} /\ s \notin effect
    /\ effect' = effect \cup {s}
    /\ UNCHANGED <<pendings, seqNo, relay, overdue, watching, counts>>

GetsOverdue(s) ==
    /\ relay[s].at \in {"done", "refused"} /\ s \notin overdue
    /\ overdue' = overdue \cup {s}
    /\ UNCHANGED <<pendings, seqNo, relay, effect, watching, counts>>

PendingNext ==
    \/ \E s \in Submissions : TrackReads(s) \/ TrackFiles(s) \/ RelayTaken(s) \/ RelayRefused(s)
    \/ \E s \in Relays : EffectShows(s) \/ GetsOverdue(s)
    \/ \E answers \in BOOLEAN : AsksPredicate(answers)
    \/ TickStarts \/ MarksEntry

(* The watcher runs every two seconds and its reads do not fail for good;  *)
(* time passes.                                                            *)
WatcherTicks == TickStarts \/ MarksEntry
WatcherReads == watching.todo # <<>> /\ AsksPredicate(TRUE)
AllOverdue == \E s \in Relays : GetsOverdue(s)

(***************************************************************************)
(* Every tracked submission that left the relay is accounted for in the    *)
(* end: settled, timed out or refused, however many others are filed,      *)
(* refused or evicted meanwhile.                                           *)
(***************************************************************************)
TrackedAccounted == \A s \in Relays : (relay[s].at = "done") ~> (counts[s] # {})

(***************************************************************************)
(* A refused submission is resolved "so it can't age into a false          *)
(* settle-timeout" (refused).                                              *)
(***************************************************************************)
RefusedNotTimedOut == \A s \in Relays : relay[s].at = "refused" => "timed_out" \notin counts[s]
=============================================================================
