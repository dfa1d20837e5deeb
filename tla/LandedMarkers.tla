--------------------------- MODULE LandedMarkers ---------------------------
(***************************************************************************)
(* Landed-round markers and their garbage collector                        *)
(* (crates/match-engine/src/round_id.rs, called by accumulate's            *)
(* accept_round).                                                          *)
(*                                                                         *)
(* The builder decides that a round settled by reading its marker, so a    *)
(* marker that vanishes early makes it re-batch filled orders, and one     *)
(* that is never collected is storage lost for good.                       *)
(***************************************************************************)
EXTENDS ChainSlots, Sequences, FiniteSets, FiniteSetsExt

CONSTANTS
    RoundIds,           \* round ids
    LANDED_TTL_SLOTS,   \* age at which a marker may be reaped
    GC_STEPS,           \* entries one accept reaps at most
    PerSlot             \* accepts one block has room for

ASSUME TtlAssumption == LANDED_TTL_SLOTS \in Nat \ {0}
ASSUME GcAssumption == GC_STEPS \in Nat \ {0, 1}
ASSUME PerSlotAssumption == PerSlot \in Nat \ {0}

NoSlot == -1                  \* no such key in storage
MarkerEntry == [id : RoundIds, slot : Slots]

(***************************************************************************)
(* marks:    b"rl"||id -> the slot the round landed in                     *)
(* rlq:      the entries b"rlq"||n for n in [head, tail), oldest first     *)
(* room:     accepts this block still has room for                         *)
(* landedAt: the last slot each round really landed in (history)           *)
(***************************************************************************)
VARIABLES marks, rlq, room, landedAt

markersVars == <<marks, rlq, now, room, landedAt>>

MarkerTypeOK ==
    /\ marks \in [RoundIds -> Slots \cup {NoSlot}]
    /\ rlq \in Seq(MarkerEntry)
    /\ now \in Slots
    /\ room \in 0..PerSlot
    /\ landedAt \in [RoundIds -> Slots \cup {NoSlot}]

MarkersInit ==
    /\ marks = [i \in RoundIds |-> NoSlot]
    /\ rlq = <<>>
    /\ now = 0
    /\ room = PerSlot
    /\ landedAt = [i \in RoundIds |-> NoSlot]

\* The loop's `break' test, negated.
Expired(e, slot) == SatAdd(e.slot, LANDED_TTL_SLOTS) <= slot

\* Bug: one entry per accept, so the backlog never shrinks.
ReapedOne(q, slot) == IF q # <<>> /\ Expired(q[1], slot) THEN 1 ELSE 0

\* How many entries the while loop takes from the head: it stops at the first
\* live one, after GC_STEPS, or at the tail.
Reaped(q, slot) ==
    LET limit == IF Len(q) < GC_STEPS THEN Len(q) ELSE GC_STEPS
    IN  Min({k \in 0..limit : k = limit \/ ~Expired(q[k + 1], slot)})

\* Bug: a reaped entry takes the marker of a later landing of the same id.
UnmarkAnyAge(m, q, k) ==
    [i \in RoundIds |-> IF \E j \in 1..k : q[j].id = i THEN NoSlot ELSE m[i]]

\* Bug: the queue entries are dropped and their markers are left behind.
UnmarkNone(m, q, k) == m

\* A reaped entry removes only the marker it wrote itself.
Unmark(m, q, k) ==
    [i \in RoundIds |-> IF \E j \in 1..k : q[j] = [id |-> i, slot |-> m[i]]
                        THEN NoSlot ELSE m[i]]

\* mark_landed: an accepted round reaps, then files its own marker and entry.
MarkLanded(rid) ==
    LET k == Reaped(rlq, now)
    IN  /\ room > 0
        /\ room' = room - 1
        /\ marks' = [Unmark(marks, rlq, k) EXCEPT ![rid] = now]
        /\ rlq' = Append(SubSeq(rlq, k + 1, Len(rlq)), [id |-> rid, slot |-> now])
        /\ landedAt' = [landedAt EXCEPT ![rid] = now]
        /\ UNCHANGED now

\* The chain moves on to a later block.
NextBlock ==
    /\ now < SLOT_MAX
    /\ now' = now + 1
    /\ room' = PerSlot
    /\ UNCHANGED <<marks, rlq, landedAt>>

MarkersNext == NextBlock \/ \E rid \in RoundIds : MarkLanded(rid)

MarkersSpec == MarkersInit /\ [][MarkersNext]_markersVars

-----------------------------------------------------------------------------
(***************************************************************************)
(* No later landing, however many there are, evicts a marker younger than  *)
(* LANDED_TTL_SLOTS, and the marker names the latest landing of its round. *)
(* (In the very last slot a u32 holds the saturated deadline is reached    *)
(* early, so the last slot is left out.)                                   *)
(***************************************************************************)
LiveMarkerKept ==
    now < SLOT_MAX =>
        \A i \in RoundIds : landedAt[i] # NoSlot /\ landedAt[i] + LANDED_TTL_SLOTS > now
                            => marks[i] = landedAt[i]

(***************************************************************************)
(* No marker is orphaned: while it exists, the queue holds the entry that  *)
(* will reap it, also when the id was filed again and its older entry has  *)
(* been reaped meanwhile.                                                  *)
(***************************************************************************)
NoOrphanMarker ==
    \A i \in RoundIds : marks[i] # NoSlot =>
        \E j \in 1..Len(rlq) : rlq[j] = [id |-> i, slot |-> marks[i]]

ExpiredEntries == {j \in 1..Len(rlq) : Expired(rlq[j], now)}

(***************************************************************************)
(* The backlog drains: an accept that finds GC_STEPS or more expired       *)
(* entries leaves the queue shorter than it was ("each accept reaps more   *)
(* than it adds"), and one that finds fewer leaves none expired.           *)
(***************************************************************************)
DrainStep ==
    IF Cardinality(ExpiredEntries) >= GC_STEPS
    THEN Len(rlq') < Len(rlq)
    ELSE \A j \in 1..Len(rlq') : ~Expired(rlq'[j], now) \/ now = SLOT_MAX

BacklogDrains == [][rlq' # rlq => DrainStep]_markersVars
=============================================================================
