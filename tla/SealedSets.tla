----------------------------- MODULE SealedSets -----------------------------
(***************************************************************************)
(* One market's hidden orders on chain: the commit set and its age index,  *)
(* the encrypted-order set, the commit floors and the carry credits        *)
(* (service accumulate arms COMMIT, ENC_COMMIT, CARRY_COMMIT,              *)
(* CARRY_ENC_COMMIT and the set side of REVEAL and ENC_ROUND;              *)
(* crates/setops, crates/match-engine/src/{carry,floors}.rs).              *)
(*                                                                         *)
(* Work items are delivered at least once and in any order, so every       *)
(* operation below may happen again at any time.                           *)
(***************************************************************************)
EXTENDS ChainSlots, Sequences, SequencesExt, FiniteSetsExt, Collections

CONSTANTS
    Accounts,
    SignedCommits,      \* the commit operations owners signed: [mode, account, cid, seq]
    CarryIds,           \* fresh commitments the builder can draw for re-seals
    COMMIT_TTL_SLOTS    \* slots until an unrevealed commitment may be reaped

Modes == {"commits", "encset"}

ASSUME SealedAssumption ==
    /\ COMMIT_TTL_SLOTS \in Nat \ {0}
    /\ \A s \in SignedCommits : s.mode \in Modes /\ s.account \in Accounts /\ s.seq \in Nat \ {0}
    /\ \A s \in SignedCommits : s.cid \notin CarryIds

Cids == {s.cid : s \in SignedCommits} \cup CarryIds
Entry == [cid : Cids, account : Accounts]
EntryOf(r) == [cid |-> r.cid, account |-> r.account]

(***************************************************************************)
(* set[m]:    b"commits"||market and b"encset"||market, cid||account each  *)
(* cage:      b"cage"||market, the age index of the commit set only        *)
(* sc:        b"sc"||account, the commit floor (both modes share it)       *)
(* cw:        b"cw"||market||account, the carry credits (both modes too)   *)
(* admitted:  how often each signed commit entered its set (history)       *)
(* owed:      the remainders rounds left behind, each with the commitment  *)
(*            the builder re-seals it under (history)                      *)
(* carried:   the owed remainders whose re-seal was admitted (history)     *)
(* twins:     credits spent on a copy of a re-seal already carried         *)
(***************************************************************************)
VARIABLES set, cage, sc, cw, admitted, owed, carried, twins

setsVars == <<set, cage, sc, cw, now, admitted, owed, carried, twins>>

SetsInit ==
    /\ set = [m \in Modes |-> <<>>] /\ cage = <<>>
    /\ sc = [a \in Accounts |-> 0] /\ cw = [a \in Accounts |-> 0]
    /\ now = 0
    /\ admitted = [s \in SignedCommits |-> 0]
    /\ owed = {} /\ carried = {} /\ twins = [a \in Accounts |-> 0]

-----------------------------------------------------------------------------
\* How many of the entries of a list are e; one with an expiry is compared
\* without it.
Copies(s, e) == Cardinality({i \in 1..Len(s) : EntryOf(s[i]) = e})

\* setops::remove_first_match: one entry, the first match not yet removed, per
\* target.
RemoveEach(stored, targets) ==
    LET upTo(i) == {j \in 1..i : EntryOf(stored[j]) = EntryOf(stored[i])}
        removed == {i \in 1..Len(stored) : Cardinality(upTo(i)) <= Copies(targets, EntryOf(stored[i]))}
    IN  Pick(stored, (1..Len(stored)) \ removed)

\* consume_set's test: every consumed entry claims a distinct stored one.
Consumable(stored, consumed) ==
    \A e \in ToSet(consumed) : Copies(consumed, e) <= Copies(stored, e)

\* cage_add
CageAdd(c, e, slot) ==
    Append(c, [cid |-> e.cid, account |-> e.account, expiry |-> SatAdd(slot, COMMIT_TTL_SLOTS)])

\* setops::reap_expired: what it reaps and what it keeps.
Dead(c, slot) == Pick(c, {i \in 1..Len(c) : c[i].expiry <= slot})
Kept(c, slot) == Pick(c, {i \in 1..Len(c) : ~(c[i].expiry <= slot)})

\* gc_commits: sweep the index, and the set by the reaped keys.
GcCommits(commits, c, slot) ==
    [commits |-> RemoveEach(commits, Dead(c, slot)), cage |-> Kept(c, slot)]

-----------------------------------------------------------------------------
\* Bug: an equal seq passes, so a commit signature can be replayed.
AdmitCommitEqual(s) == s.seq >= sc[s.account]

\* floors::admit_commit
AdmitCommit(s) == s.seq > sc[s.account]

\* COMMIT: reap first, then append, then index.
Commit(s) ==
    LET swept == GcCommits(set["commits"], cage, now)
    IN  /\ s.mode = "commits"
        /\ AdmitCommit(s)
        /\ sc' = [sc EXCEPT ![s.account] = s.seq]
        /\ set' = [set EXCEPT !["commits"] = Append(swept.commits, EntryOf(s))]
        /\ cage' = CageAdd(swept.cage, EntryOf(s), now)
        /\ admitted' = [admitted EXCEPT ![s] = @ + 1]
        /\ UNCHANGED <<cw, now, owed, carried, twins>>

\* ENC_COMMIT: the same floor, its own set, no index and no sweep.
EncCommit(s) ==
    /\ s.mode = "encset"
    /\ AdmitCommit(s)
    /\ sc' = [sc EXCEPT ![s.account] = s.seq]
    /\ set' = [set EXCEPT !["encset"] = Append(@, EntryOf(s))]
    /\ admitted' = [admitted EXCEPT ![s] = @ + 1]
    /\ UNCHANGED <<cage, cw, now, owed, carried, twins>>

\* Bug: a copy of a re-seal in the set is admitted again (jamswap#5).
CarryAdmitCopies(r) == cw[r.account] > 0

\* carry::admit: a credit, and not a copy of an entry in the set.
CarryAdmit(r) ==
    /\ cw[r.account] > 0
    /\ ~Contains(set[r.mode], EntryOf(r))

\* What both re-seals do once admitted: spend the credit (and the history).
SpendCredit(r) ==
    /\ cw' = [cw EXCEPT ![r.account] = @ - 1]
    /\ carried' = carried \cup {r}
    /\ twins' = [twins EXCEPT ![r.account] = IF r \in carried /\ ~Contains(set[r.mode], EntryOf(r))
                                              THEN @ + 1 ELSE @]
    /\ UNCHANGED <<sc, now, admitted, owed>>

\* CARRY_COMMIT: append, reap after it, index.
CarryCommit(r) ==
    LET swept == GcCommits(Append(set["commits"], EntryOf(r)), cage, now)
    IN  /\ r.mode = "commits"
        /\ CarryAdmit(r)
        /\ set' = [set EXCEPT !["commits"] = swept.commits]
        /\ cage' = CageAdd(swept.cage, EntryOf(r), now)
        /\ SpendCredit(r)

\* CARRY_ENC_COMMIT
CarryEncCommit(r) ==
    /\ r.mode = "encset"
    /\ CarryAdmit(r)
    /\ set' = [set EXCEPT !["encset"] = Append(@, EntryOf(r))]
    /\ SpendCredit(r)
    /\ UNCHANGED cage

(***************************************************************************)
(* A round that reveals `consumed' is accepted; `part' are the positions   *)
(* of the orders it filled only partly or not at all, each left with a     *)
(* remainder the builder will re-seal under a fresh commitment fresh[i].   *)
(***************************************************************************)
SettleSealed(mode, consumed, part, fresh) ==
    LET left == {[mode |-> mode, cid |-> fresh[i], account |-> consumed[i].account] : i \in part}
    IN  /\ Consumable(set[mode], consumed)
        /\ set' = [set EXCEPT ![mode] = RemoveEach(@, consumed)]
        /\ cw' = [a \in Accounts |-> cw[a] + Cardinality({i \in part : consumed[i].account = a})]
        /\ owed' = owed \cup left
        /\ UNCHANGED <<sc, now, admitted, carried, twins>>

\* Bug: the age index is not purged of what the round consumed.
RevealKeepCage(consumed, part, fresh) ==
    SettleSealed("commits", consumed, part, fresh) /\ UNCHANGED cage

\* REVEAL: consume_set, then cage_purge, then carry::mint.
Reveal(consumed, part, fresh) ==
    /\ SettleSealed("commits", consumed, part, fresh)
    /\ cage' = RemoveEach(cage, consumed)

\* ENC_ROUND: no age index.
EncRound(consumed, part, fresh) ==
    /\ SettleSealed("encset", consumed, part, fresh)
    /\ UNCHANGED cage

\* The chain moves on.
NextSlot ==
    /\ now < SLOT_MAX
    /\ now' = now + 1
    /\ UNCHANGED <<set, cage, sc, cw, admitted, owed, carried, twins>>

\* The remainders of a round get commitments no remainder had before.
FreshFor(part) ==
    {f \in [part -> CarryIds \ {r.cid : r \in owed}] : IsInjective(f)}

\* Rounds of one or two revealed orders.
Batches(m) == {s \in BoundedSeq(ToSet(set[m]), 2) : s # <<>>}

SetsNext ==
    \/ \E s \in SignedCommits : Commit(s) \/ EncCommit(s)
    \/ \E r \in owed : CarryCommit(r) \/ CarryEncCommit(r)
    \/ \E c \in Batches("commits"), part \in SUBSET (1..2) :
          /\ part \subseteq 1..Len(c)
          /\ \E f \in FreshFor(part) : Reveal(c, part, f)
    \/ \E c \in Batches("encset"), part \in SUBSET (1..2) :
          /\ part \subseteq 1..Len(c)
          /\ \E f \in FreshFor(part) : EncRound(c, part, f)
    \/ NextSlot

SetsSpec == SetsInit /\ [][SetsNext]_setsVars

-----------------------------------------------------------------------------
(***************************************************************************)
(* The age index stays in step with the commit set: every commitment has   *)
(* exactly as many index entries as copies in the set, whatever mix of     *)
(* commits, re-seals, reveals and sweeps happened.  An index entry too few *)
(* is a commitment that never expires, one too many reaps a later copy.    *)
(***************************************************************************)
CageInStep == \A e \in Entry : Copies(set["commits"], e) = Copies(cage, e)

(***************************************************************************)
(* A commit signature puts its order into the sets at most once, however   *)
(* often the work item is delivered ...                                    *)
(***************************************************************************)
AdmittedOnce == \A s \in SignedCommits : admitted[s] <= 1

(***************************************************************************)
(* ... and a copy of a re-seal never sits beside its original: one order   *)
(* cannot be revealed twice.                                               *)
(***************************************************************************)
CommitOnce ==
    /\ AdmittedOnce
    /\ \A r \in owed : Copies(set[r.mode], EntryOf(r)) <= 1

(***************************************************************************)
(* Credits cover remainders: an account's credits are its remainders not   *)
(* yet re-sealed, less those a copy spent after its original had left the  *)
(* set (the residual carry.rs documents).  In particular a copy that lands *)
(* while the original is in the set costs no remainder its credit          *)
(* (jamswap#5).                                                            *)
(***************************************************************************)
CreditsCoverRemainders ==
    \A a \in Accounts :
        cw[a] + twins[a] = Cardinality({r \in owed \ carried : r.account = a})
=============================================================================
