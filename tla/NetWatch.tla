------------------------------ MODULE NetWatch ------------------------------
(***************************************************************************)
(* The watch over every node of a net (offchain/netwatch.py): each sample  *)
(* holds every node's best and finalized block, read at different moments; *)
(* the samples are judged live (the exporter's gauges and alarms) and as a *)
(* run (the verdict).  nets/onehead.py judges the same samples by walking  *)
(* from the highest head.  A block is the path of the blocks from the      *)
(* first one to it, so its prefixes are its ancestors and its path its     *)
(* hash.                                                                   *)
(***************************************************************************)
EXTENDS Integers, Sequences, SequencesExt, FiniteSets, FiniteSetsExt

CONSTANTS
    Nodes,          \* the nodes watched
    Seen,           \* what a node may show: [best, final], paths of [slot, fork]
    MAX_LAG,        \* slots a node's best block may trail the newest
    HOPS,           \* parent() calls a walk may take
    EPOCH,          \* slots a divergence or a stall of finality may last
    WALK,           \* blocks onehead walks
    FORK_RUN,       \* samples in a row that onehead lets be forked
    KEEP,           \* finalized slots the exporter keeps (4096)
    DROP,           \* the oldest of them it forgets when there are more (1024)
    WINDOW,         \* samples the exporter's own verdict judges (8640)
    MaxSamples      \* bound on the samples of a run

\* A block follows blocks of earlier slots.
IsPath(p) ==
    /\ p \in Seq([slot : Nat, fork : STRING]) /\ p # <<>>
    /\ \A i, j \in 1..Len(p) : i < j => p[i].slot < p[j].slot

ASSUME WatchAssumption ==
    /\ IsFiniteSet(Nodes) /\ \A v \in Seen : IsPath(v.best) /\ IsPath(v.final)
    /\ MAX_LAG \in Nat /\ HOPS \in Nat /\ MaxSamples \in Nat
    /\ EPOCH \in Nat /\ WALK \in Nat /\ FORK_RUN \in Nat
    /\ KEEP \in Nat /\ DROP \in Nat /\ WINDOW \in Nat \ {0}

Down == [best |-> <<>>, final |-> <<>>]
None == <<>>

(***************************************************************************)
(* samples: the run so far, one per slot of wall time, as functions from   *)
(* nodes to what they showed (Down: no answer); hashless: the nodes read   *)
(* through metrics, with a slot and a height but no hash.  live: the       *)
(* exporter's tallies (episode_start, final_seen, conflicts), and dropped, *)
(* the slots final_seen ever forgot (history).                             *)
(***************************************************************************)
VARIABLES samples, hashless, live

watchVars == <<samples, hashless, live>>

SlotOf(block) == Last(block).slot
Up(s) == {n \in Nodes : s[n] # Down}
Hashed(s) == Up(s) \ hashless
OneOf(x, y) == IsPrefix(x, y) \/ IsPrefix(y, x)

-----------------------------------------------------------------------------
\* Probe.ancestor_at: the newest ancestor at or below the slot.
AncestorAt(block, slot) ==
    LET olds == {k \in 1..Len(block) : block[k].slot <= slot}
    IN  IF olds = {} \/ Len(block) - Max(olds) > HOPS THEN None ELSE SubSeq(block, 1, Max(olds))

\* Bug: the nodes' newest blocks are compared as they are.
AlignRaw(s, which) == [n \in Hashed(s) |-> s[n][which]]

\* Sampler._align: each node's newest block at or below the lowest slot among them.
Align(s, which) ==
    LET slot == Min({SlotOf(s[n][which]) : n \in Hashed(s)})
    IN  [n \in Hashed(s) |-> AncestorAt(s[n][which], slot)]

Hashes(blocks) == {blocks[n] : n \in DOMAIN blocks} \ {None}
Top(s) == Max({SlotOf(s[n].best) : n \in Up(s)})

\* judge_sample
Split(s) ==
    \/ Cardinality(Hashes(Align(s, "best"))) > 1
    \/ \E m, n \in Up(s) \cap hashless :
          /\ SlotOf(s[m].best) = SlotOf(s[n].best)
          /\ Len(s[m].best) # Len(s[n].best)
SampleOk(s) ==
    LET aligned == Align(s, "best")
    IN  /\ Up(s) = Nodes
        /\ \A n \in Up(s) : Top(s) - SlotOf(s[n].best) <= MAX_LAG
        /\ \A n \in Hashed(s) : aligned[n] # None
        /\ ~Split(s)

-----------------------------------------------------------------------------
\* The finalized blocks a sample shows, with the slots they are filed under.
FinalBlocks(s) == {s[n].final : n \in Hashed(s)} \cup Hashes(Align(s, "final"))
Conflict(blocks) == \E x, y \in blocks : x # y /\ SlotOf(x) = SlotOf(y)
SlotsOf(blocks) == {SlotOf(b) : b \in blocks}

(***************************************************************************)
(* The divergence episodes of a run: maximal runs of samples that are not  *)
(* ok, from the first to the last of them, in slots of the newest best     *)
(* block or of wall time.                                                  *)
(***************************************************************************)
Extend(acc, i) ==
    LET s == samples[i]
        top == IF Up(s) # {} THEN Top(s) ELSE IF acc.open # <<>> THEN acc.open.endSlot ELSE 0
    IN  IF SampleOk(s)
        THEN [open |-> <<>>, closed |-> acc.closed \cup ({acc.open} \ {<<>>})]
        ELSE [acc EXCEPT !.open = IF @ = <<>>
                THEN [start |-> i, startSlot |-> top, end |-> i, endSlot |-> top]
                ELSE [@ EXCEPT !.end = i, !.endSlot = top]]
FoldedFrom(first) ==
    FoldLeft(Extend, [open |-> <<>>, closed |-> {}], [i \in 1..(Len(samples) - first + 1) |-> first + i - 1])
Folded == FoldedFrom(1)

Episodes == LET all == Folded IN all.closed \cup ({all.open} \ {<<>>})
Length(ep) == Max({ep.endSlot - ep.startSlot, ep.end - ep.start})

\* verdict, finality: one hash per finalized slot over the whole run, and one
\* height among the nodes without hashes.
RunFinals == UNION {FinalBlocks(s) : s \in ToSet(samples)}
FinalConflict == Conflict(RunFinals)
HeightConflict ==
    LET plain == UNION {{s[n].final : n \in Up(s) \cap hashless} : s \in ToSet(samples)}
    IN  \E x, y \in plain : SlotOf(x) = SlotOf(y) /\ Len(x) # Len(y)

\* The samples a node answered, and whether its block moved from first to last.
Answers(n) == {i \in 1..Len(samples) : samples[i][n] # Down}
Progressed(n, which) ==
    /\ Answers(n) # {}
    /\ SlotOf(samples[Max(Answers(n))][n][which]) > SlotOf(samples[Min(Answers(n))][n][which])
LongEnough == Len(samples) > 2

\* A node's finality fell back between two answers with none missing in between,
\* and the longest it stood still.
Regressed ==
    \E n \in Nodes : \E i \in Answers(n) :
        i - 1 \in Answers(n) /\ SlotOf(samples[i][n].final) < SlotOf(samples[i - 1][n].final)
Stall(n) ==
    LET still(i, j) == \A k \in Answers(n) \cap i..j : SlotOf(samples[k][n].final) = SlotOf(samples[j][n].final)
        since(j) == Min({i \in Answers(n) : i <= j /\ still(i, j)})
    IN  Max({0} \cup {Max({j - since(j), SlotOf(samples[j][n].best) - SlotOf(samples[since(j)][n].best)}) :
                        j \in Answers(n)})

FinalityPasses(mode) ==
    /\ ~FinalConflict /\ ~HeightConflict /\ ~Regressed
    /\ IF \E n \in Nodes : Progressed(n, "final")
       THEN \A n \in Nodes : Progressed(n, "final") /\ Stall(n) <= EPOCH
       ELSE ~(mode = "require" /\ LongEnough)

\* verdict: one head, liveness, and finality where it is judged.
Passes(mode) ==
    /\ \E s \in ToSet(samples) : SampleOk(s)
    /\ \A ep \in Episodes : Length(ep) <= EPOCH
    /\ LongEnough => \A n \in Nodes : Progressed(n, "best")
    /\ mode = "report" \/ FinalityPasses(mode)

-----------------------------------------------------------------------------
(***************************************************************************)
(* nets/onehead.py.  A node without JIP-2 is read from its log, which has  *)
(* hashes: it cannot be walked, but the heads it showed are remembered.    *)
(***************************************************************************)
SeenHead(n, i, slot) ==
    LET at == {k \in Answers(n) \cap 1..i : SlotOf(samples[k][n].best) = slot}
    IN  IF at = {} THEN None ELSE samples[Max(at)][n].best

\* on_chain: is the block on the chain that ends at node n's?
HeadOnChain(n, i, tip, block) ==
    LET seen == SeenHead(n, i, SlotOf(block))
        steps == Cardinality({k \in 1..Len(tip) : tip[k].slot > SlotOf(block)})
    IN  CASE tip = block -> "yes"
          [] SlotOf(tip) <= SlotOf(block) -> "no"
          [] n \in hashless -> IF seen = None THEN "unknown" ELSE IF seen = block THEN "yes" ELSE "no"
          [] steps >= WALK -> "unknown"
          [] OTHER -> IF IsPrefix(block, tip) THEN "yes" ELSE "no"

\* sample: the nodes off the chain of the highest block among `nodes'.
Off(i, nodes, which) ==
    LET block(n) == samples[i][n][which]
        top == CHOOSE n \in nodes : \A m \in nodes : SlotOf(block(m)) <= SlotOf(block(n))
    IN  {n \in nodes : HeadOnChain(top, i, block(top), block(n)) = "no"}

HeadVerdict(i) ==
    LET s == samples[i]
    IN  CASE Up(s) # Nodes -> "DOWN"
          [] Off(i, Up(s), "best") # {} -> "FORK"
          [] \E m, n \in Up(s) : s[m].best # s[n].best -> "LAG"
          [] OTHER -> "SAME"
FinalSplit(i) == Hashed(samples[i]) # {} /\ Off(i, Hashed(samples[i]), "final") # {}

\* summarize: one head throughout, but for forks that pass.
OneHeadThroughout ==
    /\ \A i \in 1..(Len(samples) - FORK_RUN) : \E k \in i..(i + FORK_RUN) : HeadVerdict(k) # "FORK"
    /\ HeadVerdict(Len(samples)) \in {"SAME", "LAG"}
    /\ Len(samples) = 1 \/ \A n \in Nodes : Progressed(n, "best")
    /\ \A i \in 1..Len(samples) : ~FinalSplit(i)

-----------------------------------------------------------------------------
\* Exporter.step: the finalized slots forgotten when there are too many.
Trimmed(slots) ==
    {k \in slots : Cardinality(slots) > KEEP /\ Cardinality({l \in slots : l < k}) < DROP}

WatchInit ==
    /\ samples = <<>> /\ hashless \in SUBSET Nodes
    /\ live = [start |-> 0, startSlot |-> 0, seen |-> {}, dropped |-> {}, conflicts |-> 0]

Sample(s) ==
    /\ Len(samples) < MaxSamples
    /\ samples' = Append(samples, s)
    /\ live' = LET new == FinalBlocks(s) \ live.seen
                   gone == Trimmed(SlotsOf(live.seen \cup new))
               IN  [start |-> IF SampleOk(s) THEN 0 ELSE IF live.start # 0 THEN live.start ELSE Len(samples'),
                    startSlot |-> IF SampleOk(s) THEN 0
                                  ELSE IF live.start # 0 THEN live.startSlot
                                  ELSE IF Up(s) # {} THEN Top(s) ELSE 0,
                    seen |-> {b \in live.seen \cup new : SlotOf(b) \notin gone},
                    dropped |-> live.dropped \cup gone,
                    conflicts |-> live.conflicts +
                        (Cardinality(new) - Cardinality(SlotsOf(new) \ SlotsOf(live.seen)))]
    /\ UNCHANGED hashless

\* render: jam_net_divergence_slots
DivergenceSlots ==
    LET s == samples[Len(samples)]
    IN  IF live.start = 0 THEN 0
        ELSE Max({(IF Up(s) # {} THEN Top(s) ELSE 0) - live.startSlot, Len(samples) - live.start})

WatchNext == \E s \in [Nodes -> Seen \cup {Down}] : Sample(s)

WatchSpec == WatchInit /\ [][WatchNext]_watchVars

-----------------------------------------------------------------------------
\* The lowest head of a sample is not on one branch with another.
LowestForks(s) ==
    \E m, n \in Up(s) :
        /\ \A k \in Up(s) : SlotOf(s[m].best) <= SlotOf(s[k].best)
        /\ ~OneOf(s[m].best, s[n].best)

(***************************************************************************)
(* A sample of nodes polled at different moments shows a split exactly     *)
(* when the lowest head is on another branch than some head (with two      *)
(* nodes: when the heads fork): a node that is merely ahead, or whose      *)
(* branch skips the common slot, is neither taken for a fork nor hides     *)
(* one.  Heads that fork above the lowest one agree at the common slot.    *)
(***************************************************************************)
SplitIsFork ==
    \A s \in ToSet(samples) : hashless = {} /\ (\A n \in Up(s) : Align(s, "best")[n] # None) =>
        (Split(s) <=> LowestForks(s))

(***************************************************************************)
(* A conflict of finalized hashes is alarmed only when the verdict on the  *)
(* run finds one, and one that it finds, early or late in the run, is      *)
(* alarmed unless the exporter forgot its slot in between (final_seen      *)
(* keeps the newest slots only).                                           *)
(***************************************************************************)
ConflictsAgree ==
    /\ live.conflicts > 0 => FinalConflict
    /\ Conflict({b \in RunFinals : SlotOf(b) \notin live.dropped}) => live.conflicts > 0

\* It, and a conflict of heights (the verdict's alone), is of finalized blocks on
\* different branches.
ConflictsReal ==
    FinalConflict \/ HeightConflict =>
        \E s, t \in ToSet(samples) : \E m \in Up(s), n \in Up(t) : ~OneOf(s[m].final, t[n].final)

\* The first sample that the exporter's own verdict judges, and the episode it
\* then finds open.
WindowStart == Max({1, Len(samples) - WINDOW + 1})
OpenEpisode == FoldedFrom(WindowStart).open

(***************************************************************************)
(* The exporter and its verdict agree, on conflicts and, while a node is   *)
(* up, on the divergence: the gauge shows one when the verdict's last      *)
(* episode is open, and its length unless the window has lost its start.   *)
(***************************************************************************)
AlarmsAgree ==
    LET episode == OpenEpisode
    IN  /\ ConflictsAgree
        /\ ConflictsReal
        /\ live.start # 0 <=> episode # <<>>
        /\ samples # <<>> /\ Up(Last(samples)) # {} =>
              /\ live.start = 0 => DivergenceSlots = 0
              /\ live.start >= WindowStart => DivergenceSlots = Length(episode)

(***************************************************************************)
(* What happened is noticed, with every node on JIP-2: heads that stay on  *)
(* different branches for more than an epoch fail the verdict in every     *)
(* mode, whatever else the nodes show or whoever is down meanwhile; when   *)
(* every node answers, onehead calls exactly these samples forked, fails a *)
(* run of them, and sees every split of finality in a sample, also between *)
(* branches that have no slot in common (the verdict compares finalized    *)
(* blocks of one slot only).                                               *)
(***************************************************************************)
ForksNoticed ==
    LET forked(k, which) == \E m, n \in Up(samples[k]) : ~OneOf(samples[k][m][which], samples[k][n][which])
        together(k) == Up(samples[k]) = Nodes /\ forked(k, "best")
    IN  hashless = {} =>
          /\ \A i, j \in 1..Len(samples) :
                j - i > EPOCH /\ (\A k \in i..j : LowestForks(samples[k])) =>
                    \A mode \in {"auto", "require", "report"} : ~Passes(mode)
          /\ \A i, j \in 1..Len(samples) :
                j - i >= FORK_RUN /\ (\A k \in i..j : together(k)) => ~OneHeadThroughout
          /\ \A i \in 1..Len(samples) :
                (HeadVerdict(i) = "FORK" <=> together(i)) /\ (FinalSplit(i) <=> forked(i, "final"))

(***************************************************************************)
(* Episodes are "measured first-bad to last-bad sample, in slots of chain  *)
(* progress or of wall time, whichever is longer": none is longer than the *)
(* wall time it took and the way the newest head moved in the whole run.   *)
(* Not so when every node was down in its first sample: it is then counted *)
(* from slot 0, and is as long as the chain is high.                       *)
(***************************************************************************)
EpisodesMeasured ==
    LET tops == {Top(s) : s \in {x \in ToSet(samples) : Up(x) # {}}}
    IN  \A ep \in Episodes :
            Up(samples[ep.start]) # {} => Length(ep) <= Max({ep.end - ep.start, Max(tops) - Min(tops)})

(***************************************************************************)
(* What is alarmed happened, and what happened is alarmed: splits are      *)
(* forks, the exporter's alarms are the verdict's, forks are noticed, and  *)
(* an episode is as long as it was.                                        *)
(***************************************************************************)
AlarmsAreReal == SplitIsFork /\ AlarmsAgree /\ ForksNoticed /\ EpisodesMeasured
=============================================================================
