---------------------------- MODULE StateParity -----------------------------
(***************************************************************************)
(* The parity probe (offchain/netwatch.py: parity, _common_block, the two  *)
(* ways Probe reads keys).  Nodes with JIP-2 are read at one common block  *)
(* (pinned); the others through a reader bridge, one key after the other,  *)
(* at a head that moves meanwhile.  A key's value is the block that wrote  *)
(* it, and every block writes every key; a diverged node has a state of    *)
(* its own.  The digest is taken to be injective.  Nodes are probed in     *)
(* parallel: their reads interleave with each other and with the chain.    *)
(***************************************************************************)
EXTENDS Integers, Sequences, FiniteSets, FiniteSetsExt

CONSTANTS
    PinnedNodes,    \* nodes with JIP-2
    ReaderNodes,    \* nodes without
    Bridges,        \* reader bridges
    NoBridge,       \* what a node without one names
    KeyCount,       \* service keys, read in order
    ATTEMPTS,       \* attempts of parity
    READ_ATTEMPTS,  \* attempts of a read at one head
    MaxHeight       \* bound on the blocks

ASSUME ParityAssumption ==
    /\ {KeyCount, ATTEMPTS, READ_ATTEMPTS, MaxHeight} \subseteq Nat \ {0}
    /\ NoBridge \notin Bridges /\ PinnedNodes \cap ReaderNodes = {}
    /\ IsFiniteSet(PinnedNodes) /\ IsFiniteSet(ReaderNodes)

Unread == [status |-> "unread", at |-> 0, values |-> <<>>]
ReadError == [Unread EXCEPT !.status = "error"]

(***************************************************************************)
(* probes, bridge, diverged: the nodes given to the probe, their readers   *)
(* and the nodes whose state went its own way.  headOf: the block each     *)
(* node would be read at (finalized for JIP-2, the reader's head else).    *)
(* attempt, target: of parity, target 0 before the block is chosen.        *)
(* silent: JIP-2 nodes that did not answer.  reads: what was read of each  *)
(* node.  partial: a read at one head under way, [tries, got].  report:    *)
(* the verdict.                                                            *)
(***************************************************************************)
VARIABLES probes, bridge, diverged, headOf, attempt, target, chosen, silent, reads, partial, report

config == <<probes, bridge, diverged>>
probeState == <<attempt, target, chosen, silent, reads, partial, report>>
parityVars == <<config, headOf, probeState>>

Jips == probes \cap PinnedNodes

(* A bridge stands for one node only: the first that names it.             *)
Rest ==
    {n \in probes \cap ReaderNodes :
        bridge[n] # NoBridge /\ n = CHOOSE m \in probes \cap ReaderNodes : bridge[m] = bridge[n]}

Probed == Jips \cup Rest

ParityInit ==
    /\ probes \in SUBSET (PinnedNodes \cup ReaderNodes) /\ diverged \in SUBSET probes
    /\ bridge \in [ReaderNodes -> Bridges \cup {NoBridge}]
    /\ \A n, m \in probes \cap ReaderNodes : bridge[n] = bridge[m] => (n \in diverged <=> m \in diverged)
    /\ headOf = [n \in PinnedNodes \cup ReaderNodes |-> 1]
    /\ attempt = 1 /\ target = 0 /\ chosen = FALSE /\ silent = {} /\ report = "none"
    /\ reads = [n \in PinnedNodes \cup ReaderNodes |-> Unread]
    /\ partial = [n \in ReaderNodes |-> [tries |-> 0, got |-> <<>>]]

ValueAt(n, block) == IF n \in diverged THEN -block ELSE block

(* _common_block: the lowest head among the nodes that answer.             *)
CommonBlock(s) ==
    /\ report = "none" /\ ~chosen /\ chosen' = TRUE /\ silent' = s
    /\ target' = IF s = Jips THEN 0 ELSE Min({headOf[n] : n \in Jips \ s})
    /\ UNCHANGED <<config, headOf, attempt, reads, partial, report>>

(* read_keys_at: every key at the common block.                            *)
ReadPinned(n, answers) ==
    /\ chosen /\ n \in Jips /\ reads[n] = Unread
    /\ reads' = [reads EXCEPT ![n] =
                    IF n \in silent \/ target = 0 \/ ~answers THEN ReadError
                    ELSE [status |-> "read", at |-> target, values |-> [k \in 1 .. KeyCount |-> ValueAt(n, target)]]]
    /\ UNCHANGED <<config, headOf, attempt, target, chosen, silent, partial, report>>

\* Bug: a head that moved during the read is accepted.
OneHeadAny(got) == TRUE

\* read_keys_at_reader_head: key by key, again when the head moved.
OneHead(got) == \A i, j \in DOMAIN got : got[i] = got[j]

ReadKey(n, answers) ==
    /\ chosen /\ n \in Rest /\ reads[n] = Unread
    /\ LET got == Append(partial[n].got, headOf[n])
           tries == partial[n].tries + 1
           whole == Len(got) = KeyCount
           done == whole /\ OneHead(got)
       IN /\ reads' = [reads EXCEPT ![n] =
                          IF ~answers \/ (whole /\ ~done /\ tries = READ_ATTEMPTS) THEN ReadError
                          ELSE IF done THEN [status |-> "read", at |-> headOf[n],
                                             values |-> [k \in 1 .. KeyCount |-> ValueAt(n, got[k])]]
                          ELSE Unread]
          /\ partial' = [partial EXCEPT ![n] =
                            IF reads'[n] # Unread THEN [tries |-> 0, got |-> <<>>]
                            ELSE IF whole THEN [tries |-> tries, got |-> <<>>] ELSE [@ EXCEPT !.got = got]]
    /\ UNCHANGED <<config, headOf, attempt, target, chosen, silent, report>>

(* The verdict on an attempt, and whether there is another: a mismatch     *)
(* among pinned nodes is final, anything else is tried again.              *)
Digested == {n \in Probed : reads[n].status = "read"}
Digests(nodes) == {reads[n].values : n \in nodes}
Errors == \E n \in Probed : reads[n].status = "error"
PinnedSplit == Cardinality(Digests(Digested \cap Jips)) > 1

Verdict ==
    IF Errors THEN "errors" ELSE IF Cardinality(Digested) < 2 THEN "nothing to compare"
    ELSE IF Cardinality(Digests(Digested)) = 1 THEN "pass" ELSE "split"

JudgeAttempt ==
    /\ report = "none" /\ chosen /\ \A n \in Probed : reads[n] # Unread
    /\ IF Verdict = "pass" \/ PinnedSplit \/ Cardinality(Probed) < 2 \/ attempt = ATTEMPTS
       THEN report' = Verdict /\ UNCHANGED <<attempt, target, chosen, silent, reads>>
       ELSE /\ attempt' = attempt + 1 /\ chosen' = FALSE /\ target' = 0 /\ silent' = {}
            /\ reads' = [n \in DOMAIN reads |-> Unread]
            /\ UNCHANGED report
    /\ UNCHANGED <<config, headOf, partial>>

HeadMoves(n) ==
    /\ report = "none" /\ headOf[n] < MaxHeight
    /\ headOf' = [headOf EXCEPT ![n] = @ + 1]
    /\ UNCHANGED <<config, probeState>>

ParityNext ==
    \/ \E s \in SUBSET Jips : CommonBlock(s)
    \/ \E n \in probes, answers \in BOOLEAN : ReadPinned(n, answers) \/ ReadKey(n, answers)
    \/ \E n \in Probed : HeadMoves(n)
    \/ JudgeAttempt

ParitySpec == ParityInit /\ [][ParityNext]_parityVars

(***************************************************************************)
(* The probe tells the truth: a pass compared two nodes with states of     *)
(* their own and none of them went its own way alone; a split has a        *)
(* diverged node behind it, or a reader whose head was not the common      *)
(* block when it was read, however the heads moved during the reads.       *)
(***************************************************************************)
ParityIsReal ==
    /\ report = "pass" =>
        /\ Digested \subseteq diverged \/ Digested \cap diverged = {}
        /\ \E n, m \in Digested : n # m /\ ({n, m} \subseteq ReaderNodes => bridge[n] # bridge[m])
    /\ report = "split" =>
        Digested \cap diverged # {} \/ \E n, m \in Digested : reads[n].at # reads[m].at
=============================================================================
