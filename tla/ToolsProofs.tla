---------------------------- MODULE ToolsProofs -----------------------------
(***************************************************************************)
(* The tools around the exchange: deploying the service, the two           *)
(* instruments that judge every order, the parity probe and the net watch. *)
(* For any timeouts, orders, nodes and numbers of runs, sends, events,     *)
(* keys and samples.                                                       *)
(***************************************************************************)
EXTENDS Deploy, OrderTelemetry, StateParity, NetWatch, CollectionLemmas, FiniteSetTheorems, FunctionTheorems, SequenceTheorems, TLAPS

-----------------------------------------------------------------------------
(***************************************************************************)
(* Deploying.  That there is one service is not inductive: a second one    *)
(* comes from a create that lands late, so what can still land must be     *)
(* known (OnlyFollowedLands: with every outcome known only the create the  *)
(* tool follows can), and every service comes from a create of its own     *)
(* (OneCreateEach), which leaves a free id for each that may still land.   *)
(* That runs agree rests on the state file (OneChosen), that the service   *)
(* stays usable on its code being final where a run ended                  *)
(* (FinishedIsFinal).                                                      *)
(***************************************************************************)
Accounts == [code : {"none", "ours"}, created : Nat, provided : Nat]
Packages == [n : Nat \ {0}, anchor : Nat, state : {"sent", "landed", "failed"}]

Ours == {i \in ServiceIds : RunsOurCode(i)}
LandedCreates == {p \in creates : p.state = "landed"}

\* A create that can no longer land.
Dead(p) == p.state = "failed" \/ (p.state = "sent" /\ slot > p.anchor + RECENT + REPORT_TIMEOUT)

DeployTypeOK ==
    /\ slot \in Nat /\ finalSlot \in Nat /\ since \in 0..slot
    /\ svc \in [ServiceIds -> Accounts]
    /\ creates \in SUBSET Packages /\ IsFiniteSet(creates) /\ Cardinality(creates) <= MaxSends
    /\ stage \in {"idle", "create", "provide", "usable"}
    /\ receipt \in Nat /\ stateFile \in ServiceIds \cup {0}
    /\ preimage \in SUBSET Ours /\ finished \in SUBSET ServiceIds

\* A create is known by its number, and the tool follows one it sent.
Numbered ==
    /\ \A p \in creates : p.n <= Cardinality(creates)
    /\ \A p, q \in creates : p.n = q.n => p = q
    /\ stage = "create" /\ receipt # 0 => \E p \in creates : p.n = receipt

\* There are no more services than creates landed, and none without one.
OneCreateEach ==
    /\ \A i \in ServiceIds \ Ours : svc[i] = Absent
    /\ Cardinality(Ours) <= Cardinality(LandedCreates)
    /\ LandedCreates # {} => Ours # {}

\* The state file's service is there, and a run is about it or makes the first.
OneChosen ==
    /\ finished \subseteq {stateFile}
    /\ stateFile # 0 => stateFile \in Ours
    /\ stage = "create" => stateFile = 0
    /\ stage \in {"provide", "usable"} => sid \in Ours /\ stateFile \in {0, sid}

\* With every outcome known, what is not followed has landed or cannot.
OnlyFollowedLands ==
    ~blind =>
        /\ \A p \in creates : Dead(p) \/ IF stage = "create" THEN p.n = receipt ELSE p.state = "landed"
        /\ stage = "create" => \A i \in Ours : svc[i].created >= since
        /\ \A i, k \in Ours : i = k

\* A finished service's code is at or below the finalized lookup anchor.
FinishedIsFinal ==
    fallback \/ \A i \in finished : svc[i].provided # 0 /\ svc[i].provided <= ParentSlot(finalSlot)

DeployIInv ==
    DeployTypeOK /\ Numbered /\ OneCreateEach /\ OneChosen /\ OnlyFollowedLands /\ FinishedIsFinal
-----------------------------------------------------------------------------
LEMMA DeployInitially == DeployInit => DeployIInv
<1> SUFFICES ASSUME DeployInit PROVE DeployIInv
  OBVIOUS
<1>1. /\ slot = 1 /\ finalSlot = 1 /\ svc = [i \in ServiceIds |-> Absent] /\ creates = {} /\ stage = "idle"
      /\ sid = 0 /\ receipt = 0 /\ since = 0 /\ stateFile = 0 /\ preimage = {} /\ finished = {}
      /\ blind = FALSE /\ fallback = FALSE
  BY DEF DeployInit
<1>2. Ours = {} /\ LandedCreates = {}
  BY <1>1 DEF Ours, RunsOurCode, Absent, LandedCreates
<1>3. IsFiniteSet({}) /\ Cardinality({}) = 0
  BY FS_EmptySet
<1>4. Absent \in Accounts
  BY DEF Absent, Accounts
<1>5. DeployTypeOK
  BY <1>1, <1>2, <1>3, <1>4, DeployAssumption DEF DeployTypeOK
<1>6. OneCreateEach
  BY <1>1, <1>2, <1>3 DEF OneCreateEach
<1>7. Numbered /\ OneChosen /\ OnlyFollowedLands /\ FinishedIsFinal
  BY <1>1, <1>2 DEF Numbered, OneChosen, OnlyFollowedLands, FinishedIsFinal
<1> QED
  BY <1>5, <1>6, <1>7 DEF DeployIInv

-----------------------------------------------------------------------------
LEMMA LowestIsLeast ==
    ASSUME NEW S \in SUBSET ServiceIds, S # {}
    PROVE  Lowest(S) \in S
<1>1. S \in SUBSET Nat
  BY DeployAssumption DEF ServiceIds
<1>2. Lowest(S) = Min(S)
  BY DEF Lowest, Min
<1> QED
  BY <1>1, <1>2, MinIsLeast

LEMMA AnchorsTyped ==
    ASSUME DeployTypeOK
    PROVE  DefaultAnchor \in Nat /\ DefaultLookupAnchor \in Nat /\ ParentSlot(finalSlot) \in Nat
  BY DeployAssumption DEF DeployTypeOK, DefaultAnchor, DefaultLookupAnchor, ParentSlot

\* The next package's lookup anchor is never before the finalized one.
LEMMA LookupNotBeforeFinal ==
    ASSUME DeployTypeOK
    PROVE  DefaultLookupAnchor >= ParentSlot(finalSlot)
<1>1. DefaultAnchor \in Nat /\ ParentSlot(finalSlot) \in Nat /\ LOOKUP_MARGIN \in Nat
  BY AnchorsTyped, DeployAssumption
<1> QED
  BY <1>1 DEF DefaultLookupAnchor

\* While a create can still land, an id is free.
LEMMA FreeId ==
    ASSUME DeployIInv, NEW p \in creates, p.state = "sent"
    PROVE  {k \in ServiceIds \ {Wanted} : svc[k] = Absent} # {}
<1> SUFFICES ASSUME \A k \in ServiceIds \ {Wanted} : svc[k] # Absent PROVE FALSE
  OBVIOUS
<1>1. IsFiniteSet(creates) /\ Cardinality(creates) \in Nat /\ Cardinality(creates) <= MaxSends
  BY FS_CardinalityType DEF DeployIInv, DeployTypeOK
<1>2. IsFiniteSet(creates \ {p}) /\ Cardinality(creates \ {p}) = Cardinality(creates) - 1
  BY <1>1, FS_RemoveElement
<1>3. LandedCreates \subseteq creates \ {p}
  BY DEF LandedCreates
<1>4. Cardinality(LandedCreates) <= Cardinality(creates) - 1
  BY <1>2, <1>3, FS_Subset
<1>5. 2..(MaxSends + 1) \subseteq Ours
  <2>1. 2..(MaxSends + 1) \subseteq ServiceIds \ {Wanted}
    BY DeployAssumption DEF ServiceIds, Wanted
  <2> QED
    BY <2>1 DEF DeployIInv, OneCreateEach, Ours
<1>6. IsFiniteSet(ServiceIds)
  BY DeployAssumption, FS_Interval DEF ServiceIds
<1>7. IsFiniteSet(Ours) /\ Ours \subseteq ServiceIds
  BY <1>6, FS_Subset DEF Ours
<1>8. Cardinality(2..(MaxSends + 1)) = MaxSends
  BY DeployAssumption, FS_Interval
<1>9. Cardinality(2..(MaxSends + 1)) <= Cardinality(Ours)
  BY <1>5, <1>7, FS_Subset
<1>10. Cardinality(Ours) <= Cardinality(LandedCreates)
  BY DEF DeployIInv, OneCreateEach
<1>11. Cardinality(LandedCreates) \in Nat /\ Cardinality(Ours) \in Nat /\ MaxSends \in Nat
  BY <1>2, <1>3, <1>7, FS_Subset, FS_CardinalityType, DeployAssumption
<1> QED
  BY <1>1, <1>4, <1>8, <1>9, <1>10, <1>11

-----------------------------------------------------------------------------
\* One more create, with a number of its own.
LEMMA OneMoreCreate ==
    ASSUME DeployIInv, Cardinality(creates) + 1 <= MaxSends,
           creates' = creates \cup {[n |-> Cardinality(creates) + 1, anchor |-> DefaultAnchor, state |-> "sent"]}
    PROVE  /\ creates' \in SUBSET Packages /\ IsFiniteSet(creates') /\ Cardinality(creates') <= MaxSends
           /\ \A p \in creates' : p.n <= Cardinality(creates')
           /\ \A p, q \in creates' : p.n = q.n => p = q
           /\ LandedCreates' = LandedCreates
<1> DEFINE package == [n |-> Cardinality(creates) + 1, anchor |-> DefaultAnchor, state |-> "sent"]
<1>1. creates \in SUBSET Packages /\ IsFiniteSet(creates) /\ Cardinality(creates) \in Nat
  BY FS_CardinalityType DEF DeployIInv, DeployTypeOK
<1>2. package \in Packages /\ package.n = Cardinality(creates) + 1 /\ package.state = "sent"
  BY <1>1, AnchorsTyped DEF Packages, DeployIInv
<1> HIDE DEF package
<1>3. creates' = creates \cup {package}
  BY DEF package
<1>4. \A p \in creates : p.n \in Nat /\ p.n <= Cardinality(creates)
  BY <1>1 DEF DeployIInv, Numbered, Packages
<1>5. package \notin creates
  BY <1>1, <1>2, <1>4
<1>6. IsFiniteSet(creates') /\ Cardinality(creates') = Cardinality(creates) + 1
  BY <1>1, <1>3, <1>5, FS_AddElement
<1>7. \A p \in creates' : p.n <= Cardinality(creates')
  BY <1>1, <1>2, <1>3, <1>4, <1>6
<1>8. \A p, q \in creates' : p.n = q.n => p = q
  <2>1. \A p, q \in creates : p.n = q.n => p = q
    BY DEF DeployIInv, Numbered
  <2>2. \A p \in creates : p.n # package.n
    BY <1>1, <1>2, <1>4
  <2> QED
    BY <1>3, <2>1, <2>2
<1>9. LandedCreates' = LandedCreates
  BY <1>2, <1>3 DEF LandedCreates
<1> QED
  BY <1>1, <1>2, <1>3, <1>6, <1>7, <1>8, <1>9

\* A send, whatever its outcome: one more create at most, which is followed
\* unless the tool knows that it does not know.
LEMMA SendKeepsCount ==
    ASSUME DeployIInv, NEW outcome \in {"ok", "busy", "unknown"}, NEW first \in BOOLEAN,
           first \/ stage = "create", Send(outcome, first)
    PROVE  /\ creates' \in SUBSET Packages /\ IsFiniteSet(creates') /\ Cardinality(creates') <= MaxSends
           /\ \A p \in creates' : p.n <= Cardinality(creates')
           /\ \A p, q \in creates' : p.n = q.n => p = q
           /\ LandedCreates' = LandedCreates
           /\ receipt' \in Nat
           /\ receipt' # 0 => \E p \in creates' : p.n = receipt'
           /\ ~blind' => ~blind /\ \A p \in creates' : p \in creates \/ p.n = receipt'
<1> DEFINE package == [n |-> Cardinality(creates) + 1, anchor |-> DefaultAnchor, state |-> "sent"]
           Counted == /\ creates' \in SUBSET Packages /\ IsFiniteSet(creates') /\ Cardinality(creates') <= MaxSends
                      /\ \A p \in creates' : p.n <= Cardinality(creates')
                      /\ \A p, q \in creates' : p.n = q.n => p = q
                      /\ LandedCreates' = LandedCreates
<1>1. Cardinality(creates) \in Nat /\ receipt \in Nat
  BY FS_CardinalityType DEF DeployIInv, DeployTypeOK
<1>2. /\ Cardinality(creates) + 1 <= MaxSends
      /\ \/ creates' = creates \cup {package} /\ receipt' = Cardinality(creates) + 1 /\ blind' = blind
         \/ receipt' = 0 /\ creates' = creates /\ blind' = blind
         \/ /\ creates' \in {creates, creates \cup {package}} /\ receipt' = (IF first THEN 0 ELSE receipt)
            /\ blind' = TRUE
  BY DEF Send
<1>3. creates' = creates => Counted
  BY DEF DeployIInv, DeployTypeOK, Numbered, LandedCreates
<1>4. creates' = creates \cup {package} => Counted
  BY <1>2, OneMoreCreate
<1>5. package.n = Cardinality(creates) + 1
  OBVIOUS
<1>6. Counted
  BY <1>2, <1>3, <1>4
<1> HIDE DEF package, Counted
<1>7. receipt' \in Nat
  BY <1>1, <1>2
<1>8. receipt' # 0 => \E p \in creates' : p.n = receipt'
  <2>1. ~first /\ receipt # 0 => \E p \in creates : p.n = receipt
    BY DEF DeployIInv, Numbered
  <2> QED
    BY <1>2, <1>5, <2>1
<1>9. ~blind' => ~blind /\ \A p \in creates' : p \in creates \/ p.n = receipt'
  BY <1>2, <1>5
<1> QED
  BY <1>6, <1>7, <1>8, <1>9 DEF Counted

-----------------------------------------------------------------------------
\* What a step of the tool leaves of the services and finality.
LEMMA ServicesUntouched ==
    ASSUME DeployIInv, UNCHANGED <<slot, finalSlot, svc, finished, fallback>>
    PROVE  Ours' = Ours /\ FinishedIsFinal' /\ \A p : Dead(p)' <=> Dead(p)
  BY DEF DeployIInv, Ours, RunsOurCode, FinishedIsFinal, ParentSlot, Dead

LEMMA CreatesUntouched ==
    ASSUME DeployIInv, UNCHANGED <<svc, creates>>
    PROVE  OneCreateEach' /\ LandedCreates' = LandedCreates /\ Ours' = Ours
<1>1. LandedCreates' = LandedCreates /\ Ours' = Ours
  BY DEF LandedCreates, Ours, RunsOurCode
<1> QED
  BY <1>1 DEF DeployIInv, OneCreateEach

LEMMA RunReusesKeeps ==
    ASSUME DeployIInv, NEW i \in ServiceIds, RunReuses(i)
    PROVE  DeployIInv'
<1>1. /\ stage = "idle" /\ i \in Existing /\ stage' = "provide" /\ sid' = i
      /\ UNCHANGED <<slot, finalSlot, svc, creates, receipt, since, preimage, stateFile, finished, blind, fallback>>
  BY DEF RunReuses, ledgerVars
<1>2. Ours' = Ours /\ FinishedIsFinal' /\ \A p : Dead(p)' <=> Dead(p)
  BY <1>1, ServicesUntouched
<1>3. OneCreateEach'
  BY <1>1, CreatesUntouched
<1>4. i \in Ours /\ stateFile \in {0, i}
  BY <1>1 DEF Existing, Ours, DeployIInv, OneChosen
<1>5. DeployTypeOK' /\ Numbered'
  BY <1>1, <1>2 DEF DeployIInv, DeployTypeOK, Numbered
<1>6. OneChosen'
  BY <1>1, <1>2, <1>4 DEF DeployIInv, OneChosen
<1>7. OnlyFollowedLands'
  BY <1>1, <1>2 DEF DeployIInv, OnlyFollowedLands
<1> QED
  BY <1>2, <1>3, <1>5, <1>6, <1>7 DEF DeployIInv

LEMMA RunCreatesKeeps ==
    ASSUME DeployIInv, NEW outcome \in {"ok", "busy", "unknown"}, RunCreates(outcome)
    PROVE  DeployIInv'
<1>1. /\ stage = "idle" /\ Existing = {} /\ Send(outcome, TRUE)
      /\ stage' = (IF outcome = "unknown" THEN "idle" ELSE "create")
      /\ since' = (IF outcome = "unknown" THEN 0 ELSE slot)
      /\ UNCHANGED <<slot, finalSlot, svc, sid, preimage, stateFile, finished, fallback>>
  BY DEF RunCreates, ledgerVars
<1>2. Ours' = Ours /\ FinishedIsFinal' /\ \A p : Dead(p)' <=> Dead(p)
  BY <1>1, ServicesUntouched
<1>3. /\ creates' \in SUBSET Packages /\ IsFiniteSet(creates') /\ Cardinality(creates') <= MaxSends
      /\ \A p \in creates' : p.n <= Cardinality(creates')
      /\ \A p, q \in creates' : p.n = q.n => p = q
      /\ LandedCreates' = LandedCreates
      /\ receipt' \in Nat
      /\ receipt' # 0 => \E p \in creates' : p.n = receipt'
      /\ ~blind' => ~blind /\ \A p \in creates' : p \in creates \/ p.n = receipt'
  BY <1>1, SendKeepsCount
<1>4. outcome = "unknown" => blind'
  BY <1>1 DEF Send
<1>5. Ours = {} /\ stateFile = 0
  BY <1>1 DEF Existing, Ours, DeployIInv, OneChosen
<1>6. LandedCreates = {}
  BY <1>5 DEF DeployIInv, OneCreateEach
<1>7. ~blind => \A p \in creates : Dead(p)
  BY <1>1, <1>6 DEF DeployIInv, OnlyFollowedLands, LandedCreates
<1>8. DeployTypeOK'
  BY <1>1, <1>2, <1>3 DEF DeployIInv, DeployTypeOK
<1>9. Numbered'
  BY <1>3 DEF Numbered
<1>10. OneCreateEach'
  BY <1>1, <1>2, <1>3 DEF DeployIInv, OneCreateEach
<1>11. OneChosen'
  BY <1>1, <1>2, <1>5 DEF DeployIInv, OneChosen
<1>12. OnlyFollowedLands'
  BY <1>1, <1>2, <1>3, <1>4, <1>5, <1>7 DEF OnlyFollowedLands
<1> QED
  BY <1>2, <1>8, <1>9, <1>10, <1>11, <1>12 DEF DeployIInv

LEMMA CreateSeenKeeps ==
    ASSUME DeployIInv, CreateSeen
    PROVE  DeployIInv'
<1> DEFINE ids == Created(ready # 0)
<1>1. /\ stage = "create" /\ ids # {} /\ stage' = "provide" /\ sid' = Lowest(ids) /\ receipt' = 0 /\ since' = 0
      /\ UNCHANGED <<slot, finalSlot, svc, creates, preimage, stateFile, finished, blind, fallback>>
  BY DEF CreateSeen, ledgerVars
<1>2. Ours' = Ours /\ FinishedIsFinal' /\ \A p : Dead(p)' <=> Dead(p)
  BY <1>1, ServicesUntouched
<1>3. OneCreateEach'
  BY <1>1, CreatesUntouched
<1>4. ids \subseteq Ours
  BY DeployAssumption DEF Created, Ours, ServiceIds, Wanted
<1> HIDE DEF ids
<1>5. ids \in SUBSET ServiceIds
  BY <1>4 DEF Ours
<1>6. sid' \in Ours
  BY <1>1, <1>4, <1>5, LowestIsLeast
<1>7. ASSUME NEW p \in creates, ~blind PROVE Dead(p) \/ p.state = "landed"
  <2>1. LandedCreates # {}
    <3>1. IsFiniteSet(ServiceIds)
      BY DeployAssumption, FS_Interval DEF ServiceIds
    <3>2. IsFiniteSet(Ours) /\ Ours # {}
      BY <1>1, <1>4, <3>1, FS_Subset DEF Ours
    <3>3. Cardinality(Ours) \in Nat /\ Cardinality(Ours) # 0
      BY <3>2, FS_EmptySet, FS_CardinalityType
    <3>4. Cardinality(Ours) <= Cardinality(LandedCreates)
      BY DEF DeployIInv, OneCreateEach
    <3> QED
      BY <3>3, <3>4, FS_EmptySet
  <2>2. PICK q \in creates : q.state = "landed"
    BY <2>1 DEF LandedCreates
  <2>3. ~Dead(q)
    BY <2>2 DEF Dead
  <2>4. q.n = receipt
    BY <1>1, <1>7, <2>2, <2>3 DEF DeployIInv, OnlyFollowedLands
  <2>5. Dead(p) \/ p.n = receipt
    BY <1>1, <1>7 DEF DeployIInv, OnlyFollowedLands
  <2> QED
    BY <2>2, <2>4, <2>5 DEF DeployIInv, Numbered
<1>8. DeployTypeOK' /\ Numbered'
  BY <1>1, <1>2 DEF DeployIInv, DeployTypeOK, Numbered
<1>9. OneChosen'
  BY <1>1, <1>2, <1>6 DEF DeployIInv, OneChosen
<1>10. OnlyFollowedLands'
  BY <1>1, <1>2, <1>7 DEF DeployIInv, OnlyFollowedLands
<1> QED
  BY <1>2, <1>3, <1>8, <1>9, <1>10 DEF DeployIInv

\* The run ends with nothing known of what it followed, or with its service
\* chosen already.
LEMMA RunStopsKeeps ==
    ASSUME DeployIInv, CreateFails \/ RunDies
    PROVE  DeployIInv'
<1>1. /\ stage' = "idle" /\ receipt' = 0 /\ since' = 0
      /\ UNCHANGED <<slot, finalSlot, svc, creates, preimage, stateFile, finished, fallback>>
      /\ ~blind' => ~blind /\ stage # "create"
  BY DEF CreateFails, RunDies, Fails, ledgerVars
<1>2. Ours' = Ours /\ FinishedIsFinal' /\ \A p : Dead(p)' <=> Dead(p)
  BY <1>1, ServicesUntouched
<1>3. OneCreateEach'
  BY <1>1, CreatesUntouched
<1>4. DeployTypeOK' /\ Numbered' /\ OneChosen'
  BY <1>1, <1>2 DEF DeployIInv, DeployTypeOK, Numbered, OneChosen
<1>5. OnlyFollowedLands'
  BY <1>1, <1>2 DEF DeployIInv, OnlyFollowedLands
<1> QED
  BY <1>2, <1>3, <1>4, <1>5 DEF DeployIInv

\* A create is resent only when none sent before can land any more.
LEMMA ResendIsSafe ==
    ASSUME DeployIInv, NEW status \in {"none", "failed", "ready"}, NEW outcome, CreatePolls(status, outcome),
           ~(receipt # 0 /\ status = "ready"), ~blind
    PROVE  \A p \in creates : Dead(p)
<1> DEFINE package == CHOOSE p \in creates : p.n = receipt
<1>1. \A p \in creates : Dead(p) \/ p.n = receipt
  BY DEF DeployIInv, OnlyFollowedLands, CreatePolls
<1>2. CASE receipt = 0
  <2>1. \A p \in creates : p.n # 0
    BY DEF DeployIInv, DeployTypeOK, Packages
  <2> QED
    BY <1>1, <1>2, <2>1
<1>3. CASE receipt # 0
  <2>1. /\ stage = "create"
        /\ \/ status = "failed" /\ package.state = "failed"
           \/ AgedOut(package) /\ Created(TRUE) = {}
    BY <1>3 DEF CreatePolls
  <2>2. package \in creates /\ package.n = receipt
    BY <1>3, <2>1 DEF DeployIInv, Numbered
  <2> HIDE DEF package
  <2>3. \A p \in creates : Dead(p) \/ p = package
    BY <1>1, <2>2 DEF DeployIInv, Numbered
  <2>4. CASE AgedOut(package) /\ Created(TRUE) = {}
    <3>1. Ours = {}
      BY <2>1, <2>4 DEF Created, Ours, DeployIInv, OnlyFollowedLands
    <3>2. package.state # "landed"
      BY <2>2, <3>1 DEF DeployIInv, OneCreateEach, LandedCreates
    <3>3. package \in Packages /\ slot \in Nat
      BY <2>2 DEF DeployIInv, DeployTypeOK
    <3>4. package.anchor \in Nat /\ package.state \in {"sent", "landed", "failed"}
      BY <3>3 DEF Packages
    <3>5. slot > package.anchor + RECENT + REPORT_TIMEOUT
      BY <2>4, <3>3, <3>4, DeployAssumption DEF AgedOut
    <3> QED
      BY <2>3, <3>2, <3>4, <3>5 DEF Dead
  <2> QED
    BY <2>1, <2>3, <2>4 DEF Dead
<1> QED
  BY <1>2, <1>3

LEMMA CreatePollsKeeps ==
    ASSUME DeployIInv, NEW status \in {"none", "failed", "ready"}, NEW outcome \in {"ok", "busy", "unknown"},
           CreatePolls(status, outcome)
    PROVE  DeployIInv'
<1>1. /\ stage = "create" /\ stage' = "create"
      /\ UNCHANGED <<slot, finalSlot, svc, sid, since, preimage, stateFile, finished, fallback>>
      /\ Send(outcome, FALSE) \/ (receipt # 0 /\ status = "ready" /\ UNCHANGED <<creates, receipt, blind>>)
  BY DEF CreatePolls, ledgerVars
<1>2. Ours' = Ours /\ FinishedIsFinal' /\ \A p : Dead(p)' <=> Dead(p)
  BY <1>1, ServicesUntouched
<1>3. CASE receipt # 0 /\ status = "ready" /\ UNCHANGED <<creates, receipt, blind>>
  <2>1. OneCreateEach'
    BY <1>1, <1>3, CreatesUntouched
  <2>2. DeployTypeOK' /\ Numbered' /\ OneChosen'
    BY <1>1, <1>2, <1>3 DEF DeployIInv, DeployTypeOK, Numbered, OneChosen
  <2>3. OnlyFollowedLands'
    BY <1>1, <1>2, <1>3 DEF DeployIInv, OnlyFollowedLands
  <2> QED
    BY <1>2, <2>1, <2>2, <2>3 DEF DeployIInv
<1>4. CASE Send(outcome, FALSE) /\ ~(receipt # 0 /\ status = "ready")
  <2>1. /\ creates' \in SUBSET Packages /\ IsFiniteSet(creates') /\ Cardinality(creates') <= MaxSends
        /\ \A p \in creates' : p.n <= Cardinality(creates')
        /\ \A p, q \in creates' : p.n = q.n => p = q
        /\ LandedCreates' = LandedCreates
        /\ receipt' \in Nat
        /\ receipt' # 0 => \E p \in creates' : p.n = receipt'
        /\ ~blind' => ~blind /\ \A p \in creates' : p \in creates \/ p.n = receipt'
    BY <1>1, <1>4, SendKeepsCount
  <2>2. ~blind => \A p \in creates : Dead(p)
    BY <1>4, ResendIsSafe
  <2>3. DeployTypeOK'
    BY <1>1, <1>2, <2>1 DEF DeployIInv, DeployTypeOK
  <2>4. Numbered'
    BY <2>1 DEF Numbered
  <2>5. OneCreateEach' /\ OneChosen'
    BY <1>1, <1>2, <2>1 DEF DeployIInv, OneCreateEach, OneChosen
  <2>6. OnlyFollowedLands'
    BY <1>1, <1>2, <2>1, <2>2 DEF DeployIInv, OnlyFollowedLands
  <2> QED
    BY <1>2, <2>3, <2>4, <2>5, <2>6 DEF DeployIInv
<1>5. Send(outcome, FALSE) => ~(receipt # 0 /\ status = "ready") \/ UNCHANGED <<creates, receipt, blind>>
  BY DEF CreatePolls
<1> QED
  BY <1>1, <1>3, <1>4, <1>5

LEMMA ProvideKeeps ==
    ASSUME DeployIInv, Provide
    PROVE  DeployIInv'
<1>1. /\ stage = "provide" /\ stage' \in {"provide", "usable"} /\ preimage' \in {preimage, preimage \cup {sid}}
      /\ UNCHANGED <<slot, finalSlot, svc, creates, sid, receipt, since, stateFile, finished, blind, fallback>>
  BY DEF Provide, ledgerVars
<1>2. Ours' = Ours /\ FinishedIsFinal' /\ \A p : Dead(p)' <=> Dead(p)
  BY <1>1, ServicesUntouched
<1>3. OneCreateEach'
  BY <1>1, CreatesUntouched
<1>4. sid \in Ours
  BY <1>1 DEF DeployIInv, OneChosen
<1>5. DeployTypeOK'
  BY <1>1, <1>2, <1>4 DEF DeployIInv, DeployTypeOK
<1>6. Numbered' /\ OneChosen'
  BY <1>1, <1>2 DEF DeployIInv, Numbered, OneChosen
<1>7. OnlyFollowedLands'
  BY <1>1, <1>2 DEF DeployIInv, OnlyFollowedLands
<1> QED
  BY <1>2, <1>3, <1>5, <1>6, <1>7 DEF DeployIInv

\* The service that is chosen has its code where the next package looks for it.
LEMMA RunEndsKeeps ==
    ASSUME DeployIInv, RunEnds
    PROVE  DeployIInv'
<1>1. /\ stage = "usable" /\ stage' = "idle" /\ Usable
      /\ stateFile' = sid /\ finished' = finished \cup {sid}
      /\ fallback' = (DefaultLookupAnchor # ParentSlot(finalSlot))
      /\ UNCHANGED <<slot, finalSlot, svc, creates, receipt, since, preimage, blind>>
  BY DEF RunEnds, ledgerVars
<1>2. Ours' = Ours /\ \A p : Dead(p)' <=> Dead(p)
  BY <1>1 DEF Ours, RunsOurCode, Dead
<1>3. OneCreateEach'
  BY <1>1, CreatesUntouched
<1>4. sid \in Ours /\ sid \in ServiceIds /\ finished' = {sid}
  <2>1. sid \in Ours /\ sid # 0 /\ stateFile \in {0, sid} /\ finished \subseteq {stateFile}
    BY <1>1, DeployAssumption DEF DeployIInv, OneChosen, Ours, ServiceIds
  <2>2. 0 \notin finished
    BY DeployAssumption DEF DeployIInv, DeployTypeOK, ServiceIds
  <2> QED
    BY <1>1, <2>1, <2>2 DEF Ours
<1>5. DeployTypeOK'
  BY <1>1, <1>2, <1>4 DEF DeployIInv, DeployTypeOK
<1>6. Numbered' /\ OneChosen'
  BY <1>1, <1>2, <1>4 DEF DeployIInv, Numbered, OneChosen
<1>7. OnlyFollowedLands'
  BY <1>1, <1>2 DEF DeployIInv, OnlyFollowedLands
<1>8. FinishedIsFinal'
  <2>1. svc[sid].provided # 0 /\ svc[sid].provided <= DefaultLookupAnchor
    BY <1>1 DEF Usable, CodeAt
  <2>2. ParentSlot(finalSlot)' = ParentSlot(finalSlot)
    BY <1>1 DEF ParentSlot
  <2> QED
    BY <1>1, <1>4, <2>1, <2>2 DEF FinishedIsFinal
<1> QED
  BY <1>3, <1>5, <1>6, <1>7, <1>8 DEF DeployIInv

\* Time only takes from what can land and adds to what is final.
LEMMA TimeKeeps ==
    ASSUME DeployIInv, SlotPasses \/ \E s \in 1..MaxSlot : Finality(s)
    PROVE  DeployIInv'
<1>1. /\ slot' \in Nat /\ slot' >= slot /\ finalSlot' \in Nat /\ finalSlot' >= finalSlot
      /\ UNCHANGED <<svc, creates, stage, sid, receipt, since, preimage, stateFile, finished, blind, fallback>>
  BY DeployAssumption DEF SlotPasses, Finality, toolVars, DeployIInv, DeployTypeOK
<1>2. Ours' = Ours
  BY <1>1 DEF Ours, RunsOurCode
<1>3. OneCreateEach'
  BY <1>1, CreatesUntouched
<1>4. DeployTypeOK'
  BY <1>1, <1>2 DEF DeployIInv, DeployTypeOK
<1>5. Numbered' /\ OneChosen'
  BY <1>1, <1>2 DEF DeployIInv, Numbered, OneChosen
<1>6. \A p \in creates : Dead(p) => Dead(p)'
  <2>1. slot \in Nat /\ \A p \in creates : p.anchor \in Nat
    BY DEF DeployIInv, DeployTypeOK, Packages
  <2> QED
    BY <1>1, <2>1, DeployAssumption DEF Dead
<1>7. OnlyFollowedLands'
  BY <1>1, <1>2, <1>6 DEF DeployIInv, OnlyFollowedLands
<1>8. FinishedIsFinal'
  <2>1. ParentSlot(finalSlot) <= ParentSlot(finalSlot)' /\ ParentSlot(finalSlot) \in Nat /\ ParentSlot(finalSlot)' \in Nat
    <3>1. finalSlot \in Nat /\ finalSlot' \in Nat /\ finalSlot' >= finalSlot
      BY <1>1 DEF DeployIInv, DeployTypeOK
    <3>2. \A s, t \in Nat : s <= t => ParentSlot(s) \in Nat /\ ParentSlot(t) \in Nat /\ ParentSlot(s) <= ParentSlot(t)
      BY DEF ParentSlot
    <3>3. ParentSlot(finalSlot)' = ParentSlot(finalSlot')
      BY DEF ParentSlot
    <3> QED
      BY <3>1, <3>2, <3>3
  <2>2. \A i \in finished : svc[i].provided \in Nat
    BY DEF DeployIInv, DeployTypeOK, Accounts
  <2> QED
    BY <1>1, <2>1, <2>2 DEF DeployIInv, FinishedIsFinal
<1> QED
  BY <1>3, <1>4, <1>5, <1>7, <1>8 DEF DeployIInv

\* A create changes its state and nothing else.
LEMMA StateChanges ==
    ASSUME DeployIInv, NEW p \in creates, p.state = "sent", NEW state \in {"landed", "failed"},
           creates' = (creates \ {p}) \cup {[p EXCEPT !.state = state]}
    PROVE  /\ creates' \in SUBSET Packages /\ IsFiniteSet(creates') /\ Cardinality(creates') = Cardinality(creates)
           /\ \A q \in creates' : q.n <= Cardinality(creates')
           /\ \A q, r \in creates' : q.n = r.n => q = r
           /\ \A q \in creates : \E r \in creates' : r.n = q.n
           /\ \A q \in creates' : q \in creates \ {p} \/ (q = [p EXCEPT !.state = state] /\ q.n = p.n /\ q.state = state)
           /\ [p EXCEPT !.state = state] \notin creates
<1> DEFINE now == [p EXCEPT !.state = state]
<1>1. creates \in SUBSET Packages /\ IsFiniteSet(creates) /\ Cardinality(creates) \in Nat
  BY FS_CardinalityType DEF DeployIInv, DeployTypeOK
<1>2. now \in Packages /\ now.n = p.n /\ now.state = state /\ now # p
  BY <1>1 DEF Packages
<1> HIDE DEF now
<1>3. creates' = (creates \ {p}) \cup {now}
  BY DEF now
<1>4. \A q, r \in creates : q.n = r.n => q = r
  BY DEF DeployIInv, Numbered
<1>5. now \notin creates /\ now \notin creates \ {p}
  BY <1>2, <1>4
<1>6. IsFiniteSet(creates \ {p}) /\ Cardinality(creates \ {p}) = Cardinality(creates) - 1
  BY <1>1, FS_RemoveElement
<1>7. IsFiniteSet(creates') /\ Cardinality(creates') = Cardinality(creates)
  BY <1>1, <1>3, <1>5, <1>6, FS_AddElement
<1>8. \A q \in creates' : q.n <= Cardinality(creates')
  BY <1>2, <1>3, <1>7 DEF DeployIInv, Numbered
<1>9. /\ \A q, r \in creates' : q.n = r.n => q = r
      /\ \A q \in creates : \E r \in creates' : r.n = q.n
  BY <1>2, <1>3, <1>4
<1> QED
  BY <1>1, <1>2, <1>3, <1>5, <1>7, <1>8, <1>9 DEF now

LEMMA CreateLostKeeps ==
    ASSUME DeployIInv, NEW p \in creates, CreateLost(p)
    PROVE  DeployIInv'
<1>1. /\ p.state = "sent" /\ creates' = (creates \ {p}) \cup {[p EXCEPT !.state = "failed"]}
      /\ UNCHANGED <<slot, finalSlot, svc, stage, sid, receipt, since, preimage, stateFile, finished, blind, fallback>>
  BY DEF CreateLost, ledgerVars, toolVars
<1>2. Ours' = Ours /\ FinishedIsFinal' /\ \A q : Dead(q)' <=> Dead(q)
  BY <1>1, ServicesUntouched
<1>3. /\ creates' \in SUBSET Packages /\ IsFiniteSet(creates') /\ Cardinality(creates') = Cardinality(creates)
      /\ \A q \in creates' : q.n <= Cardinality(creates')
      /\ \A q, r \in creates' : q.n = r.n => q = r
      /\ \A q \in creates : \E r \in creates' : r.n = q.n
      /\ \A q \in creates' : q \in creates \ {p} \/ q.state = "failed"
  BY <1>1, StateChanges
<1>4. LandedCreates' = LandedCreates
  <2>1. \A q \in creates' : q.state = "landed" => q \in creates
    BY <1>3
  <2>2. \A q \in creates : q.state = "landed" => q \in creates'
    BY <1>1
  <2> QED
    BY <2>1, <2>2 DEF LandedCreates
<1>5. DeployTypeOK'
  BY <1>1, <1>2, <1>3 DEF DeployIInv, DeployTypeOK
<1>6. Numbered'
  BY <1>1, <1>3 DEF DeployIInv, Numbered
<1>7. OneCreateEach' /\ OneChosen'
  BY <1>1, <1>2, <1>4 DEF DeployIInv, OneCreateEach, OneChosen
<1>8. OnlyFollowedLands'
  <2>1. \A q \in creates' : q \in creates \/ Dead(q)
    BY <1>3 DEF Dead
  <2> QED
    BY <1>1, <1>2, <2>1 DEF DeployIInv, OnlyFollowedLands
<1> QED
  BY <1>2, <1>5, <1>6, <1>7, <1>8 DEF DeployIInv

\* A create that lands takes a free id; when every outcome is known it is the
\* one the tool follows, and there is no service yet.
LEMMA CreateLandsKeeps ==
    ASSUME DeployIInv, NEW p \in creates, NEW registrar \in BOOLEAN, CreateLands(p, registrar)
    PROVE  DeployIInv'
<1> DEFINE free == {k \in ServiceIds \ {Wanted} : svc[k] = Absent}
           now == [p EXCEPT !.state = "landed"]
<1>1. PICK i : i = IF registrar /\ svc[Wanted] = Absent THEN Wanted ELSE Lowest(free)
  OBVIOUS
<1>2. /\ p.state = "sent" /\ slot <= p.anchor + RECENT + REPORT_TIMEOUT
      /\ creates' = (creates \ {p}) \cup {now}
      /\ svc' = [svc EXCEPT ![i] = [code |-> "ours", created |-> slot, provided |-> 0]]
      /\ UNCHANGED <<slot, finalSlot, stage, sid, receipt, since, preimage, stateFile, finished, blind, fallback>>
  BY <1>1 DEF CreateLands, toolVars
<1>3. /\ creates' \in SUBSET Packages /\ IsFiniteSet(creates') /\ Cardinality(creates') = Cardinality(creates)
      /\ \A q \in creates' : q.n <= Cardinality(creates')
      /\ \A q, r \in creates' : q.n = r.n => q = r
      /\ \A q \in creates : \E r \in creates' : r.n = q.n
      /\ \A q \in creates' : q \in creates \ {p} \/ (q = now /\ q.n = p.n /\ q.state = "landed")
      /\ now \notin creates
  BY <1>2, StateChanges
<1>4. i \in ServiceIds /\ svc[i] = Absent
  <2>1. free # {} /\ free \in SUBSET ServiceIds
    BY <1>2, FreeId
  <2>2. Lowest(free) \in free
    BY <2>1, LowestIsLeast
  <2> QED
    BY <1>1, <2>2, DeployAssumption DEF Wanted, ServiceIds
<1> HIDE DEF free
<1>5. /\ svc' \in [ServiceIds -> Accounts] /\ svc'[i].code = "ours" /\ svc'[i].created = slot
      /\ \A k \in ServiceIds : k # i => svc'[k] = svc[k]
  BY <1>2, <1>4 DEF DeployIInv, DeployTypeOK, Accounts
<1>6. i \notin Ours /\ Ours' = Ours \cup {i}
  BY <1>4, <1>5 DEF Ours, RunsOurCode, Absent
<1>7. now.state = "landed" /\ now \in creates'
  BY <1>2 DEF DeployIInv, DeployTypeOK, Packages
<1> HIDE DEF now
<1>8. LandedCreates' = LandedCreates \cup {now} /\ now \notin LandedCreates
  <2>1. \A q \in creates' : q.state = "landed" => q \in creates \/ q = now
    BY <1>3
  <2>2. \A q \in creates : q.state = "landed" => q \in creates'
    BY <1>2
  <2> QED
    BY <1>3, <1>7, <2>1, <2>2 DEF LandedCreates
<1>9. DeployTypeOK'
  BY <1>2, <1>3, <1>5, <1>6 DEF DeployIInv, DeployTypeOK
<1>10. Numbered'
  BY <1>2, <1>3 DEF DeployIInv, Numbered
<1>11. OneCreateEach'
  <2>1. IsFiniteSet(ServiceIds)
    BY DeployAssumption, FS_Interval DEF ServiceIds
  <2>2. IsFiniteSet(Ours) /\ Cardinality(Ours) \in Nat
    BY <2>1, FS_Subset, FS_CardinalityType DEF Ours
  <2>3. IsFiniteSet(LandedCreates) /\ Cardinality(LandedCreates) \in Nat
    BY FS_Subset, FS_CardinalityType DEF LandedCreates, DeployIInv, DeployTypeOK
  <2>4. Cardinality(Ours') = Cardinality(Ours) + 1
    BY <1>6, <2>2, FS_AddElement
  <2>5. Cardinality(LandedCreates') = Cardinality(LandedCreates) + 1
    BY <1>8, <2>3, FS_AddElement
  <2>6. Cardinality(Ours') <= Cardinality(LandedCreates')
    BY <2>2, <2>3, <2>4, <2>5 DEF DeployIInv, OneCreateEach
  <2>7. \A k \in ServiceIds \ Ours' : svc'[k] = Absent
    BY <1>5, <1>6 DEF DeployIInv, OneCreateEach
  <2> QED
    BY <1>6, <2>6, <2>7 DEF OneCreateEach
<1>12. OneChosen'
  BY <1>2, <1>6 DEF DeployIInv, OneChosen
<1>13. OnlyFollowedLands'
  <2> SUFFICES ASSUME ~blind
               PROVE  /\ \A q \in creates' : Dead(q)' \/ IF stage = "create" THEN q.n = receipt ELSE q.state = "landed"
                      /\ stage = "create" => \A k \in Ours' : svc'[k].created >= since
                      /\ \A k, m \in Ours' : k = m
    BY <1>2 DEF OnlyFollowedLands
  <2>1. ~Dead(p)
    <3>1. slot \in Nat /\ p.anchor \in Nat
      BY DEF DeployIInv, DeployTypeOK, Packages
    <3> QED
      BY <1>2, <3>1, DeployAssumption DEF Dead
  <2>2. stage = "create" /\ p.n = receipt
    BY <1>2, <2>1 DEF DeployIInv, OnlyFollowedLands
  <2>3. \A q \in creates \ {p} : Dead(q)
    BY <2>2 DEF DeployIInv, OnlyFollowedLands, Numbered
  <2>4. LandedCreates = {}
    BY <1>2, <2>3 DEF LandedCreates, Dead
  <2>5. Ours = {}
    <3>1. IsFiniteSet(ServiceIds)
      BY DeployAssumption, FS_Interval DEF ServiceIds
    <3>2. IsFiniteSet(Ours) /\ Cardinality(Ours) \in Nat
      BY <3>1, FS_Subset, FS_CardinalityType DEF Ours
    <3>3. Cardinality(Ours) <= 0
      BY <2>4, FS_EmptySet DEF DeployIInv, OneCreateEach
    <3> QED
      BY <3>2, <3>3, FS_EmptySet
  <2>6. \A q \in creates' : Dead(q)' \/ q.n = receipt
    BY <1>2, <1>3, <2>2, <2>3 DEF Dead
  <2>7. slot \in Nat /\ since <= slot
    BY DEF DeployIInv, DeployTypeOK
  <2> QED
    BY <1>5, <1>6, <2>2, <2>5, <2>6, <2>7
<1>14. FinishedIsFinal'
  <2>1. i \notin finished
    <3>1. finished \subseteq Ours
      BY DeployAssumption DEF DeployIInv, DeployTypeOK, OneChosen, ServiceIds
    <3> QED
      BY <1>6, <3>1
  <2>2. \A k \in finished : svc'[k] = svc[k]
    BY <1>5, <2>1 DEF DeployIInv, DeployTypeOK
  <2> QED
    BY <1>2, <2>2 DEF DeployIInv, FinishedIsFinal, ParentSlot
<1> QED
  BY <1>9, <1>10, <1>11, <1>12, <1>13, <1>14 DEF DeployIInv

\* Code that is provided stays as it was provided first.
LEMMA CodeIntegratedKeeps ==
    ASSUME DeployIInv, NEW i \in preimage, CodeIntegrated(i)
    PROVE  DeployIInv'
<1>1. /\ preimage' = preimage \ {i}
      /\ svc' = IF svc[i].provided = 0 THEN [svc EXCEPT ![i].provided = slot] ELSE svc
      /\ UNCHANGED <<slot, finalSlot, creates, stage, sid, receipt, since, stateFile, finished, blind, fallback>>
  BY DEF CodeIntegrated, toolVars
<1>2. i \in Ours /\ i \in ServiceIds /\ svc \in [ServiceIds -> Accounts] /\ slot \in Nat
  BY DEF DeployIInv, DeployTypeOK, Ours
<1>3. /\ svc' \in [ServiceIds -> Accounts]
      /\ \A k \in ServiceIds : svc'[k].code = svc[k].code /\ svc'[k].created = svc[k].created
      /\ \A k \in ServiceIds : svc[k].provided # 0 \/ k # i => svc'[k] = svc[k]
  BY <1>1, <1>2 DEF Accounts
<1>4. Ours' = Ours /\ LandedCreates' = LandedCreates /\ \A q : Dead(q)' <=> Dead(q)
  BY <1>1, <1>3 DEF Ours, RunsOurCode, LandedCreates, Dead
<1>5. DeployTypeOK'
  BY <1>1, <1>3, <1>4 DEF DeployIInv, DeployTypeOK
<1>6. Numbered' /\ OneChosen'
  BY <1>1, <1>4 DEF DeployIInv, Numbered, OneChosen
<1>7. OneCreateEach'
  BY <1>2, <1>3, <1>4 DEF DeployIInv, OneCreateEach
<1>8. OnlyFollowedLands'
  BY <1>1, <1>3, <1>4 DEF DeployIInv, OnlyFollowedLands, Ours
<1>9. FinishedIsFinal'
  BY <1>1, <1>3 DEF DeployIInv, DeployTypeOK, FinishedIsFinal, ParentSlot
<1> QED
  BY <1>5, <1>6, <1>7, <1>8, <1>9 DEF DeployIInv

LEMMA DeployStep ==
    ASSUME DeployIInv, [DeployNext]_deployVars
    PROVE  DeployIInv'
<1>1. CASE UNCHANGED deployVars
  <2>1. UNCHANGED <<slot, finalSlot, svc, creates, stage, sid, receipt, since, preimage, stateFile, finished, blind, fallback>>
    BY <1>1 DEF deployVars, ledgerVars, toolVars
  <2>2. Ours' = Ours /\ FinishedIsFinal' /\ \A p : Dead(p)' <=> Dead(p)
    BY <2>1, ServicesUntouched
  <2>3. OneCreateEach'
    BY <2>1, CreatesUntouched
  <2>4. DeployTypeOK' /\ Numbered' /\ OneChosen'
    BY <2>1, <2>2 DEF DeployIInv, DeployTypeOK, Numbered, OneChosen
  <2>5. OnlyFollowedLands'
    BY <2>1, <2>2 DEF DeployIInv, OnlyFollowedLands
  <2> QED
    BY <2>2, <2>3, <2>4, <2>5 DEF DeployIInv
<1>2. CASE DeployNext
  BY <1>2, RunReusesKeeps, RunCreatesKeeps, CreatePollsKeeps, CreateSeenKeeps, RunStopsKeeps, ProvideKeeps,
     RunEndsKeeps, TimeKeeps, CreateLostKeeps, CreateLandsKeeps, CodeIntegratedKeeps DEF DeployNext
<1> QED
  BY <1>1, <1>2

\* However often the tool is run, dies or is answered late, for any timeouts and
\* numbers of runs and sends: every run that ends ends with the same service,
\* a second one comes only after a create whose outcome nobody knows, and the
\* service stays usable once it was at a finalized lookup anchor (deploy.py:
\* create, provide, wait_usable).
THEOREM DeployGivesOneService == DeploySpec => []OneUsableService
<1>1. DeployIInv => OneUsableService
  <2> SUFFICES ASSUME DeployIInv PROVE OneUsableService
    OBVIOUS
  <2>1. SameService
    <3>1. finished = {} \/ finished = {stateFile}
      BY DEF DeployIInv, OneChosen
    <3>2. Cardinality({}) = 0 /\ Cardinality({stateFile}) = 1
      BY FS_EmptySet, FS_Singleton
    <3> QED
      BY <3>1, <3>2 DEF SameService
  <2>2. NoSecondService
    <3>1. blind \/ Ours = {} \/ \E i \in Ours : Ours = {i}
      BY DEF DeployIInv, OnlyFollowedLands
    <3>2. Ours = {} => Cardinality(Ours) <= 1
      BY FS_EmptySet
    <3>3. (\E i \in Ours : Ours = {i}) => Cardinality(Ours) <= 1
      BY FS_Singleton
    <3> QED
      BY <3>1, <3>2, <3>3 DEF NoSecondService, Ours
  <2>3. ReadyStaysUsable
    <3>1. DeployTypeOK
      BY DEF DeployIInv
    <3>2. DefaultLookupAnchor \in Nat /\ ParentSlot(finalSlot) \in Nat /\ DefaultLookupAnchor >= ParentSlot(finalSlot)
      BY <3>1, AnchorsTyped, LookupNotBeforeFinal
    <3>3. \A i \in finished : svc[i].provided \in Nat
      BY DEF DeployIInv, DeployTypeOK, Accounts
    <3> QED
      BY <3>2, <3>3 DEF DeployIInv, FinishedIsFinal, ReadyStaysUsable, CodeAt
  <2> QED
    BY <2>1, <2>2, <2>3 DEF OneUsableService
<1> QED
  BY <1>1, DeployInitially, DeployStep, PTL DEF DeploySpec

-----------------------------------------------------------------------------
(***************************************************************************)
(* Orders, live and replayed.  The gauges and the verdict agree on orders  *)
(* that no two threads reported at once because such an order has at most  *)
(* one report half done: without one its live record is what the verdict   *)
(* computes from its log (RecordMatches), with one it will be when the     *)
(* line is written (LineDue, EndDue).  A tally is the number of orders     *)
(* whose first end, logged or about to be, the verdict counts (Ends).      *)
(***************************************************************************)
IsALog(log) == \E S : log \in Seq(S)
Fields == {"phase", "marketable", "last", "expires"}

\* What the live record and the order's log have in common.
RecordMatches(rec, log) ==
    /\ Fields = DOMAIN rec
    /\ rec.phase \in Phases
    /\ rec.phase = "rested" <=> Last(log).event = "rested"
    /\ rec.last = Last(log).ts
    /\ rec.expires = Expiry(log)
    /\ rec.marketable <=> Obliged(log)

\* The record was changed, the line of call c is still to be written.
LineDue(rec, log, c) ==
    /\ Fields = DOMAIN rec /\ rec.phase \in Phases /\ At(log, "terminal") = {}
    /\ \/ /\ c.event = "rested" /\ c.expires # 0 /\ rec.phase = "rested" /\ ~rec.marketable
       \/ /\ c.event \notin {"rested", "terminal"} /\ c.expires = 0
          /\ rec.phase # "rested" /\ rec.expires = Expiry(log)
          /\ rec.marketable <=> (At(log, "rested") = {} /\ (Obliged(log) \/ rec.marketable))

\* The record was popped, the line of its end is still to be written.
EndDue(log, c) ==
    /\ c.event = "terminal" /\ c.outcome \in TERMINAL /\ c.expires = 0
    /\ c.marketable <=> (At(log, "terminal") = {} /\ Obliged(log))

Matches(rec, log, cs) ==
    /\ IsALog(log) /\ (At(log, "terminal") # {} => Outcome(log) \in TERMINAL)
    /\ \/ /\ cs = {} /\ (log # <<>> => At(log, "placed") # {})
          /\ rec # NoRecord => log # <<>> /\ At(log, "terminal") = {} /\ RecordMatches(rec, log)
          /\ rec = NoRecord /\ log # <<>> => At(log, "terminal") # {}
       \/ cs = {Queued} /\ rec = NoRecord /\ log = <<>>
       \/ \E c : /\ cs = {c} /\ c # Queued
                 /\ IF c.event = "placed" THEN c.by = "api" /\ log = <<>> /\ c.live
                                          ELSE c.by # "api" /\ At(log, "placed") # {}
                 /\ IF c.live THEN LineDue(rec, log, c) ELSE rec = NoRecord /\ EndDue(log, c)

RecordsMatch == \A o \in Watched : o \notin mixed => Matches(orders[o], events[o], calls[o])

\* An obligation whose first end, written or not, is one of these.
Ends(log, cs, outcomes) ==
    /\ Obliged(log)
    /\ \/ Outcome(log) \in outcomes
       \/ Outcome(log) = "" /\ \E c \in cs : c.event = "terminal" /\ c.outcome \in outcomes
MISSED == TERMINAL \ {"filled", "cancelled"}

ClearedOrders == {o \in Watched : Ends(events[o], calls[o], {"filled"})}
MissedOrders == {o \in Watched : Ends(events[o], calls[o], MISSED)}

TalliesMatch ==
    mixed = {} => slo.cleared = Cardinality(ClearedOrders) /\ slo.missed = Cardinality(MissedOrders)

TelemetryIInv ==
    /\ DOMAIN orders = Watched /\ DOMAIN events = Watched /\ DOMAIN calls = Watched /\ mixed \subseteq Watched
    /\ RecordsMatch /\ TalliesMatch

-----------------------------------------------------------------------------
LEMMA MinIs ==
    ASSUME NEW S \in SUBSET Int, NEW m \in S, \A y \in S : m <= y
    PROVE  Min(S) = m
<1>1. \A x \in S : (\A y \in S : x <= y) => x = m
  OBVIOUS
<1>2. \E x \in S : \A y \in S : x <= y
  OBVIOUS
<1> QED
  BY <1>1, <1>2 DEF Min

\* Among the places of a log, the first stays the first when one is added behind
\* them, which is then the last.
LEMMA Places ==
    ASSUME NEW n \in Nat, NEW S, \A y \in S : y \in 1..n
    PROVE  /\ Min({n + 1}) = n + 1
           /\ Max(S \cup {n + 1}) = n + 1
           /\ S # {} => Min(S) \in S /\ Max(S) \in S /\ Min(S \cup {n + 1}) = Min(S)
<1>1. S \in SUBSET Nat /\ \A y \in S : y >= 1 /\ y <= n
  OBVIOUS
<1>2. Min({n + 1}) = n + 1
  <2>1. {n + 1} \in SUBSET Int /\ n + 1 \in {n + 1} /\ \A y \in {n + 1} : n + 1 <= y
    OBVIOUS
  <2> QED
    BY ONLY <2>1, MinIs
<1>3. Max(S \cup {n + 1}) = n + 1
  <2>1. S \cup {n + 1} \in SUBSET Int /\ n + 1 \in S \cup {n + 1} /\ \A y \in S \cup {n + 1} : n + 1 >= y
    BY <1>1
  <2> QED
    BY ONLY <2>1, MaxIs
<1>4. ASSUME S # {} PROVE Min(S) \in S /\ Min(S \cup {n + 1}) = Min(S)
  <2>1. Min(S) \in S /\ \A y \in S : Min(S) <= y
    BY <1>1, <1>4, MinIsLeast
  <2>2. PICK m \in S : m = Min(S)
    BY <2>1
  <2>3. /\ S \cup {n + 1} \in SUBSET Int /\ m \in S \cup {n + 1}
        /\ \A y \in S \cup {n + 1} : m <= y
    BY <1>1, <2>1, <2>2
  <2>4. Min(S \cup {n + 1}) = m
    BY ONLY <2>3, MinIs
  <2> QED
    BY <2>1, <2>2, <2>4
<1>5. ASSUME S # {} PROVE Max(S) \in S
  <2> SUFFICES \E x \in S : \A y \in S : x >= y
    BY DEF Max
  <2> DEFINE Behind == {n - y : y \in S}
  <2>1. Behind \in SUBSET Nat /\ Behind # {}
    <3>1. \A y \in S : n - y \in Nat
      BY <1>1
    <3>2. Behind # {}
      BY <1>5
    <3> QED
      BY <3>1, <3>2, Zenon
  <2>2. Min(Behind) \in Behind /\ \A z \in Behind : Min(Behind) <= z
    <3> HIDE DEF Behind
    <3> QED
      BY <2>1, MinIsLeast
  <2>3. PICK x \in S : Min(Behind) = n - x
    BY <2>2
  <2>4. \A y \in S : n - x <= n - y
    <3>1. \A y \in S : n - y \in Behind
      OBVIOUS
    <3> HIDE DEF Behind
    <3> QED
      BY <2>2, <2>3, <3>1
  <2>5. \A y \in S : x >= y
    BY <1>1, <2>4
  <2> QED
    BY <2>5
<1> QED
  BY <1>2, <1>3, <1>4, <1>5

\* One more event.
LEMMA Appended ==
    ASSUME NEW log, IsALog(log), NEW e
    PROVE  /\ IsALog(Append(log, e)) /\ Len(log) \in Nat
           /\ Len(Append(log, e)) = Len(log) + 1
           /\ \A i \in 1..Len(log) : Append(log, e)[i] = log[i]
           /\ Append(log, e)[Len(log) + 1] = e
           /\ Append(log, e) # <<>> /\ Last(Append(log, e)) = e
<1>1. PICK S : log \in Seq(S)
  BY DEF IsALog
<1>2. log \in Seq(S \cup {e}) /\ e \in S \cup {e}
  BY <1>1
<1>3. /\ Append(log, e) \in Seq(S \cup {e})
      /\ Len(Append(log, e)) = Len(log) + 1
      /\ \A i \in 1..Len(log) : Append(log, e)[i] = log[i]
      /\ Append(log, e)[Len(log) + 1] = e
  BY <1>2, AppendProperties
<1>4. Len(log) \in Nat
  BY <1>1, LenProperties
<1>5. Append(log, e) # <<>>
  BY <1>3, <1>4
<1> QED
  BY <1>3, <1>4, <1>5 DEF IsALog, Last

LEMMA AtAppended ==
    ASSUME NEW log, IsALog(log), NEW e, NEW event
    PROVE  At(Append(log, e), event) =
             IF e.event = event THEN At(log, event) \cup {Len(log) + 1} ELSE At(log, event)
<1> DEFINE more == Append(log, e)
<1>1. /\ Len(log) \in Nat /\ Len(more) = Len(log) + 1
      /\ \A i \in 1..Len(log) : more[i] = log[i]
      /\ more[Len(log) + 1] = e
  BY Appended
<1> HIDE DEF more
<1>2. 1..Len(more) = 1..Len(log) \cup {Len(log) + 1}
  BY <1>1
<1>3. \A i : i \in At(more, event) <=> (i \in At(log, event) \/ (i = Len(log) + 1 /\ e.event = event))
  BY <1>1, <1>2 DEF At
<1> QED
  BY <1>3 DEF more

\* The first end stays the first.
LEMMA OutcomeAppended ==
    ASSUME NEW log, IsALog(log), NEW e
    PROVE  Outcome(Append(log, e)) =
             IF At(log, "terminal") = {} /\ e.event = "terminal" THEN e.outcome ELSE Outcome(log)
<1> DEFINE more == Append(log, e)
           ends == At(log, "terminal")
<1>1. /\ Len(log) \in Nat /\ Len(more) = Len(log) + 1
      /\ \A i \in 1..Len(log) : more[i] = log[i]
      /\ more[Len(log) + 1] = e
  BY Appended
<1>2. At(more, "terminal") = IF e.event = "terminal" THEN ends \cup {Len(log) + 1} ELSE ends
  BY AtAppended
<1>3. \A y \in ends : y \in 1..Len(log)
  BY DEF At
<1>4. Outcome(log) = (IF ends = {} THEN "" ELSE log[Min(ends)].outcome)
      /\ Outcome(more) = (IF At(more, "terminal") = {} THEN "" ELSE more[Min(At(more, "terminal"))].outcome)
  BY DEF Outcome
<1> HIDE DEF more, ends
<1>5. /\ Min({Len(log) + 1}) = Len(log) + 1
      /\ ends # {} => Min(ends) \in ends /\ Min(ends \cup {Len(log) + 1}) = Min(ends)
  BY <1>1, <1>3, Places
<1>6. CASE ends = {}
  BY <1>1, <1>2, <1>4, <1>5, <1>6 DEF more, ends
<1>7. CASE ends # {}
  <2>1. Min(At(more, "terminal")) = Min(ends) /\ At(more, "terminal") # {}
    BY <1>2, <1>5, <1>7
  <2>2. more[Min(ends)] = log[Min(ends)]
    BY <1>1, <1>3, <1>5, <1>7
  <2> QED
    BY <1>4, <1>7, <2>1, <2>2 DEF more, ends
<1> QED
  BY <1>6, <1>7

\* The last rest's expiry counts.
LEMMA ExpiryAppended ==
    ASSUME NEW log, IsALog(log), NEW e
    PROVE  Expiry(Append(log, e)) = IF e.event = "rested" THEN e.expires ELSE Expiry(log)
<1> DEFINE more == Append(log, e)
           rests == At(log, "rested")
<1>1. /\ Len(log) \in Nat /\ Len(more) = Len(log) + 1
      /\ \A i \in 1..Len(log) : more[i] = log[i]
      /\ more[Len(log) + 1] = e
  BY Appended
<1>2. At(more, "rested") = IF e.event = "rested" THEN rests \cup {Len(log) + 1} ELSE rests
  BY AtAppended
<1>3. \A y \in rests : y \in 1..Len(log)
  BY DEF At
<1>4. Expiry(log) = (IF rests = {} THEN 0 ELSE log[Max(rests)].expires)
      /\ Expiry(more) = (IF At(more, "rested") = {} THEN 0 ELSE more[Max(At(more, "rested"))].expires)
  BY DEF Expiry
<1> HIDE DEF more, rests
<1>5. Max(rests \cup {Len(log) + 1}) = Len(log) + 1 /\ (rests # {} => Max(rests) \in rests)
  BY <1>1, <1>3, Places
<1>6. CASE e.event = "rested"
  BY <1>1, <1>2, <1>4, <1>5, <1>6 DEF more
<1>7. CASE e.event # "rested"
  <2>1. rests # {} => more[Max(rests)] = log[Max(rests)]
    BY <1>1, <1>3, <1>5
  <2> QED
    BY <1>2, <1>4, <1>7, <2>1 DEF more
<1> QED
  BY <1>6, <1>7 DEF more

LEMMA ObligedAppended ==
    ASSUME NEW log, IsALog(log), NEW e
    PROVE  Obliged(Append(log, e)) <=>
             e.event # "rested" /\ At(log, "rested") = {} /\ (Obliged(log) \/ e.marketable)
<1> DEFINE more == Append(log, e)
<1>1. /\ Len(log) \in Nat /\ Len(more) = Len(log) + 1
      /\ \A i \in 1..Len(log) : more[i] = log[i]
      /\ more[Len(log) + 1] = e
  BY Appended
<1>2. At(more, "rested") = IF e.event = "rested" THEN At(log, "rested") \cup {Len(log) + 1} ELSE At(log, "rested")
  BY AtAppended
<1> HIDE DEF more
<1>3. 1..Len(more) = 1..Len(log) \cup {Len(log) + 1}
  BY <1>1
<1>4. (\E i \in 1..Len(more) : more[i].marketable) <=> ((\E i \in 1..Len(log) : log[i].marketable) \/ e.marketable)
  <2>1. ASSUME NEW i \in 1..Len(more), more[i].marketable
        PROVE  (\E k \in 1..Len(log) : log[k].marketable) \/ e.marketable
    BY <1>1, <1>3, <2>1
  <2>2. ASSUME NEW i \in 1..Len(log), log[i].marketable PROVE \E k \in 1..Len(more) : more[k].marketable
    BY <1>1, <1>3, <2>2
  <2>3. ASSUME e.marketable PROVE \E k \in 1..Len(more) : more[k].marketable
    BY <1>1, <1>3, <2>3
  <2> QED
    BY <2>1, <2>2, <2>3
<1> QED
  BY <1>2, <1>4 DEF Obliged, more
-----------------------------------------------------------------------------
LEMMA NothingLogged ==
    /\ IsALog(<<>>) /\ \A event : At(<<>>, event) = {}
    /\ Outcome(<<>>) = "" /\ Expiry(<<>>) = 0 /\ ~Obliged(<<>>)
<1>1. IsALog(<<>>) /\ \A event : At(<<>>, event) = {}
  BY DEF IsALog, At
<1>2. Outcome(<<>>) = "" /\ Expiry(<<>>) = 0
  BY <1>1 DEF Expiry, Outcome
<1>3. ~Obliged(<<>>)
  BY DEF Obliged
<1> QED
  BY <1>1, <1>2, <1>3

LEMMA TelemetryInitially == TelemetryInit => TelemetryIInv
<1> SUFFICES ASSUME TelemetryInit PROVE TelemetryIInv
  OBVIOUS
<1>1. /\ orders = [o \in Watched |-> NoRecord] /\ events = [o \in Watched |-> <<>>]
      /\ calls = [o \in Watched |-> {}] /\ slo = [cleared |-> 0, missed |-> 0] /\ mixed = {}
  BY DEF TelemetryInit
<1>2. RecordsMatch
  BY <1>1, NothingLogged DEF RecordsMatch, Matches
<1>3. ClearedOrders = {} /\ MissedOrders = {}
  BY <1>1, NothingLogged DEF ClearedOrders, MissedOrders, Ends
<1>4. TalliesMatch
  BY <1>1, <1>3, FS_EmptySet DEF TalliesMatch
<1> QED
  BY <1>1, <1>2, <1>4 DEF TelemetryIInv

\* The first end of a log is an outcome, or there is none.
LEMMA OutcomeIs ==
    ASSUME NEW log, At(log, "terminal") # {} => Outcome(log) \in TERMINAL
    PROVE  /\ Outcome(log) \in TERMINAL \cup {""} /\ "" \notin TERMINAL
           /\ Outcome(log) = "" <=> At(log, "terminal") = {}
  BY DEF Outcome, TERMINAL

Weight(b) == IF b THEN 1 ELSE 0

\* A count of orders moves by what the one order that changes weighs.
LEMMA CountMoves ==
    ASSUME NEW S, NEW T, NEW o \in Watched, S \subseteq Watched, T \subseteq Watched,
           \A p \in Watched : p # o => (p \in S <=> p \in T)
    PROVE  /\ Cardinality(S) \in Nat /\ Cardinality(T) \in Nat
           /\ Cardinality(T) = Cardinality(S) + Weight(o \in T) - Weight(o \in S)
<1>1. IsFiniteSet(S) /\ IsFiniteSet(T) /\ Cardinality(S) \in Nat /\ Cardinality(T) \in Nat
  BY TelemetryAssumption, FS_Subset, FS_CardinalityType
<1>2. CASE o \in S <=> o \in T
  <2>1. S = T
    BY <1>2
  <2> QED
    BY <1>1, <1>2, <2>1 DEF Weight
<1>3. CASE o \in S /\ o \notin T
  <2>1. S = T \cup {o}
    BY <1>3
  <2>2. Cardinality(T \cup {o}) = Cardinality(T) + 1
    BY <1>1, <1>3, FS_AddElement
  <2> QED
    BY <1>1, <1>3, <2>1, <2>2 DEF Weight
<1>4. CASE o \notin S /\ o \in T
  <2>1. T = S \cup {o}
    BY <1>4
  <2>2. Cardinality(S \cup {o}) = Cardinality(S) + 1
    BY <1>1, <1>4, FS_AddElement
  <2> QED
    BY <1>1, <1>4, <2>1, <2>2 DEF Weight
<1> QED
  BY <1>2, <1>3, <1>4

\* A step of one order, which keeps the invariant unless it makes two threads meet.
LEMMA OneOrderMoves ==
    ASSUME TelemetryIInv, NEW o \in Watched, NEW rec, NEW log, NEW cs,
           DOMAIN orders' = Watched, DOMAIN events' = Watched, DOMAIN calls' = Watched,
           orders'[o] = rec, events'[o] = log, calls'[o] = cs,
           \A p \in Watched : p # o => orders'[p] = orders[p] /\ events'[p] = events[p] /\ calls'[p] = calls[p],
           mixed' = mixed \/ mixed' = mixed \cup {o},
           o \notin mixed' => Matches(rec, log, cs),
           o \notin mixed' =>
               /\ slo'.cleared = slo.cleared + Weight(Ends(log, cs, {"filled"})) - Weight(Ends(events[o], calls[o], {"filled"}))
               /\ slo'.missed = slo.missed + Weight(Ends(log, cs, MISSED)) - Weight(Ends(events[o], calls[o], MISSED))
    PROVE  TelemetryIInv'
<1>1. RecordsMatch'
  <2> SUFFICES ASSUME NEW p \in Watched, p \notin mixed' PROVE Matches(orders'[p], events'[p], calls'[p])
    BY DEF RecordsMatch
  <2>1. CASE p = o
    BY <2>1
  <2>2. CASE p # o
    BY <2>2 DEF TelemetryIInv, RecordsMatch
  <2> QED
    BY <2>1, <2>2
<1>2. TalliesMatch'
  <2> SUFFICES ASSUME mixed' = {}
               PROVE  slo'.cleared = Cardinality(ClearedOrders') /\ slo'.missed = Cardinality(MissedOrders')
    BY DEF TalliesMatch
  <2>1. mixed = {} /\ slo.cleared = Cardinality(ClearedOrders) /\ slo.missed = Cardinality(MissedOrders)
    BY DEF TelemetryIInv, TalliesMatch
  <2>2. /\ ClearedOrders \subseteq Watched /\ ClearedOrders' \subseteq Watched
        /\ \A p \in Watched : p # o => (p \in ClearedOrders <=> p \in ClearedOrders')
        /\ o \in ClearedOrders <=> Ends(events[o], calls[o], {"filled"})
        /\ o \in ClearedOrders' <=> Ends(log, cs, {"filled"})
    BY DEF ClearedOrders
  <2>3. /\ MissedOrders \subseteq Watched /\ MissedOrders' \subseteq Watched
        /\ \A p \in Watched : p # o => (p \in MissedOrders <=> p \in MissedOrders')
        /\ o \in MissedOrders <=> Ends(events[o], calls[o], MISSED)
        /\ o \in MissedOrders' <=> Ends(log, cs, MISSED)
    BY DEF MissedOrders
  <2>4. Cardinality(ClearedOrders') = Cardinality(ClearedOrders) + Weight(o \in ClearedOrders') - Weight(o \in ClearedOrders)
    BY <2>2, CountMoves
  <2>5. Cardinality(MissedOrders') = Cardinality(MissedOrders) + Weight(o \in MissedOrders') - Weight(o \in MissedOrders)
    BY <2>3, CountMoves
  <2>6. /\ Weight(o \in ClearedOrders') = Weight(Ends(log, cs, {"filled"}))
        /\ Weight(o \in ClearedOrders) = Weight(Ends(events[o], calls[o], {"filled"}))
    BY <2>2 DEF Weight
  <2>7. /\ Weight(o \in MissedOrders') = Weight(Ends(log, cs, MISSED))
        /\ Weight(o \in MissedOrders) = Weight(Ends(events[o], calls[o], MISSED))
    BY <2>3 DEF Weight
  <2> QED
    BY <2>1, <2>4, <2>5, <2>6, <2>7
<1> QED
  BY <1>1, <1>2 DEF TelemetryIInv

\* Nothing is tallied for an order whose first end stays what it was.
LEMMA NothingTallied ==
    ASSUME TelemetryIInv, NEW o \in Watched, NEW rec, NEW log, NEW cs, UNCHANGED slo,
           DOMAIN orders' = Watched, DOMAIN events' = Watched, DOMAIN calls' = Watched,
           orders'[o] = rec, events'[o] = log, calls'[o] = cs,
           \A p \in Watched : p # o => orders'[p] = orders[p] /\ events'[p] = events[p] /\ calls'[p] = calls[p],
           mixed' = mixed \/ mixed' = mixed \cup {o},
           o \notin mixed' => /\ Matches(rec, log, cs)
                              /\ \A S \in SUBSET TERMINAL : Ends(log, cs, S) <=> Ends(events[o], calls[o], S)
    PROVE  TelemetryIInv'
<1>1. CASE o \in mixed'
  BY <1>1, OneOrderMoves
<1>2. CASE o \notin mixed'
  <2>1. mixed' = mixed
    BY <1>2
  <2>2. {"filled"} \in SUBSET TERMINAL /\ MISSED \in SUBSET TERMINAL
    BY DEF TERMINAL, MISSED
  <2>3. /\ Ends(log, cs, {"filled"}) <=> Ends(events[o], calls[o], {"filled"})
        /\ Ends(log, cs, MISSED) <=> Ends(events[o], calls[o], MISSED)
    BY <1>2, <2>2
  <2>4. /\ Weight(Ends(log, cs, {"filled"})) - Weight(Ends(events[o], calls[o], {"filled"})) = 0
        /\ Weight(Ends(log, cs, MISSED)) - Weight(Ends(events[o], calls[o], MISSED)) = 0
    BY <2>3 DEF Weight
  <2>5. RecordsMatch'
    <3> SUFFICES ASSUME NEW p \in Watched, p \notin mixed' PROVE Matches(orders'[p], events'[p], calls'[p])
      BY DEF RecordsMatch
    <3>1. CASE p = o
      BY <1>2, <3>1
    <3>2. CASE p # o
      BY <3>2 DEF TelemetryIInv, RecordsMatch
    <3> QED
      BY <3>1, <3>2
  <2>6. ClearedOrders' = ClearedOrders /\ MissedOrders' = MissedOrders
    BY <2>3 DEF ClearedOrders, MissedOrders
  <2>7. TalliesMatch'
    BY <2>1, <2>6 DEF TelemetryIInv, TalliesMatch
  <2> QED
    BY <2>1, <2>5, <2>7 DEF TelemetryIInv
<1> QED
  BY <1>1, <1>2

-----------------------------------------------------------------------------
\* A report that meets no other finds its order with nothing half done.
LEMMA FindsQuiet ==
    ASSUME TelemetryIInv, NEW o \in Watched, NEW by, Reports(o, by), o \notin mixed'
    PROVE  /\ calls[o] = {} /\ Matches(orders[o], events[o], {}) /\ IsALog(events[o])
           /\ events[o] # <<>> /\ At(events[o], "placed") # {}
           /\ IsOpen(o) => At(events[o], "terminal") = {} /\ RecordMatches(orders[o], events[o])
           /\ ~IsOpen(o) => At(events[o], "terminal") # {}
           /\ At(events[o], "terminal") # {} => Outcome(events[o]) \in TERMINAL
<1>1. calls[o] = {} /\ o \notin mixed
  BY DEF Reports
<1>2. Matches(orders[o], events[o], {})
  BY <1>1 DEF TelemetryIInv, RecordsMatch
<1>3. At(events[o], "placed") # {}
  BY <1>1 DEF Reports, Accepted, Busy
<1>4. events[o] # <<>>
  BY <1>3, NothingLogged
<1>5. /\ IsALog(events[o]) /\ (At(events[o], "terminal") # {} => Outcome(events[o]) \in TERMINAL)
      /\ orders[o] # NoRecord => events[o] # <<>> /\ At(events[o], "terminal") = {} /\ RecordMatches(orders[o], events[o])
      /\ orders[o] = NoRecord /\ events[o] # <<>> => At(events[o], "terminal") # {}
  BY <1>2, Zenon DEF Matches
<1> QED
  BY <1>1, <1>2, <1>3, <1>4, <1>5 DEF IsOpen

LEMMA AcceptsKeeps ==
    ASSUME TelemetryIInv, NEW o \in Watched, Accepts(o)
    PROVE  TelemetryIInv'
<1>1. /\ orders' = orders /\ events' = events /\ slo' = slo /\ mixed' = mixed
      /\ calls' = [calls EXCEPT ![o] = calls[o] \cup {Queued}] /\ ~Accepted(o)
  BY DEF Accepts
<1>2. ASSUME o \notin mixed PROVE calls[o] = {} /\ events[o] = <<>> /\ orders[o] = NoRecord
  <2>1. Matches(orders[o], events[o], calls[o])
    BY <1>2 DEF TelemetryIInv, RecordsMatch
  <2>2. At(events[o], "placed") = {} /\ \A c \in calls[o] : c.by # "api"
    BY <1>1 DEF Accepted, Busy
  <2>3. Queued \notin calls[o]
    BY <2>2 DEF Queued, Call
  <2> QED
    BY <2>1, <2>2, <2>3 DEF Matches
<1>3. o \notin mixed' =>
        /\ Matches(orders[o], events[o], calls[o] \cup {Queued})
        /\ \A S \in SUBSET TERMINAL : Ends(events[o], calls[o] \cup {Queued}, S) <=> Ends(events[o], calls[o], S)
  <2> SUFFICES ASSUME o \notin mixed'
               PROVE  /\ \A S \in SUBSET TERMINAL : ~Ends(<<>>, {Queued}, S) /\ ~Ends(<<>>, {}, S)
                      /\ Matches(NoRecord, <<>>, {Queued})
    BY <1>1, <1>2
  <2> QED
    BY NothingLogged DEF Matches, Ends
<1>4. DOMAIN calls' = Watched /\ calls'[o] = calls[o] \cup {Queued} /\ \A p \in Watched : p # o => calls'[p] = calls[p]
  BY <1>1 DEF TelemetryIInv
<1> QED
  BY <1>1, <1>3, <1>4, NothingTallied DEF TelemetryIInv

LEMMA PlacedKeeps ==
    ASSUME TelemetryIInv, NEW o \in Watched, NEW m \in BOOLEAN, Placed(o, m)
    PROVE  TelemetryIInv'
<1>1. PICK rec : rec = [phase |-> "placed", marketable |-> m, last |-> clock, expires |-> 0]
  OBVIOUS
<1>2. PICK c : c = Call("api", "placed", TRUE, m, 0, "")
  OBVIOUS
<1>3. /\ events' = events /\ slo' = slo /\ mixed' = mixed /\ Queued \in calls[o]
      /\ orders' = [orders EXCEPT ![o] = rec]
      /\ calls' = [calls EXCEPT ![o] = (calls[o] \ {Queued}) \cup {c}]
  BY <1>1, <1>2 DEF Placed
<1>4. /\ DOMAIN orders' = Watched /\ DOMAIN calls' = Watched /\ DOMAIN events' = Watched
      /\ orders'[o] = rec /\ calls'[o] = (calls[o] \ {Queued}) \cup {c}
      /\ \A p \in Watched : p # o => orders'[p] = orders[p] /\ calls'[p] = calls[p] /\ events'[p] = events[p]
  BY <1>3 DEF TelemetryIInv
<1>5. ASSUME o \notin mixed PROVE calls[o] = {Queued} /\ events[o] = <<>>
  <2>1. Matches(orders[o], events[o], calls[o])
    BY <1>5 DEF TelemetryIInv, RecordsMatch
  <2> QED
    BY <1>3, <2>1 DEF Matches
<1>6. /\ c # Queued /\ c.event = "placed" /\ c.by = "api" /\ c.live /\ c.expires = 0
  BY <1>2 DEF Call, Queued
<1>7. LineDue(rec, <<>>, c)
  <2>1. Fields = DOMAIN rec /\ rec.phase = "placed" /\ rec.expires = 0
    BY <1>1 DEF Fields
  <2>2. rec.marketable <=> (At(<<>>, "rested") = {} /\ (Obliged(<<>>) \/ rec.marketable))
    BY NothingLogged, Zenon
  <2> QED
    BY <1>6, <2>1, <2>2, NothingLogged DEF LineDue, Phases
<1>8. Matches(rec, <<>>, {c})
  BY <1>6, <1>7, NothingLogged, Zenon DEF Matches
<1>9. \A S \in SUBSET TERMINAL : ~Ends(<<>>, {c}, S) /\ ~Ends(<<>>, {Queued}, S)
  BY NothingLogged DEF Ends
<1>10. o \notin mixed' =>
        /\ Matches(rec, events[o], (calls[o] \ {Queued}) \cup {c})
        /\ \A S \in SUBSET TERMINAL : Ends(events[o], (calls[o] \ {Queued}) \cup {c}, S) <=> Ends(events[o], calls[o], S)
  <2> SUFFICES ASSUME o \notin mixed'
               PROVE  /\ Matches(rec, events[o], (calls[o] \ {Queued}) \cup {c})
                      /\ \A S \in SUBSET TERMINAL :
                            Ends(events[o], (calls[o] \ {Queued}) \cup {c}, S) <=> Ends(events[o], calls[o], S)
    OBVIOUS
  <2>1. calls[o] = {Queued} /\ events[o] = <<>>
    BY <1>3, <1>5
  <2>2. (calls[o] \ {Queued}) \cup {c} = {c}
    BY <2>1
  <2> QED
    BY <1>8, <1>9, <2>1, <2>2
<1> QED
  BY <1>3, <1>4, <1>10, NothingTallied

\* A report of the builder that leaves its order open.
LEMMA BuilderReports ==
    ASSUME TelemetryIInv, NEW o \in Watched, NEW rec, NEW c, Reports(o, "builder"), IsOpen(o),
           UNCHANGED <<slo, events>>, DOMAIN orders' = Watched, orders'[o] = rec,
           \A p \in Watched : p # o => orders'[p] = orders[p],
           calls' = [calls EXCEPT ![o] = calls[o] \cup {c}],
           c.by = "builder" /\ c.event \notin {"placed", "queued", "terminal"} /\ c.live,
           o \notin mixed' => LineDue(rec, events[o], c)
    PROVE  TelemetryIInv'
<1>1. mixed' = mixed \/ mixed' = mixed \cup {o}
  BY DEF Reports
<1>2. /\ DOMAIN calls' = Watched /\ DOMAIN events' = Watched /\ calls'[o] = calls[o] \cup {c}
      /\ \A p \in Watched : p # o => calls'[p] = calls[p] /\ events'[p] = events[p]
  BY DEF TelemetryIInv
<1>3. o \notin mixed' =>
        /\ Matches(rec, events[o], calls[o] \cup {c})
        /\ \A S \in SUBSET TERMINAL : Ends(events[o], calls[o] \cup {c}, S) <=> Ends(events[o], calls[o], S)
  <2> SUFFICES ASSUME o \notin mixed'
               PROVE  /\ Matches(rec, events[o], calls[o] \cup {c})
                      /\ \A S \in SUBSET TERMINAL : Ends(events[o], calls[o] \cup {c}, S) <=> Ends(events[o], calls[o], S)
    OBVIOUS
  <2>1. /\ calls[o] = {} /\ IsALog(events[o]) /\ At(events[o], "placed") # {}
        /\ At(events[o], "terminal") # {} => Outcome(events[o]) \in TERMINAL
    BY FindsQuiet
  <2>2. calls[o] \cup {c} = {c} /\ c # Queued
    <3>1. Queued.event = "queued"
      BY DEF Queued, Call
    <3> QED
      BY <2>1, <3>1
  <2>3. Matches(rec, events[o], {c})
    <3>1. /\ c # Queued /\ c.by # "api" /\ c.event # "placed" /\ c.live /\ LineDue(rec, events[o], c)
      BY <2>2
    <3> QED
      BY <2>1, <3>1, Zenon DEF Matches
  <2>4. \A S \in SUBSET TERMINAL : Ends(events[o], {c}, S) <=> Ends(events[o], {}, S)
    BY DEF Ends
  <2> QED
    BY <2>1, <2>2, <2>3, <2>4
<1> QED
  BY <1>1, <1>2, <1>3, NothingTallied

LEMMA MovedKeeps ==
    ASSUME TelemetryIInv, NEW o \in Watched, NEW event, NEW phase \in Phases \ {"rested"},
           event \notin {"placed", "queued", "rested", "terminal"}, Moved(o, event, phase)
    PROVE  TelemetryIInv'
<1>1. PICK c : c = Call("builder", event, TRUE, FALSE, 0, "")
  OBVIOUS
<1>2. /\ IsOpen(o) /\ Reports(o, "builder") /\ UNCHANGED <<slo, events>>
      /\ calls' = [calls EXCEPT ![o] = calls[o] \cup {c}]
      /\ orders' = [orders EXCEPT ![o] = [orders[o] EXCEPT !.phase = phase]]
  BY <1>1 DEF Moved
<1>3. c.by = "builder" /\ c.event = event /\ c.live /\ c.expires = 0
  BY <1>1 DEF Call
<1>4. PICK rec : rec = [orders[o] EXCEPT !.phase = phase]
  OBVIOUS
<1>5. DOMAIN orders' = Watched /\ orders'[o] = rec /\ \A p \in Watched : p # o => orders'[p] = orders[p]
  BY <1>2, <1>4 DEF TelemetryIInv
<1>6. ASSUME o \notin mixed' PROVE LineDue(rec, events[o], c)
  <2>1. At(events[o], "terminal") = {} /\ RecordMatches(orders[o], events[o])
    BY <1>2, <1>6, FindsQuiet
  <2>2. /\ Fields = DOMAIN rec /\ rec.phase = phase
        /\ rec.expires = orders[o].expires /\ rec.marketable = orders[o].marketable
    BY <1>4, <2>1 DEF RecordMatches, Fields
  <2>3. rec.expires = Expiry(events[o])
    BY <2>1, <2>2 DEF RecordMatches
  <2>4. rec.marketable <=> (At(events[o], "rested") = {} /\ (Obliged(events[o]) \/ rec.marketable))
    <3>1. rec.marketable <=> Obliged(events[o])
      BY <2>1, <2>2, Zenon DEF RecordMatches
    <3>2. Obliged(events[o]) => At(events[o], "rested") = {}
      BY DEF Obliged
    <3> QED
      BY <3>1, <3>2, Zenon
  <2> QED
    BY <1>3, <2>1, <2>2, <2>3, <2>4 DEF LineDue
<1> QED
  BY <1>2, <1>3, <1>5, <1>6, BuilderReports

LEMMA RestedKeeps ==
    ASSUME TelemetryIInv, NEW o \in Watched, NEW expires \in 1..2, Rested(o, expires)
    PROVE  TelemetryIInv'
<1>1. PICK c : c = Call("builder", "rested", TRUE, FALSE, expires, "")
  OBVIOUS
<1>2. /\ IsOpen(o) /\ Reports(o, "builder") /\ UNCHANGED <<slo, events>>
      /\ calls' = [calls EXCEPT ![o] = calls[o] \cup {c}]
      /\ orders' = [orders EXCEPT ![o].phase = "rested", ![o].marketable = FALSE]
  BY <1>1 DEF Rested
<1>3. c.by = "builder" /\ c.event = "rested" /\ c.live /\ c.expires # 0
  <2>1. c.by = "builder" /\ c.event = "rested" /\ c.live /\ c.expires = expires
    BY <1>1 DEF Call
  <2>2. expires # 0
    OBVIOUS
  <2> QED
    BY <2>1, <2>2
<1>4. PICK rec : rec = [orders[o] EXCEPT !.phase = "rested", !.marketable = FALSE]
  OBVIOUS
<1>5. DOMAIN orders' = Watched /\ orders'[o] = rec /\ \A p \in Watched : p # o => orders'[p] = orders[p]
  BY <1>2, <1>4 DEF TelemetryIInv
<1>6. ASSUME o \notin mixed' PROVE LineDue(rec, events[o], c)
  <2>1. At(events[o], "terminal") = {} /\ Fields = DOMAIN orders[o]
    BY <1>2, <1>6, FindsQuiet DEF RecordMatches
  <2>2. /\ Fields = DOMAIN rec /\ rec.phase = "rested" /\ ~rec.marketable
    BY <1>4, <2>1 DEF Fields
  <2> QED
    BY <1>3, <2>1, <2>2 DEF LineDue, Phases
<1> QED
  BY <1>2, <1>3, <1>5, <1>6, BuilderReports

-----------------------------------------------------------------------------
\* An order that ends: tallied when it was still an obligation, and only by its
\* first end.
LEMMA TerminalKeeps ==
    ASSUME TelemetryIInv, NEW o \in Watched, NEW by \in {"builder", "watch"}, NEW outcome \in TERMINAL,
           Terminal(o, by, outcome)
    PROVE  TelemetryIInv'
<1>1. PICK flag : flag = (IsOpen(o) /\ orders[o].marketable)
  OBVIOUS
<1>2. PICK c : c = Call(by, "terminal", FALSE, flag, 0, outcome)
  OBVIOUS
<1>3. PICK others : calls' = [calls EXCEPT ![o] = others \cup {c}] /\ (calls[o] = {} => others = {})
  BY <1>1, <1>2 DEF Terminal
<1>4. /\ Reports(o, by) /\ events' = events
      /\ orders' = [orders EXCEPT ![o] = NoRecord]
      /\ slo' = [cleared |-> slo.cleared + (IF flag /\ outcome \in CLEARED THEN 1 ELSE 0),
                 missed  |-> slo.missed + (IF flag /\ outcome \in
                               {"expired", "lost", "partial-cancelled", "rejected"} THEN 1 ELSE 0)]
  BY <1>1 DEF Terminal
<1>5. /\ DOMAIN orders' = Watched /\ DOMAIN calls' = Watched /\ DOMAIN events' = Watched
      /\ orders'[o] = NoRecord /\ calls'[o] = others \cup {c} /\ events'[o] = events[o]
      /\ \A p \in Watched : p # o => orders'[p] = orders[p] /\ calls'[p] = calls[p] /\ events'[p] = events[p]
  BY <1>3, <1>4 DEF TelemetryIInv
<1>6. mixed' = mixed \/ mixed' = mixed \cup {o}
  BY <1>4 DEF Reports
<1>7. c.by = by /\ c.event = "terminal" /\ ~c.live /\ c.expires = 0 /\ c.outcome = outcome
  BY <1>2 DEF Call
<1>8. c.marketable = flag
  BY <1>2, Zenon DEF Call
<1>9. ASSUME o \notin mixed'
      PROVE  /\ Matches(NoRecord, events[o], others \cup {c})
             /\ slo'.cleared = slo.cleared + Weight(Ends(events[o], others \cup {c}, {"filled"})) - Weight(Ends(events[o], calls[o], {"filled"}))
             /\ slo'.missed = slo.missed + Weight(Ends(events[o], others \cup {c}, MISSED)) - Weight(Ends(events[o], calls[o], MISSED))
  <2>1. /\ calls[o] = {} /\ IsALog(events[o])
        /\ events[o] # <<>> /\ At(events[o], "placed") # {}
        /\ IsOpen(o) => At(events[o], "terminal") = {} /\ RecordMatches(orders[o], events[o])
        /\ ~IsOpen(o) => At(events[o], "terminal") # {}
        /\ At(events[o], "terminal") # {} => Outcome(events[o]) \in TERMINAL
    BY <1>4, <1>9, FindsQuiet
  <2>2. others \cup {c} = {c} /\ c # Queued
    <3>1. Queued.event = "queued"
      BY DEF Queued, Call
    <3> QED
      BY <1>3, <1>7, <2>1, <3>1
  <2>3. flag <=> (At(events[o], "terminal") = {} /\ Obliged(events[o]))
    <3>1. CASE IsOpen(o)
      <4>1. orders[o].marketable <=> Obliged(events[o])
        BY <2>1, <3>1, Zenon DEF RecordMatches
      <4> QED
        BY <1>1, <2>1, <3>1, <4>1, Zenon
    <3>2. CASE ~IsOpen(o)
      BY <1>1, <2>1, <3>2, Zenon
    <3> QED
      BY <3>1, <3>2
  <2>4. EndDue(events[o], c)
    BY <1>7, <1>8, <2>3, Zenon DEF EndDue
  <2>5. Matches(NoRecord, events[o], {c})
    <3>1. c # Queued /\ c.by # "api" /\ c.event # "placed" /\ ~c.live
      BY <1>7, <2>2
    <3> QED
      BY <2>1, <2>4, <3>1, Zenon DEF Matches
  <2>6. /\ Outcome(events[o]) \in TERMINAL \cup {""} /\ "" \notin TERMINAL
        /\ Outcome(events[o]) = "" <=> At(events[o], "terminal") = {}
    BY <2>1, OutcomeIs
  <2>7. ASSUME NEW S \in SUBSET TERMINAL
        PROVE  Weight(Ends(events[o], {c}, S)) - Weight(Ends(events[o], {}, S)) = Weight(flag /\ outcome \in S)
    <3>1. CASE At(events[o], "terminal") = {}
      <4>1. ~Ends(events[o], {}, S)
        BY <2>6, <3>1 DEF Ends
      <4>2. Ends(events[o], {c}, S) <=> flag /\ outcome \in S
        BY <1>7, <2>3, <2>6, <3>1 DEF Ends
      <4> QED
        BY <4>1, <4>2 DEF Weight
    <3>2. CASE At(events[o], "terminal") # {}
      <4>1. Ends(events[o], {c}, S) <=> Ends(events[o], {}, S)
        BY <2>6, <3>2 DEF Ends
      <4>2. ~flag
        BY <2>3, <3>2
      <4> QED
        BY <4>1, <4>2 DEF Weight
    <3> QED
      BY <3>1, <3>2
  <2>8. /\ Weight(flag /\ outcome \in {"filled"}) = (IF flag /\ outcome \in CLEARED THEN 1 ELSE 0)
        /\ Weight(flag /\ outcome \in MISSED) =
             (IF flag /\ outcome \in {"expired", "lost", "partial-cancelled", "rejected"} THEN 1 ELSE 0)
    BY DEF Weight, CLEARED, MISSED, TERMINAL
  <2>9. {"filled"} \in SUBSET TERMINAL /\ MISSED \in SUBSET TERMINAL
    BY DEF TERMINAL, MISSED
  <2>10. /\ slo'.cleared = slo.cleared + Weight(flag /\ outcome \in {"filled"})
         /\ slo'.missed = slo.missed + Weight(flag /\ outcome \in MISSED)
    BY <1>4, <2>8
  <2>11. /\ slo'.cleared = slo.cleared + (Weight(Ends(events[o], {c}, {"filled"})) - Weight(Ends(events[o], {}, {"filled"})))
         /\ slo'.missed = slo.missed + (Weight(Ends(events[o], {c}, MISSED)) - Weight(Ends(events[o], {}, MISSED)))
    BY <2>7, <2>9, <2>10
  <2> QED
    BY <2>1, <2>2, <2>5, <2>11 DEF Weight
<1> QED
  BY <1>5, <1>6, <1>9, OneOrderMoves

-----------------------------------------------------------------------------
\* What a line makes of the record whose change it tells.
LEMMA LogMatches ==
    ASSUME NEW log, IsALog(log), NEW rec, NEW c, LineDue(rec, log, c), NEW e, NEW new,
           e.event = c.event, e.marketable = rec.marketable, e.expires = c.expires,
           DOMAIN new = DOMAIN rec, new.phase = rec.phase, new.last = e.ts, new.marketable = rec.marketable,
           new.expires = IF c.expires # 0 THEN c.expires ELSE rec.expires
    PROVE  RecordMatches(new, Append(log, e)) /\ new # NoRecord
<1>1. /\ DOMAIN new = Fields /\ new.phase \in Phases /\ new.last = e.ts
      /\ new.phase = "rested" <=> c.event = "rested"
  BY DEF LineDue
<1>2. Last(Append(log, e)) = e
  BY Appended
<1>3. new.expires = Expiry(Append(log, e))
  <2>1. Expiry(Append(log, e)) = IF e.event = "rested" THEN e.expires ELSE Expiry(log)
    BY ExpiryAppended
  <2>2. \/ c.event = "rested" /\ c.expires # 0
        \/ c.event # "rested" /\ c.expires = 0 /\ rec.expires = Expiry(log)
    BY DEF LineDue
  <2> QED
    BY <2>1, <2>2
<1>4. new.marketable <=> Obliged(Append(log, e))
  <2>1. Obliged(Append(log, e)) <=> (e.event # "rested" /\ At(log, "rested") = {} /\ (Obliged(log) \/ e.marketable))
    BY ObligedAppended, Zenon
  <2>2. \/ c.event = "rested" /\ ~rec.marketable
        \/ /\ c.event # "rested"
           /\ rec.marketable <=> (At(log, "rested") = {} /\ (Obliged(log) \/ rec.marketable))
    <3>1. c.event \notin {"rested", "terminal"} => c.event # "rested"
      OBVIOUS
    <3> QED
      BY <3>1, Zenon DEF LineDue
  <2> QED
    BY <2>1, <2>2, Zenon
<1>5. new # NoRecord
  BY <1>1 DEF NoRecord, Fields
<1> QED
  BY <1>1, <1>2, <1>3, <1>4, <1>5 DEF RecordMatches

LEMMA WriteLineKeeps ==
    ASSUME TelemetryIInv, NEW o \in Watched, NEW c \in calls[o], WriteLine(o, c)
    PROVE  TelemetryIInv'
<1>1. PICK e : e = LineOf(o, c)
  OBVIOUS
<1>2. PICK more : more = Append(events[o], e)
  OBVIOUS
<1>3. /\ events' = [events EXCEPT ![o] = more] /\ calls' = [calls EXCEPT ![o] = calls[o] \ {c}]
      /\ slo' = slo /\ mixed' = mixed /\ c # Queued
      /\ orders' = IF ~c.live THEN orders
                   ELSE [orders EXCEPT ![o].last = clock,
                                       ![o].expires = IF c.expires # 0 THEN c.expires ELSE @]
  BY <1>1, <1>2 DEF WriteLine
<1>4. PICK rec : rec = IF ~c.live THEN orders[o]
                       ELSE [orders[o] EXCEPT !.last = clock, !.expires = IF c.expires # 0 THEN c.expires ELSE @]
  OBVIOUS
<1>5. /\ DOMAIN orders' = Watched /\ DOMAIN calls' = Watched /\ DOMAIN events' = Watched
      /\ calls'[o] = calls[o] \ {c} /\ events'[o] = more
      /\ \A p \in Watched : p # o => calls'[p] = calls[p] /\ events'[p] = events[p]
  BY <1>3 DEF TelemetryIInv
<1>6. orders'[o] = rec /\ \A p \in Watched : p # o => orders'[p] = orders[p]
  <2>1. CASE ~c.live
    BY <1>3, <1>4, <2>1
  <2>2. CASE c.live
    BY <1>3, <1>4, <2>2 DEF TelemetryIInv
  <2> QED
    BY <2>1, <2>2
<1>7. /\ e.event = c.event /\ e.ts = clock /\ e.expires = c.expires /\ e.outcome = c.outcome
      /\ c.live => e.marketable = orders[o].marketable
      /\ ~c.live => e.marketable = c.marketable
  BY <1>1 DEF LineOf
<1>8. ASSUME o \notin mixed'
      PROVE  /\ Matches(rec, more, calls[o] \ {c})
             /\ \A S \in SUBSET TERMINAL : Ends(more, calls[o] \ {c}, S) <=> Ends(events[o], calls[o], S)
  <2>1. Matches(orders[o], events[o], calls[o])
    BY <1>3, <1>8 DEF TelemetryIInv, RecordsMatch
  <2>2. /\ calls[o] = {c} /\ IsALog(events[o])
        /\ At(events[o], "terminal") # {} => Outcome(events[o]) \in TERMINAL
        /\ IF c.event = "placed" THEN c.by = "api" /\ events[o] = <<>> /\ c.live
                                 ELSE c.by # "api" /\ At(events[o], "placed") # {}
        /\ IF c.live THEN LineDue(orders[o], events[o], c) ELSE orders[o] = NoRecord /\ EndDue(events[o], c)
    BY <1>3, <2>1 DEF Matches
  <2>3. calls[o] \ {c} = {}
    BY <2>2
  <2>4. IsALog(more) /\ more # <<>> /\ Len(events[o]) \in Nat
    BY <1>2, <2>2, Appended
  <2>5. \A event : At(more, event) = IF e.event = event THEN At(events[o], event) \cup {Len(events[o]) + 1} ELSE At(events[o], event)
    <3> TAKE event
    <3>1. IsALog(events[o])
      BY <2>2
    <3>2. At(Append(events[o], e), event) =
            IF e.event = event THEN At(events[o], event) \cup {Len(events[o]) + 1} ELSE At(events[o], event)
      BY ONLY <3>1, AtAppended
    <3> QED
      BY <1>2, <3>2
  <2>6. At(more, "placed") # {}
    BY <1>7, <2>2, <2>5
  <2>7. Outcome(more) = IF At(events[o], "terminal") = {} /\ e.event = "terminal" THEN e.outcome ELSE Outcome(events[o])
    BY <1>2, <2>2, OutcomeAppended
  <2>8. /\ Outcome(events[o]) \in TERMINAL \cup {""} /\ "" \notin TERMINAL
        /\ Outcome(events[o]) = "" <=> At(events[o], "terminal") = {}
    BY <2>2, OutcomeIs
  <2>9. CASE c.live
    <3>1. LineDue(orders[o], events[o], c)
      BY <2>2, <2>9
    <3>2. /\ At(events[o], "terminal") = {} /\ c.event # "terminal" /\ DOMAIN orders[o] = Fields
      BY <3>1 DEF LineDue
    <3>3. /\ DOMAIN rec = DOMAIN orders[o] /\ rec.phase = orders[o].phase /\ rec.last = e.ts
          /\ rec.marketable = orders[o].marketable
          /\ rec.expires = IF c.expires # 0 THEN c.expires ELSE orders[o].expires
      BY <1>4, <1>7, <2>9, <3>2 DEF Fields
    <3>4. RecordMatches(rec, more) /\ rec # NoRecord
      <4>1. e.marketable = orders[o].marketable
        BY <1>7, <2>9
      <4> QED
        BY <1>2, <1>7, <2>2, <3>1, <3>3, <4>1, LogMatches
    <3>5. At(more, "terminal") = {} /\ Outcome(more) = ""
      BY <1>7, <2>5, <2>7, <2>8, <3>2
    <3>6. Matches(rec, more, {})
      BY <2>4, <2>6, <3>4, <3>5, Zenon DEF Matches
    <3>7. \A S \in SUBSET TERMINAL : ~Ends(more, {}, S) /\ ~Ends(events[o], {c}, S)
      BY <2>8, <3>2, <3>5 DEF Ends
    <3> QED
      BY <2>2, <2>3, <3>6, <3>7
  <2>10. CASE ~c.live
    <3>1. orders[o] = NoRecord /\ EndDue(events[o], c) /\ rec = NoRecord
      BY <1>4, <2>2, <2>10
    <3>2. c.event = "terminal" /\ c.outcome \in TERMINAL
      BY <3>1 DEF EndDue
    <3>3. At(more, "terminal") # {} /\ Outcome(more) \in TERMINAL
      BY <1>7, <2>5, <2>7, <2>8, <3>2
    <3>4. Obliged(more) <=> Obliged(events[o])
      <4>1. Obliged(more) <=> (e.event # "rested" /\ At(events[o], "rested") = {} /\ (Obliged(events[o]) \/ e.marketable))
        BY <1>2, <2>2, ObligedAppended, Zenon
      <4>2. e.event # "rested" /\ (Obliged(events[o]) => At(events[o], "rested") = {})
        BY <1>7, <3>2 DEF Obliged
      <4>3. e.marketable => Obliged(events[o])
        <5>1. e.marketable = c.marketable
          BY <1>7, <2>10, Zenon
        <5>2. c.marketable => Obliged(events[o])
          BY <3>1, Zenon DEF EndDue
        <5> QED
          BY <5>1, <5>2, Zenon
      <4> QED
        BY <4>1, <4>2, <4>3, Zenon
    <3>5. Matches(rec, more, {})
      BY <2>4, <2>6, <3>1, <3>3, Zenon DEF Matches
    <3>6. ASSUME NEW S \in SUBSET TERMINAL PROVE Ends(more, {}, S) <=> Ends(events[o], {c}, S)
      <4>1. Outcome(more) # ""
        BY <2>8, <3>3
      <4>2. Outcome(more) = IF Outcome(events[o]) = "" THEN c.outcome ELSE Outcome(events[o])
        BY <1>7, <2>7, <2>8, <3>2
      <4>3. "" \notin S
        BY <2>8
      <4> QED
        BY <3>2, <3>4, <4>1, <4>2, <4>3 DEF Ends
    <3> QED
      BY <2>2, <2>3, <3>5, <3>6
  <2> QED
    BY <2>9, <2>10
<1>9. o \notin mixed' =>
        /\ Matches(rec, more, calls[o] \ {c})
        /\ \A S \in SUBSET TERMINAL : Ends(more, calls[o] \ {c}, S) <=> Ends(events[o], calls[o], S)
  BY <1>8
<1>10. /\ UNCHANGED slo /\ mixed' = mixed
       /\ \A p \in Watched : p # o => orders'[p] = orders[p] /\ events'[p] = events[p] /\ calls'[p] = calls[p]
  BY <1>3, <1>5, <1>6
<1> QED
  BY <1>5, <1>6, <1>9, <1>10, NothingTallied

LEMMA TelemetryStep ==
    ASSUME TelemetryIInv, [TelemetryNext]_telemetryVars
    PROVE  TelemetryIInv'
<1>1. CASE UNCHANGED <<orders, slo, events, calls, mixed>>
  BY <1>1 DEF TelemetryIInv, RecordsMatch, TalliesMatch, ClearedOrders, MissedOrders
<1>2. ASSUME NEW o \in Watched,
             \/ Moved(o, "rounded", "rounded") \/ Moved(o, "reverted", "rounded")
             \/ Moved(o, "requeued", "placed") \/ Moved(o, "deferred", "deferred")
      PROVE  TelemetryIInv'
  BY <1>2, MovedKeeps DEF Phases
<1>3. ASSUME NEW o \in Watched, CancelEnds(o) PROVE TelemetryIInv'
  <2>1. "cancelled" \in TERMINAL /\ Terminal(o, "watch", "cancelled")
    BY <1>3 DEF CancelEnds, TERMINAL
  <2> QED
    BY <2>1, TerminalKeeps
<1>4. ASSUME NEW o \in Watched, NEW outcome \in TERMINAL, Terminal(o, "builder", outcome) PROVE TelemetryIInv'
  BY <1>4, TerminalKeeps
<1>5. ASSUME NEW o \in Watched, CancelFound(o) PROVE TelemetryIInv'
  BY <1>1, <1>5 DEF CancelFound
<1>6. CASE TimePasses \/ UNCHANGED telemetryVars
  BY <1>1, <1>6 DEF TimePasses, telemetryVars
<1> QED
  BY <1>2, <1>3, <1>4, <1>5, <1>6, AcceptsKeeps, PlacedKeeps, RestedKeeps, WriteLineKeeps DEF TelemetryNext

\* An order with nothing half done, reported by one thread at a time.
LEMMA QuietOrder ==
    ASSUME TelemetryIInv, NEW o \in Watched, Quiet(o)
    PROVE  /\ Outcome(events[o]) \in TERMINAL \cup {""} /\ (events[o] = <<>> => Outcome(events[o]) = "")
           /\ IsOpen(o) => events[o] # <<>> /\ Outcome(events[o]) = "" /\ RecordMatches(orders[o], events[o])
           /\ ~IsOpen(o) /\ events[o] # <<>> => Outcome(events[o]) # ""
<1>1. Matches(orders[o], events[o], {})
  BY DEF TelemetryIInv, RecordsMatch, Quiet
<1>2. /\ At(events[o], "terminal") # {} => Outcome(events[o]) \in TERMINAL
      /\ orders[o] # NoRecord => events[o] # <<>> /\ At(events[o], "terminal") = {} /\ RecordMatches(orders[o], events[o])
      /\ orders[o] = NoRecord /\ events[o] # <<>> => At(events[o], "terminal") # {}
  BY <1>1, Zenon DEF Matches
<1>3. /\ Outcome(events[o]) \in TERMINAL \cup {""} /\ "" \notin TERMINAL
      /\ Outcome(events[o]) = "" <=> At(events[o], "terminal") = {}
  BY <1>2, OutcomeIs
<1> QED
  BY <1>2, <1>3, NothingLogged DEF IsOpen

\* The live gauges and the verdict replayed from the log agree on orders that one
\* thread at a time reported, for any orders, grace and reports: on the ones that
\* are stuck, and on the figures of cleared and missed ones up to the classes that
\* only the verdict counts (order_telemetry.py: _log, terminal, snapshot;
\* soak_verdict.py: judge, score).
THEOREM LiveFiguresAreTheVerdicts == TelemetrySpec => []VerdictAgrees
<1>1. TelemetryIInv => VerdictAgrees
  <2> SUFFICES ASSUME TelemetryIInv PROVE VerdictAgrees
    OBVIOUS
  <2>1. ASSUME NEW o \in Watched, Quiet(o)
        PROVE  /\ events[o] # <<>> /\ Judge(events[o]) = "open" <=> IsOpen(o) /\ orders[o].phase # "rested"
               /\ events[o] # <<>> /\ Judge(events[o]) = "resting" <=> IsOpen(o) /\ orders[o].phase = "rested"
               /\ IsOpen(o) => orders[o].last = Last(events[o]).ts /\ orders[o].expires = Expiry(events[o])
    <3>1. CASE IsOpen(o)
      <4>1. events[o] # <<>> /\ Outcome(events[o]) = "" /\ RecordMatches(orders[o], events[o])
        BY <2>1, <3>1, QuietOrder
      <4>2. /\ orders[o].phase = "rested" <=> Last(events[o]).event = "rested"
            /\ orders[o].last = Last(events[o]).ts /\ orders[o].expires = Expiry(events[o])
        BY <4>1 DEF RecordMatches
      <4>3. Judge(events[o]) = IF Last(events[o]).event = "rested" THEN "resting" ELSE "open"
        BY <4>1 DEF Judge, CLEARED
      <4> QED
        BY <3>1, <4>1, <4>2, <4>3
    <3>2. CASE ~IsOpen(o) /\ events[o] # <<>>
      <4>1. Outcome(events[o]) # ""
        BY <2>1, <3>2, QuietOrder
      <4> QED
        BY <3>2, <4>1 DEF Judge
    <3>3. CASE ~IsOpen(o) /\ events[o] = <<>>
      BY <3>3
    <3> QED
      BY <3>1, <3>2, <3>3
  <2>2. ASSUME NEW o \in Watched, Quiet(o) PROVE o \in Stale <=> o \in StuckOpen
    <3>1. /\ events[o] # <<>> /\ Judge(events[o]) = "open" <=> IsOpen(o) /\ orders[o].phase # "rested"
          /\ events[o] # <<>> /\ Judge(events[o]) = "resting" <=> IsOpen(o) /\ orders[o].phase = "rested"
          /\ IsOpen(o) => orders[o].last = Last(events[o]).ts /\ orders[o].expires = Expiry(events[o])
      BY <2>1, <2>2
    <3>2. o \in StuckOpen <=>
             \/ events[o] # <<>> /\ Judge(events[o]) = "open" /\ clock - Last(events[o]).ts > OPEN_GRACE
             \/ /\ events[o] # <<>> /\ Judge(events[o]) = "resting"
                /\ Expiry(events[o]) # 0 /\ clock - Expiry(events[o]) > OPEN_GRACE
      BY DEF StuckOpen, Verdicts
    <3>3. o \in Stale <=>
             \/ IsOpen(o) /\ orders[o].phase # "rested" /\ clock - orders[o].last > OPEN_GRACE
             \/ /\ IsOpen(o) /\ orders[o].phase = "rested"
                /\ orders[o].expires # 0 /\ clock - orders[o].expires > OPEN_GRACE
      BY TelemetryAssumption DEF Stale
    <3> QED
      BY <3>1, <3>2, <3>3
  <2>3. TalliesAgree
    <3> SUFFICES ASSUME \A o \in Watched : Quiet(o)
                 PROVE  /\ VerdictCleared = slo.cleared + Cardinality({o \in Verdicts("cleared") : ~Obliged(events[o])})
                        /\ VerdictMissed = slo.missed + Cardinality(Stale)
                                 + Cardinality({o \in Verdicts("missed") : Outcome(events[o]) = "cancelled"})
      BY DEF TalliesAgree
    <3>1. \A o \in Watched : /\ Outcome(events[o]) \in TERMINAL \cup {""}
                             /\ events[o] = <<>> => Outcome(events[o]) = ""
                             /\ calls[o] = {} /\ o \notin mixed
      BY QuietOrder DEF Quiet
    <3>2. mixed = {}
      BY <3>1 DEF TelemetryIInv
    <3>3. slo.cleared = Cardinality(ClearedOrders) /\ slo.missed = Cardinality(MissedOrders)
      BY <3>2 DEF TelemetryIInv, TalliesMatch
    <3>4. \A o \in Watched : \A S \in SUBSET TERMINAL :
              Ends(events[o], calls[o], S) <=> Obliged(events[o]) /\ Outcome(events[o]) \in S
      BY <3>1 DEF Ends
    <3> DEFINE A == Verdicts("cleared")
               A1 == {o \in A : ~Obliged(events[o])}
               M == Verdicts("missed")
               M1 == {o \in M : Outcome(events[o]) = "cancelled"}
    <3>5. ClearedOrders \cup A1 = A /\ ClearedOrders \cap A1 = {}
      <4>1. {"filled"} \in SUBSET TERMINAL
        BY DEF TERMINAL
      <4>2. ClearedOrders = {o \in Watched : Obliged(events[o]) /\ Outcome(events[o]) = "filled"}
        BY <3>4, <4>1 DEF ClearedOrders
      <4>3. A = {o \in Watched : Outcome(events[o]) = "filled"}
        BY <3>1 DEF Verdicts, Judge, CLEARED, TERMINAL
      <4> HIDE DEF A
      <4> QED
        BY <4>2, <4>3
    <3>6. MissedOrders \cup M1 = M /\ MissedOrders \cap M1 = {}
      <4>1. MISSED \in SUBSET TERMINAL
        BY DEF MISSED
      <4>2. MissedOrders = {o \in Watched : Obliged(events[o]) /\ Outcome(events[o]) \in MISSED}
        BY <3>4, <4>1 DEF MissedOrders
      <4>3. M = {o \in Watched : Obliged(events[o]) /\ Outcome(events[o]) \in TERMINAL \ {"filled"}}
        BY <3>1 DEF Verdicts, Judge, CLEARED, TERMINAL
      <4> HIDE DEF M
      <4> QED
        BY <4>2, <4>3 DEF MISSED, TERMINAL
    <3>7. ClearedOrders \subseteq Watched /\ A1 \subseteq Watched /\ MissedOrders \subseteq Watched /\ M1 \subseteq Watched
          /\ Stale \subseteq Watched
      BY DEF ClearedOrders, MissedOrders, Verdicts, Stale
    <3>8. Stale = StuckOpen
      <4>1. StuckOpen \subseteq Watched
        BY DEF StuckOpen, Verdicts
      <4> QED
        BY <2>2, <3>7, <4>1
    <3> HIDE DEF A, A1, M, M1
    <3>9. ASSUME NEW X, NEW Y, X \subseteq Watched, Y \subseteq Watched, X \cap Y = {}
          PROVE  Cardinality(X \cup Y) = Cardinality(X) + Cardinality(Y)
                 /\ Cardinality(X) \in Nat /\ Cardinality(Y) \in Nat
      <4>1. IsFiniteSet(X) /\ IsFiniteSet(Y) /\ Cardinality(X) \in Nat /\ Cardinality(Y) \in Nat
        BY <3>9, TelemetryAssumption, FS_Subset, FS_CardinalityType
      <4>2. Cardinality(X \cap Y) = 0
        BY <3>9, FS_EmptySet
      <4>3. Cardinality(X \cup Y) = Cardinality(X) + Cardinality(Y) - Cardinality(X \cap Y)
        BY <4>1, FS_Union
      <4>4. Cardinality(X \cup Y) = Cardinality(X) + Cardinality(Y)
        BY <4>1, <4>2, <4>3
      <4> QED
        BY <4>1, <4>4
    <3>10. Cardinality(A) = Cardinality(ClearedOrders) + Cardinality(A1)
      BY <3>5, <3>7, <3>9
    <3>11. /\ Cardinality(M) = Cardinality(MissedOrders) + Cardinality(M1)
           /\ Cardinality(MissedOrders) \in Nat /\ Cardinality(M1) \in Nat
      BY <3>6, <3>7, <3>9
    <3>12. Cardinality(Stale) \in Nat
      BY <3>7, TelemetryAssumption, FS_Subset, FS_CardinalityType
    <3>13. VerdictMissed = Cardinality(M) + Cardinality(Stale) /\ VerdictCleared = Cardinality(A)
      BY <3>8 DEF VerdictMissed, VerdictCleared, A, M
    <3>14. VerdictCleared = slo.cleared + Cardinality(A1)
      BY <3>3, <3>10, <3>13
    <3>15. VerdictMissed = slo.missed + Cardinality(Stale) + Cardinality(M1)
      BY <3>3, <3>11, <3>12, <3>13
    <3> QED
      BY <3>14, <3>15 DEF A, A1, M, M1
  <2> QED
    BY <2>2, <2>3 DEF VerdictAgrees, StuckAgrees
<1> QED
  BY <1>1, TelemetryInitially, TelemetryStep, PTL DEF TelemetrySpec

-----------------------------------------------------------------------------
(***************************************************************************)
(* The parity probe.  ParityIsReal speaks of verdicts.  That they are      *)
(* right rests on what was read: every complete read is the node's state   *)
(* at one block (ReadAtOne), although a reader's keys are read one by one  *)
(* while its head moves; and on a verdict's reads staying as they were     *)
(* (VerdictStands).                                                        *)
(***************************************************************************)
AllNodes == PinnedNodes \cup ReaderNodes
Blocks == Nat \ {0}

ParityTypeOK ==
    /\ probes \in SUBSET AllNodes /\ diverged \in SUBSET probes
    /\ headOf \in [AllNodes -> Blocks]
    /\ target \in Nat
    /\ report \in {"none", "errors", "nothing to compare", "pass", "split"}
    /\ DOMAIN reads = AllNodes
    /\ partial \in [ReaderNodes -> [tries : Nat, got : Seq(Blocks)]]

\* The node's state at a block.
StateAt(n, block) == [k \in 1 .. KeyCount |-> ValueAt(n, block)]
IsRead(n, block) == reads[n] = [status |-> "read", at |-> block, values |-> StateAt(n, block)]

ReadAtOne ==
    \A n \in AllNodes : reads[n] \in {Unread, ReadError} \/ \E block \in Blocks : IsRead(n, block)

ChosenFirst == chosen \/ \A n \in AllNodes : reads[n] = Unread
VerdictStands == report # "none" => chosen /\ \A n \in Probed : reads[n] # Unread

ParityIInv == ParityTypeOK /\ ReadAtOne /\ ChosenFirst /\ VerdictStands /\ ParityIsReal

-----------------------------------------------------------------------------
\* A whole read at one head is the state at the head of its last key.
LEMMA WholeReadAtOne ==
    ASSUME NEW got \in Seq(Blocks), NEW head \in Blocks, NEW n,
           Len(Append(got, head)) = KeyCount, OneHead(Append(got, head))
    PROVE  [k \in 1 .. KeyCount |-> ValueAt(n, Append(got, head)[k])] = StateAt(n, head)
<1> DEFINE all == Append(got, head)
<1>1. /\ all \in Seq(Blocks) /\ Len(got) \in Nat /\ Len(all) = Len(got) + 1
      /\ all[Len(got) + 1] = head
  BY AppendProperties, LenProperties
<1>2. DOMAIN all = 1..KeyCount /\ KeyCount = Len(got) + 1
  BY <1>1, LenProperties
<1> HIDE DEF all
<1>3. OneHead(all)
  BY DEF all
<1>4. \A k \in 1..KeyCount : all[k] = head
  BY <1>1, <1>2, <1>3 DEF OneHead
<1>5. [k \in 1 .. KeyCount |-> ValueAt(n, all[k])] = StateAt(n, head)
  BY <1>4 DEF StateAt
<1> QED
  BY <1>5 DEF all

\* Two states agree only at one block, and not across a divergence.
LEMMA StatesTell ==
    ASSUME NEW n, NEW m, NEW b \in Blocks, NEW c \in Blocks, StateAt(n, b) = StateAt(m, c)
    PROVE  b = c /\ (n \in diverged <=> m \in diverged)
<1>1. 1 \in 1..KeyCount
  BY ParityAssumption
<1>2. StateAt(n, b)[1] = ValueAt(n, b) /\ StateAt(m, c)[1] = ValueAt(m, c)
  BY <1>1 DEF StateAt
<1>3. ValueAt(n, b) = ValueAt(m, c)
  BY <1>2
<1> QED
  BY <1>3 DEF ValueAt, Blocks

LEMMA TwoMembers ==
    ASSUME NEW S, IsFiniteSet(S), ~(Cardinality(S) < 2)
    PROVE  \E x, y \in S : x # y
<1>1. SUFFICES ASSUME \A x, y \in S : x = y
               PROVE  FALSE
  OBVIOUS
<1>2. S # {}
  BY FS_EmptySet
<1>3. PICK x : x \in S
  BY <1>2
<1>4. S = {x}
  BY <1>1, <1>3
<1> QED
  BY <1>4, FS_Singleton

LEMMA DigestedRead ==
    ASSUME ParityTypeOK, ReadAtOne
    PROVE  /\ IsFiniteSet(Digested) /\ Digested \subseteq AllNodes
           /\ \A n \in Digested : \E block \in Blocks : IsRead(n, block)
<1>1. Digested \subseteq AllNodes
  BY DEF Digested, Probed, Jips, Rest, AllNodes
<1>2. IsFiniteSet(AllNodes)
  BY ParityAssumption, FS_Union DEF AllNodes
<1>3. IsFiniteSet(Digested)
  BY <1>1, <1>2, FS_Subset
<1>4. ASSUME NEW n \in Digested
      PROVE  \E block \in Blocks : IsRead(n, block)
  <2>1. n \in AllNodes /\ reads[n].status = "read"
    BY <1>1 DEF Digested
  <2>2. Unread.status # "read" /\ ReadError.status # "read"
    BY DEF Unread, ReadError
  <2>3. reads[n] # Unread /\ reads[n] # ReadError
    BY <2>1, <2>2
  <2> QED
    BY <2>1, <2>3 DEF ReadAtOne
<1> QED
  BY <1>1, <1>3, <1>4

\* All digests are one exactly when there is one value.
LEMMA OneDigest ==
    ASSUME ParityTypeOK, ReadAtOne, Digested # {}
    PROVE  Cardinality(Digests(Digested)) = 1 <=> \A n, m \in Digested : reads[n].values = reads[m].values
<1> DEFINE D == Digests(Digested)
<1>1. IsFiniteSet(D)
  <2>1. [n \in Digested |-> reads[n].values] \in Surjection(Digested, D)
    BY DEF Surjection, Digests
  <2> QED
    BY <2>1, DigestedRead, FS_Surjection
<1>2. PICK x : x \in Digested
  OBVIOUS
<1>3. \A v : v \in D <=> \E n \in Digested : v = reads[n].values
  BY DEF Digests
<1> HIDE DEF D
<1>4. ASSUME Cardinality(D) = 1, NEW n \in Digested, NEW m \in Digested
      PROVE  reads[n].values = reads[m].values
  <2>1. PICK v : D = {v}
    BY <1>1, <1>4, FS_Singleton
  <2> QED
    BY <1>3, <2>1
<1>5. ASSUME \A n, m \in Digested : reads[n].values = reads[m].values
      PROVE  Cardinality(D) = 1
  <2>1. D = {reads[x].values}
    BY <1>2, <1>3, <1>5
  <2> QED
    BY <2>1, FS_Singleton
<1>6. Cardinality(D) = 1 <=> \A n, m \in Digested : reads[n].values = reads[m].values
  BY <1>4, <1>5
<1> QED
  BY <1>6 DEF D

\* The verdict on an attempt that read every node.
LEMMA VerdictIsReal ==
    ASSUME ParityTypeOK, ReadAtOne
    PROVE  /\ Verdict = "pass" =>
                /\ Digested \subseteq diverged \/ Digested \cap diverged = {}
                /\ \E n, m \in Digested : n # m /\ ({n, m} \subseteq ReaderNodes => bridge[n] # bridge[m])
           /\ Verdict = "split" =>
                Digested \cap diverged # {} \/ \E n, m \in Digested : reads[n].at # reads[m].at
<1>1. Verdict \in {"pass", "split"} => ~(Cardinality(Digested) < 2)
  BY DEF Verdict
<1>2. ASSUME Verdict \in {"pass", "split"}
      PROVE  \E n, m \in Digested : n # m
  BY <1>1, <1>2, DigestedRead, TwoMembers
<1>3. \A n \in Digested : \E block \in Blocks : IsRead(n, block)
  BY DigestedRead
<1>4. ASSUME Verdict = "pass"
      PROVE  /\ Digested \subseteq diverged \/ Digested \cap diverged = {}
             /\ \E n, m \in Digested : n # m /\ ({n, m} \subseteq ReaderNodes => bridge[n] # bridge[m])
  <2>1. Cardinality(Digests(Digested)) = 1
    BY <1>4 DEF Verdict
  <2>2. PICK n, m \in Digested : n # m
    BY <1>2, <1>4
  <2>3. \A i, j \in Digested : reads[i].values = reads[j].values
    BY <2>1, <2>2, OneDigest
  <2>4. ASSUME NEW i \in Digested, NEW j \in Digested
        PROVE  i \in diverged <=> j \in diverged
    <3>1. PICK b \in Blocks : IsRead(i, b)
      BY <1>3
    <3>2. PICK c \in Blocks : IsRead(j, c)
      BY <1>3
    <3>3. reads[i].values = StateAt(i, b) /\ reads[j].values = StateAt(j, c)
      BY <3>1, <3>2 DEF IsRead
    <3>4. StateAt(i, b) = StateAt(j, c)
      BY <2>3, <3>3
    <3> QED
      BY <3>4, StatesTell
  <2>5. {n, m} \subseteq ReaderNodes => bridge[n] # bridge[m]
    <3>1. SUFFICES ASSUME n \in ReaderNodes, m \in ReaderNodes, bridge[n] = bridge[m]
                   PROVE  FALSE
      OBVIOUS
    <3>2. n \in Rest /\ m \in Rest
      BY <3>1, ParityAssumption DEF Digested, Probed, Jips
    <3> QED
      BY <2>2, <3>1, <3>2 DEF Rest
  <2> QED
    BY <2>2, <2>4, <2>5
<1>5. ASSUME Verdict = "split", Digested \cap diverged = {},
             \A n, m \in Digested : reads[n].at = reads[m].at
      PROVE  FALSE
  <2>1. Cardinality(Digests(Digested)) # 1
    BY <1>5 DEF Verdict
  <2>2. ASSUME NEW i \in Digested, NEW j \in Digested
        PROVE  reads[i].values = reads[j].values
    <3>1. PICK b \in Blocks : IsRead(i, b)
      BY <1>3
    <3>2. PICK c \in Blocks : IsRead(j, c)
      BY <1>3
    <3>3. /\ reads[i].at = b /\ reads[i].values = StateAt(i, b)
          /\ reads[j].at = c /\ reads[j].values = StateAt(j, c)
      BY <3>1, <3>2 DEF IsRead
    <3>4. b = c
      BY <1>5, <3>3
    <3>5. i \notin diverged /\ j \notin diverged
      BY <1>5
    <3>6. StateAt(i, b) = StateAt(j, b)
      BY <3>5 DEF StateAt, ValueAt
    <3> QED
      BY <3>3, <3>4, <3>6
  <2> QED
    BY <1>2, <1>5, <2>1, <2>2, OneDigest
<1> QED
  BY <1>4, <1>5

-----------------------------------------------------------------------------
\* Before the verdict there is nothing to be wrong about.
LEMMA NoVerdict ==
    ASSUME report = "none"
    PROVE  VerdictStands /\ ParityIsReal
  BY DEF VerdictStands, ParityIsReal

LEMMA ReadsKept ==
    ASSUME ReadAtOne, reads' = reads, diverged' = diverged
    PROVE  ReadAtOne'
<1>1. \A n, block : IsRead(n, block)' <=> IsRead(n, block)
  BY DEF IsRead, StateAt, ValueAt
<1> QED
  BY <1>1 DEF ReadAtOne

LEMMA ParityInitially ==
    ASSUME ParityInit
    PROVE  ParityIInv
<1>1. ParityTypeOK
  <2>1. partial = [n \in ReaderNodes |-> [tries |-> 0, got |-> <<>>]] /\ <<>> \in Seq(Blocks)
    BY EmptySeq DEF ParityInit
  <2>2. partial \in [ReaderNodes -> [tries : Nat, got : Seq(Blocks)]]
    BY <2>1
  <2> QED
    BY <2>2 DEF ParityInit, ParityTypeOK, AllNodes, Blocks
<1>2. ReadAtOne /\ ChosenFirst
  BY DEF ParityInit, ReadAtOne, ChosenFirst, AllNodes
<1> QED
  BY <1>1, <1>2, NoVerdict DEF ParityInit, ParityIInv

LEMMA BlockChosen ==
    ASSUME ParityIInv, NEW s \in SUBSET Jips, CommonBlock(s)
    PROVE  ParityIInv'
<1>1. ParityTypeOK /\ ReadAtOne
  BY DEF ParityIInv
<1>2. target' \in Nat
  <2>1. CASE s = Jips
    BY <2>1 DEF CommonBlock
  <2>2. CASE s # Jips
    <3> DEFINE heads == {headOf[n] : n \in Jips \ s}
    <3>1. heads # {}
      BY <2>2
    <3>2. heads \in SUBSET Nat
      BY <1>1 DEF ParityTypeOK, Jips, AllNodes, Blocks
    <3>3. target' = Min(heads)
      BY <2>2 DEF CommonBlock
    <3> HIDE DEF heads
    <3> QED
      BY <3>1, <3>2, <3>3, MinIsLeast
  <2> QED
    BY <2>1, <2>2
<1>3. ParityTypeOK'
  BY <1>1, <1>2 DEF ParityTypeOK, CommonBlock, config
<1>4. ReadAtOne' /\ ChosenFirst'
  BY <1>1, ReadsKept DEF CommonBlock, config, ChosenFirst
<1>5. report' = "none"
  BY DEF CommonBlock
<1> QED
  BY <1>3, <1>4, <1>5 DEF ParityIInv, VerdictStands, ParityIsReal

\* One node's read, complete or failed, or not yet.
LEMMA NodeRead ==
    ASSUME ParityIInv, NEW n \in AllNodes, NEW rd, report = "none", chosen,
           reads' = [reads EXCEPT ![n] = rd],
           \/ rd \in {Unread, ReadError}
           \/ \E block \in Blocks : rd = [status |-> "read", at |-> block, values |-> StateAt(n, block)],
           UNCHANGED <<config, headOf, target, chosen, report>>,
           partial' \in [ReaderNodes -> [tries : Nat, got : Seq(Blocks)]]
    PROVE  ParityIInv'
<1>1. ParityTypeOK /\ ReadAtOne
  BY DEF ParityIInv
<1>2. ParityTypeOK'
  BY <1>1 DEF ParityTypeOK, config
<1>3. ASSUME NEW m \in AllNodes
      PROVE  reads'[m] \in {Unread, ReadError} \/ \E block \in Blocks : IsRead(m, block)'
  <2>1. diverged' = diverged
    BY DEF config
  <2>2. \A block : StateAt(m, block)' = StateAt(m, block)
    BY <2>1 DEF StateAt, ValueAt
  <2>3. CASE m = n
    <3>1. reads'[m] = rd
      BY <1>1, <2>3 DEF ParityTypeOK
    <3> QED
      BY <2>2, <2>3, <3>1 DEF IsRead
  <2>4. CASE m # n
    <3>1. reads'[m] = reads[m]
      BY <1>1, <2>4 DEF ParityTypeOK
    <3> QED
      BY <1>1, <2>2, <3>1 DEF ReadAtOne, IsRead
  <2> QED
    BY <2>3, <2>4
<1>4. ReadAtOne' /\ ChosenFirst'
  BY <1>3 DEF ReadAtOne, ChosenFirst, Unread, ReadError
<1> QED
  BY <1>2, <1>4 DEF ParityIInv, VerdictStands, ParityIsReal

LEMMA PinnedRead ==
    ASSUME ParityIInv, NEW n, NEW answers \in BOOLEAN, ReadPinned(n, answers)
    PROVE  ParityIInv'
<1>1. n \in AllNodes /\ n \in Probed /\ reads[n] = Unread /\ chosen
  BY DEF ReadPinned, Jips, AllNodes, Probed
<1>2. report = "none"
  BY <1>1 DEF ParityIInv, VerdictStands
<1>3. partial' \in [ReaderNodes -> [tries : Nat, got : Seq(Blocks)]]
  BY DEF ParityIInv, ParityTypeOK, ReadPinned
<1>4. \/ reads' = [reads EXCEPT ![n] = ReadError]
      \/ /\ target # 0
         /\ reads' = [reads EXCEPT ![n] = [status |-> "read", at |-> target, values |-> StateAt(n, target)]]
  BY DEF ReadPinned, StateAt
<1>5. target # 0 => target \in Blocks
  BY DEF ParityIInv, ParityTypeOK, Blocks
<1> QED
  BY <1>1, <1>2, <1>3, <1>4, <1>5, NodeRead DEF ReadPinned

LEMMA KeyRead ==
    ASSUME ParityIInv, NEW n, NEW answers \in BOOLEAN, ReadKey(n, answers)
    PROVE  ParityIInv'
<1> DEFINE got == Append(partial[n].got, headOf[n])
           tries == partial[n].tries + 1
<1>1. /\ n \in AllNodes /\ n \in ReaderNodes /\ n \in Probed /\ reads[n] = Unread /\ chosen
  BY DEF ReadKey, Rest, AllNodes, Probed
<1>2. report = "none"
  BY <1>1 DEF ParityIInv, VerdictStands
<1>3. headOf[n] \in Blocks /\ partial[n].got \in Seq(Blocks) /\ partial[n].tries \in Nat
  BY <1>1 DEF ParityIInv, ParityTypeOK
<1>4. got \in Seq(Blocks) /\ tries \in Nat
  BY <1>3, AppendProperties
<1>5. \/ reads' = [reads EXCEPT ![n] = ReadError]
      \/ reads' = [reads EXCEPT ![n] = Unread]
      \/ /\ Len(got) = KeyCount /\ OneHead(got)
         /\ reads' = [reads EXCEPT ![n] = [status |-> "read", at |-> headOf[n],
                                           values |-> [k \in 1 .. KeyCount |-> ValueAt(n, got[k])]]]
  BY DEF ReadKey
<1>6. \/ reads' = [reads EXCEPT ![n] = ReadError]
      \/ reads' = [reads EXCEPT ![n] = Unread]
      \/ reads' = [reads EXCEPT ![n] = [status |-> "read", at |-> headOf[n], values |-> StateAt(n, headOf[n])]]
  <2>1. Len(got) = KeyCount /\ OneHead(got) =>
           [k \in 1 .. KeyCount |-> ValueAt(n, got[k])] = StateAt(n, headOf[n])
    BY <1>3, WholeReadAtOne
  <2> HIDE DEF got
  <2> QED
    BY <1>5, <2>1
<1>7. partial' \in [ReaderNodes -> [tries : Nat, got : Seq(Blocks)]]
  <2>1. partial \in [ReaderNodes -> [tries : Nat, got : Seq(Blocks)]]
    BY DEF ParityIInv, ParityTypeOK
  <2>2. \/ partial' = [partial EXCEPT ![n] = [tries |-> 0, got |-> <<>>]]
        \/ partial' = [partial EXCEPT ![n] = [tries |-> tries, got |-> <<>>]]
        \/ partial' = [partial EXCEPT ![n] = [partial[n] EXCEPT !.got = got]]
    BY <1>1, <2>1 DEF ReadKey
  <2>3. <<>> \in Seq(Blocks)
    BY EmptySeq
  <2> HIDE DEF got, tries
  <2>4. /\ [tries |-> 0, got |-> <<>>] \in [tries : Nat, got : Seq(Blocks)]
        /\ [tries |-> tries, got |-> <<>>] \in [tries : Nat, got : Seq(Blocks)]
        /\ [partial[n] EXCEPT !.got = got] \in [tries : Nat, got : Seq(Blocks)]
    BY <1>1, <1>4, <2>1, <2>3
  <2> QED
    BY <2>1, <2>2, <2>4
<1>8. UNCHANGED <<config, headOf, target, chosen, report>>
  BY DEF ReadKey
<1> QED
  BY <1>1, <1>2, <1>3, <1>6, <1>7, <1>8, NodeRead

LEMMA Judged ==
    ASSUME ParityIInv, JudgeAttempt
    PROVE  ParityIInv'
<1>1. ParityTypeOK /\ ReadAtOne
  BY DEF ParityIInv
<1>2. UNCHANGED <<probes, bridge, diverged, headOf, partial>>
  BY DEF JudgeAttempt, config
<1>3. CASE report' = Verdict /\ UNCHANGED <<target, chosen, reads>>
  <2>1. Verdict \in {"errors", "nothing to compare", "pass", "split"}
    BY DEF Verdict
  <2>2. ParityTypeOK'
    BY <1>1, <1>2, <1>3, <2>1 DEF ParityTypeOK
  <2>3. ReadAtOne'
    BY <1>1, <1>2, <1>3, ReadsKept
  <2>4. Digested' = Digested /\ Probed' = Probed
    BY <1>2, <1>3 DEF Digested, Probed, Jips, Rest
  <2>5. ParityIsReal'
    BY <1>1, <1>2, <1>3, <2>4, VerdictIsReal DEF ParityIsReal
  <2>6. ChosenFirst' /\ VerdictStands'
    BY <1>3, <2>4 DEF JudgeAttempt, ChosenFirst, VerdictStands
  <2> QED
    BY <2>2, <2>3, <2>5, <2>6 DEF ParityIInv
<1>4. CASE /\ report' = "none" /\ target' = 0 /\ reads' = [n \in DOMAIN reads |-> Unread]
  <2>1. ParityTypeOK'
    BY <1>1, <1>2, <1>4 DEF ParityTypeOK
  <2>2. ReadAtOne' /\ ChosenFirst'
    BY <1>1, <1>4 DEF ParityTypeOK, ReadAtOne, ChosenFirst
  <2> QED
    BY <1>4, <2>1, <2>2 DEF ParityIInv, VerdictStands, ParityIsReal
<1> QED
  BY <1>3, <1>4 DEF JudgeAttempt

LEMMA ParityStep ==
    ASSUME ParityIInv, [ParityNext]_parityVars
    PROVE  ParityIInv'
<1>1. CASE UNCHANGED parityVars
  <2>1. UNCHANGED <<probes, bridge, diverged, headOf, attempt, target, chosen, silent, reads, partial, report>>
    BY <1>1 DEF parityVars, config, probeState
  <2>2. Digested' = Digested /\ Probed' = Probed
    BY <2>1 DEF Digested, Probed, Jips, Rest
  <2>3. ParityTypeOK' /\ ReadAtOne'
    BY <2>1, ReadsKept DEF ParityIInv, ParityTypeOK
  <2>4. ChosenFirst' /\ VerdictStands' /\ ParityIsReal'
    BY <2>1, <2>2 DEF ParityIInv, ChosenFirst, VerdictStands, ParityIsReal
  <2> QED
    BY <2>3, <2>4 DEF ParityIInv
<1>2. ASSUME NEW n \in Probed, HeadMoves(n)
      PROVE  ParityIInv'
  <2>1. /\ UNCHANGED <<probes, bridge, diverged, attempt, target, chosen, silent, reads, partial, report>>
        /\ report = "none" /\ headOf' = [headOf EXCEPT ![n] = @ + 1]
    BY <1>2 DEF HeadMoves, config, probeState
  <2>2. headOf' \in [AllNodes -> Blocks]
    <3>1. headOf \in [AllNodes -> Blocks] /\ n \in AllNodes
      BY DEF ParityIInv, ParityTypeOK, Probed, Jips, Rest, AllNodes
    <3>2. headOf[n] + 1 \in Blocks
      BY <3>1 DEF Blocks
    <3> QED
      BY <2>1, <3>1, <3>2
  <2>3. ParityTypeOK' /\ ReadAtOne'
    BY <2>1, <2>2, ReadsKept DEF ParityIInv, ParityTypeOK
  <2>4. ChosenFirst' /\ VerdictStands' /\ ParityIsReal'
    BY <2>1 DEF ParityIInv, ChosenFirst, VerdictStands, ParityIsReal
  <2> QED
    BY <2>3, <2>4 DEF ParityIInv
<1> QED
  BY <1>1, <1>2, BlockChosen, PinnedRead, KeyRead, Judged DEF ParityNext

\* What `parity' reports is the truth: a pass compared two nodes that answer for
\* themselves and none diverged alone, a split has a diverged node or readers
\* at other blocks behind it; for every number of nodes, keys and attempts and
\* however their heads move while they are read.
THEOREM ParityVerdictsReal == ParitySpec => []ParityIsReal
<1>1. ParityIInv => ParityIsReal
  BY DEF ParityIInv
<1> QED
  BY <1>1, ParityInitially, ParityStep, PTL DEF ParitySpec

-----------------------------------------------------------------------------
(***************************************************************************)
(* The net watch.  The exporter counts a conflict per new finalized block  *)
(* whose slot was taken, and forgets its oldest slots; the verdict files   *)
(* all blocks of the run at once.  What they share (ConflictsCounted): the *)
(* exporter holds every block of the run whose slot it never dropped, its  *)
(* count is positive only if the run has a conflict, and while it is zero  *)
(* there is none among the blocks it holds.                                *)
(***************************************************************************)
Shown == [Nodes -> Seen \cup {Down}]

ConflictsCounted ==
    /\ IsFiniteSet(live.seen) /\ live.seen \subseteq RunFinals /\ live.conflicts \in Nat
    /\ \A b \in RunFinals : SlotOf(b) \notin live.dropped => b \in live.seen
    /\ live.conflicts > 0 => Conflict(RunFinals)
    /\ live.conflicts = 0 => ~Conflict(live.seen)

WatchIInv == samples \in Seq(Shown) /\ ConflictsCounted

-----------------------------------------------------------------------------
LEMMA PrefixIs ==
    ASSUME NEW S, NEW x \in Seq(S), NEW y \in Seq(S)
    PROVE  IsPrefix(x, y) <=> Len(x) <= Len(y) /\ \A i \in 1..Len(x) : x[i] = y[i]
<1>1. Len(x) \in Nat /\ Len(y) \in Nat
  OBVIOUS
<1>2. SubSeq(x, 1, Len(x)) = [i \in 1..Len(x) |-> x[i]]
  BY <1>1
<1>3. SubSeq(y, 1, Len(x)) = [i \in 1..Len(x) |-> y[i]]
  BY <1>1
<1> QED
  BY <1>1, <1>2, <1>3 DEF IsPrefix

LEMMA PathIs ==
    ASSUME NEW x, IsPath(x)
    PROVE  /\ x \in Seq([slot : Nat, fork : STRING]) /\ Len(x) \in Nat /\ Len(x) > 0
           /\ SlotOf(x) = x[Len(x)].slot /\ \A i \in 1..Len(x) : x[i].slot \in Nat
           /\ \A i, j \in 1..Len(x) : i < j => x[i].slot < x[j].slot
<1> DEFINE S == [slot : Nat, fork : STRING]
<1>1. x \in Seq(S) /\ x # <<>> /\ \A i, j \in 1..Len(x) : i < j => x[i].slot < x[j].slot
  BY DEF IsPath
<1>2. \A b \in S : b.slot \in Nat
  OBVIOUS
<1> HIDE DEF S
<1>3. Len(x) \in Nat /\ Len(x) > 0 /\ \A i \in 1..Len(x) : x[i] \in S
  BY <1>1
<1>4. SlotOf(x) = x[Len(x)].slot
  BY DEF SlotOf, Last
<1> QED
  BY <1>1, <1>2, <1>3, <1>4 DEF S

\* On one branch there is one block of a slot.
LEMMA OneBlockPerSlot ==
    ASSUME NEW x, IsPath(x), NEW y, IsPath(y), IsPrefix(x, y), SlotOf(x) = SlotOf(y)
    PROVE  x = y
<1>1. /\ x \in Seq([slot : Nat, fork : STRING]) /\ Len(x) \in Nat /\ Len(x) > 0
      /\ SlotOf(x) = x[Len(x)].slot
  BY PathIs
<1>2. /\ y \in Seq([slot : Nat, fork : STRING]) /\ Len(y) \in Nat /\ Len(y) > 0
      /\ SlotOf(y) = y[Len(y)].slot /\ \A i \in 1..Len(y) : y[i].slot \in Nat
      /\ \A i, j \in 1..Len(y) : i < j => y[i].slot < y[j].slot
  BY PathIs
<1>3. Len(x) <= Len(y) /\ \A i \in 1..Len(x) : x[i] = y[i]
  BY <1>1, <1>2, PrefixIs
<1>4. Len(x) \in 1..Len(x) /\ Len(x) \in 1..Len(y) /\ Len(y) \in 1..Len(y)
  BY <1>1, <1>2, <1>3
<1>5. x[Len(x)] = y[Len(x)]
  BY <1>3, <1>4
<1>6. y[Len(x)].slot = y[Len(y)].slot
  BY <1>1, <1>2, <1>5
<1>7. y[Len(x)].slot \in Nat
  BY <1>2, <1>4
<1>8. ~(y[Len(x)].slot < y[Len(y)].slot)
  BY <1>6, <1>7
<1>9. ~(Len(x) < Len(y))
  BY <1>2, <1>4, <1>8
<1>10. Len(x) = Len(y)
  BY <1>1, <1>2, <1>3, <1>9
<1> QED
  BY <1>1, <1>2, <1>3, <1>10

\* What is on one branch with a block is on one branch with its ancestors.
LEMMA AncestorsOnBranch ==
    ASSUME NEW x, IsPath(x), NEW y, IsPath(y), OneOf(x, y),
           NEW a, IsPath(a), IsPrefix(a, x), NEW b, IsPath(b), IsPrefix(b, y)
    PROVE  OneOf(a, b)
<1> DEFINE S == [slot : Nat, fork : STRING]
<1>1. x \in Seq(S) /\ y \in Seq(S) /\ a \in Seq(S) /\ b \in Seq(S)
  BY PathIs
<1>2. Len(x) \in Nat /\ Len(y) \in Nat /\ Len(a) \in Nat /\ Len(b) \in Nat
  BY <1>1
<1> HIDE DEF S
<1>3. /\ Len(a) <= Len(x) /\ \A i \in 1..Len(a) : a[i] = x[i]
      /\ Len(b) <= Len(y) /\ \A i \in 1..Len(b) : b[i] = y[i]
  BY <1>1, PrefixIs
<1>4. \/ Len(x) <= Len(y) /\ \A i \in 1..Len(x) : x[i] = y[i]
      \/ Len(y) <= Len(x) /\ \A i \in 1..Len(y) : y[i] = x[i]
  BY <1>1, PrefixIs DEF OneOf
<1>5. \A i : i \in 1..Len(a) /\ i \in 1..Len(b) => a[i] = b[i]
  BY <1>2, <1>3, <1>4
<1>6. CASE Len(a) <= Len(b)
  <2>1. \A i \in 1..Len(a) : a[i] = b[i]
    BY <1>2, <1>5, <1>6
  <2> QED
    BY <1>1, <1>6, <2>1, PrefixIs DEF OneOf
<1>7. CASE Len(b) <= Len(a)
  <2>1. \A i \in 1..Len(b) : b[i] = a[i]
    BY <1>2, <1>5, <1>7
  <2> QED
    BY <1>1, <1>7, <2>1, PrefixIs DEF OneOf
<1> QED
  BY <1>2, <1>6, <1>7

LEMMA PathPrefix ==
    ASSUME NEW x, IsPath(x), NEW k \in 1..Len(x)
    PROVE  IsPath(SubSeq(x, 1, k)) /\ IsPrefix(SubSeq(x, 1, k), x)
<1> DEFINE S == [slot : Nat, fork : STRING]
           y == SubSeq(x, 1, k)
<1>1. x \in Seq(S) /\ Len(x) \in Nat /\ \A i, j \in 1..Len(x) : i < j => x[i].slot < x[j].slot
  BY PathIs
<1> HIDE DEF S
<1>2. y \in Seq(S) /\ Len(y) = k /\ k \in Nat /\ k > 0 /\ \A i \in 1..k : y[i] = x[i]
  BY <1>1
<1> HIDE DEF y
<1>3. IsPrefix(y, x)
  BY <1>1, <1>2, PrefixIs
<1>4. y # <<>>
  BY <1>2
<1>5. ASSUME NEW i \in 1..Len(y), NEW j \in 1..Len(y), i < j PROVE y[i].slot < y[j].slot
  <2>1. i \in 1..k /\ j \in 1..k /\ i \in 1..Len(x) /\ j \in 1..Len(x)
    BY <1>1, <1>2
  <2>2. x[i].slot < x[j].slot
    BY <1>1, <1>5, <2>1
  <2>3. y[i] = x[i] /\ y[j] = x[j]
    BY <1>2, <2>1
  <2> QED
    BY <2>2, <2>3
<1>6. IsPath(y)
  BY <1>2, <1>4, <1>5 DEF IsPath, S
<1> QED
  BY <1>3, <1>6 DEF y

LEMMA ItselfIsPrefix == ASSUME NEW x, IsPath(x) PROVE IsPrefix(x, x)
<1>1. x \in Seq([slot : Nat, fork : STRING]) /\ Len(x) \in Nat
  BY PathIs
<1> QED
  BY <1>1, PrefixIs

LEMMA AncestorIs ==
    ASSUME NEW x, IsPath(x), NEW slt, AncestorAt(x, slt) # None
    PROVE  \E k \in 1..Len(x) :
               /\ AncestorAt(x, slt) = SubSeq(x, 1, k)
               /\ x[k].slot <= slt /\ \A j \in 1..Len(x) : x[j].slot <= slt => j <= k
<1> DEFINE olds == {k \in 1..Len(x) : x[k].slot <= slt}
<1>1. Len(x) \in Nat
  BY PathIs
<1>2. olds # {} /\ AncestorAt(x, slt) = SubSeq(x, 1, Max(olds))
  BY DEF AncestorAt
<1>3. olds \in SUBSET Nat /\ IsFiniteSet(olds)
  <2>1. IsFiniteSet(1..Len(x))
    BY <1>1, FS_Interval
  <2> QED
    BY <1>1, <2>1, FS_Subset
<1>4. Max(olds) \in olds /\ \A y \in olds : y <= Max(olds)
  <2> HIDE DEF olds
  <2> QED
    BY <1>2, <1>3, MaxIsGreatest
<1> QED
  BY <1>2, <1>4

\* A block is the ancestor, at its slot, of every block that extends it.
LEMMA AncestorAtItsSlot ==
    ASSUME NEW x, IsPath(x), NEW y, IsPath(y), IsPrefix(x, y), AncestorAt(y, SlotOf(x)) # None
    PROVE  AncestorAt(y, SlotOf(x)) = x
<1> DEFINE S == [slot : Nat, fork : STRING]
<1>1. x \in Seq(S) /\ Len(x) \in Nat /\ Len(x) > 0 /\ SlotOf(x) = x[Len(x)].slot
  BY PathIs
<1>2. /\ y \in Seq(S) /\ Len(y) \in Nat /\ \A i \in 1..Len(y) : y[i].slot \in Nat
      /\ \A i, j \in 1..Len(y) : i < j => y[i].slot < y[j].slot
  BY PathIs
<1> HIDE DEF S
<1>3. Len(x) <= Len(y) /\ \A i \in 1..Len(x) : x[i] = y[i]
  BY <1>1, <1>2, PrefixIs
<1>4. PICK k \in 1..Len(y) :
           /\ AncestorAt(y, SlotOf(x)) = SubSeq(y, 1, k)
           /\ y[k].slot <= SlotOf(x) /\ \A j \in 1..Len(y) : y[j].slot <= SlotOf(x) => j <= k
  BY AncestorIs
<1>5. Len(x) \in 1..Len(x) /\ Len(x) \in 1..Len(y)
  BY <1>1, <1>2, <1>3
<1>6. SlotOf(x) = y[Len(x)].slot /\ SlotOf(x) \in Nat
  <2>1. x[Len(x)] = y[Len(x)]
    BY <1>3, <1>5
  <2> QED
    BY <1>1, <1>2, <1>5, <2>1
<1>7. Len(x) <= k
  BY <1>4, <1>5, <1>6
<1>8. ~(Len(x) < k)
  <2>1. y[k].slot \in Nat /\ ~(y[Len(x)].slot < y[k].slot)
    BY <1>2, <1>4, <1>6
  <2> QED
    BY <1>2, <1>5, <2>1
<1>9. k = Len(x)
  BY <1>1, <1>2, <1>7, <1>8
<1>10. SubSeq(y, 1, Len(x)) = SubSeq(x, 1, Len(x))
  BY <1>1, <1>2, <1>3
<1>11. SubSeq(x, 1, Len(x)) = x
  BY <1>1
<1> QED
  BY <1>4, <1>9, <1>10, <1>11

\* Of two blocks on one branch, the one of the lower slot is the ancestor.
LEMMA LowerIsAncestor ==
    ASSUME NEW x, IsPath(x), NEW y, IsPath(y), OneOf(x, y), SlotOf(x) <= SlotOf(y)
    PROVE  IsPrefix(x, y)
<1>1. SUFFICES ASSUME IsPrefix(y, x) PROVE IsPrefix(x, y)
  BY DEF OneOf
<1> DEFINE S == [slot : Nat, fork : STRING]
<1>2. /\ x \in Seq(S) /\ Len(x) \in Nat /\ Len(x) > 0 /\ SlotOf(x) = x[Len(x)].slot
      /\ \A i \in 1..Len(x) : x[i].slot \in Nat
      /\ \A i, j \in 1..Len(x) : i < j => x[i].slot < x[j].slot
  BY PathIs
<1>3. y \in Seq(S) /\ Len(y) \in Nat /\ Len(y) > 0 /\ SlotOf(y) = y[Len(y)].slot
  BY PathIs
<1> HIDE DEF S
<1>4. Len(y) <= Len(x) /\ \A i \in 1..Len(y) : y[i] = x[i]
  BY <1>1, <1>2, <1>3, PrefixIs
<1>5. Len(y) \in 1..Len(y) /\ Len(y) \in 1..Len(x) /\ Len(x) \in 1..Len(x)
  BY <1>2, <1>3, <1>4
<1>6. SlotOf(y) = x[Len(y)].slot
  BY <1>3, <1>4, <1>5
<1>7. x[Len(x)].slot \in Nat /\ x[Len(y)].slot \in Nat /\ x[Len(x)].slot <= x[Len(y)].slot
  BY <1>2, <1>5, <1>6
<1>8. ~(Len(y) < Len(x))
  <2>1. ~(x[Len(y)].slot < x[Len(x)].slot)
    BY <1>7
  <2> QED
    BY <1>2, <1>5, <2>1
<1>9. SlotOf(x) = SlotOf(y)
  <2>1. Len(x) = Len(y)
    BY <1>2, <1>3, <1>4, <1>8
  <2> QED
    BY <1>2, <1>6, <2>1
<1>10. x = y
  BY <1>1, <1>9, OneBlockPerSlot
<1> QED
  BY <1>1, <1>10

\* A block that is filed is an ancestor of a finalized block that a node showed.
LEMMA FiledIsAncestor ==
    ASSUME NEW s \in Shown, NEW b \in FinalBlocks(s)
    PROVE  \E n \in Up(s) : IsPath(s[n].final) /\ IsPath(b) /\ IsPrefix(b, s[n].final)
<1>1. \A n \in Hashed(s) : n \in Up(s) /\ n \in Nodes /\ s[n] \in Seen
  BY DEF Hashed, Up, Shown
<1>2. \A n \in Hashed(s) : IsPath(s[n].final)
  BY <1>1, WatchAssumption
<1>3. CASE b \in {s[n].final : n \in Hashed(s)}
  <2>1. PICK n \in Hashed(s) : b = s[n].final
    BY <1>3
  <2> QED
    BY <1>1, <1>2, <2>1, ItselfIsPrefix
<1>4. CASE b \in Hashes(Align(s, "final"))
  <2> DEFINE low == Min({SlotOf(s[n]["final"]) : n \in Hashed(s)})
  <2>1. Align(s, "final") = [n \in Hashed(s) |-> AncestorAt(s[n]["final"], low)]
    BY DEF Align
  <2> HIDE DEF low
  <2>2. PICK n \in Hashed(s) : b = AncestorAt(s[n].final, low) /\ b # None
    BY <1>4, <2>1 DEF Hashes
  <2> DEFINE x == s[n].final
  <2>3. IsPath(x)
    BY <1>2
  <2> HIDE DEF x
  <2>4. PICK k \in 1..Len(x) : b = SubSeq(x, 1, k)
    BY <2>2, <2>3, AncestorIs DEF x
  <2>5. IsPath(b) /\ IsPrefix(b, x)
    BY <2>3, <2>4, PathPrefix
  <2> QED
    BY <1>1, <2>3, <2>5 DEF x
<1> QED
  BY <1>3, <1>4 DEF FinalBlocks

LEMMA FiledFinite ==
    ASSUME NEW s \in Shown
    PROVE  IsFiniteSet(FinalBlocks(s))
<1>1. IsFiniteSet(Hashed(s))
  BY WatchAssumption, FS_Subset DEF Hashed, Up
<1> DEFINE f == [n \in Hashed(s) |-> s[n].final]
           T == {s[n].final : n \in Hashed(s)}
<1>2. f \in Surjection(Hashed(s), T)
  BY DEF Surjection
<1>3. IsFiniteSet(T)
  BY <1>1, <1>2, FS_Surjection
<1> DEFINE g == Align(s, "final")
           U == {g[n] : n \in Hashed(s)}
<1>4. DOMAIN g = Hashed(s) /\ g = [n \in Hashed(s) |-> g[n]]
  BY DEF Align
<1>5. g \in Surjection(Hashed(s), U)
  BY <1>4 DEF Surjection
<1>6. IsFiniteSet(U)
  BY <1>1, <1>5, FS_Surjection
<1>7. FinalBlocks(s) \subseteq T \cup U
  BY <1>4 DEF FinalBlocks, Hashes
<1> QED
  BY <1>3, <1>6, <1>7, FS_Union, FS_Subset

LEMMA TwoAre ==
    ASSUME NEW x, NEW y, x # y
    PROVE  Cardinality({x, y}) = 2
<1>1. IsFiniteSet({x}) /\ Cardinality({x}) = 1
  BY FS_Singleton
<1>2. {x, y} = {x} \cup {y} /\ y \notin {x}
  OBVIOUS
<1>3. Cardinality({x} \cup {y}) = Cardinality({x}) + 1
  BY <1>1, <1>2, FS_AddElement
<1> QED
  BY <1>1, <1>2, <1>3

\* A sample in which every node could be lined up is split exactly when the lowest
\* head is on another branch than some head.
LEMMA SplitsAreForks ==
    ASSUME NEW s \in Shown, hashless = {}, \A n \in Up(s) : Align(s, "best")[n] # None
    PROVE  Split(s) <=> LowestForks(s)
<1> DEFINE head(n) == s[n].best
           low == Min({SlotOf(head(n)) : n \in Up(s)})
           g == Align(s, "best")
<1>1. Hashed(s) = Up(s)
  BY DEF Hashed
<1>2. g = [n \in Up(s) |-> AncestorAt(head(n), low)]
  BY <1>1 DEF Align
<1>3. \A n \in Up(s) : IsPath(head(n)) /\ SlotOf(head(n)) \in Nat
  <2>1. ASSUME NEW n \in Up(s) PROVE IsPath(head(n)) /\ SlotOf(head(n)) \in Nat
    <3>1. IsPath(head(n))
      BY WatchAssumption DEF Up, Shown
    <3> HIDE DEF head
    <3>2. Len(head(n)) \in 1..Len(head(n)) /\ SlotOf(head(n)) = head(n)[Len(head(n))].slot
      BY <3>1, PathIs
    <3> QED
      BY <3>1, <3>2, PathIs
  <2> QED
    BY <2>1
<1>4. \A n \in Up(s) : g[n] = AncestorAt(head(n), low) /\ g[n] # None
  BY <1>2
<1>5. Hashes(g) = {g[n] : n \in Up(s)} /\ IsFiniteSet(Hashes(g))
  <2>1. Hashes(g) = {g[n] : n \in Up(s)}
    BY <1>2, <1>4 DEF Hashes
  <2>2. IsFiniteSet(Up(s))
    BY WatchAssumption, FS_Subset DEF Up
  <2>3. g \in Surjection(Up(s), {g[n] : n \in Up(s)})
    BY <1>2 DEF Surjection
  <2>4. IsFiniteSet({g[n] : n \in Up(s)})
    BY <2>2, <2>3, FS_Surjection
  <2> QED
    BY <2>1, <2>4
<1>6. Split(s) <=> Cardinality(Hashes(g)) > 1
  BY DEF Split
<1> HIDE DEF g, head
<1>7. ASSUME NEW m \in Up(s), \A k \in Up(s) : SlotOf(head(m)) <= SlotOf(head(k))
      PROVE  low = SlotOf(head(m))
  <2>1. {SlotOf(head(n)) : n \in Up(s)} \in SUBSET Int
    BY <1>3
  <2> QED
    BY <1>7, <2>1, MinIs
<1> HIDE DEF low
<1>8. ASSUME NEW m \in Up(s), \A k \in Up(s) : SlotOf(head(m)) <= SlotOf(head(k)),
             NEW n \in Up(s), OneOf(head(m), head(n))
      PROVE  g[n] = head(m)
  <2>1. IsPrefix(head(m), head(n))
    BY <1>3, <1>8, LowerIsAncestor
  <2>2. low = SlotOf(head(m))
    BY <1>7, <1>8
  <2> QED
    BY <1>3, <1>4, <2>1, <2>2, AncestorAtItsSlot
<1>9. ASSUME Split(s), ~LowestForks(s) PROVE FALSE
  <2>1. PICK x, y \in Hashes(g) : x # y
    <3>1. ~(Cardinality(Hashes(g)) < 2)
      BY <1>5, <1>6, <1>9, FS_CardinalityType
    <3> QED
      BY <1>5, <3>1, TwoMembers
  <2>2. PICK a \in Up(s), b \in Up(s) : x = g[a] /\ y = g[b]
    BY <1>5, <2>1
  <2>3. PICK m \in Up(s) : \A k \in Up(s) : SlotOf(head(m)) <= SlotOf(head(k))
    <3> DEFINE T == {SlotOf(head(n)) : n \in Up(s)}
    <3>1. T \in SUBSET Nat /\ T # {}
      BY <1>3, <2>2
    <3>2. Min(T) \in T /\ \A z \in T : Min(T) <= z
      <4> HIDE DEF T
      <4> QED
        BY <3>1, MinIsLeast
    <3> QED
      BY <3>2
  <2>4. \A n \in Up(s) : OneOf(head(m), head(n))
    BY <1>9, <2>3 DEF LowestForks, head
  <2>5. g[a] = head(m) /\ g[b] = head(m)
    BY <1>8, <2>3, <2>4
  <2> QED
    BY <2>1, <2>2, <2>5
<1>10. ASSUME LowestForks(s) PROVE Split(s)
  <2>1. PICK m, n \in Up(s) : /\ \A k \in Up(s) : SlotOf(head(m)) <= SlotOf(head(k))
                              /\ ~OneOf(head(m), head(n))
    BY <1>10 DEF LowestForks, head
  <2>2. OneOf(head(m), head(m))
    BY <1>3, ItselfIsPrefix DEF OneOf
  <2>3. g[m] = head(m)
    BY <1>8, <2>1, <2>2
  <2>4. PICK k \in 1..Len(head(n)) : g[n] = SubSeq(head(n), 1, k)
    BY <1>3, <1>4, AncestorIs
  <2>5. IsPrefix(g[n], head(n))
    BY <1>3, <2>4, PathPrefix
  <2>6. g[m] # g[n]
    BY <2>1, <2>3, <2>5 DEF OneOf
  <2>7. g[m] \in Hashes(g) /\ g[n] \in Hashes(g)
    BY <1>5
  <2>8. Cardinality({g[m], g[n]}) <= Cardinality(Hashes(g)) /\ Cardinality(Hashes(g)) \in Nat
    <3>1. {g[m], g[n]} \subseteq Hashes(g)
      BY <2>7
    <3> QED
      BY <1>5, <3>1, FS_Subset, FS_CardinalityType
  <2>9. Cardinality({g[m], g[n]}) = 2
    BY <2>6, TwoAre
  <2> QED
    BY <1>6, <2>8, <2>9
<1> QED
  BY <1>9, <1>10

\* There are more blocks than slots exactly when two blocks share one.
LEMMA MoreBlocksThanSlots ==
    ASSUME NEW B, IsFiniteSet(B)
    PROVE  /\ IsFiniteSet(SlotsOf(B)) /\ Cardinality(B) \in Nat /\ Cardinality(SlotsOf(B)) \in Nat
           /\ Cardinality(SlotsOf(B)) <= Cardinality(B)
           /\ Cardinality(B) - Cardinality(SlotsOf(B)) > 0 <=> Conflict(B)
<1> DEFINE f == [b \in B |-> SlotOf(b)]
<1>1. f \in Surjection(B, SlotsOf(B))
  BY DEF Surjection, SlotsOf
<1>2. f \in Injection(B, SlotsOf(B)) <=> ~Conflict(B)
  BY <1>1 DEF Injection, IsInjective, Surjection, Conflict
<1> HIDE DEF f
<1>3. /\ IsFiniteSet(SlotsOf(B)) /\ Cardinality(SlotsOf(B)) <= Cardinality(B)
      /\ Cardinality(SlotsOf(B)) = Cardinality(B) <=> f \in Injection(B, SlotsOf(B))
  BY <1>1, FS_Surjection
<1>4. Cardinality(B) \in Nat /\ Cardinality(SlotsOf(B)) \in Nat
  BY <1>3, FS_CardinalityType
<1> QED
  BY <1>2, <1>3, <1>4

\* What is added to the count: something exactly when the new blocks bring a
\* conflict, where there was none before.
LEMMA NewConflicts ==
    ASSUME NEW old, NEW new, IsFiniteSet(old), IsFiniteSet(new), new \cap old = {},
           NEW d, d = Cardinality(new) - Cardinality(SlotsOf(new) \ SlotsOf(old))
    PROVE  d \in Nat /\ (d > 0 => Conflict(old \cup new)) /\ (d = 0 /\ ~Conflict(old) => ~Conflict(old \cup new))
<1> DEFINE fresh == SlotsOf(new) \ SlotsOf(old)
           all == old \cup new
<1>1. SlotsOf(all) = SlotsOf(old) \cup fresh /\ SlotsOf(old) \cap fresh = {} /\ fresh \subseteq SlotsOf(new)
  BY DEF SlotsOf
<1> HIDE DEF fresh
<1>2. IsFiniteSet(SlotsOf(old)) /\ IsFiniteSet(SlotsOf(new)) /\ Cardinality(SlotsOf(new)) <= Cardinality(new)
  BY MoreBlocksThanSlots
<1>3. IsFiniteSet(fresh) /\ Cardinality(fresh) <= Cardinality(SlotsOf(new))
  BY <1>1, <1>2, FS_Subset
<1>4. /\ Cardinality(old) \in Nat /\ Cardinality(new) \in Nat /\ Cardinality(SlotsOf(new)) \in Nat
      /\ Cardinality(SlotsOf(old)) \in Nat /\ Cardinality(fresh) \in Nat /\ Cardinality({}) = 0
  BY <1>2, <1>3, FS_CardinalityType, FS_EmptySet
<1>5. IsFiniteSet(all) /\ Cardinality(all) = Cardinality(old) + Cardinality(new)
  <2>1. Cardinality(old \cap new) = 0
    BY <1>4
  <2> QED
    BY <1>4, <2>1, FS_Union
<1>6. Cardinality(SlotsOf(all)) = Cardinality(SlotsOf(old)) + Cardinality(fresh)
  <2>1. Cardinality(SlotsOf(old) \cap fresh) = 0
    BY <1>1, <1>4
  <2>2. Cardinality(SlotsOf(old) \cup fresh)
          = Cardinality(SlotsOf(old)) + Cardinality(fresh) - Cardinality(SlotsOf(old) \cap fresh)
    BY <1>2, <1>3, FS_Union
  <2>3. Cardinality(SlotsOf(old) \cup fresh) = Cardinality(SlotsOf(old)) + Cardinality(fresh)
    BY <1>4, <2>1, <2>2
  <2> QED
    BY <1>1, <2>3
<1>7. d = Cardinality(new) - Cardinality(fresh)
  BY DEF fresh
<1> HIDE DEF all
<1>8. Cardinality(all) - Cardinality(SlotsOf(all)) > 0 <=> Conflict(all)
  BY <1>5, MoreBlocksThanSlots
<1>9. Cardinality(old) - Cardinality(SlotsOf(old)) > 0 <=> Conflict(old)
  BY MoreBlocksThanSlots
<1>10. Cardinality(SlotsOf(old)) <= Cardinality(old)
  BY MoreBlocksThanSlots
<1>11. d \in Nat
  BY <1>2, <1>3, <1>4, <1>7
<1>12. d > 0 => Conflict(all)
  BY <1>4, <1>5, <1>6, <1>7, <1>8, <1>10
<1>13. d = 0 /\ ~Conflict(old) => ~Conflict(all)
  BY <1>4, <1>5, <1>6, <1>7, <1>8, <1>9
<1> QED
  BY <1>11, <1>12, <1>13 DEF all

LEMMA WatchInitially ==
    ASSUME WatchInit
    PROVE  WatchIInv
<1>1. samples = <<>> /\ live.seen = {} /\ live.conflicts = 0
  BY DEF WatchInit
<1>2. RunFinals = {}
  BY <1>1 DEF ToSet, RunFinals
<1>3. IsFiniteSet({}) /\ ~Conflict({})
  BY FS_EmptySet DEF Conflict
<1> QED
  BY <1>1, <1>2, <1>3 DEF WatchIInv, ConflictsCounted

LEMMA SampleCounts ==
    ASSUME WatchIInv, NEW s \in Shown, Sample(s)
    PROVE  WatchIInv'
<1> DEFINE old == live.seen
           new == FinalBlocks(s) \ old
           gone == Trimmed(SlotsOf(old \cup new))
           d == Cardinality(new) - Cardinality(SlotsOf(new) \ SlotsOf(old))
<1>1. /\ samples \in Seq(Shown) /\ IsFiniteSet(old) /\ old \subseteq RunFinals /\ live.conflicts \in Nat
      /\ \A b \in RunFinals : SlotOf(b) \notin live.dropped => b \in old
      /\ live.conflicts > 0 => Conflict(RunFinals)
      /\ live.conflicts = 0 => ~Conflict(old)
  BY DEF WatchIInv, ConflictsCounted
<1>2. /\ samples' = Append(samples, s) /\ hashless' = hashless
      /\ live'.seen = {b \in old \cup new : SlotOf(b) \notin gone}
      /\ live'.dropped = live.dropped \cup gone
      /\ live'.conflicts = live.conflicts + d
  BY DEF Sample
<1>3. samples' \in Seq(Shown) /\ ToSet(samples') = ToSet(samples) \cup {s}
  <2>1. Len(samples) \in Nat /\ Len(samples') = Len(samples) + 1 /\ samples' \in Seq(Shown)
        /\ samples'[Len(samples) + 1] = s /\ \A i \in 1..Len(samples) : samples'[i] = samples[i]
    BY <1>1, <1>2
  <2>2. DOMAIN samples = 1..Len(samples) /\ DOMAIN samples' = 1..(Len(samples) + 1)
    BY <1>1, <2>1
  <2> QED
    BY <2>1, <2>2 DEF ToSet
<1>4. \A t : FinalBlocks(t)' = FinalBlocks(t)
  BY <1>2 DEF FinalBlocks, Hashed, Up, Align, Hashes
<1>5. RunFinals' = RunFinals \cup FinalBlocks(s)
  BY <1>3, <1>4 DEF RunFinals
<1>6. IsFiniteSet(new) /\ new \cap old = {}
  BY FiledFinite, FS_Difference
<1>7. old \cup new \subseteq RunFinals' /\ \A b \in RunFinals' : SlotOf(b) \notin live.dropped => b \in old \cup new
  BY <1>1, <1>5
<1> HIDE DEF new, old
<1>8. d \in Nat /\ (d > 0 => Conflict(old \cup new)) /\ (d = 0 /\ ~Conflict(old) => ~Conflict(old \cup new))
  BY <1>1, <1>6, NewConflicts
<1>9. IsFiniteSet(live'.seen)
  BY <1>1, <1>2, <1>6, FS_Union, FS_Subset
<1> HIDE DEF d, gone
<1>10. live'.seen \subseteq RunFinals' /\ \A b \in RunFinals' : SlotOf(b) \notin live'.dropped => b \in live'.seen
  BY <1>2, <1>7
<1>11. live'.conflicts \in Nat
  BY <1>1, <1>2, <1>8
<1>12. live'.conflicts > 0 => Conflict(RunFinals')
  <2>1. CASE live.conflicts > 0
    BY <1>1, <1>5, <2>1 DEF Conflict
  <2>2. CASE d > 0
    BY <1>7, <1>8, <2>2 DEF Conflict
  <2> QED
    BY <1>1, <1>2, <1>8, <2>1, <2>2
<1>13. live'.conflicts = 0 => ~Conflict(live'.seen)
  <2>1. live'.conflicts = 0 => live.conflicts = 0 /\ d = 0
    BY <1>1, <1>2, <1>8
  <2>2. Conflict(live'.seen) => Conflict(old \cup new)
    BY <1>2 DEF Conflict
  <2> QED
    BY <1>1, <1>8, <2>1, <2>2
<1> QED
  BY <1>3, <1>9, <1>10, <1>11, <1>12, <1>13 DEF WatchIInv, ConflictsCounted, Conflict, SlotOf

\* A sample of lined-up nodes is split exactly when its lowest head is off some
\* other's branch; the exporter raises a conflict only when the verdict on the same
\* run finds one, and raises each one found unless it has dropped its slot; and a
\* conflict, of hashes or of heights, is of finalized blocks that two nodes, or one
\* at two times, showed on different branches: for any nodes, chains, numbers of
\* samples and of slots kept (judge_sample, Exporter.step, verdict, Sampler._align).
THEOREM WatchAlarmsReal == WatchSpec => [](SplitIsFork /\ ConflictsAgree /\ ConflictsReal)
<1>1. WatchInit => WatchIInv
  BY WatchInitially
<1>2. WatchIInv /\ [WatchNext]_watchVars => WatchIInv'
  <2>1. ASSUME WatchIInv, UNCHANGED watchVars PROVE WatchIInv'
    <3>1. samples' = samples /\ live' = live /\ hashless' = hashless
      BY <2>1 DEF watchVars
    <3>2. \A t : FinalBlocks(t)' = FinalBlocks(t)
      BY <3>1 DEF FinalBlocks, Hashed, Up, Align, Hashes
    <3>3. RunFinals' = RunFinals
      BY <3>1, <3>2 DEF ToSet, RunFinals
    <3> QED
      BY <2>1, <3>1, <3>3 DEF WatchIInv, ConflictsCounted, Conflict, SlotOf, Shown
  <2> QED
    BY <2>1, SampleCounts DEF WatchNext, Shown
<1>3. WatchIInv => ConflictsAgree
  <2> SUFFICES ASSUME WatchIInv PROVE ConflictsAgree
    OBVIOUS
  <2>1. Conflict({b \in RunFinals : SlotOf(b) \notin live.dropped}) => Conflict(live.seen)
    BY DEF WatchIInv, ConflictsCounted, Conflict
  <2> QED
    BY <2>1 DEF WatchIInv, ConflictsCounted, ConflictsAgree, FinalConflict
<1>4. WatchIInv => ConflictsReal
  <2> SUFFICES ASSUME WatchIInv, FinalConflict \/ HeightConflict,
                      \A s, t \in ToSet(samples) : \A m \in Up(s), n \in Up(t) : OneOf(s[m].final, t[n].final)
               PROVE  FALSE
    BY DEF ConflictsReal
  <2>1. \A s \in ToSet(samples) : s \in Shown
    BY DEF WatchIInv, ToSet
  <2>2. CASE FinalConflict
    <3>1. PICK x, y : /\ x \in UNION {FinalBlocks(s) : s \in ToSet(samples)}
                      /\ y \in UNION {FinalBlocks(s) : s \in ToSet(samples)}
                      /\ x # y /\ SlotOf(x) = SlotOf(y)
      BY <2>2 DEF FinalConflict, RunFinals, Conflict
    <3>2. PICK s \in ToSet(samples) : \E m \in Up(s) : IsPath(s[m].final) /\ IsPath(x) /\ IsPrefix(x, s[m].final)
      BY <2>1, <3>1, FiledIsAncestor
    <3>3. PICK t \in ToSet(samples) : \E n \in Up(t) : IsPath(t[n].final) /\ IsPath(y) /\ IsPrefix(y, t[n].final)
      BY <2>1, <3>1, FiledIsAncestor
    <3>4. PICK m \in Up(s) : IsPath(s[m].final) /\ IsPath(x) /\ IsPrefix(x, s[m].final)
      BY <3>2
    <3>5. PICK n \in Up(t) : IsPath(t[n].final) /\ IsPath(y) /\ IsPrefix(y, t[n].final)
      BY <3>3
    <3>6. OneOf(x, y)
      BY <3>4, <3>5, AncestorsOnBranch
    <3> QED
      BY <3>1, <3>4, <3>5, <3>6, OneBlockPerSlot DEF OneOf
  <2>3. CASE HeightConflict
    <3>1. PICK s \in ToSet(samples), t \in ToSet(samples) : \E m \in Up(s), n \in Up(t) :
                 SlotOf(s[m].final) = SlotOf(t[n].final) /\ Len(s[m].final) # Len(t[n].final)
      BY <2>3 DEF HeightConflict
    <3>2. PICK m \in Up(s), n \in Up(t) :
                 SlotOf(s[m].final) = SlotOf(t[n].final) /\ Len(s[m].final) # Len(t[n].final)
      BY <3>1
    <3>3. s[m] \in Seen /\ t[n] \in Seen
      BY <2>1, <3>1 DEF Up, Shown
    <3>4. IsPath(s[m].final) /\ IsPath(t[n].final)
      BY <3>3, WatchAssumption
    <3> QED
      BY <3>1, <3>2, <3>4, OneBlockPerSlot DEF OneOf
  <2> QED
    BY <2>2, <2>3
<1>5. WatchIInv => SplitIsFork
  <2>1. ASSUME WatchIInv, NEW s \in ToSet(samples) PROVE s \in Shown
    BY <2>1 DEF WatchIInv, ToSet
  <2> QED
    BY <2>1, SplitsAreForks DEF SplitIsFork
<1> QED
  BY <1>1, <1>2, <1>3, <1>4, <1>5, PTL DEF WatchSpec
=============================================================================
