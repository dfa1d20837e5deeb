------------------------------- MODULE Deploy -------------------------------
(***************************************************************************)
(* Deploying the service at runtime (offchain/deploy.py): a create is sent *)
(* to the chain's Bootstrap service, looked for in the state and resent    *)
(* when it failed or aged out; then the code is provided, and the run ends *)
(* when the code is there at the lookup anchor of the next package.  The   *)
(* process may die at any point and be run again; the state file survives. *)
(***************************************************************************)
EXTENDS Integers, FiniteSets

CONSTANTS
    RECENT,             \* recent_block_count: how old the anchor of a report may be
    REPORT_TIMEOUT,     \* slots a report may wait for its assurances (GP U)
    READY_GRACE_SLOTS,
    LOOKUP_MARGIN,      \* max_lookup_anchor_age - recent_block_count
    MaxSlot,            \* bound on the slots
    MaxSends,           \* bound on the creates sent
    MaxRuns             \* bound on the runs of the tool

ASSUME DeployAssumption ==
    /\ RECENT \in Nat \ {0} /\ REPORT_TIMEOUT \in Nat /\ LOOKUP_MARGIN \in Nat
    /\ READY_GRACE_SLOTS \in Nat /\ READY_GRACE_SLOTS > REPORT_TIMEOUT
    /\ MaxSlot \in Nat /\ MaxSends \in Nat /\ MaxRuns \in Nat

\* The id asked for (the lowest free), and the ids `new' picks otherwise.
Wanted == 1
ServiceIds == 1..(MaxSends + 1)
Absent == [code |-> "none", created |-> 0, provided |-> 0]

(***************************************************************************)
(* On chain: slot and finalSlot (the best and the finalized block), svc    *)
(* (the accounts, with the slots they and their code came in), creates     *)
(* (the packages sent).  The tool: stage, sid, receipt (the create it      *)
(* follows, 0 for none), since, ready (ready_slot, 0 for none), preimage   *)
(* (submitted and not integrated), stateFile (its id, 0 for none).         *)
(* History: runs, finished (the ids runs ended with), blind (a create's    *)
(* outcome was unknown, or a run died with one under way), fallback        *)
(* (finality lagged beyond the margin when the last run ended).            *)
(***************************************************************************)
VARIABLES slot, finalSlot, svc, creates, stage, sid, receipt, since, ready, preimage, stateFile,
          runs, finished, blind, fallback

ledgerVars == <<slot, finalSlot, svc>>
toolVars == <<stage, sid, receipt, since, ready, stateFile>>
deployVars == <<ledgerVars, creates, toolVars, preimage, runs, finished, blind, fallback>>

DeployInit ==
    /\ slot = 1 /\ finalSlot = 1 /\ svc = [i \in ServiceIds |-> Absent] /\ creates = {}
    /\ stage = "idle" /\ sid = 0 /\ receipt = 0 /\ since = 0 /\ ready = 0
    /\ preimage = {} /\ stateFile = 0 /\ runs = 0 /\ finished = {} /\ blind = FALSE /\ fallback = FALSE

RunsOurCode(i) == svc[i].code = "ours"
ParentSlot(s) == IF s > 1 THEN s - 1 ELSE s

\* default_anchor and default_lookup_anchor: the finalized block's parent, or the
\* anchor itself when that would be too old.
DefaultAnchor == ParentSlot(slot)
DefaultLookupAnchor ==
    IF ParentSlot(finalSlot) + LOOKUP_MARGIN < DefaultAnchor THEN DefaultAnchor ELSE ParentSlot(finalSlot)
CodeAt(i, s) == svc[i].provided # 0 /\ svc[i].provided <= s

-----------------------------------------------------------------------------

\* existing: the state file's service, or else the first that runs this code in
\* the order the node lists them.
Existing ==
    IF stateFile # 0 /\ RunsOurCode(stateFile) THEN {stateFile} ELSE {i \in ServiceIds : RunsOurCode(i)}

\* run: an existing service is reused.
RunReuses(i) ==
    /\ stage = "idle" /\ runs < MaxRuns /\ i \in Existing
    /\ runs' = runs + 1 /\ stage' = "provide" /\ sid' = i
    /\ UNCHANGED <<ledgerVars, creates, receipt, since, ready, preimage, stateFile, finished, blind, fallback>>

Fails == stage' = "idle" /\ sid' = 0 /\ receipt' = 0 /\ since' = 0 /\ ready' = 0

\* send: a package with a new salt, anchored at the best block's parent.
Send(outcome, first) ==
    LET n == Cardinality(creates) + 1
        package == [n |-> n, anchor |-> DefaultAnchor, state |-> "sent"]
    IN  /\ n <= MaxSends
        /\ CASE outcome = "ok"   -> /\ creates' = creates \cup {package} /\ receipt' = n
                                    /\ UNCHANGED blind
             [] outcome = "busy" -> receipt' = 0 /\ UNCHANGED <<creates, blind>>
             [] outcome = "unknown" -> /\ creates' \in {creates, creates \cup {package}}
                                       /\ receipt' = IF first THEN 0 ELSE receipt
                                       /\ blind' = TRUE

\* create: the first send; one of unknown outcome ends the run.
RunCreates(outcome) ==
    /\ stage = "idle" /\ runs < MaxRuns /\ Existing = {} /\ svc[Wanted] = Absent
    /\ runs' = runs + 1
    /\ Send(outcome, TRUE)
    /\ stage' = IF outcome = "unknown" THEN "idle" ELSE "create"
    /\ since' = IF outcome = "unknown" THEN 0 ELSE slot
    /\ UNCHANGED <<ledgerVars, sid, ready, preimage, stateFile, finished, fallback>>

\* _created: the id asked for, or with `scan' any service created since.
Created(scan) ==
    IF RunsOurCode(Wanted) THEN {Wanted}
    ELSE IF scan THEN {i \in ServiceIds : RunsOurCode(i) /\ svc[i].created >= since} ELSE {}
Lowest(ids) == CHOOSE i \in ids : \A k \in ids : i <= k

\* The create is on chain.
CreateSeen ==
    /\ stage = "create" /\ Created(ready # 0) # {}
    /\ stage' = "provide" /\ sid' = Lowest(Created(ready # 0))
    /\ receipt' = 0 /\ since' = 0 /\ ready' = 0
    /\ UNCHANGED <<ledgerVars, creates, preimage, stateFile, runs, finished, blind, fallback>>

\* The id went to other code meanwhile, or time is up.
CreateFails ==
    /\ stage = "create"
    /\ Fails /\ blind' = TRUE
    /\ UNCHANGED <<ledgerVars, creates, preimage, stateFile, runs, finished, fallback>>

\* Bug: a package without a status is resent as soon as its anchor is too old.
AgedOutEarly(package) == slot > package.anchor + RECENT

\* A package without a status has aged out.
AgedOut(package) == slot > package.anchor + RECENT + READY_GRACE_SLOTS

\* One poll of the loop: what package_status says of the receipt, "none" when it
\* cannot be read.
CreatePolls(status, outcome) ==
    LET package == CHOOSE p \in creates : p.n = receipt
    IN  /\ stage = "create" /\ Created(ready # 0) = {}
        /\ \/ receipt = 0 /\ Send(outcome, FALSE) /\ UNCHANGED ready
           \/ /\ receipt # 0
              /\ status = "failed" => package.state = "failed"
              /\ status = "ready" => package.state = "landed"
              /\ \/ /\ \/ status = "failed"
                       \/ status = "none" /\ AgedOut(package) /\ Created(TRUE) = {}
                    /\ Send(outcome, FALSE)
                    /\ ready' = IF outcome = "unknown" THEN ready ELSE 0
                 \/ /\ status = "ready" /\ ready = 0 /\ ready' = slot
                    /\ UNCHANGED <<creates, receipt, blind>>
        /\ UNCHANGED <<ledgerVars, stage, sid, since, preimage, stateFile, runs, finished, fallback>>

\* provide: the code is submitted until the state shows it.
Provide ==
    /\ stage = "provide"
    /\ \/ svc[sid].provided # 0 /\ stage' = "usable" /\ UNCHANGED preimage
       \/ svc[sid].provided = 0 /\ sid \notin preimage /\ preimage' = preimage \cup {sid} /\ UNCHANGED stage
    /\ UNCHANGED <<ledgerVars, creates, sid, receipt, since, ready, stateFile, runs, finished, blind, fallback>>

\* wait_usable: at the lookup anchor the next package names.
Usable == CodeAt(sid, DefaultLookupAnchor)

\* The run ends, with the id in the state file.
RunEnds ==
    /\ stage = "usable" /\ Usable /\ RunsOurCode(sid)
    /\ stateFile' = sid /\ finished' = finished \cup {sid}
    /\ fallback' = (DefaultLookupAnchor # ParentSlot(finalSlot))
    /\ stage' = "idle" /\ sid' = 0
    /\ UNCHANGED <<ledgerVars, creates, receipt, since, ready, preimage, runs, blind>>

\* The process dies.
RunDies ==
    /\ stage # "idle"
    /\ Fails /\ blind' = (blind \/ stage = "create")
    /\ UNCHANGED <<ledgerVars, creates, preimage, stateFile, runs, finished, fallback>>

-----------------------------------------------------------------------------
\* The chain (external).
SlotPasses ==
    /\ slot < MaxSlot /\ slot' = slot + 1
    /\ UNCHANGED <<finalSlot, svc, creates, toolVars, preimage, runs, finished, blind, fallback>>

Finality(s) ==
    /\ s \in (finalSlot + 1)..slot /\ finalSlot' = s
    /\ UNCHANGED <<slot, svc, creates, toolVars, preimage, runs, finished, blind, fallback>>

\* `new' takes the id asked for when it may and it is free, else the next free one.
CreateLands(p, registrar) ==
    LET i == IF registrar /\ svc[Wanted] = Absent THEN Wanted
             ELSE Lowest({k \in ServiceIds \ {Wanted} : svc[k] = Absent})
    IN  /\ p \in creates /\ p.state = "sent" /\ slot <= p.anchor + RECENT + REPORT_TIMEOUT
        /\ creates' = (creates \ {p}) \cup {[p EXCEPT !.state = "landed"]}
        /\ svc' = [svc EXCEPT ![i] = [code |-> "ours", created |-> slot, provided |-> 0]]
        /\ UNCHANGED <<slot, finalSlot, toolVars, preimage, runs, finished, blind, fallback>>

CreateLost(p) ==
    /\ p \in creates /\ p.state = "sent"
    /\ creates' = (creates \ {p}) \cup {[p EXCEPT !.state = "failed"]}
    /\ UNCHANGED <<ledgerVars, toolVars, preimage, runs, finished, blind, fallback>>

CodeIntegrated(i) ==
    /\ i \in preimage /\ preimage' = preimage \ {i}
    /\ svc' = IF svc[i].provided = 0 THEN [svc EXCEPT ![i].provided = slot] ELSE svc
    /\ UNCHANGED <<slot, finalSlot, creates, toolVars, runs, finished, blind, fallback>>

DeployNext ==
    \/ \E i \in ServiceIds : RunReuses(i)
    \/ \E outcome \in {"ok", "busy", "unknown"} :
          RunCreates(outcome) \/ \E status \in {"none", "failed", "ready"} : CreatePolls(status, outcome)
    \/ CreateSeen \/ CreateFails \/ Provide \/ RunEnds \/ RunDies
    \/ SlotPasses \/ \E s \in 1..MaxSlot : Finality(s)
    \/ \E p \in creates : CreateLost(p) \/ \E registrar \in BOOLEAN : CreateLands(p, registrar)
    \/ \E i \in preimage : CodeIntegrated(i)

DeploySpec == DeployInit /\ [][DeployNext]_deployVars

-----------------------------------------------------------------------------
(***************************************************************************)
(* Every run that ends ends with the same service, also when a create of   *)
(* unknown outcome or a run that died left a second one behind and the     *)
(* node lists them in any order.                                           *)
(***************************************************************************)
SameService == Cardinality(finished) <= 1

(***************************************************************************)
(* A create is resent only when the one before it can no longer land: with *)
(* every outcome known, the chain never gets a second service, though the  *)
(* package's status cannot always be read.                                 *)
(***************************************************************************)
NoSecondService == blind \/ Cardinality({i \in ServiceIds : RunsOurCode(i)}) <= 1

(***************************************************************************)
(* A deployed service stays usable: the code is at the lookup anchor of    *)
(* every package built after the run, when the run ended on a finalized    *)
(* lookup anchor.  (When finality lags beyond the margin the run waits for *)
(* a best-chain anchor instead; finality may then catch up to a block      *)
(* before the code, and the first work items fail.)                        *)
(***************************************************************************)
ReadyStaysUsable == fallback \/ \A i \in finished : CodeAt(i, DefaultLookupAnchor)

(***************************************************************************)
(* Deploying gives one service that works, however often it is run, dies   *)
(* or is answered late.                                                    *)
(***************************************************************************)
OneUsableService == SameService /\ NoSecondService /\ ReadyStaysUsable
=============================================================================
