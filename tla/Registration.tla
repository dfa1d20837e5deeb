---------------------------- MODULE Registration ----------------------------
(***************************************************************************)
(* Getting a fresh account's key onto the chain (offchain/server.py        *)
(* api_register, _try_submit_register, _resolve_registrations_once): a     *)
(* lone work item may be refused, lost or of unknown outcome, so requests  *)
(* are retried with back-off until the handle appears, or given up.        *)
(* The clock is abstracted to what each entry's deadlines say: `due' when  *)
(* REG_RETRY_SECS have passed since the last attempt, `old' when           *)
(* REG_GIVEUP_SECS have passed since the request.                          *)
(***************************************************************************)
EXTENDS Relay, Sequences, SequencesExt

CONSTANTS
    RegKeys,            \* the keys that want an account
    REG_MAX_ATTEMPTS,   \* attempts before a registration is given up
    MaxRequests         \* bound on the requests

ASSUME RegAssumption == REG_MAX_ATTEMPTS \in Nat \ {0} /\ MaxRequests \in Nat

(***************************************************************************)
(* pk: the keys with a handle, in the order of their handles (on chain);   *)
(* items: registrations under way; reg: _reg_pending, in insertion order,  *)
(* as [key, attempts, due, old]; sweep: the keys the running sweep has yet *)
(* to look at; http: how many HTTP threads found the key neither           *)
(* registered nor pending, and are about to enqueue it.                    *)
(***************************************************************************)
VARIABLES pk, items, reg, sweep, http, requests

regVars == <<pk, items, reg, sweep, http, requests>>

RegInit ==
    /\ pk = <<>> /\ items = {} /\ reg = <<>> /\ sweep = <<>>
    /\ http = [k \in RegKeys |-> 0] /\ requests = 0

Pending(k) == \E i \in 1..Len(reg) : reg[i].key = k
At(k) == CHOOSE i \in 1..Len(reg) : reg[i].key = k
Drop(k) == SelectSeq(reg, LAMBDA e : e.key # k)

-----------------------------------------------------------------------------
\* api_register: a registered key is answered, a pending one is left to the
\* resolver; another is enqueued ...
ApiRegister(k) ==
    /\ requests < MaxRequests
    /\ requests' = requests + 1
    /\ reg' = IF Contains(pk, k) THEN Drop(k) ELSE reg
    /\ http' = IF Contains(pk, k) \/ Pending(k) THEN http ELSE [http EXCEPT ![k] = @ + 1]
    /\ UNCHANGED <<pk, items, sweep>>

\* _try_submit_register: a refusal costs no attempt; after an unknown outcome
\* neither the attempt nor its time is recorded.
Tried(e, outcome) ==
    [e EXCEPT !.attempts = IF outcome = "ok" THEN @ + 1 ELSE @,
              !.due = IF outcome = "unknown" THEN @ ELSE FALSE]

\* ... and tried at once.  A second thread that got this far starts it afresh.
Enqueue(k, outcome) ==
    LET e == Tried([key |-> k, attempts |-> 0, due |-> TRUE, old |-> FALSE], outcome)
    IN  /\ http[k] > 0
        /\ http' = [http EXCEPT ![k] = @ - 1]
        /\ reg' = IF Pending(k) THEN [reg EXCEPT ![At(k)] = e] ELSE Append(reg, e)
        /\ items' \in After(items, k, outcome)
        /\ UNCHANGED <<pk, sweep, requests>>

\* The resolver starts a sweep over the keys pending now.
SweepStarts ==
    /\ sweep = <<>> /\ reg # <<>>
    /\ sweep' = [i \in 1..Len(reg) |-> reg[i].key]
    /\ UNCHANGED <<pk, items, reg, http, requests>>

\* Bug: only attempts that were taken count against a registration.
GivenUpAttempts(e) == e.attempts >= REG_MAX_ATTEMPTS

GivenUp(e) == e.old \/ e.attempts >= REG_MAX_ATTEMPTS

(***************************************************************************)
(* _resolve_registrations_once, one key: confirmed, given up, retried or   *)
(* left alone.  A key that vanished meanwhile and an attempt of unknown    *)
(* outcome raise, and the sweep ends there.                                *)
(***************************************************************************)
SweepKey(outcome) ==
    LET k == Head(sweep)
        e == reg[At(k)]
    IN  /\ sweep # <<>>
        /\ UNCHANGED <<pk, http, requests>>
        /\ \/ ~Pending(k) /\ sweep' = <<>> /\ UNCHANGED <<reg, items>>
           \/ /\ Pending(k)
              /\ Contains(pk, k) \/ GivenUp(e)
              /\ reg' = Drop(k) /\ sweep' = Tail(sweep) /\ UNCHANGED items
           \/ /\ Pending(k)
              /\ ~Contains(pk, k) /\ ~GivenUp(e) /\ e.due
              /\ reg' = [reg EXCEPT ![At(k)] = Tried(e, outcome)]
              /\ items' \in After(items, k, outcome)
              /\ sweep' = IF outcome = "unknown" THEN <<>> ELSE Tail(sweep)
           \/ /\ Pending(k)
              /\ ~Contains(pk, k) /\ ~GivenUp(e) /\ ~e.due
              /\ sweep' = Tail(sweep) /\ UNCHANGED <<reg, items>>

\* Time passes for an entry.
RetryDue(i) == reg' = [reg EXCEPT ![i].due = TRUE] /\ UNCHANGED <<pk, items, sweep, http, requests>>
GrowsOld(i) == reg' = [reg EXCEPT ![i].old = TRUE] /\ UNCHANGED <<pk, items, sweep, http, requests>>

\* register_key: REGISTER is accumulated; the item may be again.
RegisterLands(k) ==
    /\ k \in items /\ ~Contains(pk, k)
    /\ pk' = Append(pk, k)
    /\ UNCHANGED <<items, reg, sweep, http, requests>>

RegNext ==
    \/ \E k \in RegKeys : ApiRegister(k) \/ RegisterLands(k)
    \/ \E k \in RegKeys, outcome \in Outcomes : Enqueue(k, outcome)
    \/ SweepStarts \/ \E outcome \in Outcomes : SweepKey(outcome)
    \/ \E i \in 1..Len(reg) : RetryDue(i) \/ GrowsOld(i)

\* The resolver thread runs, and time passes for every entry.
SweepRuns == SweepStarts \/ \E outcome \in Outcomes : SweepKey(outcome)
AllOld == \E i \in 1..Len(reg) : ~reg[i].old /\ GrowsOld(i)

-----------------------------------------------------------------------------
(***************************************************************************)
(* Every registration ends: confirmed or given up, also when the chain     *)
(* refuses every attempt, and when a key that raises keeps cutting the     *)
(* sweep short before the keys behind it.                                  *)
(***************************************************************************)
RegistrationEnds == \A k \in RegKeys : Pending(k) ~> ~Pending(k)
=============================================================================
