---------------------------- MODULE ChainAccess ----------------------------
(***************************************************************************)
(* The builder's one door to the chain (offchain/chain.py over             *)
(* offchain/jip2.py): threads share one client, which serialises their     *)
(* calls on one WebSocket.  The connection may break at any point of a     *)
(* call, and the node serves a request it has received whether or not      *)
(* anyone still waits for the answer.                                      *)
(***************************************************************************)
EXTENDS Integers, Sequences, FiniteSets

CONSTANTS
    Submitters,     \* threads that submit one payload each
    Readers,        \* threads that read the service's key
    CoreCount,      \* cores that accept the authorizer
    MaxBlocks,      \* bound on the blocks of the chain
    MaxCalls,       \* bound on the requests put on a connection
    MaxWire         \* bound on the messages waiting on the connection

ASSUME AccessAssumption ==
    CoreCount \in Nat \ {0} /\ MaxBlocks \in Nat \ {0} /\ MaxCalls \in Nat /\ MaxWire \in Nat

Callers == Submitters \cup Readers
NoCall == [who |-> "none"]

(***************************************************************************)
(* backend: CHAIN_BACKEND.  keyAt: whether each block's state has the key. *)
(* conn, up: the connection's number, and whether it is open; nextId       *)
(* (_next_id); call: the call that holds the lock; asked: requests the     *)
(* node was sent and has not served; wire: answers waiting on the          *)
(* connection.  job: where each thread is; nextCore (_next_core).          *)
(* reached: the requests by which guarantors got a thread's package        *)
(* (history).                                                              *)
(***************************************************************************)
VARIABLES backend, keyAt, conn, up, nextId, call, asked, wire, job, nextCore, reached

socket == <<conn, up, nextId, wire>>
accessVars == <<backend, keyAt, socket, call, asked, job, nextCore, reached>>

Best == Len(keyAt)
Idle == [pc |-> "idle", k |-> 0, from |-> 0, at |-> 0, out |-> ""]

AccessInit ==
    /\ backend \in {"jamnp", "jip2"} /\ keyAt \in {<<TRUE>>, <<FALSE>>}
    /\ conn = 0 /\ up = FALSE /\ nextId = 0 /\ wire = <<>> /\ call = NoCall /\ asked = {}
    /\ job = [t \in Callers |-> Idle] /\ nextCore = 0
    /\ reached = [t \in Submitters |-> {}]

\* The call a thread needs next: its method, and the core of a submission.
Wants(t) ==
    LET j == job[t]
    IN  IF j.pc = "core" THEN [method |-> "submit", core |-> (nextCore + j.k) % CoreCount, at |-> 0]
        ELSE [method |-> j.pc, core |-> 0, at |-> j.at]

-----------------------------------------------------------------------------
\* submit_items on jip2 starts with the reads that build the package; a
\* configuration that cannot submit is found before anything is sent.
Submit(t) ==
    /\ backend = "jip2" /\ job[t].pc = "idle"
    /\ \/ job' = [job EXCEPT ![t].pc = "build"]
       \/ job' = [job EXCEPT ![t].pc = "done", ![t].out = "unsupported"]
    /\ UNCHANGED <<backend, keyAt, socket, call, asked, nextCore, reached>>

\* read on jip2: first the best block's hash, then the value at that block.
Read(t) ==
    /\ backend = "jip2" /\ job[t].pc = "idle"
    /\ job' = [job EXCEPT ![t].pc = "head", ![t].from = Best]
    /\ UNCHANGED <<backend, keyAt, socket, call, asked, nextCore, reached>>

\* call takes the lock.
CallStarts(t) ==
    /\ call = NoCall /\ job[t].pc \in {"build", "core", "head", "value"}
    /\ call' = [who |-> t, want |-> Wants(t), rid |-> 0, attempt |-> 0]
    /\ UNCHANGED <<backend, keyAt, socket, asked, job, nextCore, reached>>

\* The connection is opened when there is none, and the request goes out.
CallSends ==
    /\ call # NoCall /\ call.rid = 0 /\ nextId < MaxCalls
    /\ up' = TRUE /\ conn' = IF up THEN conn ELSE conn + 1
    /\ nextId' = nextId + 1 /\ call' = [call EXCEPT !.rid = nextId + 1]
    /\ asked' = asked \cup {[conn |-> conn', rid |-> nextId + 1, who |-> call.who, want |-> call.want]}
    /\ UNCHANGED <<backend, keyAt, wire, job, nextCore, reached>>

(***************************************************************************)
(* What a thread makes of its call's answer.  A submission that was        *)
(* refused goes to the next core; ChainBusy when every core refused, or    *)
(* when the package could not be built; any other failure of the           *)
(* submission leaves the outcome unknown.                                  *)
(***************************************************************************)
Answered(t, answer, at) ==
    LET j == job[t]
        done(out) == [j EXCEPT !.pc = "done", !.out = out]
    IN  job' = [job EXCEPT ![t] =
          CASE j.pc = "build" -> IF answer = "result" THEN [j EXCEPT !.pc = "core"]
                                 ELSE IF answer = "null" THEN done("unknown") ELSE done("busy")
            [] j.pc = "core"  -> CASE answer = "result"   -> done("accepted")
                                   [] answer = "nomethod" -> done("unsupported")
                                   [] answer = "failed"   -> done("unknown")
                                   [] OTHER -> IF j.k + 1 = CoreCount THEN done("busy")
                                               ELSE [j EXCEPT !.k = @ + 1]
            [] j.pc = "head"  -> IF answer = "result" THEN [j EXCEPT !.pc = "value", !.at = at]
                                 ELSE done("raised")
            [] j.pc = "value" -> CASE answer = "result" -> done("present")
                                   [] answer = "null"   -> done("absent")
                                   [] OTHER             -> done("raised")]

\* The call returns or raises, and gives the lock back.
CallReturns(answer, at) ==
    /\ Answered(call.who, answer, at)
    /\ call' = NoCall
    /\ nextCore' = IF call.want.method = "submit" /\ answer = "result"
                   THEN (nextCore + job[call.who].k + 1) % CoreCount ELSE nextCore

\* recv: a message that is not ours is skipped.
CallReceives ==
    /\ call # NoCall /\ call.rid # 0 /\ wire # <<>>
    /\ wire' = Tail(wire)
    /\ LET m == Head(wire)
       IN  IF m.rid \in {call.rid, 0} THEN CallReturns(m.answer, m.at)
           ELSE UNCHANGED <<call, job, nextCore>>
    /\ UNCHANGED <<backend, keyAt, conn, up, nextId, asked, reached>>

\* Bug: every call is tried twice.
RetriesAll(method) == TRUE

\* A submission is never retried: it may have been delivered.
Retries(method) == method # "submit"

\* The transport fails, while connecting, sending or waiting: the connection is
\* dropped, and a read is tried once more.
CallFails ==
    /\ call # NoCall
    /\ up' = FALSE /\ wire' = <<>>
    /\ IF call.attempt = 0 /\ Retries(call.want.method)
       THEN call' = [call EXCEPT !.attempt = 1, !.rid = 0] /\ UNCHANGED <<job, nextCore>>
       ELSE CallReturns("failed", 0)
    /\ UNCHANGED <<backend, keyAt, conn, nextId, asked, reached>>

-----------------------------------------------------------------------------
(***************************************************************************)
(* The node (external) serves a request: it answers with the result (a     *)
(* null for an absent value), or with an error, tied to the request or     *)
(* not.  A package it refuses reached no guarantor (JIP-2).                *)
(***************************************************************************)
NodeServes(q, answer) ==
    LET m == q.want.method
        ids == IF answer = "refused" THEN {q.rid, 0} ELSE {q.rid}
    IN  /\ q \in asked /\ Len(wire) < MaxWire
        /\ m \in {"head", "submit"} => answer # "null"
        /\ m = "value" => (answer = "null" => ~keyAt[q.want.at]) /\ (answer = "result" => keyAt[q.want.at])
        /\ answer = "nomethod" => m = "submit"
        /\ asked' = asked \ {q}
        /\ reached' = IF m = "submit" /\ answer = "result"
                      THEN [reached EXCEPT ![q.who] = @ \cup {q.rid}] ELSE reached
        /\ IF up /\ q.conn = conn
           THEN \E id \in ids : wire' = Append(wire, [rid |-> id, answer |-> answer, at |-> Best])
           ELSE UNCHANGED wire
        /\ UNCHANGED <<backend, keyAt, conn, up, nextId, call, job, nextCore>>

\* A request on a connection that is gone never arrived.
RequestLost(q) ==
    /\ q \in asked /\ ~(up /\ q.conn = conn)
    /\ asked' = asked \ {q}
    /\ UNCHANGED <<backend, keyAt, socket, call, job, nextCore, reached>>

\* A block is imported.
BlockImported(key) ==
    /\ Best < MaxBlocks
    /\ keyAt' = Append(keyAt, key)
    /\ UNCHANGED <<backend, socket, call, asked, job, nextCore, reached>>

-----------------------------------------------------------------------------
\* submit on jamnp: one POST to the builder bridge.
JamnpSubmit(t, out, delivered) ==
    /\ backend = "jamnp" /\ job[t].pc = "idle"
    /\ out = "accepted" => delivered
    /\ out = "busy" => ~delivered
    /\ job' = [job EXCEPT ![t].pc = "done", ![t].out = out]
    /\ reached' = IF delivered THEN [reached EXCEPT ![t] = {0}] ELSE reached
    /\ UNCHANGED <<backend, keyAt, socket, call, asked, nextCore>>

\* read on jamnp, at the head the reader follows; its error is not an absent key.
JamnpAnswer(error) == IF error THEN "raised" ELSE IF keyAt[Best] THEN "present" ELSE "absent"
JamnpRead(t, error) ==
    /\ backend = "jamnp" /\ job[t].pc = "idle"
    /\ job' = [job EXCEPT ![t].pc = "done", ![t].from = Best, ![t].out = JamnpAnswer(error)]
    /\ UNCHANGED <<backend, keyAt, socket, call, asked, nextCore, reached>>

AccessNext ==
    \/ \E t \in Submitters : \/ Submit(t)
                             \/ \E out \in {"accepted", "busy", "unknown"}, delivered \in BOOLEAN :
                                   JamnpSubmit(t, out, delivered)
    \/ \E t \in Readers : Read(t) \/ \E error \in BOOLEAN : JamnpRead(t, error)
    \/ \E t \in Callers : CallStarts(t)
    \/ CallSends \/ CallReceives \/ CallFails
    \/ \E q \in asked : \/ RequestLost(q)
                        \/ \E answer \in {"result", "null", "refused", "nomethod"} : NodeServes(q, answer)
    \/ \E key \in BOOLEAN : BlockImported(key)

AccessSpec == AccessInit /\ [][AccessNext]_accessVars

-----------------------------------------------------------------------------
(***************************************************************************)
(* A submission reaches the guarantors at most once, and its outcome is    *)
(* true: ChainBusy and ChainUnsupported mean "the payload certainly did    *)
(* not reach the chain", now and later, and accepted means it did,         *)
(* whatever broke on the way and whichever cores refused first.            *)
(***************************************************************************)
SubmittedOnce ==
    \A t \in Submitters :
        /\ Cardinality(reached[t]) <= 1
        /\ job[t].out = "accepted" => reached[t] # {}
        /\ job[t].out \in {"busy", "unsupported"} =>
              reached[t] = {} /\ \A q \in asked : q.who = t => q.want.method # "submit"

(***************************************************************************)
(* A read that ends says what one block's state says, and a block that was *)
(* best while it ran: a broken connection, an error or an answer to an     *)
(* earlier attempt never shows as an absent key.                           *)
(***************************************************************************)
ReadsTrue ==
    \A t \in Readers : job[t].out \in {"present", "absent"} =>
        \E b \in job[t].from..Best : keyAt[b] = (job[t].out = "present")

(***************************************************************************)
(* The door is faithful both ways: a payload goes through it at most once, *)
(* with a true outcome, and what is read through it was so.                *)
(***************************************************************************)
AccessFaithful == SubmittedOnce /\ ReadsTrue
=============================================================================
