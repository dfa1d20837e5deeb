-------------------------- MODULE ChainViewProofs --------------------------
(***************************************************************************)
(* What the builder believes of the chain is true: the answers it gets     *)
(* through its connection, what it calls final, the receipts it shows, the *)
(* cancels it reports and the top-ups it takes for landed.                 *)
(***************************************************************************)
EXTENDS ChainAccess, Finality, Receipts, CancelWatch, ReserveKeeper, CollectionLemmas, FiniteSetTheorems,
        SequenceTheorems, TLAPS

-----------------------------------------------------------------------------
(***************************************************************************)
(* The door to the chain is faithful for any number of threads, cores,     *)
(* blocks and broken connections.                                          *)
(*                                                                         *)
(* AccessFaithful is not inductive: it rests on OneInFlight, the reason    *)
(* why an error without an id may be taken for one's own.  A connection    *)
(* carries one request or one answer at a time and it is the one of the    *)
(* call that holds the lock; what an earlier call left behind is on a      *)
(* connection that is gone.                                                *)
(***************************************************************************)

Methods == {"build", "submit", "head", "value"}
Answers == {"result", "null", "refused", "nomethod"}
Want == [method : Methods, core : Int, at : Nat]
Call == [who : Callers, want : Want, rid : Nat, attempt : {0, 1}]
Request == [conn : Nat, rid : Nat, who : Callers, want : Want]
Message == [rid : Nat, answer : Answers, at : Nat]
Job == [pc : {"idle", "build", "core", "head", "value", "done"}, k : Nat, from : Nat, at : Nat,
        out : {"", "accepted", "busy", "unknown", "unsupported", "present", "absent", "raised"}]

AccessTypeOK ==
    /\ backend \in {"jamnp", "jip2"} /\ keyAt \in Seq(BOOLEAN) /\ Len(keyAt) >= 1
    /\ conn \in Nat /\ up \in BOOLEAN /\ nextId \in Nat /\ wire \in Seq(Message)
    /\ call \in Call \cup {NoCall} /\ asked \subseteq Request
    /\ job \in [Callers -> Job] /\ nextCore \in Int
    /\ reached \in [Submitters -> SUBSET Nat]

\* The call that holds the lock is the one its thread is at.
CallIsJobs ==
    call # NoCall =>
        /\ job[call.who].pc \in {"build", "core", "head", "value"}
        /\ call.want.method = IF job[call.who].pc = "core" THEN "submit" ELSE job[call.who].pc
        /\ call.want.method = "value" => call.want.at = job[call.who].at

Sending == call # NoCall /\ call.rid # 0
Mine == [conn |-> conn, rid |-> call.rid, who |-> call.who, want |-> call.want]

\* What can be the answer to the call under way.
Fits(m) ==
    /\ m.rid \in {call.rid, 0}
    /\ call.want.method \in {"head", "submit"} => m.answer # "null"
    /\ call.want.method = "value" => /\ m.answer = "null" => ~keyAt[call.want.at]
                                     /\ m.answer = "result" => keyAt[call.want.at]
    /\ job[call.who].from <= m.at /\ m.at <= Best

\* The connection carries the request or the answer of the call that holds the
\* lock, and nothing else; requests are never ahead of the connection.
OneInFlight ==
    /\ \A q \in asked : q.conn <= conn
    /\ Sending => up
    /\ ~Sending => wire = <<>> /\ \A q \in asked : ~(up /\ q.conn = conn)
    /\ Sending => \/ wire = <<>> /\ Mine \in asked /\ \A q \in asked : q.conn = conn => q = Mine
                  \/ Len(wire) = 1 /\ Fits(wire[1]) /\ \A q \in asked : q.conn # conn

\* No package of t has been handed over, and none is on its way.
Sent(t, q) == q.who = t /\ q.want.method = "submit"
Quiet(t) == reached[t] = {} /\ \A q \in asked : ~Sent(t, q)

InCall(t) == Sending /\ call.who = t /\ call.want.method = "submit"

\* Where a thread's package may be, by where the thread is.
PackageOf(t) ==
    /\ \/ reached[t] = {} /\ \A q, p \in asked : Sent(t, q) /\ Sent(t, p) => q = p
       \/ (\A x, y \in reached[t] : x = y) /\ \A q \in asked : ~Sent(t, q)
    /\ job[t].pc # "done" /\ ~InCall(t) => Quiet(t)
    /\ InCall(t) /\ wire = <<>> => reached[t] = {}
    /\ InCall(t) /\ wire # <<>> /\ wire[1].answer = "result" => reached[t] # {}
    /\ InCall(t) /\ wire # <<>> /\ wire[1].answer # "result" => Quiet(t)
    /\ job[t].pc = "done" /\ job[t].out = "accepted" => reached[t] # {}
    /\ job[t].pc = "done" /\ job[t].out \in {"busy", "unsupported"} => Quiet(t)

PackageAt == \A t \in Submitters : PackageOf(t)

\* Where a reader is in its read.
ReadOf(t) ==
    /\ job[t].from <= Best
    /\ job[t].pc # "done" => job[t].out = ""
    /\ job[t].pc \in {"head", "value"} \/ job[t].out \in {"present", "absent"} => job[t].from >= 1
    /\ job[t].pc = "value" => job[t].from <= job[t].at /\ job[t].at <= Best
    /\ job[t].out = "present" => \E b \in job[t].from..Best : keyAt[b]
    /\ job[t].out = "absent" => \E b \in job[t].from..Best : ~keyAt[b]

ReadAt == \A t \in Callers : ReadOf(t)

AccessIInv == AccessTypeOK /\ CallIsJobs /\ OneInFlight /\ PackageAt /\ ReadAt
-----------------------------------------------------------------------------
\* A call under way is told from none by its fields.
LEMMA CallIsSome == \A c \in Call : c # NoCall
<1> SUFFICES ASSUME NEW c \in Call, c = NoCall PROVE FALSE
  OBVIOUS
<1>1. DOMAIN c = {"who", "want", "rid", "attempt"}
  BY DEF Call
<1>2. DOMAIN NoCall = {"who"}
  BY DEF NoCall
<1> QED
  BY <1>1, <1>2

LEMMA AccessInitially == AccessInit => AccessIInv
<1> SUFFICES ASSUME AccessInit PROVE AccessIInv
  OBVIOUS
<1>1. keyAt \in Seq(BOOLEAN) /\ Len(keyAt) = 1
  <2>1. PICK b \in BOOLEAN : keyAt = <<b>>
    BY Zenon DEF AccessInit
  <2> QED
    BY <2>1
<1>2. Idle \in Job
  BY DEF Idle, Job
<1>3. AccessTypeOK
  <2>1. wire \in Seq(Message) /\ reached \in [Submitters -> SUBSET Nat] /\ job \in [Callers -> Job]
    BY <1>2 DEF AccessInit
  <2>2. call \in Call \cup {NoCall} /\ asked \subseteq Request /\ up \in BOOLEAN
    BY Zenon DEF AccessInit
  <2>3. backend \in {"jamnp", "jip2"} /\ conn \in Nat /\ nextId \in Nat /\ nextCore \in Int
    BY DEF AccessInit
  <2> QED
    BY <1>1, <2>1, <2>2, <2>3 DEF AccessTypeOK
<1>4. CallIsJobs /\ OneInFlight
  BY DEF AccessInit, CallIsJobs, OneInFlight, Sending
<1>5. PackageAt
  BY DEF AccessInit, PackageAt, PackageOf, Quiet, InCall, Sending, Idle, Callers
<1>6. ReadAt
  <2>1. \A t \in Callers : job[t].pc = "idle" /\ job[t].from = 0 /\ job[t].out = ""
    BY DEF AccessInit, Idle
  <2>2. Best = 1 /\ 0 <= Best
    BY <1>1 DEF Best
  <2> QED
    BY <2>1, <2>2 DEF ReadAt, ReadOf
<1> QED
  BY <1>3, <1>4, <1>5, <1>6 DEF AccessIInv

-----------------------------------------------------------------------------
\* A thread that holds no call moves on by itself: to its first call, or to an
\* end that its package and the chain bear out.
LEMMA ThreadMoves ==
    ASSUME AccessIInv, NEW t \in Callers, NEW j \in Job, job[t].pc = "idle",
           job' = [job EXCEPT ![t] = j],
           j.pc \in {"build", "head", "done"},
           j.pc # "done" => j.out = "" /\ reached' = reached,
           j.pc = "head" \/ j.out \in {"present", "absent"} => j.from >= 1,
           j.from <= Best,
           reached' \in [Submitters -> SUBSET Nat],
           \A s \in Submitters \ {t} : reached'[s] = reached[s],
           t \in Submitters => reached'[t] \in {reached[t], {0}},
           t \in Submitters /\ j.out = "accepted" => reached'[t] = {0},
           t \in Submitters /\ j.out \in {"busy", "unsupported"} => reached'[t] = reached[t],
           j.out = "present" => \E b \in j.from..Best : keyAt[b],
           j.out = "absent" => \E b \in j.from..Best : ~keyAt[b],
           UNCHANGED <<backend, keyAt, socket, call, asked, nextCore>>
    PROVE  AccessIInv'
<1> USE DEF AccessIInv
<1>1. AccessTypeOK'
  BY DEF AccessTypeOK, socket
<1>2. call # NoCall => call.who # t /\ call.who \in Callers
  BY DEF CallIsJobs, AccessTypeOK, Call
<1>3. CallIsJobs'
  BY <1>2 DEF CallIsJobs, AccessTypeOK
<1>4. OneInFlight'
  BY <1>2 DEF OneInFlight, Sending, Mine, Fits, socket, AccessTypeOK, Best
<1>5. \A s \in Submitters : s \in Callers /\ (InCall(s)' <=> InCall(s))
  BY DEF InCall, Sending, Callers
<1>6. PackageAt'
  <2> SUFFICES ASSUME NEW s \in Submitters PROVE PackageOf(s)'
    BY DEF PackageAt
  <2>1. PackageOf(s) /\ asked' = asked /\ wire' = wire
    BY DEF PackageAt, socket
  <2>2. CASE s # t
    <3>1. job'[s] = job[s] /\ reached'[s] = reached[s]
      BY <1>5, <2>2 DEF AccessTypeOK
    <3>2. Quiet(s)' <=> Quiet(s)
      BY <2>1, <3>1 DEF Quiet, Sent
    <3>3. InCall(s)' <=> InCall(s)
      BY <1>5
    <3>4. \/ reached[s]' = {} /\ \A q, p \in asked' : Sent(s, q)' /\ Sent(s, p)' => q = p
          \/ (\A x, y \in reached[s]' : x = y) /\ \A q \in asked' : ~Sent(s, q)'
      BY <2>1, <3>1 DEF PackageOf, Sent
    <3> QED
      BY <2>1, <3>1, <3>2, <3>3, <3>4 DEF PackageOf
  <2>3. CASE s = t
    <3>1. Quiet(t) /\ ~InCall(t)
      BY <1>2, <2>1, <2>3 DEF PackageOf, InCall, Sending
    <3>2. job'[t] = j
      BY DEF AccessTypeOK
    <3>3. reached'[t] \in {{}, {0}} /\ \A q \in asked : ~Sent(t, q)
      BY <2>3, <3>1 DEF Quiet
    <3>4. /\ j.out = "accepted" => reached'[t] # {}
          /\ j.out \in {"busy", "unsupported"} => Quiet(t)'
          /\ j.pc # "done" => Quiet(t)'
      BY <2>1, <2>3, <3>1 DEF Quiet, Sent
    <3> QED
      BY <1>5, <2>1, <2>3, <3>1, <3>2, <3>3, <3>4 DEF PackageOf, Sent
  <2> QED
    BY <2>2, <2>3
<1>7. ReadAt'
  BY DEF ReadAt, ReadOf, AccessTypeOK, Best
<1> QED
  BY <1>1, <1>3, <1>4, <1>6, <1>7

-----------------------------------------------------------------------------
\* The call that holds the lock returns with an answer its thread may have: its
\* connection is clear, and a submission's package is where the answer says.
LEMMA CallEnds ==
    ASSUME AccessIInv, call # NoCall, NEW answer \in Answers \cup {"failed"}, NEW at \in Nat,
           CallReturns(answer, at),
           wire' = <<>>, UNCHANGED <<backend, keyAt, conn, nextId, asked, reached>>,
           up' \in BOOLEAN,
           \A q \in asked : ~(up' /\ q.conn = conn),
           call.want.method \in {"head", "submit"} => answer # "null",
           call.want.method = "head" /\ answer = "result" => job[call.who].from <= at /\ at <= Best,
           call.want.method = "value" => /\ answer = "null" => ~keyAt[call.want.at]
                                         /\ answer = "result" => keyAt[call.want.at],
           call.want.method = "submit" /\ call.who \in Submitters =>
               /\ answer = "result" => reached[call.who] # {}
               /\ answer \notin {"result", "failed"} => Quiet(call.who)
    PROVE  AccessIInv'
<1> USE DEF AccessIInv
<1> DEFINE t == call.who
           j == job[t]
           n == job'[t]
           done(out) == [j EXCEPT !.pc = "done", !.out = out]
<1>1. /\ t \in Callers /\ j \in Job /\ call.want \in Want
      /\ j.pc \in {"build", "core", "head", "value"}
      /\ call.want.method = IF j.pc = "core" THEN "submit" ELSE j.pc
      /\ call.want.method = "value" => call.want.at = j.at
  <2>1. call \in Call
    BY DEF AccessTypeOK
  <2>2. call.who \in Callers /\ call.want \in Want
    BY <2>1 DEF Call
  <2>3. job[call.who] \in Job
    BY <2>2 DEF AccessTypeOK
  <2> QED
    BY <2>2, <2>3 DEF CallIsJobs
<1>2. call' = NoCall /\ nextCore' \in Int
  <2>1. j.k \in Nat /\ nextCore \in Int /\ CoreCount \in Nat \ {0}
    BY <1>1, AccessAssumption DEF AccessTypeOK, Job
  <2>2. ((nextCore + j.k + 1) % CoreCount) \in Int
    BY <2>1
  <2> QED
    BY <2>1, <2>2 DEF CallReturns
<1>3. /\ j.pc = "build" => n \in {[j EXCEPT !.pc = "core"], done("unknown"), done("busy")}
      /\ j.pc = "core" =>
            \/ answer = "result" /\ n = done("accepted")
            \/ answer = "nomethod" /\ n = done("unsupported")
            \/ answer = "failed" /\ n = done("unknown")
            \/ answer = "refused" /\ n \in {done("busy"), [j EXCEPT !.k = @ + 1]}
      /\ j.pc = "head" => n = done("raised") \/ (answer = "result" /\ n = [j EXCEPT !.pc = "value", !.at = at])
      /\ j.pc = "value" =>
            \/ answer = "result" /\ n = done("present")
            \/ answer = "null" /\ n = done("absent")
            \/ n = done("raised")
      /\ job' = [job EXCEPT ![t] = n]
  <2>1. Answered(t, answer, at) /\ job \in [Callers -> Job]
    BY DEF CallReturns, AccessTypeOK
  <2>2. CASE j.pc = "build"
    BY <1>1, <2>1, <2>2 DEF Answered
  <2>3. CASE j.pc = "core"
    <3>1. answer \in {"result", "refused", "nomethod", "failed"}
      BY <1>1, <2>3 DEF Answers
    <3> QED
      BY <1>1, <2>1, <2>3, <3>1 DEF Answered
  <2>4. CASE j.pc = "head"
    <3>1. job' = [job EXCEPT ![t] = IF answer = "result" THEN [j EXCEPT !.pc = "value", !.at = at]
                                    ELSE done("raised")]
      BY <2>1, <2>4 DEF Answered
    <3>2. n = IF answer = "result" THEN [j EXCEPT !.pc = "value", !.at = at] ELSE done("raised")
      BY <1>1, <2>1, <3>1
    <3>3. job' = [job EXCEPT ![t] = n]
      BY <3>1, <3>2
    <3> HIDE DEF n, j, t, done
    <3> QED
      BY <2>4, <3>2, <3>3
  <2>5. CASE j.pc = "value"
    BY <1>1, <2>1, <2>5 DEF Answered
  <2> QED
    BY <1>1, <2>2, <2>3, <2>4, <2>5
<1>4. j.out = "" /\ ReadOf(t)
  BY <1>1 DEF ReadAt, ReadOf
<1>5. n \in Job /\ n.from = j.from /\ n.pc \in {"core", "value", "done"} /\ (n.pc # "done" => n.out = "")
  <2> HIDE DEF n, j, t
  <2>1. CASE j.pc = "build"
    BY <1>1, <1>3, <1>4, <2>1 DEF Job
  <2>2. CASE j.pc = "core"
    <3>1. n \in {done("accepted"), done("unsupported"), done("unknown"), done("busy")}
             \/ n = [j EXCEPT !.k = @ + 1]
      <4> HIDE DEF done
      <4> QED
        BY <1>3, <2>2
    <3>2. CASE n = [j EXCEPT !.k = @ + 1]
      <4>1. j.k + 1 \in Nat
        <5>1. j.k \in Nat
          BY <1>1 DEF Job
        <5> QED
          BY <5>1
      <4>2. n = [j EXCEPT !.k = j.k + 1]
        BY <3>2
      <4>3. n \in Job
        BY <1>1, <4>1, <4>2 DEF Job
      <4>4. n.from = j.from /\ n.pc = j.pc /\ n.out = j.out
        BY <1>1, <4>2 DEF Job
      <4> QED
        BY <1>4, <2>2, <4>3, <4>4
    <3>3. CASE n \in {done("accepted"), done("unsupported"), done("unknown"), done("busy")}
      BY <1>1, <3>3 DEF Job
    <3> QED
      BY <3>1, <3>2, <3>3
  <2>3. CASE j.pc = "head"
    BY <1>1, <1>3, <1>4, <2>3 DEF Job
  <2>4. CASE j.pc = "value"
    BY <1>1, <1>3, <1>4, <2>4 DEF Job
  <2> QED
    BY <1>1, <2>1, <2>2, <2>3, <2>4
<1>6. job' \in [Callers -> Job] /\ \A s \in Callers \ {t} : job'[s] = job[s]
  BY <1>1, <1>3, <1>5 DEF AccessTypeOK
<1>7. AccessTypeOK'
  BY <1>2, <1>6 DEF AccessTypeOK
<1>8. CallIsJobs' /\ OneInFlight'
  BY <1>2 DEF CallIsJobs, OneInFlight, Sending
<1>9. PackageAt'
  <2> SUFFICES ASSUME NEW s \in Submitters PROVE PackageOf(s)'
    BY DEF PackageAt
  <2>1. ~InCall(s)' /\ reached' = reached /\ asked' = asked
    BY <1>2 DEF InCall, Sending
  <2>2. PackageOf(s) /\ s \in Callers
    BY DEF PackageAt, Callers
  <2>3. CASE s # t
    <3>1. job'[s] = job[s] /\ ~InCall(s)
      BY <1>6, <2>2, <2>3 DEF InCall
    <3> QED
      BY <2>1, <2>2, <3>1 DEF PackageOf, Quiet, Sent
  <2>4. CASE s = t
    <3>1. /\ n.pc # "done" => Quiet(s)
          /\ n.pc = "done" /\ n.out = "accepted" => reached[s] # {}
          /\ n.pc = "done" /\ n.out \in {"busy", "unsupported"} => Quiet(s)
      <4>1. CASE j.pc = "core"
        <5>1. /\ answer = "result" => reached[s] # {}
              /\ answer \notin {"result", "failed"} => Quiet(s)
          BY <1>1, <2>4, <4>1
        <5>2. \/ answer = "result" /\ n.out = "accepted" /\ n.pc = "done"
              \/ answer = "failed" /\ n.out = "unknown" /\ n.pc = "done"
              \/ answer \in {"nomethod", "refused"} /\ n.out # "accepted"
          BY <1>1, <1>3, <1>4, <4>1 DEF Job
        <5> QED
          BY <5>1, <5>2
      <4>2. CASE j.pc # "core"
        <5>1. Quiet(s)
          BY <1>1, <2>2, <2>4, <4>2 DEF PackageOf, InCall
        <5>2. n.out # "accepted"
          BY <1>1, <1>3, <1>4, <4>2 DEF Job
        <5> QED
          BY <5>1, <5>2
      <4> QED
        BY <4>1, <4>2
    <3> QED
      BY <2>1, <2>2, <2>4, <3>1 DEF PackageOf, Quiet, Sent
  <2> QED
    BY <2>3, <2>4
<1>10. ReadAt'
  <2> SUFFICES ASSUME NEW s \in Callers PROVE ReadOf(s)'
    BY DEF ReadAt
  <2>1. keyAt' = keyAt /\ Best' = Best /\ Best \in Nat /\ keyAt \in Seq(BOOLEAN)
    BY DEF Best, AccessTypeOK
  <2>2. CASE s # t
    BY <1>6, <2>1, <2>2 DEF ReadAt, ReadOf
  <2>3. CASE s = t
    <3>1. /\ n.pc # "head" /\ (n.pc = "value" => j.pc = "head" /\ answer = "result" /\ n.at = at)
          /\ n.out = "present" => j.pc = "value" /\ answer = "result"
          /\ n.out = "absent" => j.pc = "value" /\ answer = "null"
      <4> HIDE DEF n, j, t
      <4> QED
        BY <1>1, <1>3, <1>4 DEF Job
    <3>2. j.pc = "value" => j.at \in j.from..Best /\ call.want.at = j.at /\ call.want.method = "value"
      <4>1. j.pc = "value" => j.from <= j.at /\ j.at <= Best
        BY <1>4 DEF ReadOf
      <4>2. j.from \in Nat /\ j.at \in Nat
        BY <1>1 DEF Job
      <4> HIDE DEF j, t
      <4>3. j.pc = "value" => j.at \in j.from..Best
        BY <2>1, <4>1, <4>2
      <4> QED
        BY <1>1, <4>3
    <3>3. /\ n.out = "present" => \E b \in n.from..Best : keyAt[b]
          /\ n.out = "absent" => \E b \in n.from..Best : ~keyAt[b]
      BY <1>5, <3>1, <3>2, Zenon
    <3>4. /\ n.pc = "value" => n.from <= n.at /\ n.at <= Best
          /\ n.pc = "value" \/ n.out \in {"present", "absent"} => n.from >= 1
      BY <1>1, <1>4, <1>5, <3>1 DEF ReadOf
    <3>5. n.from <= Best
      BY <1>4, <1>5 DEF ReadOf
    <3> QED
      BY <1>5, <2>1, <2>3, <3>1, <3>3, <3>4, <3>5 DEF ReadOf
  <2> QED
    BY <2>2, <2>3
<1> QED
  BY <1>7, <1>8, <1>9, <1>10

-----------------------------------------------------------------------------
\* A request that no one waits for any more is of a thread whose submission
\* ended with its outcome unknown, or no submission at all.
LEMMA StaleIsUnknown ==
    ASSUME AccessIInv, NEW s \in Submitters, NEW q \in asked, Sent(s, q), ~(up /\ q.conn = conn)
    PROVE  /\ ~InCall(s) /\ job[s].pc = "done" /\ job[s].out \notin {"accepted", "busy", "unsupported"}
           /\ reached[s] = {} /\ \A p \in asked : Sent(s, p) => p = q
<1>1. PackageOf(s)
  BY DEF AccessIInv, PackageAt
<1>2. ~Quiet(s) /\ reached[s] = {} /\ \A p \in asked : Sent(s, p) => p = q
  BY <1>1 DEF PackageOf, Quiet
<1>3. ~InCall(s)
  <2> SUFFICES ASSUME InCall(s) PROVE FALSE
    OBVIOUS
  <2>1. wire = <<>>
    BY <1>1, <1>2 DEF PackageOf
  <2>2. Sending /\ call.who = s /\ call.want.method = "submit"
    BY DEF InCall
  <2>3. up /\ Mine \in asked
    BY <2>1, <2>2 DEF AccessIInv, OneInFlight
  <2>4. Sent(s, Mine) /\ Mine.conn = conn
    BY <2>2 DEF Sent, Mine
  <2> QED
    BY <1>2, <2>3, <2>4
<1> QED
  BY <1>1, <1>2, <1>3 DEF PackageOf

\* A thread takes the lock.
LEMMA LockTaken == ASSUME AccessIInv, NEW t \in Callers, CallStarts(t) PROVE AccessIInv'
<1> USE DEF AccessIInv
<1>1. job[t] \in Job /\ call = NoCall /\ job[t].pc \in {"build", "core", "head", "value"}
  BY DEF AccessTypeOK, CallStarts
<1>2. /\ Wants(t) \in Want
      /\ Wants(t).method = IF job[t].pc = "core" THEN "submit" ELSE job[t].pc
      /\ Wants(t).method = "value" => Wants(t).at = job[t].at
  <2>1. CASE job[t].pc = "core"
    <3>1. job[t].k \in Nat /\ nextCore \in Int /\ CoreCount \in Nat \ {0}
      BY <1>1, AccessAssumption DEF AccessTypeOK, Job
    <3>2. ((nextCore + job[t].k) % CoreCount) \in Int
      BY <3>1
    <3>3. Wants(t) = [method |-> "submit", core |-> (nextCore + job[t].k) % CoreCount, at |-> 0]
      BY <2>1 DEF Wants
    <3> QED
      BY <2>1, <3>2, <3>3 DEF Want, Methods
  <2>2. CASE job[t].pc # "core"
    <3>1. Wants(t) = [method |-> job[t].pc, core |-> 0, at |-> job[t].at]
      BY <2>2 DEF Wants
    <3>2. job[t].pc \in {"build", "head", "value"} /\ job[t].at \in Nat
      BY <1>1, <2>2 DEF Job
    <3> QED
      BY <2>2, <3>1, <3>2 DEF Want, Methods
  <2> QED
    BY <2>1, <2>2
<1>3. call' = [who |-> t, want |-> Wants(t), rid |-> 0, attempt |-> 0] /\ call' \in Call
  BY <1>2 DEF CallStarts, Call
<1>4. AccessTypeOK'
  BY <1>3 DEF CallStarts, AccessTypeOK, socket
<1>5. CallIsJobs'
  BY <1>1, <1>2, <1>3 DEF CallStarts, CallIsJobs
<1>6. ~Sending /\ ~Sending'
  BY <1>1, <1>3 DEF Sending
<1>7. OneInFlight'
  BY <1>6 DEF CallStarts, OneInFlight, socket
<1>8. PackageAt'
  BY <1>6 DEF CallStarts, PackageAt, PackageOf, InCall, Quiet, Sent, socket
<1>9. ReadAt'
  BY DEF CallStarts, ReadAt, ReadOf, Best
<1> QED
  BY <1>4, <1>5, <1>7, <1>8, <1>9

\* The request of the call that holds the lock goes out.
LEMMA RequestSent == ASSUME AccessIInv, CallSends PROVE AccessIInv'
<1> USE DEF AccessIInv
<1> DEFINE new == [conn |-> conn', rid |-> nextId + 1, who |-> call.who, want |-> call.want]
<1>1. call \in Call /\ call.who \in Callers /\ call.want \in Want /\ nextId \in Nat /\ conn \in Nat
  BY DEF CallSends, AccessTypeOK, Call
<1>2. conn' \in Nat /\ up' = TRUE /\ nextId' = nextId + 1 /\ nextId' \in Nat
  BY <1>1 DEF CallSends
<1>3. call' = [call EXCEPT !.rid = nextId + 1] /\ asked' = asked \cup {new}
  BY DEF CallSends
<1>4. /\ call' \in Call /\ call'.who = call.who /\ call'.want = call.want
      /\ call'.rid = nextId + 1 /\ call'.rid # 0
  BY <1>1, <1>3 DEF Call
<1>5. new \in Request
  BY <1>1, <1>2 DEF Request
<1>6. AccessTypeOK'
  <2> HIDE DEF new
  <2> QED
    BY <1>2, <1>3, <1>4, <1>5 DEF AccessTypeOK, CallSends
<1>7. ~Sending /\ Sending' /\ wire = <<>> /\ wire' = <<>> /\ job' = job /\ reached' = reached
  BY <1>4, CallIsSome DEF CallSends, Sending, OneInFlight
<1>8. CallIsJobs'
  BY <1>4, <1>7 DEF CallSends, CallIsJobs
<1>9. \A q \in asked : q.conn # conn' /\ q.conn <= conn'
  <2> TAKE q \in asked
  <2>1. q.conn \in Nat /\ q.conn <= conn /\ ~(up /\ q.conn = conn)
    BY <1>7 DEF OneInFlight, AccessTypeOK, Request
  <2> QED
    BY <1>1, <2>1 DEF CallSends
<1>10. OneInFlight'
  <2>1. Mine' = new
    BY <1>4 DEF Mine
  <2>2. new.conn = conn'
    OBVIOUS
  <2> HIDE DEF new
  <2>3. \A q \in asked' : q.conn <= conn' /\ (q.conn = conn' => q = new)
    BY <1>2, <1>3, <1>9, <2>2
  <2>4. new \in asked'
    BY <1>3
  <2> QED
    BY <1>2, <1>7, <2>1, <2>3, <2>4 DEF OneInFlight
<1>11. PackageAt'
  <2> SUFFICES ASSUME NEW s \in Submitters PROVE PackageOf(s)'
    BY DEF PackageAt
  <2>1. PackageOf(s) /\ ~InCall(s)
    BY <1>7 DEF PackageAt, InCall
  <2>2. Sent(s, new) <=> InCall(s)'
    BY <1>4, <1>7 DEF Sent, InCall
  <2> HIDE DEF new
  <2>3. CASE Sent(s, new)
    <3>1. job[s].pc # "done"
      BY <1>4, <1>7, <2>2, <2>3 DEF InCall, CallSends, CallIsJobs
    <3>2. reached[s] = {} /\ \A q \in asked : ~Sent(s, q)
      BY <2>1, <3>1 DEF PackageOf, Quiet
    <3>3. \A q \in asked' : Sent(s, q)' => q = new
      BY <1>3, <3>2 DEF Sent
    <3> QED
      BY <1>7, <2>2, <2>3, <3>1, <3>2, <3>3 DEF PackageOf
  <2>4. CASE ~Sent(s, new)
    <3>1. \A q \in asked' : Sent(s, q)' => q \in asked /\ Sent(s, q)
      BY <1>3, <2>4 DEF Sent
    <3>2. Quiet(s) => Quiet(s)'
      BY <1>7, <3>1 DEF Quiet
    <3> QED
      BY <1>7, <2>1, <2>2, <2>4, <3>1, <3>2 DEF PackageOf
  <2> QED
    BY <2>3, <2>4
<1>12. ReadAt'
  BY <1>7 DEF CallSends, ReadAt, ReadOf, Best
<1> QED
  BY <1>6, <1>8, <1>10, <1>11, <1>12

\* The call that holds the lock takes the one message there can be, its own.
LEMMA AnswerTaken == ASSUME AccessIInv, CallReceives PROVE AccessIInv'
<1>1. Sending /\ call # NoCall /\ wire # <<>> /\ wire \in Seq(Message)
  BY DEF CallReceives, Sending, AccessIInv, AccessTypeOK
<1>2. Len(wire) = 1 /\ Fits(wire[1]) /\ (\A q \in asked : q.conn # conn)
  BY <1>1 DEF AccessIInv, OneInFlight
<1>3. Head(wire) = wire[1] /\ Tail(wire) = <<>> /\ wire[1] \in Message
  <2>1. wire \in Seq(Message) /\ Len(wire) = 1
    BY <1>1, <1>2
  <2>2. Tail(wire) \in Seq(Message) /\ Len(Tail(wire)) = 0
    BY <2>1
  <2>3. Tail(wire) = <<>>
    BY <2>2, EmptySeq
  <2>4. wire[1] \in Message
    <3>1. 1 \in 1..Len(wire) /\ wire \in [1..Len(wire) -> Message]
      BY <2>1, LenProperties
    <3> QED
      BY <3>1
  <2>5. Head(wire) = wire[1]
    BY <1>1, <2>1
  <2> QED
    BY <2>3, <2>4, <2>5
<1> DEFINE m == wire[1]
<1>4. m.answer \in Answers /\ m.at \in Nat
  BY <1>3 DEF Message
<1>5. /\ CallReturns(m.answer, m.at) /\ wire' = <<>>
      /\ UNCHANGED <<backend, keyAt, conn, nextId, asked, reached>> /\ up' = up
  BY <1>2, <1>3 DEF CallReceives, Fits
<1>6. up' \in BOOLEAN
  BY <1>5 DEF AccessIInv, AccessTypeOK
<1>7. call.want.method = "submit" /\ call.who \in Submitters =>
        /\ m.answer = "result" => reached[call.who] # {}
        /\ m.answer \notin {"result", "failed"} => Quiet(call.who)
  <2> SUFFICES ASSUME call.want.method = "submit", call.who \in Submitters
               PROVE  /\ m.answer = "result" => reached[call.who] # {}
                      /\ m.answer \notin {"result", "failed"} => Quiet(call.who)
    OBVIOUS
  <2>1. InCall(call.who) /\ PackageOf(call.who)
    BY <1>1 DEF AccessIInv, PackageAt, InCall
  <2> QED
    BY <1>1, <2>1 DEF PackageOf
<1>8. /\ call.want.method \in {"head", "submit"} => m.answer # "null"
      /\ call.want.method = "head" /\ m.answer = "result" => job[call.who].from <= m.at /\ m.at <= Best
      /\ call.want.method = "value" => /\ m.answer = "null" => ~keyAt[call.want.at]
                                       /\ m.answer = "result" => keyAt[call.want.at]
  BY <1>2 DEF Fits
<1> HIDE DEF m
<1> QED
  BY <1>1, <1>2, <1>4, <1>5, <1>6, <1>7, <1>8, CallEnds

\* The transport fails: a read is tried once more, any other call raises.
LEMMA TransportFailed == ASSUME AccessIInv, CallFails PROVE AccessIInv'
<1> USE DEF AccessIInv
<1>1. /\ call # NoCall /\ up' = FALSE /\ wire' = <<>>
      /\ UNCHANGED <<backend, keyAt, conn, nextId, asked, reached>>
  BY DEF CallFails
<1>2. CASE CallReturns("failed", 0)
  BY <1>1, <1>2, CallEnds DEF Answers
<1>3. CASE /\ Retries(call.want.method) /\ call' = [call EXCEPT !.attempt = 1, !.rid = 0]
           /\ UNCHANGED <<job, nextCore>>
  <2>1. call \in Call
    BY <1>1 DEF AccessTypeOK
  <2>2. call' \in Call /\ call'.who = call.who /\ call'.want = call.want /\ call'.rid = 0
    BY <1>3, <2>1 DEF Call
  <2>3. ~Sending' /\ call.want.method # "submit"
    BY <1>3, <2>2 DEF Sending, Retries
  <2>4. AccessTypeOK'
    <3>1. up' \in BOOLEAN /\ wire' \in Seq(Message)
      BY <1>1, EmptySeq, Zenon
    <3>2. UNCHANGED <<backend, keyAt, conn, nextId, asked, reached, job, nextCore>>
      BY <1>1, <1>3
    <3> QED
      BY <2>2, <3>1, <3>2 DEF AccessTypeOK
  <2>5. CallIsJobs'
    BY <1>1, <1>3, <2>2 DEF CallIsJobs
  <2>6. OneInFlight'
    BY <1>1, <2>3 DEF OneInFlight
  <2>7. PackageAt'
    <3> SUFFICES ASSUME NEW s \in Submitters PROVE PackageOf(s)'
      BY DEF PackageAt
    <3>1. ~InCall(s) /\ ~InCall(s)' /\ PackageOf(s)
      BY <2>3 DEF InCall, PackageAt
    <3>2. Quiet(s)' <=> Quiet(s)
      BY <1>1 DEF Quiet, Sent
    <3> QED
      BY <1>1, <1>3, <3>1, <3>2 DEF PackageOf, Sent
  <2>8. ReadAt'
    BY <1>1, <1>3 DEF ReadAt, ReadOf, Best
  <2> QED
    BY <2>4, <2>5, <2>6, <2>7, <2>8
<1> QED
  BY <1>2, <1>3 DEF CallFails

\* The node serves a request: the live one, whose answer goes on the connection
\* of the call that waits for it, or one that nobody waits for.
LEMMA RequestServed ==
    ASSUME AccessIInv, NEW q \in asked, NEW answer \in Answers, NodeServes(q, answer)
    PROVE  AccessIInv'
<1> USE DEF AccessIInv
<1> DEFINE hit == q.want.method = "submit" /\ answer = "result"
<1>1. /\ q \in Request /\ q.rid \in Nat /\ asked' = asked \ {q}
      /\ UNCHANGED <<backend, keyAt, conn, up, nextId, call, job, nextCore>>
  BY DEF NodeServes, AccessTypeOK, Request
<1>2. reached' = IF hit THEN [reached EXCEPT ![q.who] = @ \cup {q.rid}] ELSE reached
  BY DEF NodeServes
<1>3. reached' \in [Submitters -> SUBSET Nat]
  BY <1>1, <1>2 DEF AccessTypeOK
<1>4. \A s \in Submitters : reached'[s] = IF hit /\ q.who = s THEN reached[s] \cup {q.rid} ELSE reached[s]
  BY <1>2 DEF AccessTypeOK
<1> HIDE DEF hit
<1>5. \A s \in Submitters : ~Sent(s, q) => reached'[s] = reached[s]
  BY <1>4 DEF Sent, hit
<1>6. CallIsJobs' /\ ReadAt'
  BY <1>1 DEF CallIsJobs, ReadAt, ReadOf, Best
<1>7. (Sending' <=> Sending) /\ \A s : InCall(s)' <=> InCall(s)
  BY <1>1 DEF Sending, InCall
<1>8. CASE ~(up /\ q.conn = conn)
  <2>1. wire' = wire
    BY <1>8 DEF NodeServes
  <2>2. AccessTypeOK'
    BY <1>1, <1>3, <2>1 DEF AccessTypeOK
  <2>3. OneInFlight'
    <3>1. Mine' = Mine /\ Mine.conn = conn /\ \A m : Fits(m)' <=> Fits(m)
      BY <1>1 DEF Mine, Fits, Best
    <3>2. Sending => Mine # q
      BY <1>8, <3>1 DEF OneInFlight
    <3> QED
      BY <1>1, <1>7, <2>1, <3>1, <3>2 DEF OneInFlight
  <2>4. PackageAt'
    <3> SUFFICES ASSUME NEW s \in Submitters PROVE PackageOf(s)'
      BY DEF PackageAt
    <3>1. PackageOf(s)
      BY DEF PackageAt
    <3>2. CASE Sent(s, q)
      <4>1. /\ ~InCall(s) /\ job[s].pc = "done" /\ job[s].out \notin {"accepted", "busy", "unsupported"}
            /\ reached[s] = {} /\ \A p \in asked : Sent(s, p) => p = q
        BY <1>8, <3>2, StaleIsUnknown
      <4>2. \A p \in asked' : ~Sent(s, p)'
        BY <1>1, <4>1 DEF Sent
      <4>3. \A x, y \in reached[s]' : x = y
        BY <1>4, <4>1
      <4> QED
        BY <1>1, <1>7, <4>1, <4>2, <4>3 DEF PackageOf
    <3>3. CASE ~Sent(s, q)
      <4>1. reached'[s] = reached[s] /\ \A p \in asked' : p \in asked /\ (Sent(s, p)' <=> Sent(s, p))
        BY <1>1, <1>5, <3>3 DEF Sent
      <4>2. Quiet(s) => Quiet(s)'
        BY <4>1 DEF Quiet
      <4>3. \/ reached[s]' = {} /\ \A x, p \in asked' : Sent(s, x)' /\ Sent(s, p)' => x = p
            \/ (\A x, y \in reached[s]' : x = y) /\ \A x \in asked' : ~Sent(s, x)'
        BY <3>1, <4>1 DEF PackageOf
      <4>4. InCall(s)' <=> InCall(s)
        BY <1>7
      <4> QED
        BY <1>1, <2>1, <3>1, <4>1, <4>2, <4>3, <4>4 DEF PackageOf
    <3> QED
      BY <3>2, <3>3
  <2> QED
    BY <1>6, <2>2, <2>3, <2>4
<1>9. CASE up /\ q.conn = conn
  <2>1. Sending /\ wire = <<>> /\ q = Mine /\ \A p \in asked : p.conn = conn => p = Mine
    BY <1>9 DEF OneInFlight
  <2>2. q.want = call.want /\ q.rid = call.rid /\ q.who = call.who
    BY <2>1 DEF Mine
  <2>3. Best \in Nat
    BY DEF Best, AccessTypeOK
  <2>4. PICK m \in Message : /\ wire' = Append(wire, m) /\ m.rid \in {q.rid, 0}
                             /\ m.answer = answer /\ m.at = Best
    <3>1. PICK id \in {q.rid, 0} : wire' = Append(wire, [rid |-> id, answer |-> answer, at |-> Best])
      BY <1>9 DEF NodeServes
    <3> DEFINE r == [rid |-> id, answer |-> answer, at |-> Best]
    <3>2. r \in Message /\ r.rid \in {q.rid, 0} /\ r.answer = answer /\ r.at = Best
      BY <1>1, <2>3 DEF Message
    <3> HIDE DEF r
    <3>3. wire' = Append(wire, r)
      BY <3>1 DEF r
    <3> QED
      BY <3>2, <3>3
  <2>5. wire' = <<m>> /\ wire' \in Seq(Message) /\ Len(wire') = 1 /\ wire'[1] = m /\ wire' # <<>>
    BY <2>1, <2>4
  <2>6. AccessTypeOK'
    BY <1>1, <1>3, <2>5 DEF AccessTypeOK
  <2>7. OneInFlight'
    <3>1. call.who \in Callers /\ Best' = Best
      BY <1>1, <2>1 DEF Sending, AccessTypeOK, Call, Best
    <3>2. Fits(m)'
      <4>1. m.rid \in {call.rid, 0}
        BY <2>2, <2>4
      <4>2. job[call.who].from <= m.at /\ m.at <= Best
        <5>1. job[call.who].from <= Best
          BY <3>1 DEF ReadAt, ReadOf
        <5> QED
          BY <2>3, <2>4, <5>1
      <4>3. /\ call.want.method \in {"head", "submit"} => m.answer # "null"
            /\ call.want.method = "value" => /\ m.answer = "null" => ~keyAt[call.want.at]
                                             /\ m.answer = "result" => keyAt[call.want.at]
        BY <2>2, <2>4 DEF NodeServes
      <4> QED
        BY <1>1, <3>1, <4>1, <4>2, <4>3 DEF Fits
    <3>3. \A p \in asked' : p.conn # conn /\ p.conn <= conn
      BY <1>1, <2>1 DEF OneInFlight
    <3> QED
      BY <1>1, <1>7, <1>9, <2>1, <2>5, <3>2, <3>3 DEF OneInFlight
  <2>8. PackageAt'
    <3> SUFFICES ASSUME NEW s \in Submitters PROVE PackageOf(s)'
      BY DEF PackageAt
    <3>1. PackageOf(s)
      BY DEF PackageAt
    <3>2. /\ Sent(s, q) <=> InCall(s)
          /\ InCall(s)' <=> InCall(s)
      BY <1>7, <2>1, <2>2 DEF Sent, InCall
    <3>3. CASE Sent(s, q)
      <4>1. reached[s] = {} /\ \A p \in asked : Sent(s, p) => p = q
        BY <2>1, <3>1, <3>2, <3>3 DEF PackageOf
      <4>2. \A p \in asked' : ~Sent(s, p)'
        BY <1>1, <4>1 DEF Sent
      <4>3. /\ \A x, y \in reached[s]' : x = y
            /\ m.answer = "result" => reached[s]' # {}
            /\ m.answer # "result" => Quiet(s)'
        BY <1>4, <2>4, <3>3, <4>1, <4>2 DEF Quiet, Sent, hit
      <4>4. job'[s].pc # "done"
        BY <1>1, <2>1, <3>2, <3>3 DEF InCall, Sending, CallIsJobs
      <4> QED
        BY <2>5, <3>2, <3>3, <4>2, <4>3, <4>4 DEF PackageOf
    <3>4. CASE ~Sent(s, q)
      <4>1. reached'[s] = reached[s] /\ \A p \in asked' : p \in asked /\ (Sent(s, p)' <=> Sent(s, p))
        BY <1>1, <1>5, <3>4 DEF Sent
      <4>2. Quiet(s) => Quiet(s)'
        BY <4>1 DEF Quiet
      <4>3. \/ reached[s]' = {} /\ \A x, p \in asked' : Sent(s, x)' /\ Sent(s, p)' => x = p
            \/ (\A x, y \in reached[s]' : x = y) /\ \A x \in asked' : ~Sent(s, x)'
        BY <3>1, <4>1 DEF PackageOf
      <4> QED
        BY <1>1, <3>1, <3>2, <3>4, <4>1, <4>2, <4>3 DEF PackageOf
    <3> QED
      BY <3>3, <3>4
  <2> QED
    BY <1>6, <2>6, <2>7, <2>8
<1> QED
  BY <1>8, <1>9

\* A request is lost with its connection.
LEMMA RequestGone == ASSUME AccessIInv, NEW q \in asked, RequestLost(q) PROVE AccessIInv'
<1> USE DEF AccessIInv
<1>1. /\ asked' = asked \ {q} /\ ~(up /\ q.conn = conn)
      /\ UNCHANGED <<backend, keyAt, conn, up, nextId, wire, call, job, nextCore, reached>>
  BY DEF RequestLost, socket
<1>2. AccessTypeOK' /\ CallIsJobs' /\ ReadAt'
  BY <1>1 DEF AccessTypeOK, CallIsJobs, ReadAt, ReadOf, Best
<1>3. (Sending' <=> Sending) /\ \A s : InCall(s)' <=> InCall(s)
  BY <1>1 DEF Sending, InCall
<1>4. OneInFlight'
  <2>1. Mine' = Mine /\ Mine.conn = conn /\ \A m : Fits(m)' <=> Fits(m)
    BY <1>1 DEF Mine, Fits, Best
  <2>2. Sending => Mine # q
    BY <1>1, <2>1 DEF OneInFlight
  <2> QED
    BY <1>1, <1>3, <2>1, <2>2 DEF OneInFlight
<1>5. PackageAt'
  <2> SUFFICES ASSUME NEW s \in Submitters PROVE PackageOf(s)'
    BY DEF PackageAt
  <2>1. PackageOf(s) /\ (InCall(s)' <=> InCall(s))
    BY <1>3 DEF PackageAt
  <2>2. \A p \in asked' : p \in asked /\ (Sent(s, p)' <=> Sent(s, p))
    BY <1>1 DEF Sent
  <2>3. Quiet(s) => Quiet(s)'
    BY <1>1, <2>2 DEF Quiet
  <2>4. \/ reached[s]' = {} /\ \A x, p \in asked' : Sent(s, x)' /\ Sent(s, p)' => x = p
        \/ (\A x, y \in reached[s]' : x = y) /\ \A x \in asked' : ~Sent(s, x)'
    BY <1>1, <2>1, <2>2 DEF PackageOf
  <2> QED
    BY <1>1, <2>1, <2>3, <2>4 DEF PackageOf
<1> QED
  BY <1>2, <1>4, <1>5

\* A block is imported: what was read at an earlier block still holds there.
LEMMA ChainGrows == ASSUME AccessIInv, NEW key \in BOOLEAN, BlockImported(key) PROVE AccessIInv'
<1> USE DEF AccessIInv
<1>1. /\ keyAt' = Append(keyAt, key)
      /\ UNCHANGED <<backend, conn, up, nextId, wire, call, asked, job, nextCore, reached>>
  BY DEF BlockImported, socket
<1>2. /\ keyAt' \in Seq(BOOLEAN) /\ Len(keyAt') = Len(keyAt) + 1 /\ Len(keyAt) \in Nat
      /\ \A b \in 1..Len(keyAt) : keyAt'[b] = keyAt[b]
  <2>1. keyAt \in Seq(BOOLEAN)
    BY DEF AccessTypeOK
  <2> QED
    BY <1>1, <2>1, AppendProperties
<1>3. Best \in Nat /\ Best' = Best + 1 /\ \A b \in 1..Best : keyAt'[b] = keyAt[b]
  BY <1>2 DEF Best
<1>4. AccessTypeOK'
  BY <1>1, <1>2 DEF AccessTypeOK
<1>5. CallIsJobs'
  BY <1>1 DEF CallIsJobs
<1>6. (Sending' <=> Sending) /\ \A s : InCall(s)' <=> InCall(s)
  BY <1>1 DEF Sending, InCall
<1>7. ASSUME NEW t \in Callers
      PROVE  /\ ReadOf(t) /\ job[t].from \in Nat /\ job[t].at \in Nat
             /\ job[t].pc = "value" => job[t].at \in 1..Best
  <2>1. ReadOf(t) /\ job[t].from \in Nat /\ job[t].at \in Nat
    BY DEF ReadAt, AccessTypeOK, Job
  <2>2. job[t].pc = "value" => job[t].from >= 1 /\ job[t].from <= job[t].at /\ job[t].at <= Best
    BY <2>1 DEF ReadOf
  <2>3. Best \in Nat
    BY <1>3
  <2>4. job[t].pc = "value" => job[t].at \in 1..Best
    BY <2>1, <2>2, <2>3
  <2> QED
    BY <2>1, <2>4
<1>8. OneInFlight'
  <2>1. CASE ~Sending
    BY <1>1, <1>6, <2>1 DEF OneInFlight
  <2>2. CASE Sending
    <3>1. call.who \in Callers /\ Mine' = Mine
      BY <1>1, <2>2 DEF Sending, AccessTypeOK, Call, Mine
    <3>2. call.want.method = "value" => call.want.at \in 1..Best
      BY <1>7, <2>2, <3>1 DEF Sending, CallIsJobs
    <3>3. call.want.method = "value" => keyAt'[call.want.at] = keyAt[call.want.at]
      BY <1>3, <3>2
    <3>4. ASSUME NEW m \in Message, Fits(m) PROVE Fits(m)'
      <4>1. m.at \in Nat /\ m.at <= Best /\ m.at <= Best'
        BY <1>3, <3>4 DEF Fits, Message
      <4>2. call.want.method = "value" => /\ m.answer = "null" => ~keyAt'[call.want.at]
                                          /\ m.answer = "result" => keyAt'[call.want.at]
        BY <3>3, <3>4, Zenon DEF Fits
      <4> QED
        BY <1>1, <3>4, <4>1, <4>2 DEF Fits
    <3>5. CASE wire = <<>>
      BY <1>1, <1>6, <2>2, <3>1, <3>5 DEF OneInFlight
    <3>6. CASE wire # <<>>
      <4>1. Len(wire) = 1 /\ Fits(wire[1]) /\ (\A q \in asked : q.conn # conn)
        BY <2>2, <3>6 DEF OneInFlight
      <4>2. wire[1] \in Message
        <5>1. wire \in Seq(Message)
          BY DEF AccessTypeOK
        <5>2. 1 \in 1..Len(wire) /\ wire \in [1..Len(wire) -> Message]
          BY <4>1, <5>1, LenProperties
        <5> QED
          BY <5>2
      <4>3. PICK m \in Message : wire[1] = m /\ Fits(m)
        BY <4>1, <4>2
      <4>4. Fits(m)' /\ wire'[1] = m
        BY <1>1, <3>4, <4>3
      <4> QED
        BY <1>1, <1>6, <2>2, <4>1, <4>4 DEF OneInFlight
    <3> QED
      BY <3>5, <3>6
  <2> QED
    BY <2>1, <2>2
<1>9. PackageAt'
  <2> SUFFICES ASSUME NEW s \in Submitters PROVE PackageOf(s)'
    BY DEF PackageAt
  <2>1. PackageOf(s) /\ (InCall(s)' <=> InCall(s))
    BY <1>6 DEF PackageAt
  <2>2. Quiet(s)' <=> Quiet(s)
    BY <1>1 DEF Quiet, Sent
  <2> QED
    BY <1>1, <2>1, <2>2 DEF PackageOf, Sent
<1>10. ReadAt'
  <2> SUFFICES ASSUME NEW t \in Callers PROVE ReadOf(t)'
    BY DEF ReadAt
  <2>1. job' = job /\ ReadOf(t) /\ job[t].from \in Nat /\ job[t].at \in Nat
    BY <1>1, <1>7
  <2>2. ASSUME job[t].from >= 1, NEW b \in job[t].from..Best
        PROVE  b \in job[t].from..Best' /\ keyAt'[b] = keyAt[b]
    BY <1>3, <2>1, <2>2
  <2>3. /\ job[t].out = "present" => \E b \in job[t].from..Best' : keyAt'[b]
        /\ job[t].out = "absent" => \E b \in job[t].from..Best' : ~keyAt'[b]
    BY <2>1, <2>2, Zenon DEF ReadOf
  <2>4. /\ job[t].from <= Best'
        /\ job[t].pc = "value" => job[t].from <= job[t].at /\ job[t].at <= Best'
    <3>1. /\ job[t].from <= Best
          /\ job[t].pc = "value" => job[t].from <= job[t].at /\ job[t].at <= Best
      BY <2>1 DEF ReadOf
    <3>2. Best \in Nat /\ Best' = Best + 1
      BY <1>3
    <3> QED
      BY <2>1, <3>1, <3>2
  <2> QED
    BY <2>1, <2>3, <2>4 DEF ReadOf
<1> QED
  BY <1>4, <1>5, <1>8, <1>9, <1>10

\* Every step of the door keeps the invariant.
LEMMA AccessStep == AccessIInv /\ [AccessNext]_accessVars => AccessIInv'
<1> SUFFICES ASSUME AccessIInv, [AccessNext]_accessVars PROVE AccessIInv'
  OBVIOUS
<1>1. Best \in Nat /\ Best >= 1
  BY DEF AccessIInv, AccessTypeOK, Best
<1>2. ASSUME NEW t \in Callers, job[t].pc = "idle"
      PROVE  job[t] \in Job /\ job[t].out = "" /\ job[t].from \in Nat /\ job[t].from <= Best
  BY <1>2 DEF AccessIInv, AccessTypeOK, ReadAt, ReadOf, Job
<1>3. reached \in [Submitters -> SUBSET Nat] /\ job \in [Callers -> Job]
  BY DEF AccessIInv, AccessTypeOK
<1>4. ASSUME NEW t \in Submitters, Submit(t) PROVE AccessIInv'
  <2>1. /\ t \in Callers /\ job[t].pc = "idle"
        /\ UNCHANGED <<backend, keyAt, socket, call, asked, nextCore, reached>>
    BY <1>4 DEF Submit, Callers
  <2>2. PICK j \in Job : /\ job' = [job EXCEPT ![t] = j] /\ j.from = job[t].from
                         /\ \/ j.pc = "build" /\ j.out = ""
                            \/ j.pc = "done" /\ j.out = "unsupported"
    <3>1. CASE job' = [job EXCEPT ![t].pc = "build"]
      <4> DEFINE j == [job[t] EXCEPT !.pc = "build"]
      <4>1. job' = [job EXCEPT ![t] = j]
        BY <3>1
      <4>2. j \in Job /\ j.from = job[t].from /\ j.pc = "build" /\ j.out = ""
        BY <1>2, <2>1 DEF Job
      <4> HIDE DEF j
      <4> QED
        BY <4>1, <4>2
    <3>2. CASE job' = [job EXCEPT ![t].pc = "done", ![t].out = "unsupported"]
      <4> DEFINE j == [job[t] EXCEPT !.pc = "done", !.out = "unsupported"]
      <4>1. job' = [job EXCEPT ![t] = j]
        BY <1>3, <2>1, <3>2
      <4>2. j \in Job /\ j.from = job[t].from /\ j.pc = "done" /\ j.out = "unsupported"
        BY <1>2, <2>1 DEF Job
      <4> HIDE DEF j
      <4> QED
        BY <4>1, <4>2
    <3> QED
      BY <1>4, <3>1, <3>2 DEF Submit
  <2>3. reached' = reached
    BY <2>1
  <2> QED
    BY <1>2, <1>3, <2>1, <2>2, <2>3, ThreadMoves
<1>5. ASSUME NEW t \in Readers, Read(t) PROVE AccessIInv'
  <2>1. /\ t \in Callers /\ job[t].pc = "idle"
        /\ UNCHANGED <<backend, keyAt, socket, call, asked, nextCore, reached>>
    BY <1>5 DEF Read, Callers
  <2> DEFINE j == [job[t] EXCEPT !.pc = "head", !.from = Best]
  <2>2. job' = [job EXCEPT ![t] = j]
    BY <1>3, <1>5, <2>1 DEF Read
  <2>3. j \in Job /\ j.pc = "head" /\ j.from = Best /\ j.out = ""
    BY <1>1, <1>2, <2>1 DEF Job
  <2> HIDE DEF j
  <2>4. reached' = reached
    BY <2>1
  <2>5. j.from <= Best /\ j.from >= 1
    <3>1. j.from = Best
      BY <2>3
    <3> QED
      BY <1>1, <3>1
  <2> QED
    BY <1>3, <2>1, <2>2, <2>3, <2>4, <2>5, ThreadMoves
<1>6. ASSUME NEW t \in Submitters, NEW out \in {"accepted", "busy", "unknown"}, NEW delivered \in BOOLEAN,
             JamnpSubmit(t, out, delivered)
      PROVE  AccessIInv'
  <2>1. /\ t \in Callers /\ job[t].pc = "idle"
        /\ UNCHANGED <<backend, keyAt, socket, call, asked, nextCore>>
    BY <1>6 DEF JamnpSubmit, Callers
  <2> DEFINE j == [job[t] EXCEPT !.pc = "done", !.out = out]
  <2>2. job' = [job EXCEPT ![t] = j]
    BY <1>3, <1>6, <2>1 DEF JamnpSubmit
  <2>3. j \in Job /\ j.pc = "done" /\ j.from = job[t].from /\ j.out = out
    BY <1>2, <2>1 DEF Job
  <2>4. /\ out = "accepted" => reached' = [reached EXCEPT ![t] = {0}]
        /\ out = "busy" => reached' = reached
        /\ reached' = reached \/ reached' = [reached EXCEPT ![t] = {0}]
    BY <1>6 DEF JamnpSubmit
  <2>5. /\ reached' \in [Submitters -> SUBSET Nat]
        /\ \A s \in Submitters \ {t} : reached'[s] = reached[s]
        /\ reached'[t] \in {reached[t], {0}}
        /\ out = "accepted" => reached'[t] = {0}
        /\ out = "busy" => reached'[t] = reached[t]
    <3>1. CASE reached' = reached /\ out # "accepted"
      BY <1>3, <3>1
    <3>2. CASE reached' = [reached EXCEPT ![t] = {0}] /\ out # "busy"
      <4>1. reached'[t] = {0}
        BY <1>3, <3>2
      <4>2. \A s \in Submitters \ {t} : reached'[s] = reached[s]
        BY <1>3, <3>2
      <4>3. reached' \in [Submitters -> SUBSET Nat]
        BY <1>3, <3>2
      <4> QED
        BY <3>2, <4>1, <4>2, <4>3
    <3>3. CASE reached' = reached /\ reached' = [reached EXCEPT ![t] = {0}]
      BY <1>3, <3>3
    <3> QED
      BY <2>4, <3>1, <3>2, <3>3
  <2> HIDE DEF j
  <2>6. j.out \notin {"present", "absent", "unsupported"} /\ j.from <= Best
    BY <1>2, <2>1, <2>3
  <2> QED
    BY <2>1, <2>2, <2>3, <2>5, <2>6, ThreadMoves
<1>7. ASSUME NEW t \in Readers, NEW error \in BOOLEAN, JamnpRead(t, error) PROVE AccessIInv'
  <2>1. /\ t \in Callers /\ job[t].pc = "idle"
        /\ UNCHANGED <<backend, keyAt, socket, call, asked, nextCore, reached>>
    BY <1>7 DEF JamnpRead, Callers
  <2> DEFINE out == JamnpAnswer(error)
             j == [job[t] EXCEPT !.pc = "done", !.from = Best, !.out = out]
  <2>2. job' = [job EXCEPT ![t] = j]
    BY <1>3, <1>7, <2>1 DEF JamnpRead
  <2>3. /\ out \in {"raised", "present", "absent"}
        /\ out = "present" => keyAt[Best]
        /\ out = "absent" => ~keyAt[Best]
    BY Zenon DEF JamnpAnswer
  <2> HIDE DEF out
  <2>4. j \in Job /\ j.pc = "done" /\ j.from = Best /\ j.out = out
    BY <1>1, <1>2, <2>1, <2>3 DEF Job
  <2> HIDE DEF j
  <2>5. reached' = reached /\ j.from <= Best /\ Best \in j.from..Best
    BY <1>1, <2>1, <2>4
  <2>6. /\ j.out = "present" => \E b \in j.from..Best : keyAt[b]
        /\ j.out = "absent" => \E b \in j.from..Best : ~keyAt[b]
    BY <2>3, <2>4, <2>5, Zenon
  <2>7. j.out \notin {"accepted", "busy", "unsupported"}
    BY <2>3, <2>4
  <2> QED
    BY <1>1, <1>3, <2>1, <2>2, <2>4, <2>5, <2>6, <2>7, ThreadMoves
<1>8. CASE UNCHANGED accessVars
  <2>1. UNCHANGED <<backend, keyAt, conn, up, nextId, wire, call, asked, job, nextCore, reached>>
    BY <1>8 DEF accessVars, socket
  <2>2. AccessTypeOK' /\ CallIsJobs'
    BY <2>1 DEF AccessIInv, AccessTypeOK, CallIsJobs
  <2>3. OneInFlight'
    BY <2>1 DEF AccessIInv, OneInFlight, Sending, Mine, Fits, Best
  <2>4. PackageAt'
    <3> SUFFICES ASSUME NEW s \in Submitters PROVE PackageOf(s)'
      BY DEF PackageAt
    <3>1. PackageOf(s) /\ (InCall(s)' <=> InCall(s)) /\ (Quiet(s)' <=> Quiet(s))
      BY <2>1 DEF AccessIInv, PackageAt, InCall, Sending, Quiet, Sent
    <3> QED
      BY <2>1, <3>1 DEF PackageOf, Sent
  <2>5. ReadAt'
    BY <2>1 DEF AccessIInv, ReadAt, ReadOf, Best
  <2> QED
    BY <2>2, <2>3, <2>4, <2>5 DEF AccessIInv
<1>9. CASE \E t \in Submitters : \/ Submit(t)
                                \/ \E out \in {"accepted", "busy", "unknown"}, delivered \in BOOLEAN :
                                      JamnpSubmit(t, out, delivered)
  BY <1>4, <1>6, <1>9
<1>10. CASE \E t \in Readers : Read(t) \/ \E error \in BOOLEAN : JamnpRead(t, error)
  BY <1>5, <1>7, <1>10
<1>11. CASE \E t \in Callers : CallStarts(t)
  BY <1>11, LockTaken
<1>12. CASE CallSends \/ CallReceives \/ CallFails
  BY <1>12, RequestSent, AnswerTaken, TransportFailed
<1>13. CASE \E q \in asked : \/ RequestLost(q)
                            \/ \E answer \in {"result", "null", "refused", "nomethod"} : NodeServes(q, answer)
  BY <1>13, RequestGone, RequestServed DEF Answers
<1>14. CASE \E key \in BOOLEAN : BlockImported(key)
  BY <1>14, ChainGrows
<1> QED
  BY <1>8, <1>9, <1>10, <1>11, <1>12, <1>13, <1>14 DEF AccessNext

\* What the invariant says of outcomes and answers.
LEMMA AccessImplies == AccessIInv => AccessFaithful
<1> SUFFICES ASSUME AccessIInv PROVE SubmittedOnce /\ ReadsTrue
  BY DEF AccessFaithful
<1>1. SubmittedOnce
  <2> SUFFICES ASSUME NEW t \in Submitters
               PROVE  /\ Cardinality(reached[t]) <= 1
                      /\ job[t].out = "accepted" => reached[t] # {}
                      /\ job[t].out \in {"busy", "unsupported"} =>
                            reached[t] = {} /\ \A q \in asked : q.who = t => q.want.method # "submit"
    BY DEF SubmittedOnce
  <2>1. PackageOf(t) /\ t \in Callers
    BY DEF AccessIInv, PackageAt, Callers
  <2>2. job[t].out # "" => job[t].pc = "done"
    BY <2>1 DEF AccessIInv, ReadAt, ReadOf
  <2>3. \A x, y \in reached[t] : x = y
    BY <2>1 DEF PackageOf
  <2>4. Cardinality(reached[t]) <= 1
    <3>1. CASE reached[t] = {}
      BY <3>1, FS_EmptySet
    <3>2. CASE reached[t] # {}
      <4>1. PICK x \in reached[t] : reached[t] = {x}
        BY <2>3, <3>2
      <4> QED
        BY <4>1, FS_Singleton
    <3> QED
      BY <3>1, <3>2
  <2> QED
    BY <2>1, <2>2, <2>4 DEF PackageOf, Quiet, Sent
<1>2. ReadsTrue
  <2> SUFFICES ASSUME NEW t \in Readers, job[t].out \in {"present", "absent"}
               PROVE  \E b \in job[t].from..Best : keyAt[b] = (job[t].out = "present")
    BY DEF ReadsTrue
  <2>1. ReadOf(t) /\ job[t].from \in Nat /\ Best = Len(keyAt) /\ keyAt \in Seq(BOOLEAN)
    BY DEF AccessIInv, ReadAt, AccessTypeOK, Callers, Job, Best
  <2>2. job[t].from >= 1
    BY <2>1 DEF ReadOf
  <2>3. \A b \in job[t].from..Best : keyAt[b] \in BOOLEAN
    <3>1. keyAt \in [1..Len(keyAt) -> BOOLEAN] /\ Len(keyAt) \in Nat
      BY <2>1, LenProperties
    <3> TAKE b \in job[t].from..Best
    <3>2. b \in 1..Len(keyAt)
      BY <2>1, <2>2, <3>1
    <3> QED
      BY <3>1, <3>2, Zenon
  <2>4. CASE job[t].out = "present"
    <3>1. PICK b \in job[t].from..Best : keyAt[b]
      BY <2>1, <2>4 DEF ReadOf
    <3> QED
      BY <2>3, <2>4, <3>1, Zenon
  <2>5. CASE job[t].out = "absent"
    <3>1. PICK b \in job[t].from..Best : ~keyAt[b]
      BY <2>1, <2>5 DEF ReadOf
    <3>2. ~(job[t].out = "present")
      BY <2>5
    <3> QED
      BY <2>3, <3>1, <3>2, Zenon
  <2> QED
    BY <2>4, <2>5
<1> QED
  BY <1>1, <1>2

\* The door is faithful: a payload reaches the guarantors at most once, whatever
\* breaks and whichever cores refuse, the outcome that chain.py reports of it is
\* true, and a read says what a block's state said while it ran.
THEOREM AccessIsFaithful == AccessSpec => []AccessFaithful
<1>1. AccessSpec => []AccessIInv
  BY AccessInitially, AccessStep, PTL DEF AccessSpec
<1> QED
  BY <1>1, AccessImplies, PTL

-----------------------------------------------------------------------------
(***************************************************************************)
(* What the builder calls final is final: its test of whether finality     *)
(* advances, and the receipts it shows.                                    *)
(*                                                                         *)
(* Finality replaces the settle hold only while it really advances: for    *)
(* every window, hold and cache time, and whoever looks when.              *)
(*                                                                         *)
(* FinalityTrusted is not inductive.  That an answer "advancing" is recent *)
(* needs to know that what _fin_track calls a move lies before the real    *)
(* one (MoveDatedEarly); that a judgement without a look by others in      *)
(* between cannot answer "no" and then "yes" needs the cache to hold the   *)
(* first answer (FirstAnswerHolds).                                        *)
(*                                                                         *)
(* ReceiptsTrue holds for any rounds, re-orgs and restarts.  That the tape *)
(* prints no round twice in a process rests on the volume mark, which is   *)
(* never above what landed since it started (MarkWasReached), and on the   *)
(* best chain having no round twice (BestLanded); over restarts every      *)
(* print has a landing, and so has what is still to be printed.            *)
(***************************************************************************)

Time == Nat \cup {Never}

FinalityTypeOK ==
    /\ time \in Nat /\ headFinal \in Nat \ {0} /\ movedAt \in Int /\ home \in Nat /\ readsFinal \in BOOLEAN
    /\ looked \in [t : Time, available : BOOLEAN]
    /\ track \in [key : Nat, seen : Time, moved : Time]
    /\ okSince \in Time
    /\ judge \in [at : {"idle", "asks", "hold"}, now : Nat, yes : BOOLEAN, other : BOOLEAN]
    /\ receipted \in [how : {"no", "held", "final"}, held : Int, final : BOOLEAN, other : BOOLEAN]

\* Nothing is stamped later than the clock.
StampsPast ==
    movedAt <= time /\ track.seen <= time /\ track.moved <= time /\ judge.now <= time

\* A move that _fin_track has dated, or is about to date at its last look, is
\* dated no later than the finalized head really moved.
MoveDatedEarly ==
    /\ track.moved # Never => movedAt >= track.moved
    /\ track.key \notin {0, headFinal} => movedAt >= track.seen

\* What _finality_advancing answers at time t from what is remembered.
SaysAdvancing(t) ==
    looked.available /\ track.moved # Never /\ t - track.moved <= FINALITY_WINDOW

\* Between the two questions of a judgement that nobody interrupts, the cache
\* still holds the look that answered no.
FirstAnswerHolds ==
    (judge.at = "hold" /\ readsFinal /\ ~judge.other) =>
        Remembered(judge.now) /\ ~SaysAdvancing(judge.now)

FinalityIInv ==
    FinalityTypeOK /\ StampsPast /\ MoveDatedEarly /\ FirstAnswerHolds /\ FinalityTrusted

-----------------------------------------------------------------------------
\* A look at time t, no later than the clock, keeps what is remembered well
\* typed, in the past and dated early; afterwards it is remembered at t.
LEMMA LookKeeps ==
    ASSUME FinalityTypeOK, StampsPast, MoveDatedEarly,
           NEW t \in Nat, t <= time, NEW answers \in BOOLEAN,
           ReadFinality(t, answers), UNCHANGED ledgerSide
    PROVE  /\ looked' \in [t : Time, available : BOOLEAN]
           /\ track' \in [key : Nat, seen : Time, moved : Time]
           /\ track'.seen <= time /\ track'.moved <= time
           /\ MoveDatedEarly'
           /\ Remembered(t)'
           /\ Remembered(t) => UNCHANGED <<looked, track>>
<1> USE FinalityAssumption DEF Time, Never, ledgerSide
<1>1. CASE Remembered(t)
  BY <1>1 DEF ReadFinality, Remembered, FinalityTypeOK, StampsPast, MoveDatedEarly
<1>2. CASE ~Remembered(t)
  <2>1. looked' = [t |-> t, available |-> answers]
    BY <1>2 DEF ReadFinality
  <2>2. CASE ~answers
    BY <1>2, <2>1, <2>2 DEF ReadFinality, Remembered, FinalityTypeOK, StampsPast, MoveDatedEarly
  <2>3. CASE answers
    <3>1. track' = Track(t)
      BY <1>2, <2>3 DEF ReadFinality
    <3> QED
      BY <1>2, <2>1, <3>1 DEF Track, Remembered, FinalityTypeOK, StampsPast, MoveDatedEarly
  <2> QED
    BY <2>2, <2>3
<1> QED
  BY <1>1, <1>2

LEMMA FinalityInitially == FinalityInit => FinalityIInv
BY FinalityAssumption
   DEF FinalityInit, FinalityIInv, FinalityTypeOK, StampsPast, MoveDatedEarly, FirstAnswerHolds, FinalityTrusted,
       AdvancingIsRecent, HeldOrFinal, Time, Never, NoJudge, NotYet

\* Every step keeps the invariant.
LEMMA FinalityStep == FinalityIInv /\ [FinalityNext]_finalityVars => FinalityIInv'
<1> SUFFICES ASSUME FinalityIInv, [FinalityNext]_finalityVars
             PROVE  FinalityIInv'
  OBVIOUS
<1> USE FinalityAssumption DEF Time, Never
<1> USE DEF FinalityIInv, FinalityTrusted
<1>1. ASSUME NEW answers \in BOOLEAN, Looks(answers)
      PROVE  FinalityIInv'
  <2>1. /\ looked' \in [t : Time, available : BOOLEAN]
        /\ track' \in [key : Nat, seen : Time, moved : Time]
        /\ track'.seen <= time /\ track'.moved <= time
        /\ MoveDatedEarly'
    BY <1>1, LookKeeps DEF Looks, FinalityTypeOK
  <2>2. judge' = [judge EXCEPT !.other = judge.at = "hold"] /\ UNCHANGED <<ledgerSide, okSince, receipted>>
    BY <1>1 DEF Looks
  <2>3. FinalityTypeOK' /\ StampsPast'
    BY <2>1, <2>2 DEF FinalityTypeOK, StampsPast, ledgerSide
  <2>4. FirstAnswerHolds' /\ AdvancingIsRecent' /\ HeldOrFinal'
    BY <2>2 DEF FirstAnswerHolds, AdvancingIsRecent, HeldOrFinal, FinalityTypeOK, ledgerSide
  <2> QED
    BY <2>1, <2>3, <2>4
<1>2. ASSUME NEW answers \in BOOLEAN, AsksAdvancing(answers)
      PROVE  FinalityIInv'
  <2>1. /\ looked' \in [t : Time, available : BOOLEAN]
        /\ track' \in [key : Nat, seen : Time, moved : Time]
        /\ track'.seen <= time /\ track'.moved <= time
        /\ MoveDatedEarly'
        /\ Remembered(judge.now)'
    BY <1>2, LookKeeps DEF AsksAdvancing, FinalityTypeOK, StampsPast
  <2> DEFINE yes == Advancing(judge.now)
  <2>2. /\ judge' = [judge EXCEPT !.at = IF yes THEN "idle" ELSE "hold", !.yes = yes]
        /\ UNCHANGED <<ledgerSide, okSince, receipted>>
    BY <1>2 DEF AsksAdvancing
  <2>3. yes \in BOOLEAN
    BY <2>1 DEF Advancing
  <2>4. FinalityTypeOK' /\ StampsPast'
    BY <2>1, <2>2, <2>3 DEF FinalityTypeOK, StampsPast, ledgerSide
  <2>5. yes => movedAt >= judge.now - FINALITY_WINDOW
    BY <2>1, <2>2 DEF Advancing, MoveDatedEarly, FinalityTypeOK, ledgerSide
  <2>6. ~yes => ~SaysAdvancing(judge.now)'
    BY <2>1, <2>2 DEF Advancing, SaysAdvancing, FinalityTypeOK
  <2>7. FirstAnswerHolds' /\ AdvancingIsRecent' /\ HeldOrFinal'
    BY <2>1, <2>2, <2>5, <2>6 DEF FirstAnswerHolds, AdvancingIsRecent, HeldOrFinal, FinalityTypeOK, ledgerSide
  <2> QED
    BY <2>1, <2>4, <2>7
<1>3. ASSUME NEW answers \in BOOLEAN, AsksHold(answers)
      PROVE  FinalityIInv'
  <2>1. /\ looked' \in [t : Time, available : BOOLEAN]
        /\ track' \in [key : Nat, seen : Time, moved : Time]
        /\ track'.seen <= time /\ track'.moved <= time
        /\ MoveDatedEarly'
        /\ Remembered(judge.now) => UNCHANGED <<looked, track>>
    BY <1>3, LookKeeps DEF AsksHold, FinalityTypeOK, StampsPast
  <2> DEFINE yes == Advancing(judge.now)
             span == judge.now - okSince
             settled == span >= SettleHold(yes) /\ span >= MIN_CONFIRM
  <2>2. /\ judge.at = "hold"
        /\ judge' = [judge EXCEPT !.at = "idle", !.yes = yes]
        /\ receipted' = IF settled
                        THEN [how |-> "held", held |-> span, final |-> home \in 1 .. headFinal, other |-> judge.other]
                        ELSE receipted
        /\ UNCHANGED <<ledgerSide, okSince>>
    BY <1>3 DEF AsksHold
  <2>3. yes \in BOOLEAN /\ span \in Int
    BY <2>1 DEF Advancing, FinalityTypeOK
  <2>4. FinalityTypeOK' /\ StampsPast'
    <3>1. (home \in 1 .. headFinal) \in BOOLEAN
      OBVIOUS
    <3>2. receipted' \in [how : {"no", "held", "final"}, held : Int, final : BOOLEAN, other : BOOLEAN]
      BY <2>2, <2>3, <3>1 DEF FinalityTypeOK
    <3>3. judge' \in [at : {"idle", "asks", "hold"}, now : Nat, yes : BOOLEAN, other : BOOLEAN]
          /\ judge'.now = judge.now
      BY <2>2, <2>3 DEF FinalityTypeOK
    <3> QED
      BY <2>1, <2>2, <3>2, <3>3 DEF FinalityTypeOK, StampsPast, ledgerSide
  <2>5. yes => movedAt >= judge.now - FINALITY_WINDOW
    BY <2>1, <2>2 DEF Advancing, MoveDatedEarly, FinalityTypeOK, ledgerSide
  <2>6. readsFinal /\ ~judge.other => ~yes
    BY <2>1, <2>2 DEF FirstAnswerHolds, Advancing, SaysAdvancing
  <2>7. HeldOrFinal'
    BY <2>2, <2>3, <2>6 DEF HeldOrFinal, SettleHold, FinalityTypeOK, ledgerSide
  <2>8. FirstAnswerHolds' /\ AdvancingIsRecent'
    BY <2>2, <2>5 DEF FirstAnswerHolds, AdvancingIsRecent, FinalityTypeOK, ledgerSide
  <2> QED
    BY <2>1, <2>4, <2>7, <2>8
<1>4. ASSUME Sights
      PROVE  FinalityIInv'
  BY <1>4 DEF Sights, FinalityTypeOK, StampsPast, MoveDatedEarly, FirstAnswerHolds, AdvancingIsRecent,
              HeldOrFinal, Remembered, SaysAdvancing, ledgerSide
<1>5. ASSUME ReadsMarker, receipted = NotYet
      PROVE  FinalityIInv'
  <2>1. UNCHANGED <<ledgerSide, looked, track, okSince>>
    BY <1>5 DEF ReadsMarker
  <2>2. CASE readsFinal /\ home <= headFinal
    <3>1. judge' = judge /\ receipted' = [how |-> "final", held |-> 0, final |-> TRUE, other |-> FALSE]
      BY <1>5, <2>2 DEF ReadsMarker, NotYet
    <3> QED
      BY <2>1, <3>1 DEF FinalityTypeOK, StampsPast, MoveDatedEarly, FirstAnswerHolds, AdvancingIsRecent,
                        HeldOrFinal, Remembered, SaysAdvancing, ledgerSide
  <2>3. CASE ~(readsFinal /\ home <= headFinal)
    <3>1. /\ judge' = [at |-> IF readsFinal THEN "asks" ELSE "hold", now |-> time, yes |-> FALSE, other |-> FALSE]
          /\ receipted' = receipted
      BY <1>5, <2>3 DEF ReadsMarker, NoJudge
    <3>2. FinalityTypeOK' /\ StampsPast' /\ MoveDatedEarly'
      BY <2>1, <3>1 DEF FinalityTypeOK, StampsPast, MoveDatedEarly, ledgerSide
    <3>3. FirstAnswerHolds' /\ AdvancingIsRecent' /\ HeldOrFinal'
      BY <2>1, <3>1 DEF FirstAnswerHolds, AdvancingIsRecent, HeldOrFinal, ledgerSide
    <3> QED
      BY <3>2, <3>3
  <2> QED
    BY <2>2, <2>3
<1>6. ASSUME ChainMoves
      PROVE  FinalityIInv'
  <2>1. UNCHANGED <<looked, track, okSince, judge, receipted, readsFinal>>
    BY <1>6 DEF ChainMoves, TimeGoesOn, FinalityMoves, RoundIsHome, RoundReverted
  <2>2. FirstAnswerHolds' /\ HeldOrFinal'
    BY <2>1 DEF FirstAnswerHolds, HeldOrFinal, Remembered, SaysAdvancing
  <2>3. /\ time' \in Nat /\ time <= time'
        /\ headFinal' \in Nat \ {0} /\ home' \in Nat
        /\ \/ headFinal' = headFinal /\ movedAt' = movedAt
           \/ movedAt' = time /\ time' = time
    BY <1>6 DEF ChainMoves, TimeGoesOn, FinalityMoves, RoundIsHome, RoundReverted, FinalityTypeOK
  <2>4. FinalityTypeOK'
    BY <2>1, <2>3 DEF FinalityTypeOK
  <2>5. StampsPast' /\ AdvancingIsRecent'
    BY <2>1, <2>3 DEF FinalityTypeOK, StampsPast, AdvancingIsRecent
  <2>6. MoveDatedEarly'
    BY <2>1, <2>3 DEF FinalityTypeOK, StampsPast, MoveDatedEarly
  <2> QED
    BY <2>2, <2>4, <2>5, <2>6
<1>7. CASE UNCHANGED finalityVars
  BY <1>7 DEF finalityVars, ledgerSide, FinalityTypeOK, StampsPast, MoveDatedEarly, FirstAnswerHolds,
              AdvancingIsRecent, HeldOrFinal, Remembered, SaysAdvancing
<1> QED
  BY <1>1, <1>2, <1>3, <1>4, <1>5, <1>6, <1>7 DEF FinalityNext

-----------------------------------------------------------------------------
(***************************************************************************)
(* The cache, the tracked head and a judgement keep their types.           *)
(***************************************************************************)
THEOREM FinalityTyped == FinalitySpec => []FinalityTypeOK
<1>1. FinalityIInv => FinalityTypeOK
  BY DEF FinalityIInv
<1> QED
  BY <1>1, FinalityInitially, FinalityStep, PTL DEF FinalitySpec

(***************************************************************************)
(* _finality_advancing never calls a stalled finality fresh, and a backend *)
(* that reads the finalized state receipts a round that is not final only  *)
(* after the whole settle hold, unless another thread looked between the   *)
(* two questions of the judgement.                                         *)
(***************************************************************************)
THEOREM FinalityIsTrusted == FinalitySpec => []FinalityTrusted
<1>1. FinalityIInv => FinalityTrusted
  BY DEF FinalityIInv
<1> QED
  BY <1>1, FinalityInitially, FinalityStep, PTL DEF FinalitySpec

-----------------------------------------------------------------------------
(* The trade tape and the fill receipts (Receipts).                        *)

Receipt == [round : Fills, final : BOOLEAN]

ReceiptsTypeOK ==
    /\ best \in Seq(Fills) /\ final \in 0..Len(best) /\ last \in Int /\ last >= Unseen /\ tape \in Int
    /\ kept \in Int /\ landings \in Nat
    /\ execs \subseteq Receipt /\ file \subseteq Receipt

\* No round is twice on the best chain, and every one there has landed since the
\* process started.
BestLanded ==
    /\ \A i, j \in 1..Len(best) : best[i] = best[j] => i = j
    /\ IsFiniteSet(landed) /\ \A i \in 1..Len(best) : best[i] \in landed

\* The volume mark is what the best chain once had since the start; the process
\* found so much on the tape and what it added grew with the mark.  A landing is
\* left for what the chain has above the mark.
MarkWasReached ==
    /\ last <= Cardinality(landed)
    /\ tape - kept <= IF last < 0 THEN 0 ELSE last
    /\ tape <= landings
    /\ last # Unseen => tape + Len(best) - last <= landings

ReceiptsIInv == ReceiptsTypeOK /\ BestLanded /\ MarkWasReached /\ FinalMeansFinal

-----------------------------------------------------------------------------
\* The best chain is no longer than the rounds that landed are many.
LEMMA BestIsCounted ==
    ASSUME ReceiptsTypeOK, BestLanded
    PROVE  Len(best) \in Nat /\ Cardinality(landed) \in Nat /\ Len(best) <= Cardinality(landed)
<1> DEFINE n == Len(best)
<1>1. n \in Nat /\ best \in [1..n -> Fills]
  BY LenProperties DEF ReceiptsTypeOK
<1>2. best \in Injection(1..n, landed)
  BY <1>1 DEF BestLanded, Injection, IsInjective
<1>3. Cardinality(1..n) <= Cardinality(landed)
  BY <1>2, FS_Injection DEF BestLanded
<1>4. Cardinality(1..n) = n
  BY <1>1, FS_Interval
<1>5. Cardinality(landed) \in Nat
  BY FS_CardinalityType DEF BestLanded
<1> QED
  BY <1>1, <1>3, <1>4, <1>5

\* What is final stays final while the finalized part of the chain stays.
LEMMA FinalStays ==
    ASSUME ReceiptsTypeOK, FinalMeansFinal, final' \in Int, final <= final',
           \A i \in 1..final : best'[i] = best[i],
           \A x \in execs' \cup file' : x \in execs \cup file
    PROVE  FinalMeansFinal'
<1> SUFFICES ASSUME NEW e \in execs' \cup file', e.final PROVE MarkerFinal(e.round)'
  BY DEF FinalMeansFinal
<1>1. MarkerFinal(e.round)
  BY DEF FinalMeansFinal
<1>2. PICK i \in 1..final : best[i] = e.round
  BY <1>1 DEF MarkerFinal
<1>3. i \in 1..final' /\ best'[i] = e.round
  BY <1>2 DEF ReceiptsTypeOK
<1> QED
  BY <1>3 DEF MarkerFinal

LEMMA ReceiptsInitially == ReceiptsInit => ReceiptsIInv
<1> SUFFICES ASSUME ReceiptsInit PROVE ReceiptsIInv
  OBVIOUS
<1>1. ReceiptsTypeOK /\ FinalMeansFinal
  BY DEF ReceiptsInit, ReceiptsTypeOK, FinalMeansFinal, Unseen
<1>2. BestLanded /\ MarkWasReached
  BY FS_EmptySet DEF ReceiptsInit, BestLanded, MarkWasReached, Unseen
<1> QED
  BY <1>1, <1>2 DEF ReceiptsIInv

\* The chain settles a round, finalizes one, or loses those that are not final.
LEMMA BestChainMoves ==
    ASSUME ReceiptsIInv,
           (\E r \in Fills : Settles(r)) \/ Finalizes \/ (\E n \in 0..Len(best) : Reorganises(n))
    PROVE  ReceiptsIInv'
<1> USE DEF ReceiptsIInv
<1>1. Len(best) \in Nat /\ Cardinality(landed) \in Nat /\ best \in Seq(Fills) /\ final \in 0..Len(best)
  BY BestIsCounted DEF ReceiptsTypeOK
<1>2. ASSUME NEW r \in Fills, Settles(r) PROVE ReceiptsIInv'
  <2>1. /\ best' = Append(best, r) /\ landed' = landed \cup {r}
        /\ landings' = landings + 1 /\ UNCHANGED <<final, last, tape, execs, file, kept>>
        /\ \A i \in 1..Len(best) : best[i] # r
    BY <1>2 DEF Settles, Contains
  <2>2. /\ best' \in Seq(Fills) /\ Len(best') = Len(best) + 1 /\ best'[Len(best) + 1] = r
        /\ \A i \in 1..Len(best) : best'[i] = best[i]
    <3>1. best \in Seq(Fills)
      BY <1>1
    <3>2. /\ Append(best, r) \in Seq(Fills) /\ Len(Append(best, r)) = Len(best) + 1
          /\ Append(best, r)[Len(best) + 1] = r
          /\ \A i \in 1..Len(best) : Append(best, r)[i] = best[i]
      BY <3>1, AppendProperties
    <3>3. best' = Append(best, r)
      BY <2>1
    <3> QED
      BY <3>2, <3>3
  <2>3. ReceiptsTypeOK'
    BY <1>1, <2>1, <2>2 DEF ReceiptsTypeOK
  <2>4. IsFiniteSet(landed') /\ Cardinality(landed') >= Cardinality(landed) /\ Cardinality(landed') \in Nat
    <3>1. IsFiniteSet(landed) /\ landed' = landed \cup {r}
      BY <2>1 DEF BestLanded
    <3>2. /\ IsFiniteSet(landed')
          /\ Cardinality(landed') = IF r \in landed THEN Cardinality(landed) ELSE Cardinality(landed) + 1
      BY <3>1, FS_AddElement
    <3> QED
      BY <1>1, <3>2
  <2>5. BestLanded'
    <3>1. /\ \A i, j \in 1..Len(best) : best[i] = best[j] => i = j
          /\ \A i \in 1..Len(best) : best[i] \in landed
      BY DEF BestLanded
    <3>2. \A i \in 1..Len(best') : i \in 1..Len(best) \/ i = Len(best) + 1
      BY <1>1, <2>2
    <3>3. \A i \in 1..Len(best') : best'[i] \in landed'
      BY <2>1, <2>2, <3>1, <3>2
    <3>4. \A i, j \in 1..Len(best') : best'[i] = best'[j] => i = j
      BY <2>1, <2>2, <3>1, <3>2
    <3> QED
      BY <2>4, <3>3, <3>4 DEF BestLanded
  <2>6. MarkWasReached'
    BY <1>1, <2>1, <2>2, <2>4 DEF MarkWasReached, ReceiptsTypeOK
  <2>7. FinalMeansFinal'
    <3>1. \A i \in 1..final : best'[i] = best[i]
      BY <1>1, <2>2
    <3> QED
      BY <1>1, <2>1, <3>1, FinalStays
  <2> QED
    BY <2>3, <2>5, <2>6, <2>7
<1>3. CASE Finalizes
  <2>1. final' = final + 1 /\ final < Len(best) /\ UNCHANGED <<best, last, tape, execs, file, kept, landed, landings>>
    BY <1>3 DEF Finalizes
  <2>4. final' \in 0..Len(best)
    BY <1>1, <2>1
  <2>5. ReceiptsTypeOK'
    BY <2>1, <2>4 DEF ReceiptsTypeOK
  <2>2. ReceiptsTypeOK' /\ BestLanded' /\ MarkWasReached'
    BY <2>1, <2>5 DEF BestLanded, MarkWasReached
  <2>3. FinalMeansFinal'
    BY <1>1, <2>1, FinalStays
  <2> QED
    BY <2>2, <2>3
<1>4. ASSUME NEW n \in 0..Len(best), Reorganises(n) PROVE ReceiptsIInv'
  <2>1. /\ best' = SubSeq(best, 1, n) /\ n \in final..(Len(best) - 1)
        /\ UNCHANGED <<final, last, tape, execs, file, kept, landed, landings>>
    BY <1>4 DEF Reorganises
  <2>2. best' \in Seq(Fills) /\ Len(best') = n /\ \A i \in 1..n : best'[i] = best[i]
    BY <1>1, <2>1
  <2>3. ReceiptsTypeOK'
    BY <1>1, <2>1, <2>2 DEF ReceiptsTypeOK
  <2>4. BestLanded'
    BY <1>1, <2>1, <2>2 DEF BestLanded
  <2>5. MarkWasReached'
    BY <1>1, <2>1, <2>2 DEF MarkWasReached, ReceiptsTypeOK
  <2>6. FinalMeansFinal'
    <3>1. \A i \in 1..final : best'[i] = best[i]
      BY <1>1, <2>1, <2>2
    <3> QED
      BY <1>1, <2>1, <3>1, FinalStays
  <2> QED
    BY <2>3, <2>4, <2>5, <2>6
<1> QED
  BY <1>2, <1>3, <1>4

\* Receipts are recorded and refreshed.
LEMMA ReceiptWritten ==
    ASSUME ReceiptsIInv, execs' \subseteq Receipt, file' \in {execs', file},
           \A x \in execs' : x.final => MarkerFinal(x.round),
           UNCHANGED <<chainSide, last, tape>>
    PROVE  ReceiptsIInv'
<1> USE DEF ReceiptsIInv, chainSide
<1>1. ReceiptsTypeOK' /\ BestLanded' /\ MarkWasReached'
  BY DEF ReceiptsTypeOK, BestLanded, MarkWasReached
<1>2. FinalMeansFinal'
  BY DEF FinalMeansFinal, MarkerFinal
<1> QED
  BY <1>1, <1>2

LEMMA ReceiptsStep == ReceiptsIInv /\ [ReceiptsNext]_receiptVars => ReceiptsIInv'
<1> SUFFICES ASSUME ReceiptsIInv, [ReceiptsNext]_receiptVars PROVE ReceiptsIInv'
  OBVIOUS
<1>1. Len(best) \in Nat /\ Cardinality(landed) \in Nat /\ Len(best) <= Cardinality(landed)
  BY BestIsCounted DEF ReceiptsIInv
<1>2. execs \subseteq Receipt /\ file \subseteq Receipt /\ \A e \in execs : e.final => MarkerFinal(e.round)
  BY DEF ReceiptsIInv, ReceiptsTypeOK, FinalMeansFinal
<1>3. ASSUME NEW r \in Fills, NEW readable \in BOOLEAN, RecordExecution(r, readable) PROVE ReceiptsIInv'
  <2>1. PICK b \in BOOLEAN : (b => MarkerFinal(r)) /\ execs' = execs \cup {[round |-> r, final |-> b]}
    <3>1. (readable /\ MarkerFinal(r)) \in BOOLEAN
      OBVIOUS
    <3> QED
      BY <1>3, <3>1, Zenon DEF RecordExecution
  <2>2. [round |-> r, final |-> b] \in Receipt
    BY <2>1 DEF Receipt
  <2>3. \A x \in execs' : x \in Receipt /\ (x.final => MarkerFinal(x.round))
    BY <1>2, <2>1, <2>2
  <2>4. file' = execs' /\ UNCHANGED <<chainSide, last, tape>>
    BY <1>3 DEF RecordExecution
  <2> QED
    BY <2>3, <2>4, ReceiptWritten
<1>4. ASSUME NEW shown \in SUBSET {e \in execs : ~e.final}, RefreshFinal(shown) PROVE ReceiptsIInv'
  <2>1. execs' = {[e EXCEPT !.final = @ \/ (e \in shown /\ MarkerFinal(e.round))] : e \in execs}
    BY <1>4 DEF RefreshFinal
  <2>2. \A x \in execs' : x \in Receipt /\ (x.final => MarkerFinal(x.round))
    <3> TAKE x \in execs'
    <3>1. PICK e \in execs : x = [e EXCEPT !.final = e.final \/ (e \in shown /\ MarkerFinal(e.round))]
      BY <2>1
    <3>2. PICK b \in BOOLEAN : x = [e EXCEPT !.final = b] /\ (b => e.final \/ MarkerFinal(e.round))
      <4>1. (e.final \/ (e \in shown /\ MarkerFinal(e.round))) \in BOOLEAN
        OBVIOUS
      <4> QED
        BY <3>1, <4>1, Zenon
    <3>3. e \in Receipt
      BY <1>2
    <3>4. x \in Receipt /\ x.round = e.round /\ x.final = b
      BY <3>2, <3>3 DEF Receipt
    <3> QED
      BY <1>2, <3>2, <3>4, Zenon
  <2>3. file' \in {execs', file} /\ UNCHANGED <<chainSide, last, tape>>
    BY <1>4 DEF RefreshFinal
  <2> QED
    BY <2>2, <2>3, ReceiptWritten
<1>5. CASE RecordTrade
  <2>1. /\ last' = IF Len(best) > last THEN Len(best) ELSE last
        /\ tape' = IF last # Unseen /\ Len(best) > last THEN tape + Len(best) - last ELSE tape
        /\ UNCHANGED <<best, final, kept, landed, landings, execs, file>>
    BY <1>5 DEF RecordTrade, chainSide
  <2>2. /\ last \in Int /\ last >= Unseen /\ tape \in Int /\ kept \in Int /\ landings \in Nat /\ MarkWasReached
    BY DEF ReceiptsIInv, ReceiptsTypeOK, MarkWasReached
  <2>3. last' \in Int /\ last' >= Unseen /\ tape' \in Int /\ MarkWasReached'
    BY <1>1, <2>1, <2>2 DEF MarkWasReached, Unseen
  <2>4. ReceiptsTypeOK' /\ BestLanded' /\ FinalMeansFinal'
    BY <2>1, <2>3 DEF ReceiptsIInv, ReceiptsTypeOK, BestLanded, FinalMeansFinal, MarkerFinal
  <2> QED
    BY <2>3, <2>4 DEF ReceiptsIInv
<1>6. ASSUME NEW tapeLost \in BOOLEAN, NEW execsLost \in BOOLEAN, Restarts(tapeLost, execsLost) PROVE ReceiptsIInv'
  <2>1. /\ last' = Unseen /\ tape' \in {0, tape} /\ kept' = tape' /\ execs' \subseteq file /\ landed' = ToSet(best)
        /\ UNCHANGED <<best, final, file, landings>>
    BY <1>6 DEF Restarts
  <2>2. best \in [1..Len(best) -> Fills]
    <3>1. best \in Seq(Fills)
      BY DEF ReceiptsIInv, ReceiptsTypeOK
    <3> QED
      BY <3>1, LenProperties
  <2>3. landed' \subseteq landed /\ \A i \in 1..Len(best) : best[i] \in landed'
    BY <2>1, <2>2 DEF ToSet, ReceiptsIInv, BestLanded
  <2>4. IsFiniteSet(landed') /\ Cardinality(landed') \in Nat
    BY <2>3, FS_Subset, FS_CardinalityType DEF ReceiptsIInv, BestLanded
  <2>7. ReceiptsTypeOK'
    BY <1>2, <2>1 DEF ReceiptsIInv, ReceiptsTypeOK, Unseen
  <2>8. tape \in Int /\ landings \in Nat /\ tape <= landings
    BY DEF ReceiptsIInv, ReceiptsTypeOK, MarkWasReached
  <2>10. tape' \in Int /\ tape' <= landings
    <3>1. CASE tape' = 0
      BY <2>8, <3>1
    <3>2. CASE tape' = tape
      BY <2>8, <3>2
    <3> QED
      BY <2>1, <3>1, <3>2
  <2>11. last' = -1 /\ last' <= Cardinality(landed')
    BY <2>1, <2>4 DEF Unseen
  <2>12. tape' - kept' <= IF last' < 0 THEN 0 ELSE last'
    <3>1. \A t, k \in Int : k = t => t - k <= 0
      OBVIOUS
    <3>2. tape' - kept' <= 0
      BY <2>1, <2>10, <3>1
    <3> QED
      BY <2>11, <3>2
  <2>13. landings' = landings /\ last' = Unseen
    BY <2>1
  <2>9. MarkWasReached'
    BY <2>10, <2>11, <2>12, <2>13, Zenon DEF MarkWasReached
  <2>5. ReceiptsTypeOK' /\ BestLanded' /\ MarkWasReached'
    BY <2>1, <2>3, <2>4, <2>7, <2>9 DEF ReceiptsIInv, BestLanded
  <2>6. FinalMeansFinal'
    BY <2>1 DEF ReceiptsIInv, FinalMeansFinal, MarkerFinal
  <2> QED
    BY <2>5, <2>6 DEF ReceiptsIInv
<1>7. CASE UNCHANGED receiptVars
  BY <1>7 DEF receiptVars, ReceiptsIInv, ReceiptsTypeOK, BestLanded, MarkWasReached, FinalMeansFinal, MarkerFinal
<1> QED
  BY <1>3, <1>4, <1>5, <1>6, <1>7, BestChainMoves DEF ReceiptsNext

\* What traders are shown of settled rounds is true: record_trade prints a round
\* once per process and never more than landed, over restarts that read the tape
\* back, and a receipt that _refresh_final calls final is final and stays so,
\* across re-organisations and restarts.
THEOREM ReceiptsAreTrue == ReceiptsSpec => []ReceiptsTrue
<1>1. ReceiptsIInv => ReceiptsTrue
  <2> SUFFICES ASSUME ReceiptsIInv PROVE TapeCountsOnce /\ FinalMeansFinal
    BY DEF ReceiptsTrue
  <2>1. Cardinality(landed) \in Nat
    BY BestIsCounted DEF ReceiptsIInv
  <2> QED
    BY <2>1 DEF ReceiptsIInv, ReceiptsTypeOK, MarkWasReached, TapeCountsOnce
<1>2. ReceiptsSpec => []ReceiptsIInv
  BY ReceiptsInitially, ReceiptsStep, PTL DEF ReceiptsSpec
<1> QED
  BY <1>1, <1>2, PTL

-----------------------------------------------------------------------------
(***************************************************************************)
(* An order reported cancelled was not filled, for any number of orders    *)
(* and rounds and however the chain, the resolver and the watch interleave.*)
(*                                                                         *)
(* The property is not inductive.  What makes it hold is spread over three *)
(* reads: a round lands only on the book it was built on (BuiltOnBook); a  *)
(* fill shows either in the order's terminals or in a landed round that is *)
(* not settled (FillShows); and once the cancel has used its nonce the     *)
(* order is off the book for good (UsedIsGone), so what the first two      *)
(* reads excluded stays excluded until the third (CheckedIsSafe).          *)
(***************************************************************************)

Outcome == {"filled", "expired", "cancelled"}
RoundRecord ==
    [id : Nat, input : Nat, fills : SUBSET Resting, gone : SUBSET Resting, pruned : SUBSET Resting,
     landed : BOOLEAN, released : BOOLEAN]

CancelTypeOK ==
    /\ book \subseteq Resting /\ version \in Nat /\ used \subseteq Resting /\ taken \subseteq Resting
    /\ filled \subseteq Resting /\ removed \subseteq Resting
    /\ rounds \subseteq RoundRecord /\ built \in Nat
    /\ watch \subseteq [order : Resting, checked : BOOLEAN]
    /\ ends \in [Resting -> Seq(Outcome)]

\* A round whose book is still the chain's takes from what is there; no round
\* was built on a book that is yet to come.
BuiltOnBook ==
    \A r \in rounds : /\ r.gone \subseteq r.fills
                      /\ r.input <= version
                      /\ r.input = version => r.fills \cup r.pruned \subseteq book

\* A filled order has left the book, and its terminals or a landed round say so.
FillShows ==
    \A o \in filled : /\ o \notin book
                      /\ ~Open(o) \/ \E r \in rounds : r.landed /\ o \in r.gone

\* A cancel that used its nonce leaves no order on the book.
UsedIsGone == \A o \in used \ taken : o \notin book

\* What a checked watch has ruled out stays ruled out.
CheckedIsSafe ==
    \A c \in watch : c.checked =>
        /\ c.order \in used
        /\ c.order \in filled \ taken => ~Open(c.order)

\* "cancelled" is the first terminal of an order that is off the book.
CancelledFirst ==
    \A o \in Resting : \A i \in 1..Len(ends[o]) :
        ends[o][i] = "cancelled" => i = 1 /\ o \notin book /\ o \notin filled \ taken

CancelIInv == CancelTypeOK /\ BuiltOnBook /\ FillShows /\ UsedIsGone /\ CheckedIsSafe /\ CancelledFirst

-----------------------------------------------------------------------------
LEMMA CancelInitially == CancelInit => CancelIInv
BY DEF CancelInit, CancelIInv, CancelTypeOK, BuiltOnBook, FillShows, UsedIsGone, CheckedIsSafe, CancelledFirst

\* A terminal is put at the end: an order that had one keeps its first, and one
\* that gets its first is no longer open.
LEMMA EndedTerminals ==
    ASSUME NEW e \in [Resting -> Seq(Outcome)], NEW os, NEW x \in Outcome
    PROVE  /\ Ended(os, x, e) \in [Resting -> Seq(Outcome)]
           /\ \A o \in Resting \cap os : /\ Ended(os, x, e)[o] # <<>>
                                         /\ Len(Ended(os, x, e)[o]) = Len(e[o]) + 1
                                         /\ Ended(os, x, e)[o][Len(e[o]) + 1] = x
                                         /\ \A i \in 1..Len(e[o]) : Ended(os, x, e)[o][i] = e[o][i]
           /\ \A o \in Resting \ os : Ended(os, x, e)[o] = e[o]
BY DEF Ended

\* The steps that touch neither the book nor what was filled, reported or watched.
LEMMA QuietStep ==
    ASSUME CancelIInv, UNCHANGED <<book, version, filled, removed, ends>>,
           rounds' \subseteq RoundRecord, built' \in Nat,
           used' \subseteq Resting, taken' \subseteq Resting, used \subseteq used', taken \subseteq taken',
           used' \ used \subseteq taken',
           watch' \subseteq [order : Resting, checked : BOOLEAN],
           \A c \in watch' : c.checked => c \in watch,
           \A r \in rounds : r.landed => r \in rounds',
           BuiltOnBook'
    PROVE  CancelIInv'
<1>1. CancelTypeOK'
  BY DEF CancelIInv, CancelTypeOK
<1>2. FillShows'
  BY DEF CancelIInv, FillShows, Open
<1>3. UsedIsGone'
  BY DEF CancelIInv, UsedIsGone
<1>4. CheckedIsSafe'
  BY DEF CancelIInv, CheckedIsSafe, Open
<1>5. CancelledFirst'
  BY DEF CancelIInv, CancelledFirst
<1> QED
  BY <1>1, <1>2, <1>3, <1>4, <1>5 DEF CancelIInv

LEMMA CancelStep == CancelIInv /\ [CancelNext]_cancelVars => CancelIInv'
<1> SUFFICES ASSUME CancelIInv, [CancelNext]_cancelVars
             PROVE  CancelIInv'
  OBVIOUS
<1>0. CancelTypeOK /\ BuiltOnBook /\ FillShows /\ UsedIsGone /\ CheckedIsSafe /\ CancelledFirst
  BY DEF CancelIInv
<1>1. ASSUME NEW o \in Resting, NEW outcome \in Outcomes, ApiCancel(o, outcome)
      PROVE  CancelIInv'
  <2>1. UNCHANGED <<onChain, rounds, built, due, ends, lapsed>>
    BY <1>1 DEF ApiCancel
  <2> DEFINE d == [order |-> o, checked |-> FALSE]
  <2>2. watch' \subseteq watch \cup {d}
    BY <1>1 DEF ApiCancel
  <2>3. watch' \subseteq [order : Resting, checked : BOOLEAN]
    <3>1. d \in [order : Resting, checked : BOOLEAN]
      OBVIOUS
    <3> HIDE DEF d
    <3> QED
      BY <1>0, <2>2, <3>1 DEF CancelTypeOK
  <2>4. \A c \in watch' : c.checked => c \in watch
    BY <2>2
  <2>5. BuiltOnBook'
    BY <1>0, <2>1 DEF BuiltOnBook, onChain
  <2> QED
    BY <1>0, <2>1, <2>3, <2>4, <2>5, QuietStep DEF onChain, CancelTypeOK
<1>2. ASSUME NEW o \in Resting, CancelLands(o)
      PROVE  CancelIInv'
  <2>1. /\ used' = used \cup {o} /\ book' = book \ {o}
        /\ version' = IF o \in book THEN version + 1 ELSE version
        /\ UNCHANGED <<taken, filled, sent, rounds, built, watch, due, ends, lapsed>>
        /\ removed' = removed \cup ({o} \cap book)
    BY <1>2 DEF CancelLands
  <2>2. CancelTypeOK'
    BY <1>0, <2>1 DEF CancelTypeOK
  <2>3. BuiltOnBook'
    BY <1>0, <2>1 DEF BuiltOnBook, CancelTypeOK, RoundRecord
  <2>4. FillShows' /\ UsedIsGone'
    BY <1>0, <2>1 DEF FillShows, UsedIsGone, Open
  <2>5. CheckedIsSafe' /\ CancelledFirst'
    BY <1>0, <2>1 DEF CheckedIsSafe, CancelledFirst, Open
  <2> QED
    BY <2>2, <2>3, <2>4, <2>5 DEF CancelIInv
<1>3. ASSUME NEW o \in Resting, NonceTaken(o)
      PROVE  CancelIInv'
  <2>1. /\ used' = used \cup {o} /\ taken' = taken \cup {o}
        /\ UNCHANGED <<book, version, filled, removed, sent, rounds, built, watch, due, ends, lapsed>>
    BY <1>3 DEF NonceTaken
  <2>2. BuiltOnBook'
    BY <1>0, <2>1 DEF BuiltOnBook
  <2> QED
    BY <1>0, <2>1, <2>2, QuietStep DEF CancelTypeOK
<1>4. ASSUME NEW o \in Resting, Expires(o)
      PROVE  CancelIInv'
  <2>1. UNCHANGED <<onChain, sent, rounds, built, watch, ends, lapsed>>
    BY <1>4 DEF Expires
  <2>2. BuiltOnBook'
    BY <1>0, <2>1 DEF BuiltOnBook, onChain
  <2> QED
    BY <1>0, <2>1, <2>2, QuietStep DEF onChain, CancelTypeOK
<1>5. ASSUME NEW fills \in SUBSET Resting, NEW gone \in SUBSET Resting, BuildRound(fills, gone)
      PROVE  CancelIInv'
  <2> DEFINE r == [id |-> built, input |-> version, fills |-> fills, gone |-> gone,
                   pruned |-> book \cap due, landed |-> FALSE, released |-> FALSE]
  <2>1. /\ rounds' = rounds \cup {r} /\ built' = built + 1
        /\ gone \subseteq fills /\ fills \subseteq book \ due
        /\ UNCHANGED <<onChain, sent, watch, due, ends, lapsed>>
    BY <1>5 DEF BuildRound
  <2>2. r \in RoundRecord
    BY <1>0 DEF CancelTypeOK, RoundRecord
  <2>3. rounds' \subseteq RoundRecord /\ built' \in Nat
    <3> HIDE DEF r
    <3> QED
      BY <1>0, <2>1, <2>2 DEF CancelTypeOK
  <2>4. BuiltOnBook'
    BY <1>0, <2>1 DEF BuiltOnBook, onChain, CancelTypeOK
  <2> QED
    BY <1>0, <2>1, <2>3, <2>4, QuietStep DEF onChain, CancelTypeOK
<1>6. ASSUME NEW r \in rounds, RoundLands(r)
      PROVE  CancelIInv'
  <2> DEFINE s == [r EXCEPT !.landed = TRUE]
  <2>1. /\ ~r.landed /\ r.input = version
        /\ rounds' = (rounds \ {r}) \cup {s}
        /\ book' = book \ (r.gone \cup r.pruned) /\ version' = version + 1
        /\ filled' = filled \cup r.gone
        /\ UNCHANGED <<used, taken, removed, sent, built, watch, due, ends, lapsed>>
    BY <1>6 DEF RoundLands
  <2>2. /\ r \in RoundRecord /\ s \in RoundRecord /\ s.landed
        /\ s.gone = r.gone /\ s.fills = r.fills /\ s.pruned = r.pruned /\ s.input = r.input
    BY <1>0 DEF CancelTypeOK, RoundRecord
  <2>3. r.gone \subseteq book /\ r.gone \subseteq r.fills
    BY <1>0, <2>1 DEF BuiltOnBook
  <2>4. CancelTypeOK'
    <3> HIDE DEF s
    <3> QED
      BY <1>0, <2>1, <2>2, <2>3 DEF CancelTypeOK
  <2>5. BuiltOnBook'
    <3>1. version \in Nat /\ \A q \in rounds : q.input \in Nat /\ q.input <= version
      BY <1>0 DEF BuiltOnBook, CancelTypeOK, RoundRecord
    <3>2. \A q \in rounds' : q.input <= version /\ q.gone \subseteq q.fills
      BY <1>0, <2>1, <2>2, <2>3, <3>1 DEF BuiltOnBook
    <3>3. \A q \in rounds' : q.input \in Nat
      BY <2>1, <2>2, <3>1 DEF RoundRecord
    <3> QED
      BY <2>1, <3>1, <3>2, <3>3 DEF BuiltOnBook
  <2>6. FillShows'
    BY <1>0, <2>1, <2>2 DEF FillShows, Open
  <2>7. UsedIsGone'
    BY <1>0, <2>1 DEF UsedIsGone
  <2>8. CheckedIsSafe'
    BY <1>0, <2>1, <2>3 DEF CheckedIsSafe, UsedIsGone, Open
  <2>9. CancelledFirst'
    BY <1>0, <2>1, <2>3 DEF CancelledFirst
  <2> QED
    BY <2>4, <2>5, <2>6, <2>7, <2>8, <2>9 DEF CancelIInv
<1>7. ASSUME NEW r \in rounds, RoundReleased(r)
      PROVE  CancelIInv'
  <2> DEFINE s == [r EXCEPT !.released = TRUE]
  <2>1. /\ ~r.landed /\ rounds' = (rounds \ {r}) \cup {s}
        /\ UNCHANGED <<onChain, sent, built, watch, due, ends, lapsed>>
    BY <1>7 DEF RoundReleased
  <2>2. /\ s \in RoundRecord
        /\ s.gone = r.gone /\ s.fills = r.fills /\ s.pruned = r.pruned /\ s.input = r.input
    BY <1>0 DEF CancelTypeOK, RoundRecord
  <2>3. rounds' \subseteq RoundRecord
    BY <1>0, <2>1, <2>2 DEF CancelTypeOK
  <2>4. BuiltOnBook'
    BY <1>0, <2>1, <2>2 DEF BuiltOnBook, onChain
  <2> QED
    BY <1>0, <2>1, <2>3, <2>4, QuietStep DEF onChain, CancelTypeOK
<1>8. ASSUME NEW r \in rounds, RoundSettles(r)
      PROVE  CancelIInv'
  <2> DEFINE e == Ended(r.gone, "filled", ends)
  <2>1. /\ r.landed /\ rounds' = rounds \ {r}
        /\ ends' = Ended(r.pruned, "expired", e)
        /\ UNCHANGED <<onChain, sent, built, watch, lapsed>>
    BY <1>8 DEF RoundSettles
  <2>2. r \in RoundRecord /\ ends \in [Resting -> Seq(Outcome)]
    BY <1>0 DEF CancelTypeOK
  <2>3. /\ e \in [Resting -> Seq(Outcome)]
        /\ \A o \in Resting \cap r.gone : /\ e[o] # <<>>
                                          /\ Len(e[o]) = Len(ends[o]) + 1
                                          /\ e[o][Len(ends[o]) + 1] = "filled"
                                          /\ \A i \in 1..Len(ends[o]) : e[o][i] = ends[o][i]
        /\ \A o \in Resting \ r.gone : e[o] = ends[o]
    <3>1. ends \in [Resting -> Seq(Outcome)] /\ "filled" \in Outcome
      BY <2>2 DEF Outcome
    <3> QED
      BY <3>1, EndedTerminals
  <2> HIDE DEF e
  <2>4. /\ ends' \in [Resting -> Seq(Outcome)]
        /\ \A o \in Resting \cap r.pruned : /\ ends'[o] # <<>>
                                            /\ Len(ends'[o]) = Len(e[o]) + 1
                                            /\ ends'[o][Len(e[o]) + 1] = "expired"
                                            /\ \A i \in 1..Len(e[o]) : ends'[o][i] = e[o][i]
        /\ \A o \in Resting \ r.pruned : ends'[o] = e[o]
    <3>1. e \in [Resting -> Seq(Outcome)] /\ "expired" \in Outcome
      BY <2>3 DEF Outcome
    <3>2. ends' = Ended(r.pruned, "expired", e)
      BY <2>1
    <3> QED
      BY <3>1, <3>2, EndedTerminals
  <2>5. \A o \in Resting : ~Open(o) => ~Open(o)'
    <3> SUFFICES ASSUME NEW o \in Resting, ends[o] # <<>> PROVE ends'[o] # <<>>
      BY DEF Open
    <3>1. e[o] # <<>>
      BY <2>3
    <3> QED
      BY <2>4, <3>1
  <2>6. \A o \in r.gone : ~Open(o)'
    BY <2>2, <2>3, <2>4 DEF Open, RoundRecord
  <2>7. \A o \in Resting : \A i \in 1..Len(ends'[o]) :
            ends'[o][i] = "cancelled" => i \in 1..Len(ends[o]) /\ ends[o][i] = "cancelled"
    <3> SUFFICES ASSUME NEW o \in Resting, NEW i \in 1..Len(ends'[o]), ends'[o][i] = "cancelled"
                 PROVE  i \in 1..Len(ends[o]) /\ ends[o][i] = "cancelled"
      OBVIOUS
    <3>1. /\ ends[o] \in Seq(Outcome) /\ e[o] \in Seq(Outcome) /\ ends'[o] \in Seq(Outcome)
          /\ Len(ends[o]) \in Nat /\ Len(e[o]) \in Nat /\ Len(ends'[o]) \in Nat
      BY <2>2, <2>3, <2>4
    <3>2. i \in 1..Len(e[o]) /\ e[o][i] = "cancelled"
      BY <2>4, <3>1
    <3> QED
      BY <2>3, <3>1, <3>2
  <2>8. CancelTypeOK'
    BY <1>0, <2>1, <2>4 DEF CancelTypeOK, onChain
  <2>9. BuiltOnBook' /\ UsedIsGone'
    BY <1>0, <2>1 DEF BuiltOnBook, UsedIsGone, onChain
  <2>10. FillShows'
    BY <1>0, <2>1, <2>5, <2>6 DEF FillShows, onChain, CancelTypeOK
  <2>11. CheckedIsSafe'
    BY <1>0, <2>1, <2>5 DEF CheckedIsSafe, onChain, CancelTypeOK
  <2>12. CancelledFirst'
    BY <1>0, <2>1, <2>7 DEF CancelledFirst, onChain
  <2> QED
    BY <2>8, <2>9, <2>10, <2>11, <2>12 DEF CancelIInv
<1>9. ASSUME NEW c \in watch, ResolveCheck(c)
      PROVE  CancelIInv'
  <2> DEFINE d == [c EXCEPT !.checked = TRUE]
  <2>1. /\ c.order \in used /\ ~MayFill(c.order)
        /\ watch' = (watch \ {c}) \cup {d}
        /\ UNCHANGED <<onChain, sent, rounds, built, due, ends, lapsed>>
    BY <1>9 DEF ResolveCheck
  <2>2. d \in [order : Resting, checked : BOOLEAN] /\ d.order = c.order
    BY <1>0 DEF CancelTypeOK
  <2>3. c.order \in filled => ~Open(c.order)
    BY <1>0, <2>1 DEF FillShows, MayFill, BuiltOnBook
  <2>4. CheckedIsSafe'
    BY <1>0, <2>1, <2>2, <2>3 DEF CheckedIsSafe, Open, onChain
  <2>5. CancelTypeOK'
    BY <1>0, <2>1, <2>2 DEF CancelTypeOK, onChain
  <2>6. BuiltOnBook' /\ FillShows' /\ UsedIsGone' /\ CancelledFirst'
    BY <1>0, <2>1 DEF BuiltOnBook, FillShows, UsedIsGone, CancelledFirst, Open, onChain
  <2> QED
    BY <2>4, <2>5, <2>6 DEF CancelIInv
<1>10. ASSUME NEW c \in watch, ResolveEnd(c)
       PROVE  CancelIInv'
  <2>1. /\ c.checked /\ watch' = watch \ {c}
        /\ UNCHANGED <<onChain, sent, rounds, built, lapsed>>
    BY <1>10 DEF ResolveEnd
  <2>2. CASE c.order \notin book /\ Open(c.order)
    <3>1. ends' = Ended({c.order}, "cancelled", ends)
      BY <1>10, <2>2 DEF ResolveEnd
    <3>2. c.order \in Resting /\ ends \in [Resting -> Seq(Outcome)]
      BY <1>0 DEF CancelTypeOK
    <3>3. /\ ends' \in [Resting -> Seq(Outcome)]
          /\ ends'[c.order] # <<>> /\ Len(ends'[c.order]) = 1
          /\ \A o \in Resting \ {c.order} : ends'[o] = ends[o]
      <4>1. "cancelled" \in Outcome /\ ends[c.order] = <<>>
        BY <2>2 DEF Outcome, Open
      <4> DEFINE os == {c.order}
      <4>2. c.order \in os /\ \A o \in os : o = c.order
        OBVIOUS
      <4>3. ends' = Ended(os, "cancelled", ends)
        BY <3>1
      <4> HIDE DEF os
      <4>4. /\ ends' \in [Resting -> Seq(Outcome)]
            /\ \A o \in Resting \cap os : ends'[o] # <<>> /\ Len(ends'[o]) = Len(ends[o]) + 1
            /\ \A o \in Resting \ os : ends'[o] = ends[o]
        BY <3>2, <4>1, <4>3, EndedTerminals
      <4>5. Len(ends[c.order]) = 0
        BY <4>1
      <4>6. ends'[c.order] # <<>> /\ Len(ends'[c.order]) = 1
        <5>1. c.order \in Resting \cap os
          BY <3>2, <4>2
        <5>2. ends'[c.order] # <<>> /\ Len(ends'[c.order]) = Len(ends[c.order]) + 1
          BY <4>4, <5>1, Zenon
        <5> QED
          BY <4>5, <5>2
      <4>7. \A o \in Resting \ {c.order} : ends'[o] = ends[o]
        BY <4>2, <4>4
      <4> QED
        BY <4>4, <4>6, <4>7
    <3>4. \A o \in Resting : ~Open(o) => ~Open(o)'
      BY <3>3 DEF Open
    <3>5. c.order \notin filled \ taken
      BY <1>0, <2>1, <2>2 DEF CheckedIsSafe
    <3>6. CancelledFirst'
      BY <1>0, <2>1, <2>2, <3>3, <3>5 DEF CancelledFirst, onChain
    <3>7. CancelTypeOK'
      BY <1>0, <2>1, <3>3 DEF CancelTypeOK, onChain
    <3>8. BuiltOnBook' /\ UsedIsGone'
      BY <1>0, <2>1 DEF BuiltOnBook, UsedIsGone, onChain
    <3>9. FillShows' /\ CheckedIsSafe'
      BY <1>0, <2>1, <3>4 DEF FillShows, CheckedIsSafe, onChain, CancelTypeOK
    <3> QED
      BY <3>6, <3>7, <3>8, <3>9 DEF CancelIInv
  <2>3. CASE ~(c.order \notin book /\ Open(c.order))
    <3>1. ends' = ends
      BY <1>10, <2>3 DEF ResolveEnd
    <3>2. BuiltOnBook'
      BY <1>0, <2>1 DEF BuiltOnBook, onChain
    <3> QED
      BY <1>0, <2>1, <3>1, <3>2, QuietStep DEF onChain, CancelTypeOK
  <2> QED
    BY <2>2, <2>3
<1>11. ASSUME NEW c \in watch, WatchLapses(c)
       PROVE  CancelIInv'
  <2>1. watch' = watch \ {c} /\ UNCHANGED <<onChain, sent, rounds, built, due, ends>>
    BY <1>11 DEF WatchLapses
  <2>2. BuiltOnBook'
    BY <1>0, <2>1 DEF BuiltOnBook, onChain
  <2> QED
    BY <1>0, <2>1, <2>2, QuietStep DEF onChain, CancelTypeOK
<1>12. CASE UNCHANGED cancelVars
  <2>1. BuiltOnBook'
    BY <1>0, <1>12 DEF BuiltOnBook, cancelVars, onChain
  <2> QED
    BY <1>0, <1>12, <2>1, QuietStep DEF cancelVars, onChain, CancelTypeOK
<1> QED
  BY <1>1, <1>2, <1>3, <1>4, <1>5, <1>6, <1>7, <1>8, <1>9, <1>10, <1>11, <1>12 DEF CancelNext

-----------------------------------------------------------------------------
(***************************************************************************)
(* _resolve_cancels never reports an order cancelled that a round filled,  *)
(* and reports it once, although it reads the nonce, the rounds' markers   *)
(* and the book at different blocks and rounds land and settle in between. *)
(***************************************************************************)
THEOREM CancelledWasNotFilled == CancelSpec => []CancelledNotFilled
<1>1. CancelIInv => CancelledNotFilled
  BY DEF CancelIInv, CancelledFirst, CancelledNotFilled, Contains
<1> QED
  BY <1>1, CancelInitially, CancelStep, PTL DEF CancelSpec
-----------------------------------------------------------------------------
(***************************************************************************)
(* The reserve.  That the keeper never hoards is not inductive: deposits   *)
(* are on their way.  What may still be credited beside the keeper's own   *)
(* top-up is no more than what was sent beside it, and the top-up was      *)
(* measured when none of its own was on the way (WithinTarget).  That it   *)
(* is resent unchanged and under its nonce (OneTopup) is why it counts     *)
(* once.                                                                   *)
(***************************************************************************)
Items == [nonce : Nat \ {0}, amount : Nat]
Records == [floor : Nat, window : SUBSET Nat]

AmountOf == [d \in Items |-> d.amount]
Worth(S) == SumFunctionOnSet(AmountOf, S)

\* The deposits that would be credited, but for those under nonce n.
Beside(ds, r, n) == {d \in ds : DW!Admissible(r, d.nonce) /\ d.nonce # n}

\* What the keeper's own top-up would still add.
Awaited(r, t) == IF DW!Admissible(r, t.nonce) THEN t.amount ELSE 0

ReserveTypeOK ==
    /\ rent \in Nat /\ held \in Nat /\ nonce \in Nat /\ highest \in Nat /\ outside \in Nat
    /\ dn \in Records /\ \A m \in dn.window : m > dn.floor
    /\ deposits \in SUBSET Items /\ IsFiniteSet(deposits)
    /\ \A s \in sweeps : s.amount \in Nat
    /\ topup \in [nonce : Nat, amount : Nat, sent : BOOLEAN]

TargetsSeen == Target(0) <= highest /\ Target(rent) <= highest

OneTopup ==
    /\ topup.nonce <= nonce
    /\ \A d \in deposits : d.nonce <= nonce /\ (d.nonce = topup.nonce => d.amount = topup.amount)

WithinTarget ==
    LET beside == Worth(Beside(deposits, dn, topup.nonce))
    IN  beside <= outside /\ held + Awaited(dn, topup) + beside <= highest + outside

ReserveIInv == ReserveTypeOK /\ TargetsSeen /\ OneTopup /\ WithinTarget

-----------------------------------------------------------------------------
LEMMA WorthAdds ==
    ASSUME NEW S \in SUBSET Items, IsFiniteSet(S)
    PROVE  /\ Worth(S) \in Nat
           /\ \A T \in SUBSET S : Worth(T) \in Nat /\ Worth(T) <= Worth(S)
           /\ \A d \in S : Worth(S) = d.amount + Worth(S \ {d})
<1>1. \A d \in S : AmountOf[d] \in Nat /\ AmountOf[d] \in Int /\ AmountOf[d] = d.amount
  BY DEF AmountOf, Items
<1>2. /\ SumFunctionOnSet(AmountOf, S) \in Nat
      /\ \A T \in SUBSET S : SumFunctionOnSet(AmountOf, T) \in Nat
                             /\ SumFunctionOnSet(AmountOf, T) <= SumFunctionOnSet(AmountOf, S)
  BY <1>1, SumNat
<1>3. \A d \in S : SumFunctionOnSet(AmountOf, S) = AmountOf[d] + SumFunctionOnSet(AmountOf, S \ {d})
  BY <1>1, SumPeel
<1> QED
  BY <1>1, <1>2, <1>3 DEF Worth

\* A deposit more adds its amount, if anything.
LEMMA WorthOfOneMore ==
    ASSUME NEW S \in SUBSET Items, IsFiniteSet(S), NEW d \in Items
    PROVE  Worth(S \cup {d}) <= Worth(S) + d.amount /\ Worth(S \cup {d}) \in Nat /\ Worth(S) \in Nat
<1>1. S \cup {d} \in SUBSET Items /\ IsFiniteSet(S \cup {d}) /\ d \in S \cup {d} /\ (S \cup {d}) \ {d} \in SUBSET S
  BY FS_AddElement
<1>2. Worth(S \cup {d}) = d.amount + Worth((S \cup {d}) \ {d}) /\ Worth(S \cup {d}) \in Nat
  BY <1>1, WorthAdds
<1>3. Worth((S \cup {d}) \ {d}) <= Worth(S) /\ Worth((S \cup {d}) \ {d}) \in Nat /\ Worth(S) \in Nat
  BY <1>1, WorthAdds
<1>4. d.amount \in Nat
  BY DEF Items
<1> QED
  BY <1>2, <1>3, <1>4

LEMMA BesideIsPart ==
    ASSUME NEW S \in SUBSET Items, IsFiniteSet(S), NEW r, NEW n
    PROVE  Beside(S, r, n) \in SUBSET Items /\ IsFiniteSet(Beside(S, r, n)) /\ Worth(Beside(S, r, n)) \in Nat
<1>1. Beside(S, r, n) \in SUBSET S
  BY DEF Beside
<1>2. Beside(S, r, n) \in SUBSET Items /\ IsFiniteSet(Beside(S, r, n))
  BY <1>1, FS_Subset
<1> QED
  BY <1>2, WorthAdds

\* A nonce the record does not take it never takes again.
LEMMA AdmitForgetsNothing ==
    ASSUME NEW r \in Records, NEW n \in Nat, \A m \in r.window : m > r.floor, DW!Admissible(r, n)
    PROVE  /\ DW!Admit(r, n) \in Records
           /\ \A m \in DW!Admit(r, n).window : m > DW!Admit(r, n).floor
           /\ ~DW!Admissible(DW!Admit(r, n), n)
           /\ \A m \in Nat : ~DW!Admissible(r, m) => ~DW!Admissible(DW!Admit(r, n), m)
<1> DEFINE w == r.window \cup {n}
           least == DW!Min(w)
<1>1. w \in SUBSET Nat /\ w # {} /\ n > r.floor /\ \A m \in w : m > r.floor
  BY DEF DW!Admissible, Records
<1>2. DW!Min(w) = Min(w)
  BY DEF DW!Min, Min
<1>3. least \in w /\ least \in Nat /\ \A m \in w : least <= m
  <2> HIDE DEF w
  <2>1. w \in SUBSET Nat /\ w # {}
    BY <1>1
  <2>2. Min(w) \in w /\ \A m \in w : Min(w) <= m
    BY <2>1, MinIsLeast
  <2>3. Min(w) \in Nat
    BY <2>1, <2>2
  <2> QED
    BY <1>2, <2>2, <2>3
<1>4. \/ DW!Admit(r, n) = [floor |-> least, window |-> w \ {least}]
      \/ DW!Admit(r, n) = [r EXCEPT !.window = w]
  BY DEF DW!Admit
<1>5. r.floor \in Nat /\ least > r.floor /\ n \in w /\ r.window \subseteq w /\ w \in SUBSET Nat
  BY <1>1, <1>3 DEF Records
<1> HIDE DEF least
<1>6. CASE DW!Admit(r, n) = [floor |-> least, window |-> w \ {least}]
  <2>1. /\ DW!Admit(r, n).floor = least /\ DW!Admit(r, n).window = w \ {least}
        /\ DW!Admit(r, n) \in Records
    BY <1>3, <1>5, <1>6 DEF Records
  <2>2. \A m \in w \ {least} : m > least
    BY <1>1, <1>3
  <2> HIDE DEF w
  <2>3. ASSUME NEW m \in Nat, m <= r.floor \/ m \in w
        PROVE  m <= least \/ m \in w \ {least}
    BY <1>3, <1>5, <2>3
  <2>4. \A m \in Nat : m <= least \/ m \in w \ {least} => ~DW!Admissible(DW!Admit(r, n), m)
    BY <1>3, <2>1 DEF DW!Admissible
  <2>5. \A m \in Nat : ~DW!Admissible(r, m) => m <= r.floor \/ m \in w
    BY <1>5 DEF DW!Admissible
  <2> QED
    BY <1>5, <2>1, <2>2, <2>3, <2>4, <2>5
<1>7. CASE DW!Admit(r, n) = [r EXCEPT !.window = w]
  <2>1. DW!Admit(r, n).floor = r.floor /\ DW!Admit(r, n).window = w /\ DW!Admit(r, n) \in Records
    BY <1>5, <1>7 DEF Records
  <2> QED
    BY <2>1, <1>1 DEF DW!Admissible
<1> QED
  BY <1>4, <1>6, <1>7

-----------------------------------------------------------------------------
LEMMA TargetIs ==
    ASSUME NEW o \in Nat
    PROVE  Target(o) \in Nat /\ Target(0) <= Target(o)
BY KeeperAssumption DEF Target

LEMMA ReserveInitially ==
    ASSUME KeeperInit
    PROVE  ReserveIInv
<1>1. /\ rent \in Nat /\ held = 0 /\ dn = [floor |-> 0, window |-> {}] /\ deposits = {} /\ sweeps = {}
      /\ topup = NoTopup /\ nonce = 0 /\ highest = Target(rent) /\ outside = 0
  BY DEF KeeperInit
<1>2. Target(rent) \in Nat /\ Target(0) <= Target(rent)
  BY <1>1, TargetIs
<1>3. IsFiniteSet({}) /\ topup.nonce = 0 /\ topup.amount = 0 /\ topup \in [nonce : Nat, amount : Nat, sent : BOOLEAN]
  BY <1>1, FS_EmptySet DEF NoTopup
<1>4. ReserveTypeOK
  BY <1>1, <1>2, <1>3 DEF ReserveTypeOK, Records, Items
<1>5. Beside(deposits, dn, topup.nonce) = {} /\ Worth({}) = 0
  BY <1>1, SumEmpty DEF Beside, Worth
<1>6. ~DW!Admissible(dn, topup.nonce)
  BY <1>1, <1>3 DEF DW!Admissible
<1>7. WithinTarget
  <2>1. Awaited(dn, topup) = 0
    BY <1>6 DEF Awaited
  <2> QED
    BY <1>1, <1>2, <1>5, <2>1 DEF WithinTarget
<1> QED
  BY <1>1, <1>2, <1>3, <1>4, <1>7 DEF ReserveIInv, TargetsSeen, OneTopup

\* What a submission leaves on the way.
LEMMA AfterIs ==
    ASSUME NEW net, NEW x, NEW outcome, NEW n \in After(net, x, outcome)
    PROVE  n = net \/ n = net \cup {x}
BY DEF After

\* A deposit sent beside the keeper's: startup's seed, or over the API.
LEMMA SentBeside ==
    ASSUME ReserveIInv, NEW amount \in Nat, NEW outcome, Relayed(amount, outcome),
           outside' = outside + amount, UNCHANGED <<chainVars, sweeps, topup, highest>>
    PROVE  ReserveIInv'
<1> DEFINE x == [nonce |-> nonce + 1, amount |-> amount]
           old == Beside(deposits, dn, topup.nonce)
           new == Beside(deposits', dn', topup'.nonce)
<1>2. ReserveTypeOK /\ x \in Items /\ x.nonce = nonce + 1 /\ x.amount = amount /\ nonce \in Nat
  BY DEF ReserveIInv, ReserveTypeOK, Items
<1>3. rent' = rent /\ held' = held /\ dn' = dn /\ topup' = topup /\ sweeps' = sweeps /\ highest' = highest
  BY DEF chainVars
<1>4. nonce' = nonce + 1 /\ (deposits' = deposits \/ deposits' = deposits \cup {x})
  BY AfterIs DEF Relayed
<1> HIDE DEF x
<1>5. deposits' \in SUBSET Items /\ IsFiniteSet(deposits')
  BY <1>2, <1>4, FS_AddElement DEF ReserveTypeOK
<1>6. ReserveTypeOK'
  BY <1>2, <1>3, <1>4, <1>5 DEF ReserveTypeOK
<1>7. OneTopup'
  <2>1. topup.nonce \in Nat /\ topup.nonce <= nonce /\ OneTopup
    BY <1>2 DEF ReserveIInv, ReserveTypeOK, OneTopup
  <2>2. \A d \in deposits : d.nonce \in Nat
    BY <1>2 DEF ReserveTypeOK, Items
  <2> QED
    BY <1>2, <1>3, <1>4, <2>1, <2>2 DEF OneTopup
<1>8. new \in SUBSET (old \cup {x}) /\ old \in SUBSET Items /\ IsFiniteSet(old)
  <2>1. new \in SUBSET (old \cup {x})
    BY <1>3, <1>4 DEF Beside
  <2> QED
    BY <1>2, <2>1, BesideIsPart DEF ReserveTypeOK
<1> HIDE DEF old, new
<1>9. Worth(new) <= Worth(old) + amount /\ Worth(new) \in Nat /\ Worth(old) \in Nat
  <2>1. old \cup {x} \in SUBSET Items /\ IsFiniteSet(old \cup {x})
    BY <1>2, <1>8, FS_AddElement
  <2>2. Worth(old \cup {x}) <= Worth(old) + amount /\ Worth(old \cup {x}) \in Nat /\ Worth(old) \in Nat
    BY <1>2, <1>8, WorthOfOneMore
  <2>3. Worth(new) <= Worth(old \cup {x}) /\ Worth(new) \in Nat
    BY <1>8, <2>1, WorthAdds
  <2> QED
    BY <2>2, <2>3
<1>10. WithinTarget'
  <2>1. Worth(old) <= outside /\ held + Awaited(dn, topup) + Worth(old) <= highest + outside
    BY DEF ReserveIInv, WithinTarget, old
  <2>2. Awaited(dn', topup') = Awaited(dn, topup) /\ Awaited(dn, topup) \in Nat
    BY <1>2, <1>3 DEF Awaited, ReserveTypeOK
  <2>3. held \in Nat /\ highest \in Nat /\ outside \in Nat
    BY <1>2 DEF ReserveTypeOK
  <2>4. Worth(new) <= outside' /\ held' + Awaited(dn', topup') + Worth(new) <= highest' + outside'
    BY <1>3, <1>9, <2>1, <2>2, <2>3
  <2> QED
    BY <2>4 DEF WithinTarget, new
<1>11. TargetsSeen'
  BY <1>3 DEF ReserveIInv, TargetsSeen, Target
<1> QED
  BY <1>6, <1>7, <1>10, <1>11 DEF ReserveIInv

\* The keeper resends its top-up unchanged, finds nothing due, or sends a new one
\* when none of its own is on the way: then the reserve, what is on the way and
\* the new one are the target and what others sent.
LEMMA KeeperTickKeeps ==
    ASSUME ReserveIInv, NEW readable \in BOOLEAN, NEW late \in BOOLEAN, NEW outcome,
           KeeperTick(readable, late, outcome)
    PROVE  ReserveIInv'
<1> DEFINE short == TopupDue(Target(Footprint(readable)))
           item == [nonce |-> topup.nonce, amount |-> topup.amount]
           x == [nonce |-> nonce + 1, amount |-> short]
           old == Beside(deposits, dn, topup.nonce)
           new == Beside(deposits', dn', topup'.nonce)
<1>1. ReserveTypeOK /\ OneTopup /\ TargetsSeen
  BY DEF ReserveIInv
<1>2. /\ rent' = rent /\ held' = held /\ dn' = dn /\ sweeps' = sweeps /\ highest' = highest /\ outside' = outside
  BY DEF KeeperTick, chainVars
<1>3. /\ held \in Nat /\ highest \in Nat /\ outside \in Nat /\ nonce \in Nat /\ rent \in Nat
      /\ topup.nonce \in Nat /\ topup.amount \in Nat /\ dn.floor \in Nat
      /\ deposits \in SUBSET Items /\ IsFiniteSet(deposits)
      /\ \A d \in deposits : d.nonce \in Nat \ {0} /\ d.nonce <= nonce
  BY <1>1 DEF ReserveTypeOK, OneTopup, Records, Items
<1>4. old \in SUBSET Items /\ IsFiniteSet(old) /\ Worth(old) \in Nat
      /\ Worth(old) <= outside /\ held + Awaited(dn, topup) + Worth(old) <= highest + outside
      /\ Awaited(dn, topup) \in Nat
  BY <1>3, BesideIsPart DEF ReserveIInv, WithinTarget, Awaited
<1>5. TargetsSeen'
  BY <1>1, <1>2 DEF TargetsSeen, Target
<1>6. \A n \in Nat : DepositLanded(n) <=> ~DW!Admissible(dn, n)
  BY <1>3 DEF DepositLanded, DW!Admissible
<1>7. CASE topup = NoTopup \/ DepositLanded(topup.nonce)
  <2>1. DepositLanded(topup.nonce)
    BY <1>3, <1>7 DEF DepositLanded, NoTopup
  <2>2. ~DW!Admissible(dn, topup.nonce)
    BY <1>3, <1>6, <2>1
  <2>3. CASE short = 0 /\ topup' = NoTopup /\ deposits' = deposits /\ nonce' = nonce
    <3>1. topup'.nonce = 0 /\ topup' \in [nonce : Nat, amount : Nat, sent : BOOLEAN]
      BY <2>3 DEF NoTopup
    <3>2. ReserveTypeOK' /\ OneTopup'
      BY <1>1, <1>2, <1>3, <2>3, <3>1 DEF ReserveTypeOK, OneTopup
    <3>3. new \in SUBSET old
      BY <1>2, <2>2, <2>3 DEF Beside
    <3>4. ~DW!Admissible(dn', topup'.nonce)
      BY <1>2, <1>3, <3>1 DEF DW!Admissible
    <3> HIDE DEF old, new
    <3>5. Worth(new) <= Worth(old) /\ Worth(new) \in Nat
      BY <1>4, <3>3, WorthAdds
    <3>6. Awaited(dn', topup') = 0
      BY <3>4 DEF Awaited
    <3>7. Worth(new) <= outside' /\ held' + Awaited(dn', topup') + Worth(new) <= highest' + outside'
      BY <1>2, <1>3, <1>4, <3>5, <3>6
    <3>8. WithinTarget'
      BY <3>7 DEF WithinTarget, new
    <3> QED
      BY <1>5, <3>2, <3>8 DEF ReserveIInv
  <2>4. CASE short > 0 /\ Relayed(short, outcome)
             /\ topup' = [nonce |-> nonce + 1, amount |-> short, sent |-> outcome # "busy"]
    <3>1. Target(Footprint(readable)) \in Nat /\ Target(Footprint(readable)) <= highest
      BY <1>1, <1>3, TargetIs DEF TargetsSeen, Footprint
    <3>2. short \in Nat /\ short <= Target(Footprint(readable)) - held
      BY <1>3, <2>4, <3>1 DEF TopupDue
    <3>3. nonce' = nonce + 1 /\ (deposits' = deposits \/ deposits' = deposits \cup {x})
      BY <2>4, AfterIs DEF Relayed
    <3>4. topup'.nonce = nonce + 1 /\ topup'.amount = short /\ topup' \in [nonce : Nat, amount : Nat, sent : BOOLEAN]
      BY <1>3, <2>4, <3>2
    <3> HIDE DEF short
    <3>5. x \in Items /\ x.nonce = nonce + 1 /\ x.amount = short
      BY <1>3, <3>2 DEF Items
    <3> HIDE DEF x
    <3>6. deposits' \in SUBSET Items /\ IsFiniteSet(deposits')
      BY <1>3, <3>3, <3>5, FS_AddElement
    <3>7. ReserveTypeOK'
      BY <1>1, <1>2, <1>3, <3>3, <3>4, <3>6 DEF ReserveTypeOK
    <3>8. OneTopup'
      BY <1>1, <1>3, <3>3, <3>4, <3>5 DEF OneTopup
    <3>9. new \in SUBSET old
      BY <1>2, <2>2, <3>3, <3>4, <3>5 DEF Beside
    <3> HIDE DEF old, new
    <3>10. Worth(new) <= Worth(old) /\ Worth(new) \in Nat
      BY <1>4, <3>9, WorthAdds
    <3>11. Awaited(dn', topup') \in Nat /\ Awaited(dn', topup') <= short
      BY <3>2, <3>4 DEF Awaited
    <3>12. Worth(new) <= outside' /\ held' + Awaited(dn', topup') + Worth(new) <= highest' + outside'
      BY <1>2, <1>3, <1>4, <3>1, <3>2, <3>10, <3>11
    <3>13. WithinTarget'
      BY <3>12 DEF WithinTarget, new
    <3> QED
      BY <1>5, <3>7, <3>8, <3>13 DEF ReserveIInv
  <2> QED
    BY <1>7, <2>1, <2>3, <2>4 DEF KeeperTick
<1>8. CASE ~(topup = NoTopup \/ DepositLanded(topup.nonce))
  <2>1. /\ deposits' \in After(deposits, item, outcome)
        /\ topup' = [topup EXCEPT !.sent = outcome # "busy"]
        /\ nonce' = nonce
    BY <1>8 DEF KeeperTick
  <2>2. deposits' = deposits \/ deposits' = deposits \cup {item}
    BY <2>1, AfterIs
  <2>3. topup.nonce > 0
    BY <1>3, <1>8 DEF DepositLanded
  <2>4. item \in Items /\ item.nonce = topup.nonce /\ item.amount = topup.amount
    BY <1>3, <2>3 DEF Items
  <2>5. /\ topup'.nonce = topup.nonce /\ topup'.amount = topup.amount
        /\ topup' \in [nonce : Nat, amount : Nat, sent : BOOLEAN]
    BY <1>1, <2>1 DEF ReserveTypeOK
  <2> HIDE DEF item
  <2>6. ReserveTypeOK'
    <3>1. deposits' \in SUBSET Items /\ IsFiniteSet(deposits')
      BY <1>3, <2>2, <2>4, FS_AddElement
    <3> QED
      BY <1>1, <1>2, <2>1, <2>5, <3>1 DEF ReserveTypeOK
  <2>7. OneTopup'
    BY <1>1, <2>1, <2>2, <2>4, <2>5 DEF OneTopup
  <2>8. new = old
    BY <1>2, <2>2, <2>4, <2>5 DEF Beside
  <2>9. Awaited(dn', topup') = Awaited(dn, topup)
    BY <1>2, <2>5 DEF Awaited
  <2>10. WithinTarget'
    BY <1>2, <2>8, <2>9 DEF ReserveIInv, WithinTarget
  <2> QED
    BY <1>5, <2>6, <2>7, <2>10 DEF ReserveIInv
<1> QED
  BY <1>7, <1>8

\* A restart: the top-up it forgets now counts among what others sent.
LEMMA RestartKeepsReserve ==
    ASSUME ReserveIInv, BuilderRestarts
    PROVE  ReserveIInv'
<1> DEFINE own == {d \in deposits : DW!Admissible(dn, d.nonce) /\ d.nonce = topup.nonce}
           old == Beside(deposits, dn, topup.nonce)
           new == Beside(deposits', dn', topup'.nonce)
           x == [nonce |-> topup.nonce, amount |-> topup.amount]
<1>1. ReserveTypeOK /\ OneTopup /\ TargetsSeen
  BY DEF ReserveIInv
<1>2. /\ rent' = rent /\ held' = held /\ dn' = dn /\ sweeps' = sweeps /\ highest' = highest
      /\ deposits' = deposits /\ nonce' = nonce /\ topup' = NoTopup /\ outside' = outside + topup.amount
  BY DEF BuilderRestarts, chainVars
<1>3. /\ held \in Nat /\ highest \in Nat /\ outside \in Nat /\ nonce \in Nat
      /\ topup.nonce \in Nat /\ topup.amount \in Nat /\ dn.floor \in Nat
      /\ deposits \in SUBSET Items /\ IsFiniteSet(deposits)
      /\ \A d \in deposits : d.nonce \in Nat \ {0} /\ d = [nonce |-> d.nonce, amount |-> d.amount]
  BY <1>1 DEF ReserveTypeOK, Records, Items
<1>4. topup'.nonce = 0 /\ topup'.amount = 0 /\ topup' \in [nonce : Nat, amount : Nat, sent : BOOLEAN]
  BY <1>2 DEF NoTopup
<1>5. ReserveTypeOK' /\ OneTopup' /\ TargetsSeen'
  BY <1>1, <1>2, <1>3, <1>4 DEF ReserveTypeOK, OneTopup, TargetsSeen, Target
<1>6. old \in SUBSET Items /\ IsFiniteSet(old) /\ Worth(old) \in Nat
      /\ Worth(old) <= outside /\ held + Awaited(dn, topup) + Worth(old) <= highest + outside
      /\ Awaited(dn, topup) \in Nat
  BY <1>3, BesideIsPart DEF ReserveIInv, WithinTarget, Awaited
<1>7. \A d \in own : d = x /\ d \in Items
  BY <1>1, <1>3 DEF OneTopup
<1>8. new \in SUBSET (old \cup own) /\ new \in SUBSET Items /\ IsFiniteSet(new) /\ Worth(new) \in Nat
  <2>1. new \in SUBSET (old \cup own)
    BY <1>2 DEF Beside
  <2> QED
    BY <1>2, <1>3, <2>1, BesideIsPart
<1>9. Awaited(dn', topup') = 0
  BY <1>2, <1>3, <1>4 DEF Awaited, DW!Admissible
<1>10. Worth(new) <= Worth(old) + topup.amount /\ Worth(new) <= Worth(old) + Awaited(dn, topup)
  <2>1. CASE own = {}
    <3>1. new \in SUBSET old
      BY <1>8, <2>1
    <3> HIDE DEF old, new
    <3>2. Worth(new) <= Worth(old)
      BY <1>6, <3>1, WorthAdds
    <3> QED
      BY <1>3, <1>6, <1>8, <3>2
  <2>2. CASE own # {}
    <3>1. x \in Items /\ x.amount = topup.amount /\ DW!Admissible(dn, topup.nonce)
      BY <1>7, <2>2
    <3>2. new \in SUBSET (old \cup {x})
      BY <1>7, <1>8
    <3>3. Awaited(dn, topup) = topup.amount
      BY <3>1 DEF Awaited
    <3> HIDE DEF old, new, x
    <3>4. old \cup {x} \in SUBSET Items /\ IsFiniteSet(old \cup {x})
      BY <1>6, <3>1, FS_AddElement
    <3>5. Worth(old \cup {x}) <= Worth(old) + topup.amount /\ Worth(old \cup {x}) \in Nat
      BY <1>6, <3>1, WorthOfOneMore
    <3>6. Worth(new) <= Worth(old \cup {x})
      BY <3>2, <3>4, WorthAdds
    <3> QED
      BY <1>3, <1>6, <1>8, <3>3, <3>5, <3>6
  <2> QED
    BY <2>1, <2>2
<1> HIDE DEF old, new
<1>11. Worth(new) <= outside' /\ held' + Awaited(dn', topup') + Worth(new) <= highest' + outside'
  BY <1>2, <1>3, <1>6, <1>8, <1>9, <1>10
<1>12. WithinTarget'
  BY <1>11 DEF WithinTarget, new
<1> QED
  BY <1>5, <1>12 DEF ReserveIInv

\* A deposit lands: what it adds was counted, in the keeper's top-up or beside it.
LEMMA DepositLandsKeeps ==
    ASSUME ReserveIInv, NEW d \in deposits, DepositLands(d) \/ DepositLost(d)
    PROVE  ReserveIInv'
<1> DEFINE old == Beside(deposits, dn, topup.nonce)
           new == Beside(deposits', dn', topup'.nonce)
           credit == IF DepositLands(d) /\ DW!Admissible(dn, d.nonce) THEN d.amount ELSE 0
<1>1. ReserveTypeOK /\ OneTopup /\ TargetsSeen
  BY DEF ReserveIInv
<1>2. /\ rent' = rent /\ sweeps' = sweeps /\ highest' = highest /\ outside' = outside
      /\ nonce' = nonce /\ topup' = topup /\ deposits' = deposits \ {d}
  BY DEF DepositLands, DepositLost, chainVars
<1>3. /\ held \in Nat /\ highest \in Nat /\ outside \in Nat /\ nonce \in Nat
      /\ topup.nonce \in Nat /\ topup.amount \in Nat /\ d.nonce \in Nat /\ d.amount \in Nat
      /\ dn \in Records /\ \A m \in dn.window : m > dn.floor
      /\ deposits \in SUBSET Items /\ IsFiniteSet(deposits) /\ IsFiniteSet(deposits')
      /\ \A e \in deposits : e.nonce \in Nat
  BY <1>1, <1>2, FS_RemoveElement DEF ReserveTypeOK, Items
<1>4. /\ held' = held + credit /\ credit \in Nat
      /\ dn' = IF DepositLands(d) /\ DW!Admissible(dn, d.nonce) THEN DW!Admit(dn, d.nonce) ELSE dn
  BY <1>3 DEF DepositLands, DepositLost, chainVars
<1>5. /\ dn' \in Records /\ \A m \in dn'.window : m > dn'.floor
      /\ \A m \in Nat : ~DW!Admissible(dn, m) => ~DW!Admissible(dn', m)
      /\ DepositLands(d) /\ DW!Admissible(dn, d.nonce) => ~DW!Admissible(dn', d.nonce)
  BY <1>3, <1>4, AdmitForgetsNothing
<1>6. ReserveTypeOK' /\ OneTopup' /\ TargetsSeen'
  <2>1. held' \in Nat /\ deposits' \in SUBSET Items /\ deposits' \subseteq deposits
    BY <1>2, <1>3, <1>4
  <2> QED
    BY <1>1, <1>2, <1>3, <1>5, <2>1 DEF ReserveTypeOK, OneTopup, TargetsSeen, Target
<1>7. old \in SUBSET Items /\ IsFiniteSet(old) /\ Worth(old) \in Nat
      /\ Worth(old) <= outside /\ held + Awaited(dn, topup) + Worth(old) <= highest + outside
      /\ Awaited(dn, topup) \in Nat
  BY <1>3, BesideIsPart DEF ReserveIInv, WithinTarget, Awaited
<1>8. new \in SUBSET (old \ {d})
  BY <1>2, <1>3, <1>5 DEF Beside
<1>9. Awaited(dn', topup') \in Nat /\ Awaited(dn', topup') <= Awaited(dn, topup)
  BY <1>2, <1>3, <1>5 DEF Awaited
<1>10. Worth(new) \in Nat /\ Worth(new) <= Worth(old)
       /\ credit + Awaited(dn', topup') + Worth(new) <= Awaited(dn, topup) + Worth(old)
  <2>1. CASE ~(DepositLands(d) /\ DW!Admissible(dn, d.nonce))
    <3>1. credit = 0 /\ new \in SUBSET old
      BY <1>8, <2>1
    <3> HIDE DEF old, new, credit
    <3>2. Worth(new) \in Nat /\ Worth(new) <= Worth(old)
      BY <1>7, <3>1, WorthAdds
    <3> QED
      BY <1>7, <1>9, <3>1, <3>2
  <2>2. CASE DepositLands(d) /\ DW!Admissible(dn, d.nonce) /\ d.nonce = topup.nonce
    <3>1. credit = topup.amount /\ new \in SUBSET old
      BY <1>1, <1>8, <2>2 DEF OneTopup
    <3>2. Awaited(dn, topup) = topup.amount /\ Awaited(dn', topup') = 0
      BY <1>2, <1>5, <2>2 DEF Awaited
    <3> HIDE DEF old, new, credit
    <3>3. Worth(new) \in Nat /\ Worth(new) <= Worth(old)
      BY <1>7, <3>1, WorthAdds
    <3> QED
      BY <1>3, <1>7, <3>1, <3>2, <3>3
  <2>3. CASE DepositLands(d) /\ DW!Admissible(dn, d.nonce) /\ d.nonce # topup.nonce
    <3>1. credit = d.amount /\ d \in old
      BY <2>3 DEF Beside
    <3> HIDE DEF old, new, credit
    <3>2. old \ {d} \in SUBSET Items /\ IsFiniteSet(old \ {d})
      BY <1>7, FS_RemoveElement
    <3>3. Worth(old) = d.amount + Worth(old \ {d})
      BY <1>7, <3>1, WorthAdds
    <3>4. Worth(new) \in Nat /\ Worth(new) <= Worth(old \ {d}) /\ Worth(old \ {d}) \in Nat
      BY <1>8, <3>2, WorthAdds
    <3> QED
      BY <1>3, <1>7, <1>9, <3>1, <3>3, <3>4
  <2> QED
    BY <2>1, <2>2, <2>3
<1> HIDE DEF old, new, credit
<1>11. Worth(new) <= outside' /\ held' + Awaited(dn', topup') + Worth(new) <= highest' + outside'
  BY <1>2, <1>3, <1>4, <1>7, <1>9, <1>10
<1>12. WithinTarget'
  BY <1>11 DEF WithinTarget, new
<1> QED
  BY <1>6, <1>12 DEF ReserveIInv

\* Nothing is sent and nothing lands: a sweep takes, the footprint moves.
LEMMA ReserveAlone ==
    ASSUME ReserveIInv, held' \in Nat, held' <= held, rent' \in Nat, highest' \in Nat, highest' >= highest,
           Target(rent') <= highest', \A s \in sweeps' : s.amount \in Nat,
           UNCHANGED <<dn, deposits, topup, nonce, outside>>
    PROVE  ReserveIInv'
<1>1. ReserveTypeOK /\ OneTopup /\ TargetsSeen
  BY DEF ReserveIInv
<1>2. ReserveTypeOK' /\ OneTopup'
  BY <1>1 DEF ReserveTypeOK, OneTopup
<1>3. Target(0) \in Nat /\ Target(0) <= highest /\ highest \in Nat
  BY <1>1, TargetIs DEF ReserveTypeOK, TargetsSeen
<1>4. TargetsSeen'
  BY <1>3 DEF TargetsSeen, Target
<1>5. Beside(deposits', dn', topup'.nonce) = Beside(deposits, dn, topup.nonce) /\ Awaited(dn', topup') = Awaited(dn, topup)
  OBVIOUS
<1> DEFINE old == Worth(Beside(deposits, dn, topup.nonce))
<1>6. old \in Nat /\ Awaited(dn, topup) \in Nat
  BY <1>1, BesideIsPart DEF ReserveTypeOK, Awaited
<1>7. old <= outside /\ held + Awaited(dn, topup) + old <= highest + outside
  BY DEF ReserveIInv, WithinTarget
<1>8. old' = old
  BY <1>5
<1> HIDE DEF old
<1>9. held \in Nat /\ outside \in Nat
  BY <1>1 DEF ReserveTypeOK
<1>10. old <= outside' /\ held' + Awaited(dn, topup) + old <= highest' + outside'
  BY <1>3, <1>6, <1>7, <1>9
<1>11. WithinTarget'
  BY <1>5, <1>10 DEF WithinTarget, old
<1> QED
  BY <1>2, <1>4, <1>11 DEF ReserveIInv

LEMMA ReserveStep ==
    ASSUME ReserveIInv, [KeeperNext]_keeperVars
    PROVE  ReserveIInv'
<1>1. /\ rent \in Nat /\ held \in Nat /\ highest \in Nat /\ Target(rent) <= highest
      /\ \A s \in sweeps : s.amount \in Nat
  BY DEF ReserveIInv, ReserveTypeOK, TargetsSeen
<1>2. ASSUME NEW readable \in BOOLEAN, NEW outcome \in Outcomes, EnsureReserve(readable, outcome)
      PROVE  ReserveIInv'
  <2> DEFINE short == Target(Footprint(readable)) - held
  <2>1. short \in Int
    BY <1>1, TargetIs DEF Footprint
  <2>2. CASE short > 0
    <3>1. Relayed(short, outcome) /\ outside' = outside + short /\ UNCHANGED <<chainVars, sweeps, topup, highest>>
      BY <1>2, <2>2 DEF EnsureReserve
    <3>2. short \in Nat
      BY <2>1, <2>2
    <3> HIDE DEF short
    <3> QED
      BY <3>1, <3>2, SentBeside
  <2>3. CASE ~(short > 0)
    <3>1. /\ rent' = rent /\ held' = held /\ highest' = highest /\ sweeps' = sweeps
          /\ UNCHANGED <<dn, deposits, topup, nonce, outside>>
      BY <1>2, <2>3 DEF EnsureReserve, chainVars
    <3> QED
      BY <1>1, <3>1, ReserveAlone DEF Target
  <2> QED
    BY <2>2, <2>3
<1>3. ASSUME NEW readable \in BOOLEAN, NEW late \in BOOLEAN, NEW outcome \in Outcomes,
             KeeperTick(readable, late, outcome)
      PROVE  ReserveIInv'
  BY <1>3, KeeperTickKeeps
<1>4. ASSUME NEW amount \in 1..SUPPLY, NEW readable \in BOOLEAN, NEW outcome \in Outcomes,
             ApiReserveTopup(amount, readable, outcome)
      PROVE  ReserveIInv'
  <2>1. /\ amount \in Nat /\ Relayed(amount, outcome) /\ outside' = outside + amount
        /\ UNCHANGED <<chainVars, sweeps, topup, highest>>
    BY <1>4, KeeperAssumption DEF ApiReserveTopup
  <2> QED
    BY <2>1, SentBeside
<1>5. ASSUME NEW readable \in BOOLEAN, NEW timeout \in BOOLEAN, WaitReserved(readable, timeout)
      PROVE  ReserveIInv'
  <2>1. /\ rent' = rent /\ held' = held /\ highest' = highest /\ sweeps' = sweeps
        /\ UNCHANGED <<dn, deposits, topup, nonce, outside>>
    BY <1>5 DEF WaitReserved, chainVars
  <2> QED
    BY <1>1, <2>1, ReserveAlone DEF Target
<1>6. ASSUME NEW readable \in BOOLEAN, NEW asset \in {"JAMKB", "fee"}, ApiSweep(asset, 1, readable)
      PROVE  ReserveIInv'
  <2>1. /\ rent' = rent /\ held' = held /\ highest' = highest
        /\ sweeps' = sweeps \cup {[asset |-> asset, amount |-> 1, nonce |-> govnonce]}
        /\ UNCHANGED <<dn, deposits, topup, nonce, outside>>
    BY <1>6 DEF ApiSweep, chainVars
  <2>2. \A s \in sweeps' : s.amount \in Nat
    BY <1>1, <2>1
  <2> QED
    BY <1>1, <2>1, <2>2, ReserveAlone DEF Target
<1>7. ASSUME NEW d \in deposits, DepositLands(d) \/ DepositLost(d)
      PROVE  ReserveIInv'
  BY <1>7, DepositLandsKeeps
<1>8. ASSUME NEW s \in sweeps, SweepLands(s)
      PROVE  ReserveIInv'
  <2>1. /\ rent' = rent /\ highest' = highest /\ sweeps' = sweeps
        /\ UNCHANGED <<dn, deposits, topup, nonce, outside>>
    BY <1>8 DEF SweepLands
  <2>2. held' \in Nat /\ held' <= held
    BY <1>1, <1>8 DEF SweepLands
  <2> QED
    BY <1>1, <2>1, <2>2, ReserveAlone DEF Target
<1>9. ASSUME NEW r \in 0..MaxRent, FootprintMoves(r)
      PROVE  ReserveIInv'
  <2>1. /\ rent' = r /\ held' = held /\ sweeps' = sweeps
        /\ highest' = (IF highest < Target(r) THEN Target(r) ELSE highest)
        /\ UNCHANGED <<dn, deposits, topup, nonce, outside>>
    BY <1>9 DEF FootprintMoves
  <2>2. r \in Nat /\ Target(r) \in Nat
    BY KeeperAssumption, TargetIs
  <2>3. Target(rent') = Target(r) /\ highest' \in Nat /\ highest' >= highest /\ Target(r) <= highest'
    BY <1>1, <2>1, <2>2
  <2> QED
    BY <1>1, <2>1, <2>2, <2>3, ReserveAlone
<1>10. CASE BuilderRestarts
  BY <1>10, RestartKeepsReserve
<1>11. CASE UNCHANGED keeperVars
  <2>1. /\ rent' = rent /\ held' = held /\ highest' = highest /\ sweeps' = sweeps
        /\ UNCHANGED <<dn, deposits, topup, nonce, outside>>
    BY <1>11 DEF keeperVars, chainVars
  <2> QED
    BY <1>1, <2>1, ReserveAlone DEF Target
<1> QED
  BY <1>2, <1>3, <1>4, <1>5, <1>6, <1>7, <1>8, <1>9, <1>10, <1>11 DEF KeeperNext

\* The keeper never hoards, for any footprints, buffer, supply and window and any
\* number of restarts and requests: reserve_keeper_tick resends under the nonce it
\* has, so a top-up that is refused, lost, late or landed twice counts once.
THEOREM ReserveNeverHoarded == KeeperSpec => []KeeperNeverHoards
<1>1. KeeperInit => ReserveIInv
  BY ReserveInitially
<1>2. ReserveIInv /\ [KeeperNext]_keeperVars => ReserveIInv'
  BY ReserveStep
<1>3. ReserveIInv => KeeperNeverHoards
  <2> SUFFICES ASSUME ReserveIInv PROVE KeeperNeverHoards
    OBVIOUS
  <2> DEFINE beside == Worth(Beside(deposits, dn, topup.nonce))
  <2>1. beside \in Nat /\ Awaited(dn, topup) \in Nat /\ held \in Nat /\ highest \in Nat /\ outside \in Nat
    BY BesideIsPart DEF ReserveIInv, ReserveTypeOK, Awaited
  <2>2. held + Awaited(dn, topup) + beside <= highest + outside
    BY DEF ReserveIInv, WithinTarget
  <2> HIDE DEF beside
  <2> QED
    BY <2>1, <2>2 DEF KeeperNeverHoards
<1> QED
  BY <1>1, <1>2, <1>3, PTL DEF KeeperSpec
=============================================================================
