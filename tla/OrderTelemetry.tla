--------------------------- MODULE OrderTelemetry ---------------------------
(***************************************************************************)
(* The two instruments that judge every order: the live gauges             *)
(* (offchain/order_telemetry.py) and the verdict replayed from the event   *)
(* log after a soak (offchain/soak_verdict.py).  The builder reports the   *)
(* transitions of an order in whatever order its threads make them.        *)
(***************************************************************************)
EXTENDS Integers, Sequences, SequencesExt, FiniteSets

CONSTANTS
    Watched,        \* the orders
    OPEN_GRACE,     \* seconds of silence after which an open order counts as stuck
    MaxClock,       \* bound on the clock
    MaxEvents       \* bound on the events of an order

ASSUME TelemetryAssumption ==
    IsFiniteSet(Watched) /\ OPEN_GRACE \in Nat \ {0} /\ MaxClock \in Nat /\ MaxEvents \in Nat

TERMINAL == {"filled", "partial-cancelled", "cancelled", "expired", "rejected", "lost"}
CLEARED == {"filled"}
Phases == {"placed", "rounded", "deferred", "rested"}
NoRecord == [phase |-> "none"]

(***************************************************************************)
(* orders: the live records (_orders), slo: the tallies (_slo), events:    *)
(* the JSONL log, per order.  An expiry of 0 is none.                      *)
(*                                                                         *)
(* A report changes the record under _lock and writes its line outside it; *)
(* calls: the reports of an order in between, each with the thread it is   *)
(* made by (an HTTP thread, the round builder under the market's lock, the *)
(* cancel watch).  live: its record is still the one in _orders, whose     *)
(* flag the line then shows; a record that was popped keeps its flag.  An  *)
(* order that is in the mempool and not placed yet has a queued call.      *)
(* found: orders the cancel watch saw open (is_open) and goes on to end.   *)
(* mixed: orders that two threads reported at the same time (history).     *)
(***************************************************************************)
VARIABLES orders, slo, events, clock, calls, found, mixed

telemetryVars == <<orders, slo, events, clock, calls, found, mixed>>

TelemetryInit ==
    /\ orders = [o \in Watched |-> NoRecord] /\ slo = [cleared |-> 0, missed |-> 0]
    /\ events = [o \in Watched |-> <<>>] /\ clock = 1
    /\ calls = [o \in Watched |-> {}] /\ found = {} /\ mixed = {}

At(log, event) == {i \in 1..Len(log) : log[i].event = event}
IsOpen(o) == orders[o] # NoRecord
Call(by, event, live, marketable, expires, outcome) ==
    [by |-> by, event |-> event, live |-> live, marketable |-> marketable,
     expires |-> expires, outcome |-> outcome]
Queued == Call("api", "queued", FALSE, FALSE, 0, "")
Busy(o, by) == \E c \in calls[o] : c.by = by
Accepted(o) == Busy(o, "api") \/ At(events[o], "placed") # {}

-----------------------------------------------------------------------------
\* A report of a thread that makes none, and whether it meets another's.
Reports(o, by) ==
    /\ Accepted(o) /\ ~Busy(o, by) /\ Len(events[o]) + Cardinality(calls[o]) < MaxEvents
    /\ mixed' = IF calls[o] = {} THEN mixed ELSE mixed \cup {o}

\* api_order: the order enters the mempool, where the builder finds it, ...
Accepts(o) ==
    /\ ~Accepted(o)
    /\ calls' = [calls EXCEPT ![o] = @ \cup {Queued}]
    /\ UNCHANGED <<orders, slo, events, clock, found, mixed>>

\* ... and is reported then.  placed
Placed(o, marketable) ==
    /\ Queued \in calls[o]
    /\ orders' = [orders EXCEPT ![o] = [phase |-> "placed", marketable |-> marketable,
                                        last |-> clock, expires |-> 0]]
    /\ calls' = [calls EXCEPT ![o] = (@ \ {Queued}) \cup {Call("api", "placed", TRUE, marketable, 0, "")}]
    /\ UNCHANGED <<slo, events, clock, found, mixed>>

\* rounded, reverted, requeued, deferred: only an order with a record is touched.
Moved(o, event, phase) ==
    /\ IsOpen(o) /\ Reports(o, "builder")
    /\ orders' = [orders EXCEPT ![o].phase = phase]
    /\ calls' = [calls EXCEPT ![o] = @ \cup {Call("builder", event, TRUE, FALSE, 0, "")}]
    /\ UNCHANGED <<slo, events, clock, found>>

\* rested: the auction has decided the order, it is no longer an obligation.
Rested(o, expires) ==
    /\ IsOpen(o) /\ Reports(o, "builder")
    /\ orders' = [orders EXCEPT ![o].phase = "rested", ![o].marketable = FALSE]
    /\ calls' = [calls EXCEPT ![o] = @ \cup {Call("builder", "rested", TRUE, FALSE, expires, "")}]
    /\ UNCHANGED <<slo, events, clock, found>>

\* terminal: also for an order without a record, which counts as not marketable.
Terminal(o, by, outcome) ==
    LET flag == IsOpen(o) /\ orders[o].marketable
        popped(c) == IF c.live THEN [c EXCEPT !.live = FALSE, !.marketable = flag] ELSE c
    IN  /\ Reports(o, by)
        /\ orders' = [orders EXCEPT ![o] = NoRecord]
        /\ calls' = [calls EXCEPT ![o] = {popped(c) : c \in @} \cup {Call(by, "terminal", FALSE, flag, 0, outcome)}]
        /\ slo' = [cleared |-> slo.cleared + (IF flag /\ outcome \in CLEARED THEN 1 ELSE 0),
                   missed  |-> slo.missed + (IF flag /\ outcome \in
                                 {"expired", "lost", "partial-cancelled", "rejected"} THEN 1 ELSE 0)]
        /\ UNCHANGED <<events, clock>>

\* The cancel watch (_resolve_cancels) looks whether the order is open, and then
\* ends it: something else may have ended it in between.
CancelFound(o) ==
    /\ IsOpen(o) /\ o \notin found /\ found' = found \cup {o}
    /\ UNCHANGED <<orders, slo, events, clock, calls, mixed>>
CancelEnds(o) ==
    /\ o \in found /\ Terminal(o, "watch", "cancelled")
    /\ found' = found \ {o}

\* What _log writes of a call, stamped when it is written.
LineOf(o, c) ==
    [event |-> c.event, ts |-> clock, marketable |-> IF c.live THEN orders[o].marketable ELSE c.marketable,
     expires |-> c.expires, outcome |-> c.outcome]

\* Bug: silence is measured from the placement.
WriteLineFromPlacement(o, c) ==
    /\ c \in calls[o] /\ c # Queued
    /\ events' = [events EXCEPT ![o] = Append(@, LineOf(o, c))]
    /\ orders' = IF ~c.live THEN orders
                 ELSE [orders EXCEPT ![o].last = IF c.event = "placed" THEN clock ELSE @,
                                     ![o].expires = IF c.expires # 0 THEN c.expires ELSE @]
    /\ calls' = [calls EXCEPT ![o] = @ \ {c}]
    /\ UNCHANGED <<slo, clock, found, mixed>>

\* _log: one line, and with it the record's last event and expiry.
WriteLine(o, c) ==
    /\ c \in calls[o] /\ c # Queued
    /\ events' = [events EXCEPT ![o] = Append(@, LineOf(o, c))]
    /\ orders' = IF ~c.live THEN orders
                 ELSE [orders EXCEPT ![o].last = clock,
                                     ![o].expires = IF c.expires # 0 THEN c.expires ELSE @]
    /\ calls' = [calls EXCEPT ![o] = @ \ {c}]
    /\ UNCHANGED <<slo, clock, found, mixed>>

TimePasses ==
    /\ clock < MaxClock /\ clock' = clock + 1
    /\ UNCHANGED <<orders, slo, events, calls, found, mixed>>

\* snapshot: the open orders the gauge counts as stale.
Stale ==
    {o \in Watched : IsOpen(o) /\
        LET rec == orders[o]
            late == IF rec.phase # "rested" THEN clock - rec.last
                    ELSE IF rec.expires # 0 THEN clock - rec.expires ELSE 0
        IN  late > OPEN_GRACE}

TelemetryNext ==
    \/ \E o \in Watched :
          \/ Accepts(o) \/ \E m \in BOOLEAN : Placed(o, m)
          \/ Moved(o, "rounded", "rounded") \/ Moved(o, "reverted", "rounded")
          \/ Moved(o, "requeued", "placed") \/ Moved(o, "deferred", "deferred")
          \/ \E expires \in 1..2 : Rested(o, expires)
          \/ \E outcome \in TERMINAL : Terminal(o, "builder", outcome) /\ UNCHANGED found
          \/ CancelFound(o) \/ CancelEnds(o)
          \/ \E c \in calls[o] : WriteLine(o, c)
    \/ TimePasses

TelemetrySpec == TelemetryInit /\ [][TelemetryNext]_telemetryVars

-----------------------------------------------------------------------------
\* judge: one order's events to a verdict.  Its parts: the auction's decision to
\* leave it resting ends the obligation, the first end counts, the last expiry.
Obliged(log) == At(log, "rested") = {} /\ \E i \in 1..Len(log) : log[i].marketable
Outcome(log) == IF At(log, "terminal") = {} THEN "" ELSE log[Min(At(log, "terminal"))].outcome
Expiry(log) == IF At(log, "rested") = {} THEN 0 ELSE log[Max(At(log, "rested"))].expires

Judge(log) ==
    CASE Outcome(log) = "" -> IF Last(log).event = "rested" THEN "resting" ELSE "open"
      [] Outcome(log) \in CLEARED -> "cleared"
      [] OTHER -> IF Obliged(log) THEN "missed" ELSE "expired-nonmarketable"

\* score: the orders of a class, the stuck ones, and the figures of the verdict,
\* where every cleared order counts and a stuck one is missed.
Verdicts(class) == {o \in Watched : events[o] # <<>> /\ Judge(events[o]) = class}
StuckOpen ==
    {o \in Verdicts("open") : clock - Last(events[o]).ts > OPEN_GRACE}
    \cup {o \in Verdicts("resting") : Expiry(events[o]) # 0 /\ clock - Expiry(events[o]) > OPEN_GRACE}
VerdictCleared == Cardinality(Verdicts("cleared"))
VerdictMissed == Cardinality(Verdicts("missed")) + Cardinality(StuckOpen)

-----------------------------------------------------------------------------
\* No report of the order is half done, and none met another.
Quiet(o) == calls[o] = {} /\ o \notin mixed

(***************************************************************************)
(* The gauge and the verdict call the same orders stuck: each order whose  *)
(* reports were made one after the other, whichever threads made them, and *)
(* also one that ended twice because the cancel watch looked too early.    *)
(***************************************************************************)
StuckAgrees == \A o \in Watched : Quiet(o) => (o \in Stale <=> o \in StuckOpen)

(***************************************************************************)
(* What the live tallies and the verdict's figures differ by when every    *)
(* order's reports were made one after the other: the verdict also counts  *)
(* as cleared the filled orders that were no obligation (never marketable, *)
(* or left resting by an auction first), and as missed the obligations     *)
(* that were cancelled and the ones the gauge shows stale.  An order is    *)
(* tallied once, by its first end.                                         *)
(***************************************************************************)
TalliesAgree ==
    (\A o \in Watched : Quiet(o)) =>
        /\ VerdictCleared = slo.cleared + Cardinality({o \in Verdicts("cleared") : ~Obliged(events[o])})
        /\ VerdictMissed = slo.missed + Cardinality(Stale)
                           + Cardinality({o \in Verdicts("missed") : Outcome(events[o]) = "cancelled"})

(***************************************************************************)
(* The live figures and the verdict's: they agree on every stuck order,    *)
(* and on cleared and missed ones up to the classes only one counts.       *)
(***************************************************************************)
VerdictAgrees == StuckAgrees /\ TalliesAgree
=============================================================================
