------------------------------ MODULE MCLoops -------------------------------
(***************************************************************************)
(* The builder's background loops, each on its own against a chain that    *)
(* refuses, loses and delays: a behaviour is about one of them.            *)
(*                                                                         *)
(* reserve       one change of the footprint, one restart or request of    *)
(*               others, a deposit window of two                           *)
(* cancels       one resting order that is cancelled, filled or pruned     *)
(* registrations two keys, asked for twice, two attempts each              *)
(* ledger        one tracked and two untracked submissions, one resolved   *)
(*               entry kept: entries are evicted beside an open one        *)
(***************************************************************************)
EXTENDS ReserveKeeper, CancelWatch, Registration, PendingLedger

VARIABLE loop       \* the loop this behaviour is about

MCVars == <<keeperVars, cancelVars, regVars, pendingVars, loop>>

MCInit ==
    /\ loop \in {"reserve", "cancels", "registrations", "ledger"}
    /\ KeeperInit /\ CancelInit /\ RegInit /\ PendingInit
    /\ loop # "reserve" => rent = 0

Reserve(step) == loop = "reserve" /\ step /\ UNCHANGED <<cancelVars, regVars, pendingVars, loop>>
Cancels(step) == loop = "cancels" /\ step /\ UNCHANGED <<keeperVars, regVars, pendingVars, loop>>
Registrations(step) == loop = "registrations" /\ step /\ UNCHANGED <<keeperVars, cancelVars, pendingVars, loop>>
Ledger(step) == loop = "ledger" /\ step /\ UNCHANGED <<keeperVars, cancelVars, regVars, loop>>

MCNext == Reserve(KeeperNext) \/ Cancels(CancelNext) \/ Registrations(RegNext) \/ Ledger(PendingNext)

(***************************************************************************)
(* The threads run, time passes, and the chain answers, takes and          *)
(* accumulates now and then.  A behaviour stays with its loop, so fairness *)
(* of the four together is fairness of each.                               *)
(***************************************************************************)
ThreadsRun ==
    \/ Reserve(StartupSteps) \/ Cancels(ResolverSteps) \/ Registrations(SweepRuns) \/ Ledger(WatcherTicks)
TimePasses == Registrations(AllOld) \/ Ledger(AllOverdue)
ChainAnswers == Reserve(KeeperActs) \/ Ledger(WatcherReads)
ChainAccumulates == Reserve(LandsSome)

MCSpec ==
    /\ MCInit /\ [][MCNext]_MCVars
    /\ WF_MCVars(ThreadsRun) /\ WF_MCVars(TimePasses)
    /\ SF_MCVars(ChainAnswers) /\ SF_MCVars(ChainAccumulates)
=============================================================================
