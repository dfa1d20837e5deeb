---------------------------- MODULE MCPeriphery -----------------------------
(***************************************************************************)
(* What surrounds the exchange, each part on its own: a behaviour is about *)
(* one of them.                                                            *)
(*                                                                         *)
(* telemetry  one order, three events, a grace of one second               *)
(* receipts   two rounds with fills, two re-orgs, two restarts             *)
(* access     one thread that submits and one that reads, both backends    *)
(* deploy     two runs, two creates, finality that lags                    *)
(* setup      two accounts, packages of three items, two runs              *)
(* netwatch   three nodes, three samples (two where some have no hashes),  *)
(*            a fork and a slot left out; one node is at the fork or ahead *)
(*            of it, or down with all others                               *)
(* parity     two nodes with JIP-2, two that name one reader               *)
(* finality   a hold longer than the window, and looks at any time         *)
(***************************************************************************)
EXTENDS OrderTelemetry, Receipts, ChainAccess, Deploy, DexSetup, NetWatch, StateParity, Finality
CONSTANTS d1, d2, n1, n2, n3

VARIABLE part       \* the part this behaviour is about

MCDev == <<d1, d2>>

\* A trunk that ends at 5a; 6a, 7a, 8a follow it on one branch, 7b on another.
B(s, f) == [slot |-> s, fork |-> f]
Trunk == <<B(5, "a")>>
Short == Trunk \o <<B(6, "a")>>
Other == Trunk \o <<B(7, "b")>>
Long == Short \o <<B(7, "a"), B(8, "a")>>
Behind == [best |-> Trunk, final |-> Trunk]
Ahead == [best |-> Long, final |-> SubSeq(Long, 1, 3)]
MCSeen == {Behind, Ahead, [best |-> Short, final |-> Short], [best |-> Other, final |-> Other]}

MCVars == <<telemetryVars, receiptVars, accessVars, deployVars, setupVars, watchVars, parityVars, finalityVars, part>>

MCInit ==
    /\ part \in {"telemetry", "receipts", "access", "deploy", "setup", "netwatch", "parity", "finality"}
    /\ TelemetryInit /\ ReceiptsInit /\ AccessInit /\ DeployInit
    /\ SetupInit /\ WatchInit /\ ParityInit /\ FinalityInit
    /\ part # "access" => backend = "jip2" /\ keyAt = <<TRUE>>
    /\ hashless \in IF part = "netwatch" THEN {{}, {n1, n2}} ELSE {{}}
    /\ part # "parity" => probes = {} /\ bridge = [n \in ReaderNodes |-> NoBridge]
    /\ part # "finality" => readsFinal

MCNext ==
    /\ UNCHANGED part
    /\ \/ /\ part = "telemetry" /\ TelemetryNext
          /\ UNCHANGED <<receiptVars, accessVars, deployVars, setupVars, watchVars, parityVars, finalityVars>>
       \/ /\ part = "receipts" /\ ReceiptsNext
          /\ UNCHANGED <<telemetryVars, accessVars, deployVars, setupVars, watchVars, parityVars, finalityVars>>
       \/ /\ part = "access" /\ AccessNext
          /\ UNCHANGED <<telemetryVars, receiptVars, deployVars, setupVars, watchVars, parityVars, finalityVars>>
       \/ /\ part = "deploy" /\ DeployNext
          /\ UNCHANGED <<telemetryVars, receiptVars, accessVars, setupVars, watchVars, parityVars, finalityVars>>
       \/ /\ part = "setup" /\ SetupNext
          /\ UNCHANGED <<telemetryVars, receiptVars, accessVars, deployVars, watchVars, parityVars, finalityVars>>
       \/ /\ part = "netwatch" /\ WatchNext
          /\ Last(samples')[n3] \in {Behind, Ahead} \/ Up(Last(samples')) = {}
          /\ hashless # {} => Len(samples) < 2
          /\ UNCHANGED <<telemetryVars, receiptVars, accessVars, deployVars, setupVars, parityVars, finalityVars>>
       \/ /\ part = "parity" /\ ParityNext
          /\ UNCHANGED <<telemetryVars, receiptVars, accessVars, deployVars, setupVars, watchVars, finalityVars>>
       \/ /\ part = "finality" /\ FinalityNext
          /\ UNCHANGED <<telemetryVars, receiptVars, accessVars, deployVars, setupVars, watchVars, parityVars>>

MCSpec == MCInit /\ [][MCNext]_MCVars
=============================================================================
