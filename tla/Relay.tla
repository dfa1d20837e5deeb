------------------------------- MODULE Relay -------------------------------
(***************************************************************************)
(* How the off-chain programs hand a work item to the chain                *)
(* (offchain/server.py submit, over CHAIN.submit).  A call ends in one of  *)
(* three ways; an item that went out is accumulated later, once, several   *)
(* times or never.                                                         *)
(***************************************************************************)
EXTENDS Integers, FiniteSets

\* ok: taken.  busy: every guarantor refused, the item never went out (ChainBusy).
\* unknown: the call failed after it may have gone out (any other ChainError).
Outcomes == {"ok", "busy", "unknown"}

\* The items that may be under way after `item' was submitted with this outcome.
After(net, item, outcome) ==
    {n \in {net, net \cup {item}} : /\ outcome = "ok" => item \in n
                                    /\ outcome = "busy" => n = net}
=============================================================================
