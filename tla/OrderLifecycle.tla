--------------------------- MODULE OrderLifecycle ---------------------------
(***************************************************************************)
(* What the builder promises the owner of an order: the order is open from *)
(* the moment it is taken until it is reported, once; it is reported       *)
(* settled when it has settled for good, and in any other way only when it *)
(* has not and, being closed, never will.                                  *)
(***************************************************************************)
CONSTANT Items      \* orders, and the remainders they leave

VARIABLES
    stage,          \* what the owner was told of each order
    forGood         \* the orders whose settlement can no longer be undone

lifecycleVars == <<stage, forGood>>

Init == stage = [o \in Items |-> "new"] /\ forGood = {}

\* What one order's owner is told in a step; a round moves several orders at once.
Opens(from, to) == from = "new" /\ to = "open"
Closes(o, from, to) ==
    /\ from = "open"
    /\ \/ to = "settled" /\ o \in forGood
       \/ to \in {"rejected", "cancelled"} /\ o \notin forGood

Tell ==
    LET told == stage
        next == stage'
    IN  /\ told # next /\ DOMAIN next = Items
        /\ \A o \in Items : \/ next[o] = told[o]
                            \/ Opens(told[o], next[o])
                            \/ Closes(o, told[o], next[o])
        /\ UNCHANGED forGood

\* Only an open order settles.
Settle ==
    /\ forGood # forGood' /\ forGood \subseteq forGood'
    /\ \A o \in forGood' \ forGood : stage[o] = "open"
    /\ UNCHANGED stage

Spec == Init /\ [][Tell \/ Settle]_lifecycleVars
=============================================================================
