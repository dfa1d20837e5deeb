----------------------------- MODULE ChainSlots -----------------------------
(***************************************************************************)
(* The slot of the block accumulate runs in, a u32, and the saturating     *)
(* addition the service computes its deadlines with.                       *)
(***************************************************************************)
EXTENDS Integers

CONSTANT SLOT_MAX   \* u32::MAX, the last slot there is

ASSUME SlotMaxAssumption == SLOT_MAX \in Nat

VARIABLE now        \* the slot of the block accumulate runs in

Slots == 0..SLOT_MAX

\* u32 saturating_add
SatAdd(x, y) == IF x + y > SLOT_MAX THEN SLOT_MAX ELSE x + y
=============================================================================
