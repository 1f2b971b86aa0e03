---------------------------- MODULE SlotRegister ----------------------------
(***************************************************************************)
(* The registers of PxCI, PxSACT and UTRLDBR have a bit for each of 32     *)
(* command slots.                                                          *)
(***************************************************************************)
EXTENDS Integers

CONSTANT Slots  \* the slots the driver uses

ASSUME SlotsAssumption == Slots \subseteq 0 .. 31
=============================================================================
