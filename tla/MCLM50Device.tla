---------------------------- MODULE MCLM50Device ----------------------------
(* The device object with three transaction numbers, which therefore wrap    *)
(* around, and a device that does everything a device may do.                *)

EXTENDS LM50Device

AllFaults == FaultKinds

=============================================================================
