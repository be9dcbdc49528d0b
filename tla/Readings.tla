------------------------------ MODULE Readings ------------------------------
(***************************************************************************)
(* What LM50Device::updateVolatileValues promises its caller (the comment  *)
(* above it in core/lm50device.cpp): after a successful call the channels  *)
(* hold what the device measured while the call lasted, and lastUpdate the *)
(* time of its end; a failed call leaves both alone.                       *)
(***************************************************************************)

EXTENDS Naturals

VARIABLES
  meter,      \* the device's counters, which only grow, and so its clock
  calling,    \* updateVolatileValues has been called and not returned
  since,      \* meter when that call began, or 0
  channels,   \* LM50Device::_channels
  lastUpdate  \* LM50Device::_lastUpdate

vars == <<meter, calling, since, channels, lastUpdate>>

Init == /\ meter \in Nat
        /\ calling = FALSE /\ since = 0
        /\ channels = 0 /\ lastUpdate = 0

Count == /\ meter' > meter
         /\ UNCHANGED <<calling, since, channels, lastUpdate>>

Call == /\ ~calling
        /\ calling' = TRUE
        /\ since' = meter
        /\ UNCHANGED <<meter, channels, lastUpdate>>

Update == /\ calling
          /\ calling' = FALSE
          /\ channels' \in since .. meter
          /\ lastUpdate' = meter
          /\ since' = 0
          /\ UNCHANGED meter

Fail == /\ calling
        /\ calling' = FALSE
        /\ since' = 0
        /\ UNCHANGED <<meter, channels, lastUpdate>>

Next == Count \/ Call \/ Update \/ Fail

Spec == Init /\ [][Next]_vars

=============================================================================
