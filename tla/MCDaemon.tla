------------------------------ MODULE MCDaemon ------------------------------
(* The daemon with the values of its constants for TLC.  The daemon has no   *)
(* parameter to bound: every run explores all of its states.                 *)

EXTENDS Daemon

BothBuilds == {"debug", "release"}
ReleaseOnly == {"release"}

AllFaults   == FaultKinds
NoFaults    == {}
LinkFaults  == {"connect", "eintr"}
AllOutcomes == OutcomeKinds
MildOutcomes == {"answer", "runtime_error"}

=============================================================================
