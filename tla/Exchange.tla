------------------------------ MODULE Exchange ------------------------------
(***************************************************************************)
(* What TcpRequestAndReply::run promises its caller (lib/mb_tcprar.h and   *)
(* the comments in lib/mb_tcprar.cpp), without sockets, timers or bytes: it *)
(* returns with a response only if a complete datagram has arrived, without *)
(* one only if the time out duration has passed and none had arrived, and  *)
(* otherwise throws.  Whatever has arrived is forgotten by an exception.   *)
(***************************************************************************)

VARIABLES
  status,   \* idle, busy, or how run() ended: response, none or error
  arrived,  \* a complete datagram has been received
  expired   \* the time out duration has passed

vars == <<status, arrived, expired>>

Init == status = "idle" /\ arrived = FALSE /\ expired = FALSE

Begin == /\ status = "idle"
         /\ status' = "busy"
         /\ UNCHANGED <<arrived, expired>>

Arrive == /\ status = "busy" /\ ~arrived
          /\ arrived' = TRUE
          /\ UNCHANGED <<status, expired>>

Expire == /\ status = "busy" /\ ~expired
          /\ expired' = TRUE
          /\ UNCHANGED <<status, arrived>>

Answered == /\ status = "busy" /\ arrived
            /\ status' = "response"
            /\ UNCHANGED <<arrived, expired>>

TimedOut == /\ status = "busy" /\ expired /\ ~arrived
            /\ status' = "none"
            /\ UNCHANGED <<arrived, expired>>

Failed == /\ status \in {"idle", "busy"}
          /\ status' = "error"
          /\ arrived' = FALSE
          /\ UNCHANGED expired

Next == Begin \/ Arrive \/ Expire \/ Answered \/ TimedOut \/ Failed

Spec == Init /\ [][Next]_vars

=============================================================================
