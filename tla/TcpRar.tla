------------------------------- MODULE TcpRar -------------------------------
(***************************************************************************)
(* One call of TcpRequestAndReply::run (lib/mb_tcprar.cpp): a send, a      *)
(* receive and a deadline timer started together on a boost::asio          *)
(* io_service, whose run() executes one completion handler after another   *)
(* until no operation is outstanding.                                      *)
(*                                                                         *)
(* An operation is "pending" until the kernel or the clock completes it,   *)
(* then waits for its handler: "ready" (no error), "failed" (an error) or  *)
(* "aborted" (operation_aborted, after a cancel).  Completed handlers are  *)
(* queued in the order of completion; the model runs them in any order,    *)
(* which reaches the same states, as completions come in any order anyway. *)
(*                                                                         *)
(* The peer's bytes are a datagram, by what module Datagram keeps of it,   *)
(* and the number of bytes of it that still come, fewer or more than it    *)
(* says itself.                                                            *)
(***************************************************************************)

EXTENDS Datagram

CONSTANTS
  Datagrams,   \* what the peer's bytes may begin with
  Streams,     \* how many bytes the peer may send
  Chunks,      \* how many bytes the kernel may take or deliver at once,
               \* besides as many as possible
  Unsolicited  \* may the peer send before it has the whole request?

ASSUME TcpRarAssumption ==
  /\ Datagrams \subseteq RawDatagrams
  /\ Streams \subseteq Nat
  /\ Chunks \subseteq Nat
  /\ Unsolicited \in BOOLEAN

VARIABLES
  datagram,  \* the first bytes the peer sends; never changes
  left,      \* the number of bytes that are still to come
  status,    \* idle, busy, or how run() ended: response, none or error
  send, recv, timer,   \* the three operations
  sent, received,      \* bytes_transferred of a ready send or receive
  nBytesSent, nBytesReceived,
  response,  \* the class of *responseDgram, or "NULL"
  expired    \* history: the timer has expired

ops  == <<send, recv, timer>>
data == <<sent, received, nBytesSent, nBytesReceived>>
vars == <<datagram, left, status, ops, data, response, expired>>

OpStates == {"none", "pending", "ready", "failed", "aborted"}

Busy == status = "busy"

\* Mutant of Space: every receive is given the size of the whole buffer.
SpaceWhole == MaxDatagramLength

\* The size of the buffer a receive is given.
Space == MaxDatagramLength - nBytesReceived

\* Mutant of Rest: every send is given the size of the whole request.
RestWhole == RequestLength

\* The size of the buffer a send is given.
Rest == RequestLength - nBytesSent

\* What a send or receive of at most n bytes may transfer.
Portions(n) == {n} \cup {k \in Chunks : 0 < k /\ k <= n}

Lesser(a, b) == IF a <= b THEN a ELSE b

\* The effect of a cancel on an operation; one that has completed already
\* still runs its handler without an error.
Cancelled(op) == IF op = "pending" THEN "aborted" ELSE op

Init ==
  /\ datagram \in Datagrams
  /\ left \in Streams
  /\ status = "idle"
  /\ send = "none" /\ recv = "none" /\ timer = "none"
  /\ sent = 0 /\ received = 0 /\ nBytesSent = 0 /\ nBytesReceived = 0
  /\ response = "NULL"
  /\ expired = FALSE

\* run() up to io_service::run().
Start ==
  /\ status = "idle"
  /\ status' = "busy"
  /\ send' = "pending" /\ recv' = "pending" /\ timer' = "pending"
  /\ UNCHANGED <<datagram, left, data, response, expired>>

\* The socket is not open: logic_error.
NotOpen ==
  /\ status = "idle"
  /\ status' = "error"
  /\ UNCHANGED <<datagram, left, ops, data, response, expired>>

-----------------------------------------------------------------------------
(* The kernel and the clock complete operations.                           *)

SendCompletes ==
  /\ Busy /\ send = "pending"
  /\ send' = "ready"
  /\ sent' \in Portions(Rest)
  /\ UNCHANGED <<datagram, left, status, recv, timer, received, nBytesSent,
                 nBytesReceived, response, expired>>

\* The peer has the whole request as far as the kernel is concerned.
RequestOut ==
  nBytesSent + (IF send = "ready" THEN sent ELSE 0) = RequestLength

RecvCompletes ==
  /\ Busy /\ recv = "pending"
  /\ Space > 0 /\ left > 0
  /\ Unsolicited \/ RequestOut
  /\ recv' = "ready"
  /\ received' \in Portions(Lesser(Space, left))
  /\ left' = left - received'
  /\ UNCHANGED <<datagram, status, send, timer, sent, nBytesSent,
                 nBytesReceived, response, expired>>

\* A receive into a buffer of size zero completes at once, with no bytes.
RecvEmpty ==
  /\ Busy /\ recv = "pending"
  /\ Space = 0
  /\ recv' = "ready" /\ received' = 0
  /\ UNCHANGED <<datagram, left, status, send, timer, sent, nBytesSent,
                 nBytesReceived, response, expired>>

\* The peer closes or resets the connection.
OperationFails ==
  /\ Busy
  /\ \/ send = "pending" /\ send' = "failed" /\ UNCHANGED recv
     \/ recv = "pending" /\ Space > 0 /\ recv' = "failed" /\ UNCHANGED send
  /\ UNCHANGED <<datagram, left, status, timer, data, response, expired>>

TimerExpires ==
  /\ Busy /\ timer = "pending"
  /\ timer' = "ready"
  /\ expired' = TRUE
  /\ UNCHANGED <<datagram, left, status, send, recv, data, response>>

-----------------------------------------------------------------------------
(* The handlers.                                                           *)

\* An exception leaves a handler and io_service::run(); the catch clause of
\* run() deletes the timer, forgets what was transferred and rethrows.
Throw ==
  /\ status' = "error"
  /\ timer' = Cancelled(timer)
  /\ nBytesSent' = 0 /\ nBytesReceived' = 0

\* Mutants of HandleDeadline: the error is not looked at; nothing is cancelled.
HandleAnyDeadline ==
  /\ Busy /\ timer \in {"ready", "aborted"}
  /\ timer' = "none"
  /\ send' = Cancelled(send) /\ recv' = Cancelled(recv)
  /\ UNCHANGED <<datagram, left, status, data, response, expired>>

HandleDeadlineKeeps ==
  /\ Busy /\ timer \in {"ready", "aborted"}
  /\ timer' = "none"
  /\ UNCHANGED <<datagram, left, status, send, recv, data, response, expired>>

\* An expired timer cancels the socket's operations, an aborted one nothing.
HandleDeadline ==
  /\ Busy /\ timer \in {"ready", "aborted"}
  /\ timer' = "none"
  /\ IF timer = "ready"
       THEN send' = Cancelled(send) /\ recv' = Cancelled(recv)
       ELSE UNCHANGED <<send, recv>>
  /\ UNCHANGED <<datagram, left, status, data, response, expired>>

\* Setting the timer anew (expires_from_now) cancels the wait in progress;
\* the handlers do not start another one.
SendReady ==
  /\ Busy /\ send = "ready"
  /\ nBytesSent' = nBytesSent + sent
  /\ \/ /\ nBytesSent' < RequestLength
        /\ send' = "pending"
        /\ timer' = Cancelled(timer)
     \/ /\ nBytesSent' >= RequestLength
        /\ send' = "none"
        /\ UNCHANGED timer
  /\ UNCHANGED <<datagram, left, status, recv, sent, received,
                 nBytesReceived, response, expired>>

SendAborted ==
  /\ Busy /\ send = "aborted"
  /\ send' = "none"
  /\ UNCHANGED <<datagram, left, status, recv, timer, data, response, expired>>

SendFailed ==
  /\ Busy /\ send = "failed"
  /\ send' = "none"
  /\ Throw
  /\ UNCHANGED <<datagram, left, recv, sent, received, response, expired>>

\* The bytes received so far, once the handler has added its own.
Got == nBytesReceived + received

\* The condition under which another receive is started.
NeedsMore ==
  \/ Got < HeaderSize
  \/ MissingThrows(datagram, Got) = "none" /\ MissingBytes(datagram, Got) > 0

\* missingBytes throws.
Malformed == Got >= HeaderSize /\ MissingThrows(datagram, Got) # "none"

RecvReady ==
  /\ Busy /\ recv = "ready"
  /\ \/ /\ NeedsMore
        /\ nBytesReceived' = Got
        /\ recv' = "pending"
        /\ timer' = Cancelled(timer)
        /\ UNCHANGED <<status, nBytesSent>>
     \/ /\ Malformed
        /\ recv' = "none"
        /\ Throw
     \/ /\ ~NeedsMore /\ ~Malformed
        /\ nBytesReceived' = Got
        /\ recv' = "none"
        /\ timer' = Cancelled(timer)
        /\ UNCHANGED <<status, nBytesSent>>
  /\ UNCHANGED <<datagram, left, send, sent, received, response, expired>>

RecvAborted ==
  /\ Busy /\ recv = "aborted"
  /\ recv' = "none"
  /\ nBytesReceived' = 0
  /\ UNCHANGED <<datagram, left, status, send, timer, sent, received,
                 nBytesSent, response, expired>>

RecvFailed ==
  /\ Busy /\ recv = "failed"
  /\ recv' = "none"
  /\ Throw
  /\ UNCHANGED <<datagram, left, send, sent, received, response, expired>>

-----------------------------------------------------------------------------
(* io_service::run() returns when nothing is outstanding.                  *)

Object == CreateObject(datagram, nBytesReceived)

Return ==
  /\ Busy
  /\ send = "none" /\ recv = "none" /\ timer = "none"
  /\ \/ /\ nBytesReceived = 0
        /\ status' = "none"
        /\ UNCHANGED <<response, nBytesSent, nBytesReceived>>
     \/ /\ nBytesReceived # 0 /\ Object \in Classes
        /\ status' = "response"
        /\ response' = Object
        /\ UNCHANGED <<nBytesSent, nBytesReceived>>
     \/ /\ nBytesReceived # 0 /\ Object \notin Classes
        /\ status' = "error"
        /\ nBytesSent' = 0 /\ nBytesReceived' = 0
        /\ UNCHANGED response
  /\ UNCHANGED <<datagram, left, ops, sent, received, expired>>

Handler == \/ HandleDeadline
           \/ SendReady \/ SendAborted \/ SendFailed
           \/ RecvReady \/ RecvAborted \/ RecvFailed

\* run() has returned or thrown.
Finished == status \in {"response", "none", "error"} /\ UNCHANGED vars

Next == \/ Start \/ NotOpen
        \/ SendCompletes \/ RecvCompletes \/ RecvEmpty \/ OperationFails
        \/ TimerExpires
        \/ Handler \/ Return \/ Finished

Spec == Init /\ [][Next]_vars

-----------------------------------------------------------------------------
\* Every variable has its type; the counters count bytes of their buffers.
TypeOK ==
  /\ datagram \in Datagrams
  /\ left \in Nat
  /\ status \in {"idle", "busy", "response", "none", "error"}
  /\ send \in OpStates /\ recv \in OpStates /\ timer \in OpStates
  /\ sent \in Nat /\ received \in Nat
  /\ nBytesSent \in Nat /\ nBytesSent <= RequestLength
  /\ nBytesReceived \in Nat /\ nBytesReceived <= MaxDatagramLength
  /\ response \in Classes \cup {"NULL"}
  /\ expired \in BOOLEAN

\* Neither buffer is overrun: what a completed operation transferred fits
\* between the count so far and the end of the request, or of the response
\* buffer, whatever the pieces and whatever length the peer announces.
BuffersHold ==
  /\ nBytesSent + (IF send = "ready" THEN sent ELSE 0) <= RequestLength
  /\ nBytesReceived + (IF recv = "ready" THEN received ELSE 0)
       <= MaxDatagramLength

\* A response is made only of a datagram that has been received to its end.
ResponseIsComplete ==
  status = "response" =>
    /\ response \in Classes
    /\ TotalLength(datagram) <= nBytesReceived

\* A complete datagram has been received and handled.
Arrived == recv = "none" /\ nBytesReceived # 0

Promise == INSTANCE Exchange WITH arrived <- Arrived

\* One call of run keeps what Exchange promises, in particular: a deadline
\* that expires together with the arrival of the last bytes neither loses a
\* complete response nor lets a partial one through, and run returns without
\* response only when the time has passed.
KeepsPromise == Promise!Spec

\* What the operations and counters have to do with each other (the theorems
\* of module TcpRarProofs rest on it): a receive ends for good either with a
\* complete datagram, or aborted after the timer has expired, or with an
\* exception.
OpsAgree ==
  /\ status = "idle" => /\ send = "none" /\ recv = "none" /\ timer = "none"
                        /\ nBytesSent = 0 /\ nBytesReceived = 0
                        /\ ~expired
  /\ timer = "ready" => expired
  /\ recv = "aborted" => expired
  /\ status = "busy" /\ recv = "none" =>
       IF nBytesReceived = 0 THEN expired
       ELSE /\ MissingThrows(datagram, nBytesReceived) = "none"
            /\ MissingBytes(datagram, nBytesReceived) = 0
  /\ status = "response" => recv = "none" /\ nBytesReceived # 0
  /\ status \in {"none", "error"} => nBytesReceived = 0

IInv == TypeOK /\ BuffersHold /\ ResponseIsComplete /\ OpsAgree

\* io_service::run() executes handlers while there are any, the clock goes
\* on, and asio completes an empty receive by itself.  Nothing is assumed of
\* the peer.
Fairness == /\ WF_vars(Handler \/ Return)
            /\ WF_vars(TimerExpires)
            /\ WF_vars(RecvEmpty)

FairSpec == Spec /\ Fairness

\* While the timer runs the caller is not blocked by a silent device: the
\* deadline ends the call, unless first bytes arrive before its handler runs or
\* the request is sent in pieces.
SilenceEnds ==
  timer \in {"pending", "ready"} ~>
    \/ status # "busy"
    \/ nBytesReceived > 0
    \/ nBytesSent \in 1 .. RequestLength - 1

-----------------------------------------------------------------------------
(* What a comment of the code says and its steps do not keep.              *)

\* mb_tcprar.h:62-63: "The function blocks until either the response has
\* arrived or the time out duration has expired."
RunReturns == status = "busy" ~> status # "busy"

=============================================================================
