---------------------------- MODULE TcpRarProofs ----------------------------
(* Theorems about one call of TcpRequestAndReply::run for every set of       *)
(* datagrams and streams the peer may send, in whatever pieces they come.    *)

EXTENDS TcpRar, DatagramProofs

(* What a send or receive transfers is never more than it asked for.         *)
LEMMA PortionsFit ==
  ASSUME NEW n \in Nat, NEW k \in Portions(n)
  PROVE  k \in Nat /\ k <= n
BY TcpRarAssumption DEF Portions, TcpRarAssumption

(* missingBytes is a number.                                                 *)
LEMMA MissingIsNat ==
  ASSUME NEW d \in RawDatagrams, NEW n \in Nat
  PROVE  d.length \in Nat /\ MissingBytes(d, n) \in Nat
<1>1. d.length \in Nat
  BY FieldsAreNat
<1>2. QED
  BY <1>1 DEF MissingBytes, TotalLength, LengthFieldEnd

Typed == TypeOK /\ BuffersHold

(* The types of the variables, and the bounds on the byte counts, are kept   *)
(* by every step: each operation transfers at most what is left.             *)
LEMMA TypedStep == Typed /\ [Next]_vars => Typed'
<1> USE TcpRarAssumption DEF TcpRarAssumption, Typed, TypeOK, BuffersHold,
            OpStates, RequestLength, MaxDatagramLength, ops, data
<1>1. Typed /\ Start => Typed'
  BY DEF Start
<1>2. Typed /\ NotOpen => Typed'
  BY DEF NotOpen
<1>3. ASSUME Typed, SendCompletes PROVE Typed'
  <2>1. Rest \in Nat
    BY <1>3 DEF Rest
  <2>2. PICK k \in Portions(Rest) : sent' = k
    BY <1>3 DEF SendCompletes
  <2>3. k \in Nat /\ k <= RequestLength - nBytesSent
    BY <2>1, PortionsFit DEF Rest
  <2>4. /\ send' = "ready"
        /\ UNCHANGED <<datagram, left, status, recv, timer, received,
                       nBytesSent, nBytesReceived, response, expired>>
    BY <1>3 DEF SendCompletes
  <2>5. TypeOK'
    BY <1>3, <2>2, <2>3, <2>4
  <2>6. BuffersHold'
    BY <1>3, <2>2, <2>3, <2>4
  <2>7. QED
    BY <2>5, <2>6
<1>4. ASSUME Typed, RecvCompletes PROVE Typed'
  <2>1. /\ Lesser(Space, left) \in Nat
        /\ Lesser(Space, left) <= Space /\ Lesser(Space, left) <= left
    BY <1>4 DEF Space, Lesser
  <2>2. PICK k \in Portions(Lesser(Space, left)) : received' = k
    BY <1>4 DEF RecvCompletes
  <2>3. k \in Nat /\ k <= Lesser(Space, left)
    BY <2>1, PortionsFit
  <2>4. k <= Space /\ left - k \in Nat
    BY <1>4, <2>1, <2>3 DEF Space
  <2>5. /\ recv' = "ready" /\ left' = left - k
        /\ UNCHANGED <<datagram, status, send, timer, sent, nBytesSent,
                       nBytesReceived, response, expired>>
    BY <1>4, <2>2 DEF RecvCompletes
  <2>6. TypeOK'
    BY <1>4, <2>2, <2>3, <2>4, <2>5
  <2>7. BuffersHold'
    BY <1>4, <2>2, <2>3, <2>4, <2>5 DEF Space
  <2>8. QED
    BY <2>6, <2>7
<1>5. Typed /\ RecvEmpty => Typed'
  BY DEF RecvEmpty, Busy, Space
<1>6. Typed /\ OperationFails => Typed'
  BY DEF OperationFails, Busy
<1>7. Typed /\ TimerExpires => Typed'
  BY DEF TimerExpires, Busy
<1>8. Typed /\ HandleDeadline => Typed'
  BY DEF HandleDeadline, Busy, Cancelled
<1>9. Typed /\ SendReady => Typed'
  BY DEF SendReady, Busy, Cancelled
<1>10. Typed /\ SendAborted => Typed'
  BY DEF SendAborted, Busy
<1>11. Typed /\ SendFailed => Typed'
  BY DEF SendFailed, Busy, Throw, Cancelled
<1>12. ASSUME Typed, RecvReady PROVE Typed'
  <2>1. Got \in Nat /\ Got <= MaxDatagramLength
    BY <1>12 DEF RecvReady, Got
  <2>2. PICK n \in {0, Got}, k \in {0, nBytesSent} :
          nBytesReceived' = n /\ nBytesSent' = k
    BY <1>12, Zenon DEF RecvReady, Throw
  <2>3. /\ n \in Nat /\ n <= MaxDatagramLength
        /\ k \in Nat /\ k <= nBytesSent
    BY <1>12, <2>1
  <2>4. /\ UNCHANGED <<datagram, left, send, sent, received, response, expired>>
        /\ recv' \in {"pending", "none"} /\ status' \in {"busy", "error"}
        /\ timer' \in {timer, "aborted"}
    BY <1>12, Zenon DEF RecvReady, Throw, Cancelled, Busy
  <2>5. TypeOK'
    BY <1>12, <2>2, <2>3, <2>4
  <2>6. BuffersHold'
    BY <1>12, <2>2, <2>3, <2>4
  <2>7. QED
    BY <2>5, <2>6
<1>13. Typed /\ RecvAborted => Typed'
  BY DEF RecvAborted, Busy
<1>14. Typed /\ RecvFailed => Typed'
  BY DEF RecvFailed, Busy, Throw, Cancelled
<1>15. Typed /\ Return => Typed'
  BY DEF Return, Busy
<1>16. Typed /\ Finished => Typed'
  BY DEF Finished, vars
<1>17. Typed /\ UNCHANGED vars => Typed'
  BY DEF vars
<1>18. QED
  BY <1>1, <1>2, <1>3, <1>4, <1>5, <1>6, <1>7, <1>8, <1>9, <1>10, <1>11,
     <1>12, <1>13, <1>14, <1>15, <1>16, <1>17 DEF Next, Handler

(* The relation between operations, counters and the outcome is kept by      *)
(* every step.                                                               *)
LEMMA AgreeStep == IInv /\ [Next]_vars => (ResponseIsComplete /\ OpsAgree)'
<1> USE DEF ResponseIsComplete, OpsAgree, ops, data
<1>1. IInv /\ Start => (ResponseIsComplete /\ OpsAgree)'
  BY DEF IInv, Start
<1>2. IInv /\ NotOpen => (ResponseIsComplete /\ OpsAgree)'
  BY DEF IInv, NotOpen
<1>3. IInv /\ SendCompletes => (ResponseIsComplete /\ OpsAgree)'
  BY DEF IInv, SendCompletes, Busy
<1>4. IInv /\ RecvCompletes => (ResponseIsComplete /\ OpsAgree)'
  BY DEF IInv, RecvCompletes, Busy
<1>5. IInv /\ RecvEmpty => (ResponseIsComplete /\ OpsAgree)'
  BY DEF IInv, RecvEmpty, Busy
<1>6. IInv /\ OperationFails => (ResponseIsComplete /\ OpsAgree)'
  BY DEF IInv, OperationFails, Busy
<1>7. IInv /\ TimerExpires => (ResponseIsComplete /\ OpsAgree)'
  BY DEF IInv, TimerExpires, Busy
<1>8. IInv /\ HandleDeadline => (ResponseIsComplete /\ OpsAgree)'
  BY DEF IInv, HandleDeadline, Busy, Cancelled
<1>9. IInv /\ SendReady => (ResponseIsComplete /\ OpsAgree)'
  BY DEF IInv, SendReady, Busy, Cancelled
<1>10. IInv /\ SendAborted => (ResponseIsComplete /\ OpsAgree)'
  BY DEF IInv, SendAborted, Busy
<1>11. IInv /\ SendFailed => (ResponseIsComplete /\ OpsAgree)'
  BY DEF IInv, SendFailed, Busy, Throw, Cancelled
<1>12. ASSUME IInv, RecvReady PROVE (ResponseIsComplete /\ OpsAgree)'
  <2>1. Got \in Nat /\ datagram \in RawDatagrams
    BY <1>12, TcpRarAssumption DEF IInv, TypeOK, Got, TcpRarAssumption
  <2>2. CASE NeedsMore
    BY <1>12, <2>2 DEF RecvReady, Busy, Cancelled, Malformed, Throw, IInv
  <2>3. CASE Malformed
    BY <1>12, <2>3 DEF RecvReady, Busy, Cancelled, NeedsMore, Throw, IInv,
                       HeaderSize
  <2>4. CASE ~NeedsMore /\ ~Malformed
    <3>1. /\ Got >= HeaderSize /\ MissingThrows(datagram, Got) = "none"
          /\ MissingBytes(datagram, Got) = 0
      BY <2>1, <2>4, MissingIsNat DEF NeedsMore, Malformed, HeaderSize
    <3>2. /\ nBytesReceived' = Got /\ recv' = "none"
          /\ timer' = Cancelled(timer)
          /\ UNCHANGED <<datagram, status, response, expired>>
      BY <1>12, <2>4 DEF RecvReady
    <3>3. status = "busy"
      BY <1>12 DEF RecvReady, Busy
    <3>4. QED
      BY <1>12, <2>1, <3>1, <3>2, <3>3 DEF IInv, Cancelled, HeaderSize
  <2>5. QED
    BY <2>2, <2>3, <2>4
<1>13. IInv /\ RecvAborted => (ResponseIsComplete /\ OpsAgree)'
  BY DEF IInv, RecvAborted, Busy
<1>14. IInv /\ RecvFailed => (ResponseIsComplete /\ OpsAgree)'
  BY DEF IInv, RecvFailed, Busy, Throw, Cancelled
<1>15. ASSUME IInv, Return PROVE (ResponseIsComplete /\ OpsAgree)'
  <2>1. nBytesReceived \in Nat /\ datagram \in RawDatagrams
    BY <1>15, TcpRarAssumption DEF IInv, TypeOK, TcpRarAssumption
  <2>2. CASE status' = "response"
    <3>1. Object \in Classes /\ response' = Object
      BY <1>15, <2>2 DEF Return
    <3>2. TotalLength(datagram) <= nBytesReceived
      BY <2>1, <3>1, ObjectIsWhole DEF Object
    <3>3. QED
      BY <1>15, <2>2, <3>1, <3>2 DEF Return, Busy, IInv
  <2>3. CASE status' # "response"
    BY <1>15, <2>3 DEF Return, Busy, IInv
  <2>4. QED
    BY <2>2, <2>3
<1>16. IInv /\ Finished => (ResponseIsComplete /\ OpsAgree)'
  BY DEF IInv, Finished, vars
<1>17. IInv /\ UNCHANGED vars => (ResponseIsComplete /\ OpsAgree)'
  BY DEF IInv, vars
<1>18. QED
  BY <1>1, <1>2, <1>3, <1>4, <1>5, <1>6, <1>7, <1>8, <1>9, <1>10, <1>11,
     <1>12, <1>13, <1>14, <1>15, <1>16, <1>17 DEF Next, Handler

(* The initial states satisfy the invariant.                                 *)
LEMMA InitIInv == Init => IInv
<1>1. Init => left \in Nat
  BY TcpRarAssumption DEF Init, TcpRarAssumption
<1>2. Init => BuffersHold /\ ResponseIsComplete /\ OpsAgree
  BY DEF Init, BuffersHold, ResponseIsComplete, OpsAgree, RequestLength,
         MaxDatagramLength
<1>3. Init => /\ sent \in Nat /\ received \in Nat
              /\ nBytesSent \in Nat /\ nBytesReceived \in Nat
  BY DEF Init
<1>4. Init => TypeOK
  <2>1. Init => nBytesSent <= RequestLength /\ nBytesReceived <= MaxDatagramLength
    BY DEF Init, RequestLength, MaxDatagramLength
  <2>2. QED
    BY <1>1, <1>3, <2>1, Zenon DEF Init, TypeOK, OpStates
<1>5. QED
  BY <1>2, <1>4 DEF IInv

(* IInv is an invariant of every exchange.                                   *)
THEOREM Inductive == Spec => []IInv
<1>1. IInv /\ [Next]_vars => IInv'
  BY TypedStep, AgreeStep DEF IInv, Typed
<1>2. QED
  BY <1>1, InitIInv, PTL DEF Spec

(* Every variable keeps its type.                                            *)
THEOREM TypeCorrect == Spec => []TypeOK
<1>1. IInv => TypeOK
  BY DEF IInv
<1>2. QED
  BY <1>1, Inductive, PTL

(* No send reads beyond the request, and no receive writes beyond the end of *)
(* the 260 bytes of responseBuffer, whatever length a datagram claims.       *)
THEOREM NoOverrun == Spec => []BuffersHold
<1>1. IInv => BuffersHold
  BY DEF IInv
<1>2. QED
  BY <1>1, Inductive, PTL

(* A truncated datagram never becomes a response.                            *)
THEOREM NoTruncatedResponse == Spec => []ResponseIsComplete
<1>1. IInv => ResponseIsComplete
  BY DEF IInv
<1>2. QED
  BY <1>1, Inductive, PTL

(* Each step of an exchange is a step of the promise made to its caller, or  *)
(* changes nothing the caller can see.                                       *)
LEMMA PromiseStep == IInv /\ [Next]_vars => [Promise!Next]_(Promise!vars)
<1> USE DEF IInv, OpsAgree, Promise!vars, Arrived
<1>1. IInv /\ Start => Promise!Begin
  BY DEF Start, Promise!Begin, data
<1>2. IInv /\ NotOpen => Promise!Failed
  BY DEF NotOpen, Promise!Failed, ops, data
<1>3. IInv /\ TimerExpires => Promise!Expire \/ UNCHANGED Promise!vars
  BY DEF TimerExpires, Busy, Promise!Expire, data, TypeOK
<1>4. IInv /\ (SendFailed \/ RecvFailed) => Promise!Failed
  BY DEF SendFailed, RecvFailed, Throw, Busy, Promise!Failed
<1>5. ASSUME IInv, RecvReady
      PROVE  Promise!Arrive \/ Promise!Failed \/ UNCHANGED Promise!vars
  <2>1. CASE status' = "busy" /\ recv' = "none"
    BY <1>5, <2>1 DEF RecvReady, Throw, Busy, Promise!Arrive
  <2>2. CASE status' = "busy" /\ recv' # "none"
    BY <1>5, <2>2 DEF RecvReady, Throw, Busy
  <2>3. CASE status' # "busy"
    BY <1>5, <2>3 DEF RecvReady, Throw, Busy, Promise!Failed
  <2>4. QED
    BY <2>1, <2>2, <2>3
<1>6. IInv /\ Return => Promise!Answered \/ Promise!TimedOut \/ Promise!Failed
  BY DEF Return, Busy, ops, Promise!Answered, Promise!TimedOut, Promise!Failed
<1>7. IInv /\ (SendCompletes \/ RecvCompletes \/ RecvEmpty \/ OperationFails)
        => UNCHANGED Promise!vars
  BY DEF SendCompletes, RecvCompletes, RecvEmpty, OperationFails, Busy, data
<1>8. IInv /\ (HandleDeadline \/ SendReady \/ SendAborted \/ RecvAborted)
        => UNCHANGED Promise!vars
  BY DEF HandleDeadline, SendReady, SendAborted, RecvAborted, Busy, Cancelled,
         data
<1>9. Finished \/ UNCHANGED vars => UNCHANGED Promise!vars
  BY DEF Finished, vars, ops, data
<1>10. QED
  BY <1>1, <1>2, <1>3, <1>4, <1>5, <1>6, <1>7, <1>8, <1>9
     DEF Next, Handler, Promise!Next

(* TcpRequestAndReply::run implements the abstract exchange: no response     *)
(* without a complete datagram, no complete datagram without a response      *)
(* unless it throws, and none of both only after the time out.               *)
THEOREM ImplementsExchange == Spec => KeepsPromise
<1>1. Init => Promise!Init
  BY DEF Init, Promise!Init, Arrived
<1>2. QED
  BY <1>1, PromiseStep, Inductive, PTL DEF Spec, KeepsPromise, Promise!Spec

=============================================================================
