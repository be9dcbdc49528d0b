----------------------------- MODULE LM50Device -----------------------------
(***************************************************************************)
(* The device object of core/lm50device.cpp and its conversations with the *)
(* LM50TCP+ over one TCP connection at a time.                             *)
(*                                                                         *)
(* A request is lost to the caller when its time out passes, but not to    *)
(* the device: its answer may arrive during a later call, on the same      *)
(* connection.  The transaction number, 16 bits that wrap around, is all   *)
(* that tells the answers apart.  The calls come in any order, whether or  *)
(* not the one before failed and whether or not the connection has been    *)
(* renewed since; ModeDaemon, ModeHuman and ModeCacti are more careful.    *)
(* As in these three (module LM50Client), no call follows an exception     *)
(* that is not a runtime_error: it ends the program.  _lastReplyId, which  *)
(* is compared where it is set and nowhere else, is not kept.              *)
(*                                                                         *)
(* An exchange is one step here (module TcpRar has its inside).  It takes  *)
(* the first answer out of the stream, together with whatever came in the  *)
(* same receive and is thrown away, possibly a part of the next answer.    *)
(* The stream is torn then: the next exchange starts in the middle of a    *)
(* datagram.  That such a middle could pass for a header with the current  *)
(* transaction number is left out.                                         *)
(***************************************************************************)

EXTENDS Naturals, Sequences, Functions

CONSTANTS
  IdModulus,    \* how many transaction numbers there are (2^16)
  MaxMeter,     \* bound: how often the device's counters may advance
  MaxInFlight,  \* bound: requests, and answers, under way at a time
  Faults        \* what the device may do wrong

FaultKinds == {"error", "short", "odd", "format", "malformed", "twice",
               "ignore", "close", "refuse"}

ASSUME LM50DeviceAssumption ==
  /\ IdModulus \in Nat \ {0}
  /\ MaxMeter \in Nat
  /\ MaxInFlight \in Nat
  /\ Faults \subseteq FaultKinds

VARIABLES
  conn,        \* the socket: closed; opened but not connected; connected;
               \* or broken, after the device closed the connection
  requests,    \* requests the device has not answered yet
  answers,     \* answers on their way to, or received by, this host
  torn,        \* the next byte is not the first of an answer
  meter,       \* the device's counters, and the clock
  pc,          \* idle, or the register an answer is awaited for, or "steady"
               \* between the two exchanges of readSteadyValues
  lastRequestId, revision, serialNo, channels, lastUpdate,
  ended,       \* how the latest call ended, if none is in progress: returned,
               \* runtime_error, or other
  asked        \* history: meter when the latest request was sent

link   == <<requests, answers, torn>>
values == <<revision, serialNo, channels, lastUpdate>>
vars   == <<conn, link, meter, pc, lastRequestId, values, ended, asked>>

Registers == {"revision", "serial", "channels"}

\* The function codes of readHValue and readIValue.
Function(reg) == IF reg = "channels" THEN "input" ELSE "holding"

TransactionIds == 0 .. IdModulus - 1

Requests == [id : TransactionIds, reg : Registers]

\* What an answer looks like: as it should; an error datagram; a datagram of
\* another function; fewer registers than were asked for; a number of bytes
\* that is not a multiple of four; or bytes that are no datagram.
Shapes == {"good", "error", "format", "short", "odd", "malformed"}

Answers == [id : TransactionIds, reg : Registers, shape : Shapes, at : Nat]

\* The class of datagram an answer becomes, if any.
Class(a) == CASE a.shape = "error" -> "error"
              [] a.shape = "malformed" -> "none"
              [] a.shape = "format" /\ a.reg = "channels" -> "holding"
              [] a.shape = "format" /\ a.reg # "channels" -> "input"
              [] OTHER -> Function(a.reg)

UnderWay == Range(requests) \cup Range(answers)

Init ==
  /\ conn = "closed"
  /\ requests = <<>> /\ answers = <<>> /\ torn = FALSE
  /\ meter = 1
  /\ pc = "idle"
  /\ lastRequestId = 0
  /\ revision = "" /\ serialNo = "" /\ channels = 0 /\ lastUpdate = 0
  /\ ended = "returned"
  /\ asked = 0

-----------------------------------------------------------------------------
(* The device and the network (external).                                  *)

\* The counters count and time passes.
Count ==
  /\ meter < MaxMeter
  /\ meter' = meter + 1
  /\ UNCHANGED <<conn, link, pc, lastRequestId, values, ended, asked>>

AnswersTo(r) ==
  { [id |-> r.id, reg |-> r.reg, shape |-> s, at |-> meter] :
      s \in {"good"} \cup (Faults \cap Shapes) }

\* The device answers requests in the order they come in.
DeviceAnswers ==
  /\ requests # <<>>
  /\ Len(answers) < MaxInFlight
  /\ \E a \in AnswersTo(Head(requests)) : answers' = Append(answers, a)
  /\ \/ requests' = Tail(requests)
     \/ "twice" \in Faults /\ UNCHANGED requests
  /\ UNCHANGED <<conn, torn, meter, pc, lastRequestId, values, ended, asked>>

DeviceIgnores ==
  /\ "ignore" \in Faults
  /\ requests # <<>>
  /\ requests' = Tail(requests)
  /\ UNCHANGED <<conn, answers, torn, meter, pc, lastRequestId, values, ended, asked>>

DeviceCloses ==
  /\ "close" \in Faults
  /\ conn = "connected"
  /\ conn' = "broken"
  /\ requests' = <<>>
  /\ UNCHANGED <<answers, torn, meter, pc, lastRequestId, values, ended, asked>>

-----------------------------------------------------------------------------
(* Connecting.                                                             *)

\* Closing a socket forgets what was under way.
NewLink == requests' = <<>> /\ answers' = <<>> /\ torn' = FALSE

\* No call is in progress, and the program goes on.
Free == pc = "idle" /\ ended # "other"

Connect ==
  /\ Free
  /\ NewLink
  /\ \/ conn' = "connected" /\ ended' = "returned"
     \/ /\ "refuse" \in Faults
        /\ conn' \in {"closed", "opened"}
        /\ ended' = "runtime_error"
  /\ UNCHANGED <<meter, pc, lastRequestId, values, asked>>

Disconnect ==
  /\ Free
  /\ NewLink
  /\ conn' = "closed"
  /\ ended' = "returned"
  /\ UNCHANGED <<meter, pc, lastRequestId, values, asked>>

\* A call ends: returned, runtime_error or other.
Ends(how) == pc' = "idle" /\ ended' = how

-----------------------------------------------------------------------------
(* The first half of readHValue and readIValue: a request is sent.         *)

\* Mutant of NextId: the number is counted in a wider type.
NextIdWide == lastRequestId + 1

NextId == (lastRequestId + 1) % IdModulus

\* Mutant of Ask: the second request repeats the number of the first.
AskSameId(reg) ==
  /\ conn \in {"connected", "broken"}
  /\ Len(requests) < MaxInFlight
  /\ lastRequestId' = lastRequestId
  /\ asked' = meter
  /\ requests' = IF conn = "connected"
                   THEN Append(requests, [id |-> lastRequestId, reg |-> reg])
                   ELSE requests
  /\ pc' = reg
  /\ UNCHANGED <<conn, answers, torn, meter, values, ended>>

\* The bound on the numbers: an answer is not under way for so long that its
\* number is given again on the same connection.
Ask(reg) ==
  /\ \A m \in UnderWay : m.id # NextId
  /\ lastRequestId' = NextId
  /\ asked' = meter
  /\ \/ /\ conn = "connected"
        /\ Len(requests) < MaxInFlight
        /\ requests' = Append(requests, [id |-> NextId, reg |-> reg])
        /\ pc' = reg
        /\ UNCHANGED ended
     \/ /\ conn = "broken"
        /\ pc' = reg
        /\ UNCHANGED <<requests, ended>>
     \/ /\ conn \in {"closed", "opened"}
        /\ Ends("other")
        /\ UNCHANGED requests
  /\ UNCHANGED <<conn, answers, torn, meter, values>>

ReadSteadyValues     == Free /\ Ask("revision")
AskSerial            == pc = "steady" /\ Ask("serial")
UpdateVolatileValues == Free /\ Ask("channels")

-----------------------------------------------------------------------------
(* The second half: how an exchange ends.                                  *)

Waiting == pc \in Registers

\* TcpRequestAndReply::run returns without a response.  If a first piece of an
\* answer came while the handler of the deadline was due, it has been read and
\* forgotten (RecvReady, HandleDeadline, RecvAborted of module TcpRar).
TimesOut ==
  /\ Waiting
  /\ Ends("runtime_error")
  /\ \/ UNCHANGED torn
     \/ ~torn /\ answers # <<>> /\ torn' = TRUE
  /\ UNCHANGED <<conn, requests, answers, meter, lastRequestId, values, asked>>

\* It throws because the connection is broken.
Breaks ==
  /\ Waiting
  /\ conn = "broken"
  /\ Ends("other")
  /\ UNCHANGED <<conn, link, meter, lastRequestId, values, asked>>

\* At least one answer is read to its end, and perhaps a part of the next.
TakeOff ==
  \E k \in 1 .. Len(answers) :
    /\ answers' = SubSeq(answers, k + 1, Len(answers))
    /\ torn' \in BOOLEAN
    /\ torn' => k < Len(answers)

\* It receives the rest of something and takes it for a datagram, or for the
\* beginning of one.
ReceivesTorn ==
  /\ Waiting
  /\ torn
  /\ Ends("runtime_error") \/ Ends("other")
  /\ UNCHANGED <<answers, torn>> \/ TakeOff
  /\ UNCHANGED <<conn, requests, meter, lastRequestId, values, asked>>

\* It takes the first answer, and what came with it, out of the stream.
Take == Waiting /\ ~torn /\ TakeOff

\* missingBytes or createObject throws what is no runtime_error.
ReceivesMalformed ==
  /\ Take
  /\ Class(Head(answers)) = "none"
  /\ Ends("other")
  /\ UNCHANGED <<conn, requests, meter, lastRequestId, values, asked>>

\* readValue: an error datagram, whatever its number.
ReceivesError ==
  /\ Take
  /\ Class(Head(answers)) = "error"
  /\ Ends("runtime_error")
  /\ UNCHANGED <<conn, requests, meter, lastRequestId, values, asked>>

\* The dynamic_cast of readHValue and readIValue fails.
ReceivesUnexpected ==
  /\ Take
  /\ Class(Head(answers)) \notin {"none", "error", Function(pc)}
  /\ Ends("runtime_error")
  /\ UNCHANGED <<conn, requests, meter, lastRequestId, values, asked>>

\* Mutant of Belongs: the transaction numbers are not compared.
BelongsAnyway(a) == TRUE

Belongs(a) == a.id = lastRequestId

ReceivesForeign ==
  /\ Take
  /\ LET a == Head(answers) IN
       /\ Class(a) = Function(pc)
       /\ ~Belongs(a)
  /\ Ends("runtime_error")
  /\ UNCHANGED <<conn, requests, meter, lastRequestId, values, asked>>

\* A revision of any size is taken, up to its first NUL: it may be empty.
StoreRevision(a) ==
  /\ pc = "revision"
  /\ revision' \in {a.reg} \cup (IF a.shape = "good" THEN {} ELSE {""})
  /\ pc' = "steady"
  /\ UNCHANGED <<serialNo, channels, lastUpdate, ended>>

\* UInt32 rejects a size that is not a multiple of four, and value(0) one
\* that is zero: invalid_argument and out_of_range.
StoreSerial(a) ==
  /\ pc = "serial"
  /\ \/ a.shape = "good" /\ serialNo' = a.reg /\ Ends("returned")
     \/ a.shape # "good" /\ Ends("other") /\ UNCHANGED serialNo
  /\ UNCHANGED <<revision, channels, lastUpdate>>

\* Mutant of StoreChannels: the values are stored before they are counted.
StoreChannelsFirst(a) ==
  /\ pc = "channels"
  /\ channels' = a.at
  /\ \/ a.shape = "good" /\ lastUpdate' = meter /\ Ends("returned")
     \/ /\ a.shape # "good"
        /\ Ends(IF a.shape = "odd" THEN "other" ELSE "runtime_error")
        /\ UNCHANGED lastUpdate
  /\ UNCHANGED <<revision, serialNo>>

StoreChannels(a) ==
  /\ pc = "channels"
  /\ \/ /\ a.shape = "good"
        /\ channels' = a.at
        /\ lastUpdate' = meter
        /\ Ends("returned")
     \/ /\ a.shape # "good"
        /\ Ends(IF a.shape = "odd" THEN "other" ELSE "runtime_error")
        /\ UNCHANGED <<channels, lastUpdate>>
  /\ UNCHANGED <<revision, serialNo>>

Receives ==
  /\ Take
  /\ LET a == Head(answers) IN
       /\ Class(a) = Function(pc)
       /\ Belongs(a)
       /\ StoreRevision(a) \/ StoreSerial(a) \/ StoreChannels(a)
  /\ UNCHANGED <<conn, requests, meter, lastRequestId, asked>>

Caller == Connect \/ Disconnect \/ ReadSteadyValues \/ AskSerial
          \/ UpdateVolatileValues

Exchange == TimesOut \/ Breaks \/ ReceivesTorn \/ ReceivesMalformed
            \/ ReceivesError \/ ReceivesUnexpected \/ ReceivesForeign
            \/ Receives

Device == Count \/ DeviceAnswers \/ DeviceIgnores \/ DeviceCloses

Next == Caller \/ Exchange \/ Device

Spec == Init /\ [][Next]_vars

-----------------------------------------------------------------------------
\* Every variable has its type.
TypeOK ==
  /\ conn \in {"closed", "opened", "connected", "broken"}
  /\ requests \in Seq(Requests)
  /\ answers \in Seq(Answers)
  /\ torn \in BOOLEAN
  /\ meter \in Nat
  /\ pc \in Registers \cup {"idle", "steady"}
  /\ lastRequestId \in TransactionIds
  /\ revision \in Registers \cup {""} /\ serialNo \in Registers \cup {""}
  /\ channels \in Nat /\ lastUpdate \in Nat
  /\ ended \in {"returned", "runtime_error", "other"}
  /\ asked \in Nat

\* The two registers of readSteadyValues are read with the same function and
\* answered in the same format: neither is ever taken for the other, however
\* late, or how often, the device answers.
RegistersNotMixed ==
  revision \in {"", "revision"} /\ serialNo \in {"", "serial"}

Promise == INSTANCE Readings WITH
  calling <- pc = "channels",
  since   <- IF pc = "channels" THEN asked ELSE 0

\* A successful update stores what the device measured after it was asked,
\* never an answer to an earlier request; a failed one stores nothing.
KeepsReadings == Promise!Spec

\* What is under way with the current number was asked for last (for the
\* proofs of the two properties above).
CurrentIsOurs ==
  \A m \in UnderWay :
    m.id = lastRequestId =>
      /\ Waiting => m.reg = pc
      /\ m \in Range(answers) => m.at \in asked .. meter

=============================================================================
