------------------------------ MODULE Datagram ------------------------------
(***************************************************************************)
(* ModBus/TCP datagrams as lib/mb_base.cpp and the datagram classes of lib *)
(* take them apart: which class a sequence of received bytes becomes, and  *)
(* which exception is thrown when it becomes none.                         *)
(*                                                                         *)
(* A datagram is what its first nine bytes say: transaction and unit       *)
(* number play no part here, and the payload none anywhere.  n is the      *)
(* number of bytes received, "the length of the uninterpreted byte stream" *)
(* (mb_base.h); it may be smaller or greater than the datagram.            *)
(***************************************************************************)

EXTENDS Integers

MaxDatagramLength == 260
HeaderSize        == 8      \* sizeof( Header )
LengthFieldEnd    == 6      \* the length field ends with byte 6

ReadHoldingRegisters == 3
ReadInputRegisters   == 4
ErrorBit             == 128

UInt8     == 0 .. 255
MaxUInt16 == 65535
UInt16    == 0 .. MaxUInt16

\* count is the byte after the header: byteCount in a response.
RawDatagrams ==
  [proto : UInt16, length : UInt16, func : UInt8, count : UInt8]

Classes == {"ErrorRes", "ReadHoldingRegistersReq", "ReadHoldingRegistersRes",
            "ReadInputRegistersReq", "ReadInputRegistersRes", "Generic"}
Exceptions == {"length_error", "invalid_argument"}

\* Mutant of TotalLength: the length field is taken to begin after the header.
TotalAfterHeader(d) == d.length + HeaderSize

TotalLength(d) == d.length + LengthFieldEnd

-----------------------------------------------------------------------------
(* Base::missingBytes throws or returns a number.                          *)

HasError(d) == d.func >= ErrorBit

MissingThrows(d, n) ==
  IF n < LengthFieldEnd THEN "length_error"
  ELSE IF d.proto # 0 THEN "invalid_argument" ELSE "none"

\* Mutant of MissingBytes: the length field is taken for the total length.
MissingOfLength(d, n) == IF n >= d.length THEN 0 ELSE d.length - n

MissingBytes(d, n) ==
  IF n >= TotalLength(d) THEN 0 ELSE TotalLength(d) - n

-----------------------------------------------------------------------------
(* The constructors from raw bytes: the class, or the exception.           *)

ErrorRes(d, n) ==
  IF n < 9 THEN "length_error"
  ELSE IF d.proto # 0 \/ d.length # 3 THEN "invalid_argument"
  ELSE "ErrorRes"

\* ReadHoldingRegistersReq and ReadInputRegistersReq.
Request(class, func, d, n) ==
  IF n < 12 THEN "length_error"
  ELSE IF d.proto # 0 \/ d.func # func \/ d.length # 6 THEN "invalid_argument"
  ELSE class

\* Mutant of Response: the two lengths are not compared.
ResponseUnchecked(class, func, d, n) ==
  IF n < 9 THEN "length_error"
  ELSE IF d.proto # 0 \/ d.func # func THEN "invalid_argument"
  ELSE IF n < TotalLength(d) THEN "length_error"
  ELSE class

\* ReadHoldingRegistersRes and ReadInputRegistersRes.  The byte count of a
\* datagram too short to have one (length < 3) is read from whatever follows
\* in memory; the subtraction, which wraps at 2^32, gives 3 in no such case.
Response(class, func, d, n) ==
  IF n < 9 THEN "length_error"
  ELSE IF d.proto # 0 \/ d.func # func THEN "invalid_argument"
  ELSE IF n < TotalLength(d) THEN "length_error"
  ELSE IF d.length - d.count # 3 THEN "invalid_argument"
  ELSE class

Generic(d, n) ==
  IF MissingThrows(d, n) # "none" THEN MissingThrows(d, n)
  ELSE IF MissingBytes(d, n) > 0 THEN "length_error"
  ELSE "Generic"

\* Base::createObject.
CreateObject(d, n) ==
  IF MissingThrows(d, n) # "none" THEN MissingThrows(d, n)
  ELSE IF MissingBytes(d, n) > 0 THEN "length_error"
  ELSE IF HasError(d) THEN ErrorRes(d, n)
  ELSE CASE d.func = ReadHoldingRegisters /\ d.length = 6 ->
              Request("ReadHoldingRegistersReq", ReadHoldingRegisters, d, n)
         [] d.func = ReadHoldingRegisters /\ d.length # 6 ->
              Response("ReadHoldingRegistersRes", ReadHoldingRegisters, d, n)
         [] d.func = ReadInputRegisters /\ d.length = 6 ->
              Request("ReadInputRegistersReq", ReadInputRegisters, d, n)
         [] d.func = ReadInputRegisters /\ d.length # 6 ->
              Response("ReadInputRegistersRes", ReadInputRegisters, d, n)
         [] OTHER -> Generic(d, n)

-----------------------------------------------------------------------------
(* The constructors of a request, and what the device answers to one.       *)

RequestLength == 12
RequestQuantities == 1 .. 125     \* any other throws out_of_range

NewRequest(func) == [proto |-> 0, length |-> 6, func |-> func, count |-> 0]

\* The answer to a request for q registers: two bytes each (external: the
\* device, as the comments in mb_rhregres.cpp and mb_base.cpp describe it).
Answer(func, q) ==
  [proto |-> 0, length |-> 2 * q + 3, func |-> func, count |-> 2 * q]
ErrorAnswer(func, code) ==
  [proto |-> 0, length |-> 3, func |-> func + ErrorBit, count |-> code]

=============================================================================
