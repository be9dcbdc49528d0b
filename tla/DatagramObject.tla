--------------------------- MODULE DatagramObject ---------------------------
(***************************************************************************)
(* The life of a datagram object of lib: it is constructed from fields, or *)
(* by Base::createObject from received bytes, its fields are set, and the  *)
(* values of its registers are interpreted.                                *)
(*                                                                         *)
(* The object is the bytes that rawDatagram() returns.  Fields of 16 and   *)
(* 32 bits are in network order; the code loads them in the order of the   *)
(* host and converts them with ntohs, htons and ntohl.  Copies, which are  *)
(* equal to their original, and the texts of exceptions are left out.      *)
(***************************************************************************)

EXTENDS Datagram, Sequences

CONSTANTS
  Buffers,  \* what the receive buffer may hold, received or older
  Sizes,    \* how many bytes may have been received
  Words,    \* the transaction numbers, addresses and quantities given
  Units     \* the unit numbers given

ASSUME DatagramObjectAssumption ==
  /\ Buffers \subseteq Seq(UInt8) /\ \A b \in Buffers : Len(b) >= 12
  /\ Sizes \subseteq Nat
  /\ Words \subseteq UInt16 /\ Units \subseteq UInt8

VARIABLES
  little,   \* the host stores the low byte of a number first
  buffer,   \* the receive buffer, empty if nothing has been received
  n,        \* how many of its bytes have been received
  object,   \* the class of the object, or the exception instead of one
  bytes,    \* the object
  given     \* history: the fields as they were received or given last

vars == <<little, buffer, n, object, bytes, given>>

Requests  == {"ReadHoldingRegistersReq", "ReadInputRegistersReq"}
Responses == {"ReadHoldingRegistersRes", "ReadInputRegistersRes"}

-----------------------------------------------------------------------------
(* Numbers in memory.                                                      *)

Load16(b, i) == IF little THEN b[i] + 256 * b[i + 1]
                          ELSE 256 * b[i] + b[i + 1]

Store16(b, i, w) ==
  IF little THEN [b EXCEPT ![i] = w % 256, ![i + 1] = w \div 256]
            ELSE [b EXCEPT ![i] = w \div 256, ![i + 1] = w % 256]

\* Mutant of Ntohs: it does nothing.
NtohsNot(w) == w

\* ntohs and htons.
Ntohs(w) == IF little THEN 256 * (w % 256) + w \div 256 ELSE w

\* What a network order field means.
BigEndian(b, i) == 256 * b[i] + b[i + 1]

\* A field, and an object with another value of it.
Field(b, i)       == Ntohs(Load16(b, i))
SetField(b, i, w) == Store16(b, i, Ntohs(w))

\* What Base::createObject looks at (struct Header, and the byte behind it).
RawOf(b) == [proto |-> Field(b, 3), length |-> Field(b, 5), func |-> b[8],
             count |-> b[9]]

Transaction(b) == Field(b, 1)
Unit(b)        == b[7]
Address(b)     == Field(b, 9)
Quantity(b)    == Field(b, 11)

\* Mutant of RequestFuncCode: the error bit is kept.
RawFuncCode(b) == b[8]

\* funcCode() and exceptionCode() of an ErrorRes; the first masks the error bit.
RequestFuncCode(b) == b[8] % ErrorBit
ExceptionCode(b)   == b[9]

-----------------------------------------------------------------------------
(* The registers of a response.                                            *)

ByteCount(b)   == b[9]
RegisterAt(i)  == 10 + 2 * i   \* where the value of the i-th one begins

TwoTo16 == 65536

\* Interpreter::UInt16 and UInt32: the constructor throws invalid_argument if
\* the size is wrong; value() is for indices below size().
UInt16Throws(b)   == ByteCount(b) % 2 # 0
UInt16Value(b, i) == Ntohs(Load16(b, RegisterAt(i)))
UInt32Throws(b)   == ByteCount(b) % 4 # 0
UInt32Size(b)     == ByteCount(b) \div 4

Load32(b, i) == IF little THEN Load16(b, i) + TwoTo16 * Load16(b, i + 2)
                          ELSE TwoTo16 * Load16(b, i) + Load16(b, i + 2)

\* Mutant of Ntohl: each half is converted by itself.
NtohlHalves(w) == TwoTo16 * Ntohs(w \div TwoTo16) + Ntohs(w % TwoTo16)

Ntohl(w) == IF little THEN TwoTo16 * Ntohs(w % TwoTo16) + Ntohs(w \div TwoTo16)
                      ELSE w

UInt32Value(b, i) ==
  Ntohl(Load32(b, RegisterAt(2 * i)))

\* Interpreter::ASCII: the bytes before the first NUL.
Ascii(b) ==
  LET nul == { i \in 1 .. ByteCount(b) : b[9 + i] = 0 }
      end == IF nul = {} THEN ByteCount(b)
             ELSE (CHOOSE i \in nul : \A j \in nul : i <= j) - 1
  IN SubSeq(b, 10, 9 + end)

-----------------------------------------------------------------------------
Init ==
  /\ little \in BOOLEAN
  /\ \/ buffer = <<>> /\ n = 0
     \/ buffer \in Buffers /\ n \in Sizes /\ n <= Len(buffer)
  /\ object = "none" /\ bytes = <<>>
  /\ given = [id |-> 0, address |-> 0, quantity |-> 0]

\* Base::createObject, with the constructors from raw bytes.
Receive ==
  /\ object = "none"
  /\ buffer # <<>>
  /\ object' = CreateObject(RawOf(buffer), n)
  /\ bytes' = IF object' \in Classes
                THEN SubSeq(buffer, 1, TotalLength(RawOf(buffer))) ELSE <<>>
  /\ given' = [id |-> BigEndian(buffer, 1), address |-> BigEndian(buffer, 9),
               quantity |-> BigEndian(buffer, 11)]
  /\ UNCHANGED <<little, buffer, n>>

FunctionOf(class) ==
  IF class = "ReadHoldingRegistersReq" THEN ReadHoldingRegisters
                                       ELSE ReadInputRegisters

RequestBytes(class, id, unit, address, quantity) ==
  LET blank  == [i \in 1 .. RequestLength |->
                   CASE i = 7 -> unit [] i = 8 -> FunctionOf(class) [] OTHER -> 0]
      header == SetField(SetField(blank, 1, id), 5, 6)
  IN SetField(SetField(header, 9, address), 11, quantity)

Construct ==
  /\ object = "none"
  /\ buffer = <<>>
  /\ \E class \in Requests, id \in Words, unit \in Units, address \in Words,
        quantity \in Words :
       \/ /\ quantity \in RequestQuantities
          /\ object' = class
          /\ bytes' = RequestBytes(class, id, unit, address, quantity)
          /\ given' = [id |-> id, address |-> address, quantity |-> quantity]
       \/ /\ quantity \notin RequestQuantities
          /\ object' = "out_of_range"
          /\ UNCHANGED <<bytes, given>>
  /\ UNCHANGED <<little, buffer, n>>

-----------------------------------------------------------------------------
(* The setters.                                                            *)

\* Mutant of SetTransaction: it sets the field behind it.
SetTransactionBehind ==
  /\ object \in Classes
  /\ \E id \in Words : /\ bytes' = SetField(bytes, 3, id)
                       /\ given' = [given EXCEPT !.id = id]
  /\ UNCHANGED <<little, buffer, n, object>>

SetTransaction ==
  /\ object \in Classes
  /\ \E id \in Words : /\ bytes' = SetField(bytes, 1, id)
                       /\ given' = [given EXCEPT !.id = id]
  /\ UNCHANGED <<little, buffer, n, object>>

\* What htons makes of the number of one byte is cut to one byte again: where
\* the two differ the unit number becomes 0.  (A Generic may have no such byte.)
SetUnit ==
  /\ object \in Classes
  /\ Len(bytes) >= 7
  /\ \E unit \in Units : bytes' = [bytes EXCEPT ![7] = Ntohs(unit) % 256]
  /\ UNCHANGED <<little, buffer, n, object, given>>

SetAddress ==
  /\ object \in Requests
  /\ \E a \in Words : /\ bytes' = SetField(bytes, 9, a)
                      /\ given' = [given EXCEPT !.address = a]
  /\ UNCHANGED <<little, buffer, n, object>>

\* Any other number throws out_of_range and changes nothing.
SetQuantity ==
  /\ object \in Requests
  /\ \E q \in Words \cap RequestQuantities :
       /\ bytes' = SetField(bytes, 11, q)
       /\ given' = [given EXCEPT !.quantity = q]
  /\ UNCHANGED <<little, buffer, n, object>>

Setter == SetTransaction \/ SetUnit \/ SetAddress \/ SetQuantity

Next == Receive \/ Construct \/ Setter

Spec == Init /\ [][Next]_vars

-----------------------------------------------------------------------------
\* What makes a datagram one of its class, whoever takes it apart.
IsA(class, d) ==
  CASE class = "ErrorRes" -> d.func >= 128 /\ d.length = 3
    [] class = "ReadHoldingRegistersReq" -> d.func = 3 /\ d.length = 6
    [] class = "ReadInputRegistersReq" -> d.func = 4 /\ d.length = 6
    [] class = "ReadHoldingRegistersRes" ->
         d.func = 3 /\ d.length # 6 /\ d.length = d.count + 3
    [] class = "ReadInputRegistersRes" ->
         d.func = 4 /\ d.length # 6 /\ d.length = d.count + 3
    [] class = "Generic" -> d.func < 128 /\ d.func \notin {3, 4}

\* The datagram at the beginning of the buffer, as the sender means it.
Sent == [proto |-> BigEndian(buffer, 3), length |-> BigEndian(buffer, 5),
         func |-> buffer[8], count |-> buffer[9]]

\* An object of a class is built exactly from a datagram that was received
\* completely and belongs to the class: createObject's nested tests, repeated
\* in part by the constructors, neither accept a truncated or inconsistent
\* datagram nor reject a good one.
ParsesAsSpecified ==
  object # "none" /\ buffer # <<>> =>
    \A class \in Classes :
      object = class <=>
        Sent.proto = 0 /\ n >= Sent.length + 6 /\ IsA(class, Sent)

\* Every answer to a request that the constructors allow fits the receive
\* buffer and, however many bogus bytes follow it, is recognised: it is never
\* taken for a request, whose length field is 6.
AnswersRecognised ==
  object # "none" /\ buffer # <<>> =>
    \A q \in RequestQuantities :
      /\ Sent = Answer(ReadHoldingRegisters, q) =>
           /\ TotalLength(Sent) <= MaxDatagramLength
           /\ n >= TotalLength(Sent) <=> object = "ReadHoldingRegistersRes"
      /\ Sent = Answer(ReadInputRegisters, q) =>
           /\ TotalLength(Sent) <= MaxDatagramLength
           /\ n >= TotalLength(Sent) <=> object = "ReadInputRegistersRes"

\* An error answer is recognised as soon as it is complete, and tells which
\* function was asked for and what the device objects to.
ErrorsRecognised ==
  object # "none" /\ buffer # <<>> /\ n >= 9 =>
    \A f \in {ReadHoldingRegisters, ReadInputRegisters} :
      Sent = ErrorAnswer(f, Sent.count) =>
        /\ object = "ErrorRes"
        /\ RequestFuncCode(bytes) = f /\ ExceptionCode(bytes) = Sent.count

\* An object stays one of its class, whatever is set in it and however often:
\* its bytes are a complete datagram that a receiver would make the same class
\* of (the assertions of length() and funcCode(), mb_rhregreq.h:54-71), and
\* the quantity of a request constructed by the program one that is allowed.
\* Only a Generic may be too short to tell.
StaysWhole ==
  object \in Classes =>
    /\ Len(bytes) >= 9 => /\ CreateObject(RawOf(bytes), Len(bytes)) = object
                          /\ Len(bytes) = TotalLength(RawOf(bytes))
    /\ Len(bytes) < 9 => object = "Generic"
    /\ object \in Requests /\ buffer = <<>> => Quantity(bytes) \in RequestQuantities

\* On the wire the fields are big-endian numbers, in the order of the network
\* and not of the host, and the getters return the same numbers.
FieldsAsGiven ==
  /\ object \in Classes =>
       /\ BigEndian(bytes, 1) = given.id
       /\ Transaction(bytes) = given.id
  /\ object \in Requests =>
       /\ BigEndian(bytes, 9) = given.address /\ Address(bytes) = given.address
       /\ BigEndian(bytes, 11) = given.quantity
       /\ Quantity(bytes) = given.quantity

\* The interpreters return the numbers the device has sent, on every host, and
\* look at no byte behind the datagram.
ValuesAsSent ==
  object \in Responses =>
    /\ ~UInt16Throws(bytes) =>
         \A i \in 0 .. ByteCount(bytes) \div 2 - 1 :
           /\ RegisterAt(i) + 1 <= Len(bytes)
           /\ UInt16Value(bytes, i) = BigEndian(bytes, RegisterAt(i))
    /\ ~UInt32Throws(bytes) =>
         \A i \in 0 .. UInt32Size(bytes) - 1 :
           UInt32Value(bytes, i) =
             TwoTo16 * UInt16Value(bytes, 2 * i) + UInt16Value(bytes, 2 * i + 1)
    /\ \A i \in 1 .. Len(Ascii(bytes)) : Ascii(bytes)[i] = bytes[9 + i] /\ bytes[9 + i] # 0

=============================================================================
