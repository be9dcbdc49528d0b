--------------------------- MODULE DatagramProofs ---------------------------
(* What createObject returns, for every value of the fields and every number *)
(* of received bytes.                                                        *)

EXTENDS Datagram, TLAPS

(* The values of a byte and of two bytes are numbers.                        *)
LEMMA ByteIsNat == ASSUME NEW x \in UInt8 PROVE x \in Nat
BY SMT DEF UInt8

(* See above.                                                                *)
LEMMA WordIsNat == ASSUME NEW x \in UInt16 PROVE x \in Nat
<1>1. MaxUInt16 \in Nat
  BY SMT DEF MaxUInt16
<1>2. QED
  BY <1>1 DEF UInt16

(* The fields of a datagram are numbers.                                     *)
LEMMA FieldsAreNat ==
  ASSUME NEW d \in RawDatagrams
  PROVE  d.length \in Nat /\ d.count \in Nat
<1>1. d.length \in UInt16 /\ d.count \in UInt8
  BY SMT DEF RawDatagrams
<1>2. QED
  BY <1>1, ByteIsNat, WordIsNat

(* An object is built only from a datagram that has been received completely *)
(* and starts with a ModBus header; a response holds as many bytes as its    *)
(* two length fields agree on, an error is nine bytes long.                  *)
THEOREM ObjectIsWhole ==
  ASSUME NEW d \in RawDatagrams, NEW n \in Nat,
         CreateObject(d, n) \in Classes
  PROVE  /\ d.proto = 0 /\ TotalLength(d) <= n
         /\ CreateObject(d, n) \in {"ReadHoldingRegistersRes",
                                    "ReadInputRegistersRes"}
              => d.length = d.count + 3
         /\ CreateObject(d, n) = "ErrorRes" => HasError(d) /\ d.length = 3
<1>1. d.length \in Nat /\ d.count \in Nat
  BY FieldsAreNat
<1>2. MissingThrows(d, n) = "none" /\ ~(MissingBytes(d, n) > 0)
  <2>1. MissingThrows(d, n) \in {"length_error", "invalid_argument", "none"}
    BY DEF MissingThrows
  <2>2. "length_error" \notin Classes /\ "invalid_argument" \notin Classes
    BY DEF Classes
  <2>3. QED
    BY <2>1, <2>2 DEF CreateObject
<1>3. d.proto = 0 /\ TotalLength(d) <= n
  BY <1>1, <1>2 DEF MissingThrows, MissingBytes, TotalLength, LengthFieldEnd
<1>4. CASE HasError(d)
  <2>1. CreateObject(d, n) = ErrorRes(d, n)
    BY <1>2, <1>4 DEF CreateObject
  <2>2. QED
    BY <1>3, <1>4, <2>1 DEF ErrorRes, Classes
<1>5. CASE ~HasError(d)
  <2>1. CreateObject(d, n) \in
          {Request("ReadHoldingRegistersReq", ReadHoldingRegisters, d, n),
           Response("ReadHoldingRegistersRes", ReadHoldingRegisters, d, n),
           Request("ReadInputRegistersReq", ReadInputRegisters, d, n),
           Response("ReadInputRegistersRes", ReadInputRegisters, d, n),
           Generic(d, n)}
    BY <1>2, <1>5 DEF CreateObject
  <2>2. ASSUME NEW c, NEW f,
               Response(c, f, d, n) \notin {"length_error", "invalid_argument"}
        PROVE  d.length = d.count + 3
    BY <1>1, <2>2 DEF Response
  <2>3. ASSUME NEW c, NEW f
        PROVE  Request(c, f, d, n) \in {"length_error", "invalid_argument", c}
    BY DEF Request
  <2>4. Generic(d, n) \in {"length_error", "invalid_argument", "Generic"}
    BY <1>2 DEF Generic
  <2>5. ASSUME NEW c, NEW f
        PROVE  Response(c, f, d, n) \in {"length_error", "invalid_argument", c}
    BY DEF Response
  <2>6. QED
    BY <1>3, <2>1, <2>2, <2>3, <2>4, <2>5 DEF Classes
<1>6. QED
  BY <1>4, <1>5

(* The answer to a request the constructors allow, received completely, is a *)
(* response object of the class the caller casts it to, and the receive      *)
(* buffer of 260 bytes can hold it.                                          *)
THEOREM AnswersAreResponses ==
  ASSUME NEW q \in RequestQuantities, NEW n \in Nat
  PROVE  LET h == Answer(ReadHoldingRegisters, q)
             i == Answer(ReadInputRegisters, q)
         IN  /\ TotalLength(h) <= MaxDatagramLength
             /\ TotalLength(i) <= MaxDatagramLength
             /\ n >= TotalLength(h)
                  => CreateObject(h, n) = "ReadHoldingRegistersRes"
             /\ n >= TotalLength(i)
                  => CreateObject(i, n) = "ReadInputRegistersRes"
<1> USE DEF Answer, RequestQuantities, TotalLength, LengthFieldEnd,
            MaxDatagramLength, ReadHoldingRegisters, ReadInputRegisters
<1>1. ASSUME NEW f \in {3, 4}, n >= TotalLength(Answer(f, q))
      PROVE  CreateObject(Answer(f, q), n)
               = IF f = 3 THEN Response("ReadHoldingRegistersRes", 3, Answer(f, q), n)
                 ELSE Response("ReadInputRegistersRes", 4, Answer(f, q), n)
  BY <1>1 DEF CreateObject, MissingThrows, MissingBytes, HasError, ErrorBit
<1>2. ASSUME NEW f \in {3, 4}, NEW c, n >= TotalLength(Answer(f, q))
      PROVE  Response(c, f, Answer(f, q), n) = c
  BY <1>2 DEF Response
<1>3. QED
  BY <1>1, <1>2

(* A device's error answer is recognised as such.                            *)
THEOREM ErrorsAreRecognised ==
  ASSUME NEW f \in {ReadHoldingRegisters, ReadInputRegisters},
         NEW code \in UInt8, NEW n \in Nat, n >= 9
  PROVE  CreateObject(ErrorAnswer(f, code), n) = "ErrorRes"
BY DEF ErrorAnswer, UInt8, ReadHoldingRegisters, ReadInputRegisters, ErrorBit,
       CreateObject, MissingThrows, MissingBytes, HasError, ErrorRes,
       TotalLength, LengthFieldEnd

=============================================================================
