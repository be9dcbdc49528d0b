------------------------ MODULE DatagramObjectProofs ------------------------
(* Every datagram is taken for what it is, and every field is in network     *)
(* order, on every host and for every value of the fields.                   *)

EXTENDS DatagramObject, DatagramProofs, WellFoundedInduction

\* The first bytes of a datagram, as the peer means them.
Wire(b) == [proto |-> BigEndian(b, 3), length |-> BigEndian(b, 5),
            func |-> b[8], count |-> b[9]]

-----------------------------------------------------------------------------
(* Numbers in memory.                                                        *)

(* A number of 16 bits is made of two bytes.                                 *)
LEMMA TwoBytes ==
  /\ \A w \in UInt16 : /\ w \div 256 \in UInt8 /\ w % 256 \in UInt8
                       /\ w = 256 * (w \div 256) + (w % 256)
  /\ \A x, y \in UInt8 : /\ 256 * x + y \in UInt16
                         /\ (256 * x + y) \div 256 = x
                         /\ (256 * x + y) % 256 = y
<1>1. MaxUInt16 \in Nat
  BY SMT DEF MaxUInt16
<1>2. MaxUInt16 = 256 * 255 + 255
  BY SMT DEF MaxUInt16
<1>3. ASSUME NEW w \in UInt16
      PROVE  /\ w \div 256 \in UInt8 /\ w % 256 \in UInt8
             /\ w = 256 * (w \div 256) + (w % 256)
  <2>1. w \in Nat /\ w <= MaxUInt16
    BY <1>1 DEF UInt16
  <2>2. QED
    BY <1>2, <2>1, SMT DEF UInt8
<1>4. ASSUME NEW x \in UInt8, NEW y \in UInt8
      PROVE  /\ 256 * x + y \in UInt16
             /\ (256 * x + y) \div 256 = x /\ (256 * x + y) % 256 = y
  <2>1. x \in Nat /\ x <= 255 /\ y \in Nat /\ y <= 255
    BY SMT DEF UInt8
  <2>2. 256 * x + y \in Nat /\ 256 * x + y <= MaxUInt16
    BY <1>2, <2>1
  <2>3. 256 * x + y \in UInt16
    BY <1>1, <2>2 DEF UInt16
  <2>4. (256 * x + y) \div 256 = x /\ (256 * x + y) % 256 = y
    BY <2>1
  <2>5. QED
    BY <2>3, <2>4
<1>5. QED
  BY <1>3, <1>4

(* A getter returns the number in network order.                             *)
LEMMA NetworkOrder ==
  ASSUME little \in BOOLEAN, NEW b, NEW i,
         b[i] \in UInt8, b[i + 1] \in UInt8
  PROVE  Field(b, i) = BigEndian(b, i) /\ BigEndian(b, i) \in UInt16
<1> DEFINE x == b[i]
           y == b[i + 1]
<1>1. x \in UInt8 /\ y \in UInt8
  OBVIOUS
<1>2. 256 * x + y \in UInt16 /\ 256 * y + x = x + 256 * y
  BY <1>1, TwoBytes, ByteIsNat
<1>3. CASE little
  <2>1. Field(b, i) = 256 * ((256 * y + x) % 256) + (256 * y + x) \div 256
    BY <1>2, <1>3, ZenonT(60) DEF Field, Ntohs, Load16
  <2>2. (256 * y + x) % 256 = x /\ (256 * y + x) \div 256 = y
    BY <1>1, TwoBytes
  <2>3. QED
    BY <1>2, <2>1, <2>2, ZenonT(60) DEF BigEndian
<1>4. CASE ~little
  BY <1>2, <1>4, Zenon DEF Field, Ntohs, Load16, BigEndian
<1>5. QED
  BY <1>3, <1>4

\* c is b with w, in network order, at i.
IsSet(c, b, i, w) ==
  /\ c \in Seq(UInt8) /\ Len(c) = Len(b) /\ BigEndian(c, i) = w
  /\ \A j \in 1 .. Len(b) : j # i /\ j # i + 1 => c[j] = b[j]

(* A setter stores the number in network order and nothing else.             *)
LEMMA SetFieldSets ==
  ASSUME little \in BOOLEAN, NEW b \in Seq(UInt8), NEW i \in Nat,
         1 <= i, i + 1 <= Len(b), NEW w \in UInt16
  PROVE  IsSet(SetField(b, i, w), b, i, w)
<1> DEFINE h == w \div 256
           l == w % 256
<1>1. h \in UInt8 /\ l \in UInt8 /\ w = 256 * h + l
  BY TwoBytes
<1>2. SetField(b, i, w) = [b EXCEPT ![i] = h, ![i + 1] = l]
  <2>1. CASE little
    <3>1. (256 * l + h) % 256 = h /\ (256 * l + h) \div 256 = l
      BY <1>1, TwoBytes
    <3>2. QED
      BY <2>1, <3>1, ZenonT(60) DEF SetField, Store16, Ntohs
  <2>2. CASE ~little
    BY <2>2, Zenon DEF SetField, Store16, Ntohs
  <2>3. QED
    BY <2>1, <2>2
<1> HIDE DEF h, l
<1>3. QED
  BY <1>1, <1>2, SMT DEF IsSet, BigEndian

-----------------------------------------------------------------------------
(* What createObject makes of the bytes.                                     *)

(* The classes, one by one.                                                  *)
LEMMA ClassMeans ==
  ASSUME NEW d
  PROVE  /\ IsA("ErrorRes", d) <=> d.func >= 128 /\ d.length = 3
         /\ IsA("ReadHoldingRegistersReq", d) <=> d.func = 3 /\ d.length = 6
         /\ IsA("ReadInputRegistersReq", d) <=> d.func = 4 /\ d.length = 6
         /\ IsA("ReadHoldingRegistersRes", d)
              <=> d.func = 3 /\ d.length # 6 /\ d.length = d.count + 3
         /\ IsA("ReadInputRegistersRes", d)
              <=> d.func = 4 /\ d.length # 6 /\ d.length = d.count + 3
         /\ IsA("Generic", d) <=> d.func < 128 /\ d.func \notin {3, 4}
BY DEF IsA

(* The nested tests of createObject and of the constructors, taken together: *)
(* an object is of a class exactly if the datagram is complete and belongs   *)
(* to the class.                                                             *)
LEMMA CreateObjectMeans ==
  ASSUME NEW d \in RawDatagrams, NEW m \in Nat, NEW class \in Classes
  PROVE  CreateObject(d, m) = class
           <=> d.proto = 0 /\ m >= d.length + 6 /\ IsA(class, d)
<1>1. d.length \in Nat /\ d.count \in Nat /\ d.func \in Nat
  <2>1. d.func \in UInt8
    BY SMT DEF RawDatagrams
  <2>2. QED
    BY <2>1, FieldsAreNat, ByteIsNat
<1>2. CASE ~(d.proto = 0 /\ m >= d.length + 6)
  BY <1>1, <1>2 DEF CreateObject, MissingThrows, MissingBytes, TotalLength,
     LengthFieldEnd, Classes
<1>3. CASE d.proto = 0 /\ m >= d.length + 6
  <2>1. /\ MissingThrows(d, m) = "none" /\ ~(MissingBytes(d, m) > 0)
        /\ TotalLength(d) = d.length + 6
    BY <1>1, <1>3 DEF MissingThrows, MissingBytes, TotalLength, LengthFieldEnd
  <2>2. CASE HasError(d)
    <3>1. CreateObject(d, m) = ErrorRes(d, m)
      BY <2>1, <2>2 DEF CreateObject
    <3>2. QED
      BY <1>1, <1>3, <2>2, <3>1, ClassMeans DEF ErrorRes, HasError, ErrorBit, Classes
  <2>3. CASE ~HasError(d) /\ d.func = 3 /\ d.length = 6
    <3>1. CreateObject(d, m) = Request("ReadHoldingRegistersReq", 3, d, m)
      BY <2>1, <2>3 DEF CreateObject, ReadHoldingRegisters, ReadInputRegisters
    <3>2. QED
      BY <1>1, <1>3, <2>3, <3>1, ClassMeans DEF Request, Classes
  <2>4. CASE ~HasError(d) /\ d.func = 3 /\ d.length # 6
    <3>1. CreateObject(d, m) = Response("ReadHoldingRegistersRes", 3, d, m)
      BY <2>1, <2>4 DEF CreateObject, ReadHoldingRegisters, ReadInputRegisters
    <3>2. QED
      BY <1>1, <1>3, <2>1, <2>4, <3>1, ClassMeans DEF Response, Classes
  <2>5. CASE ~HasError(d) /\ d.func = 4 /\ d.length = 6
    <3>1. CreateObject(d, m) = Request("ReadInputRegistersReq", 4, d, m)
      BY <2>1, <2>5 DEF CreateObject, ReadHoldingRegisters, ReadInputRegisters
    <3>2. QED
      BY <1>1, <1>3, <2>5, <3>1, ClassMeans DEF Request, Classes
  <2>6. CASE ~HasError(d) /\ d.func = 4 /\ d.length # 6
    <3>1. CreateObject(d, m) = Response("ReadInputRegistersRes", 4, d, m)
      BY <2>1, <2>6 DEF CreateObject, ReadHoldingRegisters, ReadInputRegisters
    <3>2. QED
      BY <1>1, <1>3, <2>1, <2>6, <3>1, ClassMeans DEF Response, Classes
  <2>7. CASE ~HasError(d) /\ d.func \notin {3, 4}
    <3>1. CreateObject(d, m) = Generic(d, m)
      BY <2>1, <2>7 DEF CreateObject, ReadHoldingRegisters, ReadInputRegisters
    <3>2. QED
      BY <1>1, <1>3, <2>1, <2>7, <3>1, ClassMeans
      DEF Generic, HasError, ErrorBit, Classes
  <2>8. QED
    BY <2>2, <2>3, <2>4, <2>5, <2>6, <2>7
<1>4. QED
  BY <1>2, <1>3

(* How long the datagrams of a class are.                                    *)
LEMMA LengthOfClass ==
  ASSUME NEW d \in RawDatagrams, NEW class \in Classes, IsA(class, d)
  PROVE  /\ d.length \in Nat /\ d.count \in Nat
         /\ class # "Generic" => d.length >= 3
         /\ class = "ErrorRes" => d.length = 3
         /\ class \in Requests => d.length = 6
         /\ class \in Responses => d.length = d.count + 3
<1>1. d.length \in Nat /\ d.count \in Nat
  BY FieldsAreNat
<1>2. CASE class \in Requests
  BY <1>1, <1>2, ClassMeans DEF Requests, Responses
<1>3. CASE class \in Responses
  BY <1>1, <1>3, ClassMeans DEF Requests, Responses
<1>4. CASE class = "ErrorRes"
  BY <1>1, <1>4, ClassMeans DEF Requests, Responses
<1>5. CASE class = "Generic"
  BY <1>1, <1>5 DEF Requests, Responses
<1>6. QED
  BY <1>2, <1>3, <1>4, <1>5 DEF Classes, Requests, Responses

-----------------------------------------------------------------------------
(* The inductive invariant.                                                  *)

\* The host and the receive buffer, which no action changes.
Host ==
  /\ little \in BOOLEAN /\ n \in Nat
  /\ buffer # <<>> =>
       /\ buffer \in Seq(UInt8) /\ Len(buffer) >= 12 /\ n <= Len(buffer)

\* What was received is taken for what it is.
Parsed ==
  object # "none" /\ buffer # <<>> => object = CreateObject(Wire(buffer), n)

\* The length field counts the bytes, and they are those of the class.
WholeBytes ==
  object \in Classes =>
    /\ bytes \in Seq(UInt8) /\ Len(bytes) >= 6
    /\ Len(bytes) = BigEndian(bytes, 5) + 6
    /\ Len(bytes) < 9 => object = "Generic"
    /\ Len(bytes) >= 9 => BigEndian(bytes, 3) = 0 /\ IsA(object, Wire(bytes))

\* The error code and the function code it belongs to remain.
ErrorKept ==
  object = "ErrorRes" =>
    buffer # <<>> /\ bytes[8] = buffer[8] /\ bytes[9] = buffer[9]

\* The fields hold what was received or given.
Given ==
  /\ given \in [id : UInt16, address : UInt16, quantity : UInt16]
  /\ object \in Classes => BigEndian(bytes, 1) = given.id
  /\ object \in Requests =>
       /\ BigEndian(bytes, 9) = given.address
       /\ BigEndian(bytes, 11) = given.quantity

\* The quantity of a request of the program is an allowed one.
Allowed ==
  object \in Requests /\ buffer = <<>> => given.quantity \in RequestQuantities

Inv == Host /\ Parsed /\ WholeBytes /\ ErrorKept /\ Given /\ Allowed

(* The first nine bytes make a datagram.                                     *)
LEMMA WireIsRaw ==
  ASSUME NEW b \in Seq(UInt8), Len(b) >= 9
  PROVE  /\ \A i \in 1 .. Len(b) : b[i] \in UInt8
         /\ \A i \in 1 .. Len(b) - 1 : BigEndian(b, i) \in UInt16
         /\ Wire(b) \in RawDatagrams
         /\ little \in BOOLEAN => RawOf(b) = Wire(b)
<1>1. \A i \in 1 .. Len(b) : b[i] \in UInt8
  OBVIOUS
<1>2. \A i \in 1 .. Len(b) - 1 : BigEndian(b, i) \in UInt16
  BY <1>1, TwoBytes DEF BigEndian
<1>3. /\ b[8] \in UInt8 /\ b[9] \in UInt8
      /\ BigEndian(b, 3) \in UInt16 /\ BigEndian(b, 5) \in UInt16
  BY <1>1, <1>2
<1>4. Wire(b) \in RawDatagrams
  BY <1>3, Zenon DEF Wire, RawDatagrams
<1>5. ASSUME little \in BOOLEAN PROVE RawOf(b) = Wire(b)
  <2>1. /\ b[3] \in UInt8 /\ b[3 + 1] \in UInt8
        /\ b[5] \in UInt8 /\ b[5 + 1] \in UInt8
    BY <1>1
  <2>2. Field(b, 3) = BigEndian(b, 3) /\ Field(b, 5) = BigEndian(b, 5)
    BY <1>5, <2>1, NetworkOrder
  <2>3. QED
    BY <2>2, Zenon DEF RawOf, Wire
<1>6. QED
  BY <1>1, <1>2, <1>4, <1>5

(* Initially nothing has been built.                                         *)
LEMMA InitInv == ASSUME Init PROVE Inv
<1>1. Host
  <2>1. little \in BOOLEAN
    BY Zenon DEF Init
  <2>2. n \in Nat /\ (buffer # <<>> => /\ buffer \in Seq(UInt8)
                                       /\ Len(buffer) >= 12 /\ n <= Len(buffer))
    <3>1. CASE buffer = <<>> /\ n = 0
      BY <3>1
    <3>2. CASE buffer \in Buffers /\ n \in Sizes /\ n <= Len(buffer)
      BY <3>2, DatagramObjectAssumption, Zenon
    <3>3. QED
      BY <3>1, <3>2, Zenon DEF Init
  <2>3. QED
    BY <2>1, <2>2, Zenon DEF Host
<1>2. object = "none" /\ object \notin Classes /\ object # "ErrorRes"
  BY DEF Init, Classes
<1>3. Given
  <2>1. 0 \in UInt16
    <3>1. 0 \in UInt8 /\ 256 * 0 + 0 = 0
      BY DEF UInt8
    <3>2. QED
      BY <3>1, TwoBytes
  <2>2. QED
    BY <1>2, <2>1 DEF Init, Given, Requests, Classes
<1>4. QED
  BY <1>1, <1>2, <1>3
  DEF Inv, Parsed, WholeBytes, ErrorKept, Allowed, Requests, Classes

(* What is received is taken for what it is.                                 *)
LEMMA ReceiveInv == ASSUME Inv, Receive PROVE Inv'
<1>1. /\ little \in BOOLEAN /\ n \in Nat
      /\ buffer \in Seq(UInt8) /\ Len(buffer) >= 12 /\ n <= Len(buffer)
      /\ buffer' = buffer /\ little' = little /\ n' = n
  BY Zenon DEF Inv, Host, Receive
<1>2. /\ \A i \in 1 .. Len(buffer) : buffer[i] \in UInt8
      /\ \A i \in 1 .. Len(buffer) - 1 : BigEndian(buffer, i) \in UInt16
      /\ Wire(buffer) \in RawDatagrams
      /\ RawOf(buffer) = Wire(buffer)
  BY <1>1, WireIsRaw
<1>3. object' = CreateObject(Wire(buffer), n)
  BY <1>2, Zenon DEF Receive
<1>4. Host'
  BY <1>1, Zenon DEF Inv, Host
<1>5. Parsed'
  BY <1>1, <1>3, Zenon DEF Parsed
<1>6. given' = [id |-> BigEndian(buffer, 1), address |-> BigEndian(buffer, 9),
                quantity |-> BigEndian(buffer, 11)]
  BY Zenon DEF Receive
<1>7. ASSUME object' \in Classes
      PROVE  LET L == BigEndian(buffer, 5) + 6 IN
             /\ BigEndian(buffer, 3) = 0 /\ L >= 6 /\ L <= Len(buffer)
             /\ IsA(object', Wire(buffer))
             /\ bytes' \in Seq(UInt8) /\ Len(bytes') = L
             /\ \A i \in 1 .. L : bytes'[i] = buffer[i]
  <2> DEFINE L == BigEndian(buffer, 5) + 6
  <2>1. /\ Wire(buffer).proto = 0 /\ n >= Wire(buffer).length + 6
        /\ IsA(object', Wire(buffer))
    BY <1>1, <1>2, <1>3, <1>7, CreateObjectMeans
  <2>2. BigEndian(buffer, 5) \in Nat
    BY <1>1, <1>2, WordIsNat
  <2>3. TotalLength(RawOf(buffer)) = L
    BY <1>2 DEF Wire, TotalLength, LengthFieldEnd
  <2>4. bytes' = SubSeq(buffer, 1, L)
    BY <1>7, <2>3, Zenon DEF Receive
  <2>5. BigEndian(buffer, 3) = 0 /\ n >= L
    BY <2>1 DEF Wire
  <2> HIDE DEF L
  <2>6. L \in Nat /\ L >= 6 /\ L <= Len(buffer)
    BY <1>1, <2>2, <2>5 DEF L
  <2>7. /\ bytes' \in Seq(UInt8) /\ Len(bytes') = L
        /\ \A i \in 1 .. L : bytes'[i] = buffer[i]
    BY <1>1, <2>4, <2>6
  <2>8. QED
    BY <2>1, <2>5, <2>6, <2>7, Zenon DEF L
<1>8. WholeBytes'
  <2> SUFFICES ASSUME object' \in Classes
               PROVE  /\ bytes' \in Seq(UInt8) /\ Len(bytes') >= 6
                      /\ Len(bytes') = BigEndian(bytes', 5) + 6
                      /\ Len(bytes') < 9 => object' = "Generic"
                      /\ Len(bytes') >= 9 => BigEndian(bytes', 3) = 0
                                             /\ IsA(object', Wire(bytes'))
    BY Zenon DEF WholeBytes
  <2>1. BigEndian(bytes', 5) = BigEndian(buffer, 5)
    BY <1>7 DEF BigEndian
  <2>2. BigEndian(buffer, 5) \in Nat
    BY <1>1, <1>2, WordIsNat
  <2>3. Len(bytes') < 9 => object' = "Generic"
    <3>1. Wire(buffer).length = BigEndian(buffer, 5)
      BY DEF Wire
    <3>2. object' # "Generic" => Wire(buffer).length >= 3
      BY <1>2, <1>7, LengthOfClass
    <3>3. QED
      BY <1>7, <2>2, <3>1, <3>2
  <2>4. ASSUME Len(bytes') >= 9
        PROVE  BigEndian(bytes', 3) = 0 /\ IsA(object', Wire(bytes'))
    <3>1. Wire(bytes') = Wire(buffer) /\ BigEndian(bytes', 3) = BigEndian(buffer, 3)
      BY <1>7, <2>4 DEF Wire, BigEndian
    <3>2. QED
      BY <1>7, <3>1
  <2>5. QED
    BY <1>7, <2>1, <2>3, <2>4
<1>9. ErrorKept' /\ Given' /\ Allowed'
  <2>1. ErrorKept'
    <3> SUFFICES ASSUME object' = "ErrorRes"
                 PROVE  bytes'[8] = buffer[8] /\ bytes'[9] = buffer[9]
      BY <1>1 DEF ErrorKept, Receive
    <3>1. object' \in Classes /\ Wire(buffer).length = 3
      BY <1>2, <1>7, LengthOfClass DEF Classes
    <3>2. BigEndian(buffer, 5) = 3
      BY <3>1 DEF Wire
    <3>3. QED
      BY <1>7, <3>1, <3>2
  <2>2. Given'
    <3>1. given' \in [id : UInt16, address : UInt16, quantity : UInt16]
      BY <1>1, <1>2, <1>6
    <3>2. object' \in Classes => BigEndian(bytes', 1) = given'.id
      BY <1>6, <1>7 DEF BigEndian
    <3>3. ASSUME object' \in Requests
          PROVE  /\ BigEndian(bytes', 9) = given'.address
                 /\ BigEndian(bytes', 11) = given'.quantity
      <4>1. object' \in Classes /\ Wire(buffer).length = 6
        BY <1>2, <1>7, <3>3, LengthOfClass DEF Classes, Requests
      <4>2. BigEndian(buffer, 5) = 6
        BY <4>1 DEF Wire
      <4>3. \A i \in 1 .. 12 : bytes'[i] = buffer[i]
        BY <1>7, <4>1, <4>2
      <4>4. QED
        BY <1>6, <4>3 DEF BigEndian
    <3>4. QED
      BY <3>1, <3>2, <3>3 DEF Given, BigEndian
  <2>3. Allowed'
    BY <1>1 DEF Allowed, Receive
  <2>4. QED
    BY <2>1, <2>2, <2>3
<1>10. QED
  BY <1>4, <1>5, <1>8, <1>9, Zenon DEF Inv

(* What a setter leaves alone: the class, the receive buffer, the number of  *)
(* bytes, the type of the bytes, and the bytes that tell the class.          *)
LEMMA SetterKeeps ==
  ASSUME Inv,
         UNCHANGED <<little, buffer, n, object>>, object \in Classes,
         bytes' \in Seq(UInt8), Len(bytes') = Len(bytes),
         \A i \in 1 .. Len(bytes) : i \in {3, 4, 5, 6, 8} => bytes'[i] = bytes[i],
         object \notin Requests /\ Len(bytes) >= 9 => bytes'[9] = bytes[9]
  PROVE  Host' /\ Parsed' /\ WholeBytes' /\ ErrorKept'
<1>1. Host'
  BY Zenon DEF Inv, Host
<1>2. Parsed'
  BY Zenon DEF Inv, Parsed, Wire, BigEndian
<1>3. /\ bytes \in Seq(UInt8) /\ Len(bytes) >= 6
      /\ Len(bytes) = BigEndian(bytes, 5) + 6
      /\ Len(bytes) < 9 => object = "Generic"
      /\ Len(bytes) >= 9 => BigEndian(bytes, 3) = 0 /\ IsA(object, Wire(bytes))
  BY Zenon DEF Inv, WholeBytes
<1>4. /\ bytes'[3] = bytes[3] /\ bytes'[4] = bytes[4] /\ bytes'[5] = bytes[5]
      /\ bytes'[6] = bytes[6] /\ (Len(bytes) >= 9 => bytes'[8] = bytes[8])
  BY <1>3
<1>5. /\ BigEndian(bytes', 3) = BigEndian(bytes, 3)
      /\ BigEndian(bytes', 5) = BigEndian(bytes, 5)
  BY <1>4 DEF BigEndian
<1>6. ASSUME Len(bytes) >= 9 PROVE IsA(object, Wire(bytes'))
  <2>1. Wire(bytes') = [Wire(bytes) EXCEPT !.count = bytes'[9]]
    BY <1>4, <1>5, <1>6 DEF Wire
  <2>2. CASE object \in Requests
    BY <1>3, <1>6, <2>1, <2>2 DEF IsA, Requests, Wire
  <2>3. CASE object \notin Requests
    BY <1>3, <1>6, <2>1, <2>3 DEF Wire
  <2>4. QED
    BY <2>2, <2>3
<1>7. WholeBytes'
  BY <1>3, <1>5, <1>6 DEF WholeBytes
<1>8. ErrorKept'
  <2> SUFFICES ASSUME object = "ErrorRes"
               PROVE  bytes'[8] = bytes[8] /\ bytes'[9] = bytes[9]
    BY Zenon DEF Inv, ErrorKept
  <2>1. Len(bytes) >= 9 /\ object \notin Requests
    BY <1>3 DEF Requests
  <2>2. QED
    BY <1>4, <2>1
<1>9. QED
  BY <1>1, <1>2, <1>7, <1>8

(* How long an object is.                                                    *)
LEMMA ObjectLength ==
  ASSUME Inv, object \in Classes
  PROVE  /\ bytes \in Seq(UInt8) /\ Len(bytes) >= 6
         /\ object \in Requests => Len(bytes) = 12
         /\ object = "ErrorRes" => Len(bytes) = 9
         /\ object \in Responses => Len(bytes) = bytes[9] + 9 /\ bytes[9] \in UInt8
<1>1. /\ bytes \in Seq(UInt8) /\ Len(bytes) >= 6
      /\ Len(bytes) = BigEndian(bytes, 5) + 6
      /\ Len(bytes) < 9 => object = "Generic"
      /\ Len(bytes) >= 9 => IsA(object, Wire(bytes))
  BY Zenon DEF Inv, WholeBytes
<1>2. CASE Len(bytes) < 9
  BY <1>1, <1>2 DEF Requests, Responses
<1>3. CASE Len(bytes) >= 9
  <2>1. Wire(bytes) \in RawDatagrams /\ bytes[9] \in UInt8
    BY <1>1, <1>3, WireIsRaw
  <2>2. Wire(bytes).length = BigEndian(bytes, 5) /\ Wire(bytes).count = bytes[9]
    BY DEF Wire
  <2>3. QED
    BY <1>1, <1>3, <2>1, <2>2, LengthOfClass
<1>4. QED
  BY <1>1, <1>2, <1>3

(* The transaction number.                                                   *)
LEMMA SetTransactionInv == ASSUME Inv, SetTransaction PROVE Inv'
<1>1. /\ object \in Classes /\ UNCHANGED <<little, buffer, n, object>>
  BY Zenon DEF SetTransaction
<1>2. PICK id \in Words : /\ bytes' = SetField(bytes, 1, id)
                          /\ given' = [given EXCEPT !.id = id]
  BY Zenon DEF SetTransaction
<1>3. id \in UInt16 /\ little \in BOOLEAN
  BY DatagramObjectAssumption, Zenon DEF Inv, Host
<1>4. /\ bytes \in Seq(UInt8) /\ Len(bytes) >= 6
      /\ object \in Requests => Len(bytes) = 12
  BY <1>1, ObjectLength
<1>5. /\ bytes' \in Seq(UInt8) /\ Len(bytes') = Len(bytes)
      /\ BigEndian(bytes', 1) = id
      /\ \A j \in 1 .. Len(bytes) : j # 1 /\ j # 1 + 1 => bytes'[j] = bytes[j]
  <2>1. 1 \in Nat /\ 1 <= 1 /\ 1 + 1 <= Len(bytes)
    BY <1>4
  <2>2. IsSet(bytes', bytes, 1, id)
    BY <1>2, <1>3, <1>4, <2>1, SetFieldSets, Zenon
  <2>3. QED
    BY <2>2 DEF IsSet
<1>6. Host' /\ Parsed' /\ WholeBytes' /\ ErrorKept'
  BY <1>1, <1>4, <1>5, SetterKeeps
<1>7. Given'
  <2>1. /\ given \in [id : UInt16, address : UInt16, quantity : UInt16]
        /\ BigEndian(bytes, 1) = given.id
        /\ object \in Requests => /\ BigEndian(bytes, 9) = given.address
                                  /\ BigEndian(bytes, 11) = given.quantity
    BY <1>1, Zenon DEF Inv, Given
  <2>2. given' \in [id : UInt16, address : UInt16, quantity : UInt16]
    BY <1>2, <1>3, <2>1
  <2>3. BigEndian(bytes', 1) = given'.id
    BY <1>2, <1>4, <1>5, <2>1 DEF BigEndian
  <2>4. object \in Requests => /\ BigEndian(bytes', 9) = given'.address
                               /\ BigEndian(bytes', 11) = given'.quantity
    <3>1. given'.address = given.address /\ given'.quantity = given.quantity
      BY <1>2, <2>1
    <3>2. object \in Requests => \A i \in 9 .. 12 : bytes'[i] = bytes[i]
      BY <1>4, <1>5
    <3>3. QED
      BY <2>1, <3>1, <3>2 DEF BigEndian
  <2>5. QED
    BY <1>1, <2>2, <2>3, <2>4, Zenon DEF Given
<1>8. Allowed'
  BY <1>1, <1>2 DEF Inv, Allowed, Given
<1>9. QED
  BY <1>6, <1>7, <1>8, Zenon DEF Inv

(* The unit number: whatever it becomes, it is a byte.                       *)
LEMMA SetUnitInv == ASSUME Inv, SetUnit PROVE Inv'
<1>1. /\ object \in Classes /\ UNCHANGED <<little, buffer, n, object, given>>
      /\ Len(bytes) >= 7
  BY Zenon DEF SetUnit
<1>2. PICK unit \in Units : bytes' = [bytes EXCEPT ![7] = Ntohs(unit) % 256]
  BY Zenon DEF SetUnit
<1>3. little \in BOOLEAN /\ unit \in UInt8
  BY DatagramObjectAssumption, Zenon DEF Inv, Host
<1>4. Ntohs(unit) % 256 \in UInt8
  <2>1. unit \in Nat
    BY <1>3, ByteIsNat
  <2>2. /\ \A z \in Nat : z % 256 \in UInt8
        /\ 256 * (unit % 256) + unit \div 256 \in Nat
    BY <2>1, SMT DEF UInt8
  <2>3. /\ unit % 256 \in UInt8
        /\ (256 * (unit % 256) + unit \div 256) % 256 \in UInt8
    BY <2>1, <2>2
  <2>4. CASE little
    BY <2>3, <2>4, ZenonT(60) DEF Ntohs
  <2>5. CASE ~little
    BY <2>3, <2>5, ZenonT(60) DEF Ntohs
  <2>6. QED
    BY <2>4, <2>5
<1>5. /\ bytes \in Seq(UInt8)
      /\ object \in Requests => Len(bytes) = 12
  BY <1>1, ObjectLength
<1>6. /\ bytes' \in Seq(UInt8) /\ Len(bytes') = Len(bytes)
      /\ \A j \in 1 .. Len(bytes) : j # 7 => bytes'[j] = bytes[j]
  <2>1. PICK v \in UInt8 : bytes' = [bytes EXCEPT ![7] = v]
    BY <1>2, <1>4, Zenon
  <2>2. bytes \in Seq(UInt8) /\ 7 \in 1 .. Len(bytes)
    BY <1>1, <1>5
  <2>3. QED
    BY <2>1, <2>2, SMT
<1>7. Host' /\ Parsed' /\ WholeBytes' /\ ErrorKept'
  BY <1>1, <1>5, <1>6, SetterKeeps
<1>8. Given'
  <2>1. /\ BigEndian(bytes', 1) = BigEndian(bytes, 1)
        /\ object \in Requests => /\ BigEndian(bytes', 9) = BigEndian(bytes, 9)
                                  /\ BigEndian(bytes', 11) = BigEndian(bytes, 11)
    <3>1. /\ bytes'[1] = bytes[1] /\ bytes'[2] = bytes[2]
          /\ object \in Requests => \A i \in 9 .. 12 : bytes'[i] = bytes[i]
      BY <1>1, <1>5, <1>6
    <3>2. QED
      BY <3>1 DEF BigEndian
  <2>2. QED
    BY <1>1, <2>1, Zenon DEF Inv, Given
<1>9. Allowed'
  BY <1>1 DEF Inv, Allowed
<1>10. QED
  BY <1>7, <1>8, <1>9, Zenon DEF Inv

(* The address of a request.                                                 *)
LEMMA SetAddressInv == ASSUME Inv, SetAddress PROVE Inv'
<1>1. /\ object \in Requests /\ object \in Classes
      /\ UNCHANGED <<little, buffer, n, object>>
  BY DEF SetAddress, Requests, Classes
<1>2. PICK a \in Words : /\ bytes' = SetField(bytes, 9, a)
                         /\ given' = [given EXCEPT !.address = a]
  BY Zenon DEF SetAddress
<1>3. a \in UInt16 /\ little \in BOOLEAN
  BY DatagramObjectAssumption, Zenon DEF Inv, Host
<1>4. bytes \in Seq(UInt8) /\ Len(bytes) = 12
  BY <1>1, ObjectLength
<1>5. /\ bytes' \in Seq(UInt8) /\ Len(bytes') = Len(bytes)
      /\ BigEndian(bytes', 9) = a
      /\ \A j \in 1 .. Len(bytes) : j # 9 /\ j # 9 + 1 => bytes'[j] = bytes[j]
  <2>1. 9 \in Nat /\ 1 <= 9 /\ 9 + 1 <= Len(bytes)
    BY <1>4
  <2>2. IsSet(bytes', bytes, 9, a)
    BY <1>2, <1>3, <1>4, <2>1, SetFieldSets, Zenon
  <2>3. QED
    BY <2>2 DEF IsSet
<1>6. Host' /\ Parsed' /\ WholeBytes' /\ ErrorKept'
  BY <1>1, <1>4, <1>5, SetterKeeps
<1>7. Given'
  <2>1. /\ given \in [id : UInt16, address : UInt16, quantity : UInt16]
        /\ BigEndian(bytes, 1) = given.id
        /\ object \in Requests => /\ BigEndian(bytes, 9) = given.address
                                  /\ BigEndian(bytes, 11) = given.quantity
    BY <1>1, Zenon DEF Inv, Given
  <2>2. given' \in [id : UInt16, address : UInt16, quantity : UInt16]
    BY <1>2, <1>3, <2>1
  <2>3. BigEndian(bytes', 1) = given'.id
    BY <1>2, <1>4, <1>5, <2>1 DEF BigEndian
  <2>4. object \in Requests => /\ BigEndian(bytes', 9) = given'.address
                               /\ BigEndian(bytes', 11) = given'.quantity
    BY <1>2, <1>4, <1>5, <2>1 DEF BigEndian
  <2>5. QED
    BY <1>1, <2>2, <2>3, <2>4, Zenon DEF Given
<1>8. Allowed'
  BY <1>1, <1>2 DEF Inv, Allowed, Given
<1>9. QED
  BY <1>6, <1>7, <1>8, Zenon DEF Inv

(* The quantity of a request, if it is an allowed one.                       *)
LEMMA SetQuantityInv == ASSUME Inv, SetQuantity PROVE Inv'
<1>1. /\ object \in Requests /\ object \in Classes
      /\ UNCHANGED <<little, buffer, n, object>>
  BY DEF SetQuantity, Requests, Classes
<1>2. PICK q \in Words \cap RequestQuantities :
        /\ bytes' = SetField(bytes, 11, q)
        /\ given' = [given EXCEPT !.quantity = q]
  BY Zenon DEF SetQuantity
<1>3. q \in UInt16 /\ q \in RequestQuantities /\ little \in BOOLEAN
  BY DatagramObjectAssumption, Zenon DEF Inv, Host
<1>4. bytes \in Seq(UInt8) /\ Len(bytes) = 12
  BY <1>1, ObjectLength
<1>5. /\ bytes' \in Seq(UInt8) /\ Len(bytes') = Len(bytes)
      /\ BigEndian(bytes', 11) = q
      /\ \A j \in 1 .. Len(bytes) : j # 11 /\ j # 11 + 1 => bytes'[j] = bytes[j]
  <2>1. 11 \in Nat /\ 1 <= 11 /\ 11 + 1 <= Len(bytes)
    BY <1>4
  <2>2. IsSet(bytes', bytes, 11, q)
    BY <1>2, <1>3, <1>4, <2>1, SetFieldSets, Zenon
  <2>3. QED
    BY <2>2 DEF IsSet
<1>6. Host' /\ Parsed' /\ WholeBytes' /\ ErrorKept'
  BY <1>1, <1>4, <1>5, SetterKeeps
<1>7. Given'
  <2>1. /\ given \in [id : UInt16, address : UInt16, quantity : UInt16]
        /\ BigEndian(bytes, 1) = given.id
        /\ object \in Requests => /\ BigEndian(bytes, 9) = given.address
                                  /\ BigEndian(bytes, 11) = given.quantity
    BY <1>1, Zenon DEF Inv, Given
  <2>2. given' \in [id : UInt16, address : UInt16, quantity : UInt16]
    BY <1>2, <1>3, <2>1
  <2>3. BigEndian(bytes', 1) = given'.id
    BY <1>2, <1>4, <1>5, <2>1 DEF BigEndian
  <2>4. object \in Requests => /\ BigEndian(bytes', 9) = given'.address
                               /\ BigEndian(bytes', 11) = given'.quantity
    BY <1>2, <1>4, <1>5, <2>1 DEF BigEndian
  <2>5. QED
    BY <1>1, <2>2, <2>3, <2>4, Zenon DEF Given
<1>8. Allowed'
  BY <1>2, <1>3 DEF Inv, Allowed, Given
<1>9. QED
  BY <1>6, <1>7, <1>8, Zenon DEF Inv

(* The constructors of a request fill in every byte.                         *)
LEMMA RequestIsWhole ==
  ASSUME little \in BOOLEAN, NEW class \in Requests, NEW id \in UInt16,
         NEW unit \in UInt8, NEW address \in UInt16, NEW quantity \in UInt16
  PROVE  LET b == RequestBytes(class, id, unit, address, quantity) IN
         /\ b \in Seq(UInt8) /\ Len(b) = 12
         /\ BigEndian(b, 1) = id /\ BigEndian(b, 3) = 0 /\ BigEndian(b, 5) = 6
         /\ IsA(class, Wire(b))
         /\ BigEndian(b, 9) = address /\ BigEndian(b, 11) = quantity
<1> DEFINE b0 == [i \in 1 .. RequestLength |->
                    CASE i = 7 -> unit [] i = 8 -> FunctionOf(class) [] OTHER -> 0]
           b1 == SetField(b0, 1, id)
           b2 == SetField(b1, 5, 6)
           b3 == SetField(b2, 9, address)
           b4 == SetField(b3, 11, quantity)
<1>1. RequestBytes(class, id, unit, address, quantity) = b4
  BY Zenon DEF RequestBytes
<1>2. FunctionOf(class) \in UInt8 /\ 0 \in UInt8
  BY DEF FunctionOf, UInt8, ReadHoldingRegisters, ReadInputRegisters
<1>3. /\ b0 \in Seq(UInt8) /\ Len(b0) = 12
      /\ b0[3] = 0 /\ b0[4] = 0 /\ b0[8] = FunctionOf(class)
  <2>1. \A i \in 1 .. RequestLength : b0[i] \in UInt8
    BY <1>2
  <2>2. QED
    BY <2>1, <1>2 DEF RequestLength
<1>4. 6 \in UInt16
  <2>1. 0 \in UInt8 /\ 6 \in UInt8 /\ 256 * 0 + 6 = 6
    BY DEF UInt8
  <2>2. QED
    BY <2>1, TwoBytes
<1> HIDE DEF b0
<1>5. /\ b1 \in Seq(UInt8) /\ Len(b1) = 12 /\ BigEndian(b1, 1) = id
      /\ \A j \in 1 .. 12 : j # 1 /\ j # 1 + 1 => b1[j] = b0[j]
  <2>1. b1 = SetField(b0, 1, id)
    BY Zenon DEF b1
  <2> HIDE DEF b1, b2, b3, b4
  <2>2. 1 \in Nat /\ 1 <= 1 /\ 1 + 1 <= Len(b0)
    BY <1>3
  <2>3. IsSet(b1, b0, 1, id)
    BY <1>3, <2>1, <2>2, SetFieldSets, Zenon
  <2>4. QED
    BY <1>3, <2>3 DEF IsSet
<1>6. /\ b2 \in Seq(UInt8) /\ Len(b2) = 12 /\ BigEndian(b2, 5) = 6
      /\ \A j \in 1 .. 12 : j # 5 /\ j # 5 + 1 => b2[j] = b1[j]
  <2>1. b2 = SetField(b1, 5, 6)
    BY Zenon DEF b2
  <2> HIDE DEF b1, b2, b3, b4
  <2>2. 5 \in Nat /\ 1 <= 5 /\ 5 + 1 <= Len(b1)
    BY <1>5
  <2>3. IsSet(b2, b1, 5, 6)
    BY <1>4, <1>5, <2>1, <2>2, SetFieldSets, Zenon
  <2>4. QED
    BY <1>5, <2>3 DEF IsSet
<1>7. /\ b3 \in Seq(UInt8) /\ Len(b3) = 12 /\ BigEndian(b3, 9) = address
      /\ \A j \in 1 .. 12 : j # 9 /\ j # 9 + 1 => b3[j] = b2[j]
  <2>1. b3 = SetField(b2, 9, address)
    BY Zenon DEF b3
  <2> HIDE DEF b1, b2, b3, b4
  <2>2. 9 \in Nat /\ 1 <= 9 /\ 9 + 1 <= Len(b2)
    BY <1>6
  <2>3. IsSet(b3, b2, 9, address)
    BY <1>6, <2>1, <2>2, SetFieldSets, Zenon
  <2>4. QED
    BY <1>6, <2>3 DEF IsSet
<1>8. /\ b4 \in Seq(UInt8) /\ Len(b4) = 12 /\ BigEndian(b4, 11) = quantity
      /\ \A j \in 1 .. 12 : j # 11 /\ j # 11 + 1 => b4[j] = b3[j]
  <2>1. b4 = SetField(b3, 11, quantity)
    BY Zenon DEF b4
  <2> HIDE DEF b1, b2, b3, b4
  <2>2. 11 \in Nat /\ 1 <= 11 /\ 11 + 1 <= Len(b3)
    BY <1>7
  <2>3. IsSet(b4, b3, 11, quantity)
    BY <1>7, <2>1, <2>2, SetFieldSets, Zenon
  <2>4. QED
    BY <1>7, <2>3 DEF IsSet
<1> HIDE DEF b1, b2, b3, b4
<1>9. /\ b4[1] = b1[1] /\ b4[2] = b1[2] /\ b4[3] = 0 /\ b4[4] = 0
      /\ b4[5] = b2[5] /\ b4[6] = b2[6] /\ b4[8] = FunctionOf(class)
      /\ b4[9] = b3[9] /\ b4[10] = b3[10]
  BY <1>3, <1>5, <1>6, <1>7, <1>8
<1>10. /\ BigEndian(b4, 1) = id /\ BigEndian(b4, 3) = 0 /\ BigEndian(b4, 5) = 6
       /\ BigEndian(b4, 9) = address
  BY <1>5, <1>6, <1>7, <1>9 DEF BigEndian
<1>11. IsA(class, Wire(b4))
  <2>1. Wire(b4).func = FunctionOf(class) /\ Wire(b4).length = 6
    BY <1>9, <1>10 DEF Wire
  <2>2. QED
    BY <2>1, ClassMeans
    DEF FunctionOf, Requests, ReadHoldingRegisters, ReadInputRegisters
<1>12. QED
  BY <1>1, <1>8, <1>10, <1>11, Zenon

(* A constructor of a request builds a whole one, or none.                   *)
LEMMA ConstructInv == ASSUME Inv, Construct PROVE Inv'
<1>1. /\ object = "none" /\ buffer = <<>> /\ UNCHANGED <<little, buffer, n>>
  BY Zenon DEF Construct
<1>2. Host'
  BY <1>1, Zenon DEF Inv, Host
<1>3. PICK class \in Requests, id \in Words, unit \in Units, address \in Words,
           quantity \in Words :
       \/ /\ quantity \in RequestQuantities
          /\ object' = class
          /\ bytes' = RequestBytes(class, id, unit, address, quantity)
          /\ given' = [id |-> id, address |-> address, quantity |-> quantity]
       \/ /\ quantity \notin RequestQuantities
          /\ object' = "out_of_range"
          /\ UNCHANGED <<bytes, given>>
  BY Zenon DEF Construct
<1>4. CASE /\ quantity \in RequestQuantities
           /\ object' = class
           /\ bytes' = RequestBytes(class, id, unit, address, quantity)
           /\ given' = [id |-> id, address |-> address, quantity |-> quantity]
  <2>1. /\ id \in UInt16 /\ unit \in UInt8 /\ address \in UInt16
        /\ quantity \in UInt16 /\ little \in BOOLEAN
    BY DatagramObjectAssumption, Zenon DEF Inv, Host
  <2>2. /\ bytes' \in Seq(UInt8) /\ Len(bytes') = 12
        /\ BigEndian(bytes', 1) = id /\ BigEndian(bytes', 3) = 0
        /\ BigEndian(bytes', 5) = 6 /\ IsA(class, Wire(bytes'))
        /\ BigEndian(bytes', 9) = address /\ BigEndian(bytes', 11) = quantity
    <3> DEFINE b == RequestBytes(class, id, unit, address, quantity)
    <3>1. /\ b \in Seq(UInt8) /\ Len(b) = 12
          /\ BigEndian(b, 1) = id /\ BigEndian(b, 3) = 0
          /\ BigEndian(b, 5) = 6 /\ IsA(class, Wire(b))
          /\ BigEndian(b, 9) = address /\ BigEndian(b, 11) = quantity
      BY <2>1, RequestIsWhole
    <3> HIDE DEF b
    <3>2. bytes' = b
      BY <1>4, Zenon DEF b
    <3>3. QED
      BY <3>1, <3>2
  <2>3. WholeBytes'
    BY <1>4, <2>2 DEF WholeBytes
  <2>4. given' \in [id : UInt16, address : UInt16, quantity : UInt16]
    BY <1>4, <2>1
  <2>5. /\ given'.id = id /\ given'.address = address
        /\ given'.quantity = quantity
    BY <1>4
  <2>6. Given' /\ Allowed'
    BY <1>4, <2>2, <2>4, <2>5, Zenon DEF Given, Allowed
  <2>7. Parsed' /\ ErrorKept'
    BY <1>1, <1>4 DEF Parsed, ErrorKept, Requests
  <2>8. QED
    BY <1>2, <2>3, <2>6, <2>7, Zenon DEF Inv
<1>5. CASE object' = "out_of_range" /\ UNCHANGED <<bytes, given>>
  <2>1. /\ object' \notin Classes /\ object' \notin Requests
        /\ object' # "ErrorRes"
    BY <1>5 DEF Classes, Requests
  <2>2. Given'
    BY <1>5, <2>1, Zenon DEF Inv, Given
  <2>3. Parsed'
    BY <1>1, Zenon DEF Parsed
  <2>4. QED
    BY <1>2, <2>1, <2>2, <2>3, Zenon DEF Inv, WholeBytes, ErrorKept, Allowed
<1>6. QED
  BY <1>3, <1>4, <1>5, Zenon

(* The invariant holds in every reachable state.                             *)
LEMMA Invariant == Spec => []Inv
<1>1. ASSUME Inv, [Next]_vars PROVE Inv'
  <2>1. CASE UNCHANGED vars
    <3>1. /\ little' = little /\ buffer' = buffer /\ n' = n
          /\ object' = object /\ bytes' = bytes /\ given' = given
      BY <2>1, Zenon DEF vars
    <3>2. Host'
      BY <1>1, <3>1, Zenon DEF Inv, Host
    <3>3. Parsed'
      BY <1>1, <3>1, Zenon DEF Inv, Parsed
    <3>4. WholeBytes'
      BY <1>1, <3>1, Zenon DEF Inv, WholeBytes
    <3>5. ErrorKept' /\ Given' /\ Allowed'
      BY <1>1, <3>1, Zenon DEF Inv, ErrorKept, Given, Allowed
    <3>6. QED
      BY <3>2, <3>3, <3>4, <3>5, Zenon DEF Inv
  <2>2. QED
    BY <1>1, <2>1, ReceiveInv, ConstructInv, SetTransactionInv, SetUnitInv,
       SetAddressInv, SetQuantityInv, Zenon DEF Next, Setter
<1>2. QED
  BY <1>1, InitInv, PTL DEF Spec

-----------------------------------------------------------------------------
(* The theorems.                                                             *)

(* What has been received, if it has been looked at.                         *)
LEMMA Received ==
  ASSUME Inv, object # "none", buffer # <<>>
  PROVE  /\ n \in Nat /\ Sent \in RawDatagrams
         /\ object = CreateObject(Sent, n)
         /\ Sent.length = BigEndian(buffer, 5)
<1>1. buffer \in Seq(UInt8) /\ Len(buffer) >= 12 /\ n \in Nat
  BY Zenon DEF Inv, Host
<1>2. Sent = Wire(buffer)
  BY Zenon DEF Sent, Wire
<1>3. Wire(buffer) \in RawDatagrams
  <2>1. Len(buffer) >= 9
    BY <1>1
  <2>2. QED
    BY <1>1, <2>1, WireIsRaw
<1>4. object = CreateObject(Wire(buffer), n)
  BY Zenon DEF Inv, Parsed
<1>5. Sent.length = BigEndian(buffer, 5)
  BY DEF Sent
<1>6. QED
  BY <1>1, <1>2, <1>3, <1>4, <1>5, Zenon

(* createObject builds an object of a class exactly from a complete datagram *)
(* of the class.                                                             *)
THEOREM ParsingIsExact == Spec => []ParsesAsSpecified
<1>1. ASSUME Inv PROVE ParsesAsSpecified
  <2> SUFFICES ASSUME object # "none", buffer # <<>>, NEW class \in Classes
               PROVE  object = class
                        <=> Sent.proto = 0 /\ n >= Sent.length + 6 /\ IsA(class, Sent)
    BY Zenon DEF ParsesAsSpecified
  <2>1. QED
    BY <1>1, Received, CreateObjectMeans, Zenon
<1>2. QED
  BY <1>1, Invariant, PTL

(* Every answer to an allowed request is recognised, as soon as it is        *)
(* complete and not before.                                                  *)
THEOREM AnswersAreRecognised == Spec => []AnswersRecognised
<1>1. ASSUME Inv, object # "none", buffer # <<>>, NEW q \in RequestQuantities,
             NEW f \in {3, 4}, Sent = Answer(f, q)
      PROVE  LET c == IF f = 3 THEN "ReadHoldingRegistersRes"
                               ELSE "ReadInputRegistersRes"
             IN  /\ TotalLength(Sent) <= MaxDatagramLength
                 /\ n >= TotalLength(Sent) <=> object = c
  <2> DEFINE c == IF f = 3 THEN "ReadHoldingRegistersRes"
                           ELSE "ReadInputRegistersRes"
  <2>1. /\ n \in Nat /\ Sent \in RawDatagrams /\ object = CreateObject(Sent, n)
    BY <1>1, Received
  <2>2. /\ Sent.proto = 0 /\ Sent.func = f /\ Sent.length = 2 * q + 3
        /\ Sent.count = 2 * q
    BY <1>1 DEF Answer
  <2>3. Sent.length # 6 /\ Sent.length = Sent.count + 3
    BY <2>2 DEF RequestQuantities
  <2>4. c \in Classes /\ IsA(c, Sent)
    BY <2>2, <2>3, ClassMeans DEF Classes
  <2>5. TotalLength(Sent) = Sent.length + 6
    BY DEF TotalLength, LengthFieldEnd
  <2>6. TotalLength(Sent) <= MaxDatagramLength
    BY <2>2, <2>5 DEF RequestQuantities, MaxDatagramLength
  <2>7. n >= TotalLength(Sent) <=> object = c
    <3> HIDE DEF c
    <3>1. CreateObject(Sent, n) = c
            <=> Sent.proto = 0 /\ n >= Sent.length + 6 /\ IsA(c, Sent)
      BY <2>1, <2>4, CreateObjectMeans, Zenon
    <3>2. QED
      BY <2>1, <2>2, <2>4, <2>5, <3>1
  <2>8. QED
    BY <2>6, <2>7, Zenon
<1>2. ASSUME Inv PROVE AnswersRecognised
  <2> SUFFICES ASSUME object # "none", buffer # <<>>, NEW q \in RequestQuantities
      PROVE  /\ Sent = Answer(3, q) =>
                  /\ TotalLength(Sent) <= MaxDatagramLength
                  /\ n >= TotalLength(Sent) <=> object = "ReadHoldingRegistersRes"
             /\ Sent = Answer(4, q) =>
                  /\ TotalLength(Sent) <= MaxDatagramLength
                  /\ n >= TotalLength(Sent) <=> object = "ReadInputRegistersRes"
    BY DEF AnswersRecognised, ReadHoldingRegisters, ReadInputRegisters
  <2>1. 3 \in {3, 4} /\ 4 \in {3, 4} /\ 3 # 4
    OBVIOUS
  <2>2. QED
    BY <1>1, <1>2, <2>1
<1>3. QED
  BY <1>2, Invariant, PTL

(* An error answer is recognised, and its object tells what went wrong,      *)
(* whatever is set in it.                                                    *)
THEOREM ErrorAnswersAreRecognised == Spec => []ErrorsRecognised
<1>1. ASSUME Inv, object # "none", buffer # <<>>, n >= 9,
             NEW f \in {3, 4}, Sent = ErrorAnswer(f, Sent.count)
      PROVE  /\ object = "ErrorRes"
             /\ RequestFuncCode(bytes) = f /\ ExceptionCode(bytes) = Sent.count
  <2>1. /\ n \in Nat /\ Sent \in RawDatagrams /\ object = CreateObject(Sent, n)
    BY <1>1, Received
  <2>2. /\ Sent.proto = 0 /\ Sent.func = f + 128 /\ Sent.length = 3
    BY <1>1 DEF ErrorAnswer, ErrorBit
  <2>3. "ErrorRes" \in Classes /\ IsA("ErrorRes", Sent)
    BY <2>2, ClassMeans DEF Classes
  <2>4. object = "ErrorRes"
    BY <1>1, <2>1, <2>2, <2>3, CreateObjectMeans
  <2>5. bytes[8] = buffer[8] /\ bytes[9] = buffer[9]
    BY <1>1, <2>4, Zenon DEF Inv, ErrorKept
  <2>6. Sent.func = buffer[8] /\ Sent.count = buffer[9]
    BY DEF Sent
  <2>7. QED
    BY <2>2, <2>4, <2>5, <2>6 DEF RequestFuncCode, ExceptionCode, ErrorBit
<1>2. ASSUME Inv PROVE ErrorsRecognised
  BY <1>1, <1>2 DEF ErrorsRecognised, ReadHoldingRegisters, ReadInputRegisters
<1>3. QED
  BY <1>2, Invariant, PTL

(* The wire has big-endian numbers and the getters return them, whatever the *)
(* order of bytes of the host.                                               *)
THEOREM FieldsAreInNetworkOrder == Spec => []FieldsAsGiven
<1>1. ASSUME Inv PROVE FieldsAsGiven
  <2>1. little \in BOOLEAN
    BY <1>1, Zenon DEF Inv, Host
  <2>2. /\ object \in Classes => BigEndian(bytes, 1) = given.id
        /\ object \in Requests => /\ BigEndian(bytes, 9) = given.address
                                  /\ BigEndian(bytes, 11) = given.quantity
    BY <1>1, Zenon DEF Inv, Given
  <2>3. ASSUME object \in Classes PROVE Transaction(bytes) = BigEndian(bytes, 1)
    <3>1. bytes[1] \in UInt8 /\ bytes[1 + 1] \in UInt8
      BY <1>1, <2>3, ObjectLength
    <3>2. QED
      BY <2>1, <3>1, NetworkOrder DEF Transaction
  <2>4. ASSUME object \in Requests
        PROVE  /\ Address(bytes) = BigEndian(bytes, 9)
               /\ Quantity(bytes) = BigEndian(bytes, 11)
    <3>1. object \in Classes
      BY <2>4 DEF Requests, Classes
    <3>2. /\ bytes[9] \in UInt8 /\ bytes[9 + 1] \in UInt8
          /\ bytes[11] \in UInt8 /\ bytes[11 + 1] \in UInt8
      <4>1. bytes \in Seq(UInt8) /\ Len(bytes) = 12
        BY <1>1, <2>4, <3>1, ObjectLength, Zenon
      <4>2. \A i \in 1 .. Len(bytes) : bytes[i] \in UInt8
        <5>1. bytes \in Seq(UInt8) /\ Len(bytes) >= 9
          BY <4>1
        <5>2. QED
          BY <5>1, WireIsRaw, Zenon
      <4>3. QED
        BY <4>1, <4>2
    <3>3. QED
      BY <2>1, <3>2, NetworkOrder, Zenon DEF Address, Quantity
  <2>5. QED
    BY <2>2, <2>3, <2>4, Zenon DEF FieldsAsGiven
<1>2. QED
  BY <1>1, Invariant, PTL

(* Whatever is set in an object, its bytes remain a complete datagram of its *)
(* class.                                                                    *)
THEOREM ObjectsStayWhole == Spec => []StaysWhole
<1>1. ASSUME Inv PROVE StaysWhole
  <2> SUFFICES ASSUME object \in Classes
      PROVE  /\ Len(bytes) >= 9 =>
                  /\ CreateObject(RawOf(bytes), Len(bytes)) = object
                  /\ Len(bytes) = TotalLength(RawOf(bytes))
             /\ Len(bytes) < 9 => object = "Generic"
             /\ object \in Requests /\ buffer = <<>>
                  => Quantity(bytes) \in RequestQuantities
    BY Zenon DEF StaysWhole
  <2>1. /\ little \in BOOLEAN
        /\ bytes \in Seq(UInt8) /\ Len(bytes) = BigEndian(bytes, 5) + 6
        /\ Len(bytes) < 9 => object = "Generic"
        /\ Len(bytes) >= 9 => BigEndian(bytes, 3) = 0 /\ IsA(object, Wire(bytes))
    BY <1>1, Zenon DEF Inv, Host, WholeBytes
  <2>2. ASSUME Len(bytes) >= 9
        PROVE  /\ CreateObject(RawOf(bytes), Len(bytes)) = object
               /\ Len(bytes) = TotalLength(RawOf(bytes))
    <3>1. RawOf(bytes) = Wire(bytes) /\ Wire(bytes) \in RawDatagrams
      BY <2>1, <2>2, WireIsRaw
    <3>2. Wire(bytes).length = BigEndian(bytes, 5)
          /\ Wire(bytes).proto = BigEndian(bytes, 3)
      BY DEF Wire
    <3>3. Len(bytes) \in Nat
      BY <2>1
    <3>4. Len(bytes) >= Wire(bytes).length + 6
      BY <2>1, <3>2, <3>3
    <3>5. CreateObject(Wire(bytes), Len(bytes)) = object
      BY <2>1, <2>2, <3>1, <3>2, <3>3, <3>4, CreateObjectMeans, Zenon
    <3>6. Len(bytes) = TotalLength(Wire(bytes))
      BY <2>1, <3>2 DEF TotalLength, LengthFieldEnd
    <3>7. QED
      BY <3>1, <3>5, <3>6, Zenon
  <2>3. ASSUME object \in Requests, buffer = <<>>
        PROVE  Quantity(bytes) \in RequestQuantities
    <3>1. bytes[11] \in UInt8 /\ bytes[11 + 1] \in UInt8
      <4>1. bytes \in Seq(UInt8) /\ Len(bytes) = 12
        BY <1>1, <2>3, ObjectLength, Zenon
      <4>2. \A i \in 1 .. Len(bytes) : bytes[i] \in UInt8
        <5>1. bytes \in Seq(UInt8) /\ Len(bytes) >= 9
          BY <4>1
        <5>2. QED
          BY <5>1, WireIsRaw, Zenon
      <4>3. QED
        BY <4>1, <4>2
    <3>2. Quantity(bytes) = BigEndian(bytes, 11)
      BY <2>1, <3>1, NetworkOrder, Zenon DEF Quantity
    <3>3. QED
      BY <1>1, <2>3, <3>2, Zenon DEF Inv, Given, Allowed
  <2>4. QED
    BY <2>1, <2>2, <2>3
<1>2. QED
  BY <1>1, Invariant, PTL

(* A nonempty set of numbers has a least one.                                *)
LEMMA Least ==
  ASSUME NEW S \in SUBSET Nat, S # {}
  PROVE  \E i \in S : \A j \in S : i <= j
<1>1. PICK i \in S : \A j \in S : <<j, i>> \notin OpToRel(<, Nat)
  BY NatLessThanWellFounded, WFMin
<1>2. \A j \in S : ~(j < i)
  BY <1>1 DEF OpToRel
<1>3. QED
  BY <1>2

(* What is loaded from two bytes fits 16 bits.                               *)
LEMMA LoadIsWord ==
  ASSUME little \in BOOLEAN, NEW b, NEW i, b[i] \in UInt8, b[i + 1] \in UInt8
  PROVE  Load16(b, i) \in Nat /\ Load16(b, i) < TwoTo16
<1> DEFINE x == b[i]
           y == b[i + 1]
<1>1. x \in UInt8 /\ y \in UInt8
  OBVIOUS
<1> HIDE DEF x, y
<1>2. /\ x + 256 * y \in Nat /\ x + 256 * y < TwoTo16
      /\ 256 * x + y \in Nat /\ 256 * x + y < TwoTo16
  BY <1>1, SMT DEF UInt8, TwoTo16
<1>3. CASE little
  BY <1>2, <1>3, Zenon DEF Load16, x, y
<1>4. CASE ~little
  BY <1>2, <1>4, Zenon DEF Load16, x, y
<1>5. QED
  BY <1>3, <1>4

(* The values of 32 bits consist of two of 16.                               *)
LEMMA TwoWords ==
  ASSUME little \in BOOLEAN, NEW b, NEW r \in Nat,
         \A i \in r .. r + 3 : b[i] \in UInt8
  PROVE  Ntohl(Load32(b, r))
           = TwoTo16 * Ntohs(Load16(b, r)) + Ntohs(Load16(b, r + 2))
<1> DEFINE h == Load16(b, r)
           l == Load16(b, r + 2)
<1>1. /\ b[r] \in UInt8 /\ b[r + 1] \in UInt8
      /\ b[r + 2] \in UInt8 /\ b[(r + 2) + 1] \in UInt8
  BY SMT
<1>2. h \in Nat /\ h < TwoTo16 /\ l \in Nat /\ l < TwoTo16
  BY <1>1, LoadIsWord, Zenon
<1>3. CASE little
  <2>1. Load32(b, r) = h + TwoTo16 * l
    BY <1>3, Zenon DEF Load32
  <2>2. (h + TwoTo16 * l) % TwoTo16 = h /\ (h + TwoTo16 * l) \div TwoTo16 = l
    <3> HIDE DEF h, l
    <3>1. QED
      BY <1>2, SMT DEF TwoTo16
  <2>3. QED
    BY <1>3, <2>1, <2>2, Zenon DEF Ntohl
<1>4. CASE ~little
  BY <1>4, Zenon DEF Load32, Ntohl, Ntohs
<1>5. QED
  BY <1>3, <1>4

(* The text ends before the first NUL, or where the datagram ends.           *)
LEMMA TextIsSent ==
  ASSUME NEW b \in Seq(UInt8), b[9] \in UInt8, Len(b) = b[9] + 9,
         NEW i \in 1 .. Len(Ascii(b))
  PROVE  Ascii(b)[i] = b[9 + i] /\ b[9 + i] # 0
<1> DEFINE m == b[9]
           nul == { j \in 1 .. m : b[9 + j] = 0 }
           first == CHOOSE j \in nul : \A k \in nul : j <= k
           end == IF nul = {} THEN m ELSE first - 1
<1>1. m \in Nat
  BY ByteIsNat
<1>2. Ascii(b) = SubSeq(b, 10, 9 + end)
  BY Zenon DEF Ascii, ByteCount
<1>3. nul \in SUBSET Nat
  BY <1>1
<1>4. /\ end \in Nat /\ end <= m
      /\ \A j \in 1 .. end : b[9 + j] # 0
  <2>1. CASE nul = {}
    <3>1. end = m
      BY <2>1
    <3>2. \A j \in 1 .. m : b[9 + j] # 0
      BY <2>1
    <3>3. QED
      BY <1>1, <3>1, <3>2
  <2>2. CASE nul # {}
    <3>1. first \in nul /\ \A k \in nul : first <= k
      <4>1. \E j \in nul : \A k \in nul : j <= k
        BY <1>3, <2>2, Least
      <4> HIDE DEF nul
      <4>2. QED
        BY <4>1, Zenon
    <3>2. end = first - 1
      BY <2>2
    <3>3. first \in 1 .. m
      BY <3>1
    <3> HIDE DEF first, end
    <3>4. end \in Nat /\ end < m /\ end < first
      BY <1>1, <3>2, <3>3
    <3>5. \A j \in 1 .. m : j < first => b[9 + j] # 0
      BY <3>1, <3>3
    <3>6. ASSUME NEW j \in 1 .. end PROVE b[9 + j] # 0
      <4>1. j \in 1 .. m /\ j < first
        BY <1>1, <3>3, <3>4
      <4>2. QED
        BY <3>5, <4>1
    <3>7. QED
      BY <1>1, <3>4, <3>6
  <2>3. QED
    BY <2>1, <2>2
<1> HIDE DEF end
<1>5. Len(Ascii(b)) = end /\ \A j \in 1 .. end : Ascii(b)[j] = b[9 + j]
  BY <1>1, <1>2, <1>4
<1>6. QED
  BY <1>4, <1>5

(* The interpreters return what the device has sent, on every host, and stay *)
(* within the datagram.                                                      *)
THEOREM ValuesAreAsSent == Spec => []ValuesAsSent
<1>1. ASSUME Inv, object \in Responses
      PROVE  /\ bytes \in Seq(UInt8) /\ bytes[9] \in UInt8
             /\ Len(bytes) = bytes[9] + 9
             /\ \A j \in 1 .. Len(bytes) : bytes[j] \in UInt8
             /\ little \in BOOLEAN
  <2>1. object \in Classes
    BY <1>1 DEF Responses, Classes
  <2>2. /\ bytes \in Seq(UInt8) /\ bytes[9] \in UInt8
        /\ Len(bytes) = bytes[9] + 9
    BY <1>1, <2>1, ObjectLength, Zenon
  <2>3. little \in BOOLEAN
    BY <1>1, Zenon DEF Inv, Host
  <2>4. QED
    BY <2>2, <2>3
<1>2. ASSUME Inv, object \in Responses,
             NEW i \in 0 .. ByteCount(bytes) \div 2 - 1
      PROVE  /\ RegisterAt(i) + 1 <= Len(bytes)
             /\ UInt16Value(bytes, i) = BigEndian(bytes, RegisterAt(i))
  <2>1. RegisterAt(i) \in Nat /\ RegisterAt(i) >= 1 /\ RegisterAt(i) + 1 <= Len(bytes)
    <3>1. bytes[9] \in Nat /\ Len(bytes) = bytes[9] + 9
      BY <1>1, <1>2, ByteIsNat
    <3>2. QED
      BY <3>1 DEF RegisterAt, ByteCount
  <2>2. bytes[RegisterAt(i)] \in UInt8 /\ bytes[RegisterAt(i) + 1] \in UInt8
    BY <1>1, <1>2, <2>1
  <2>3. QED
    BY <1>1, <1>2, <2>1, <2>2, NetworkOrder, Zenon DEF UInt16Value, Field
<1>3. ASSUME Inv, object \in Responses, NEW i \in 0 .. UInt32Size(bytes) - 1
      PROVE  UInt32Value(bytes, i) =
               TwoTo16 * UInt16Value(bytes, 2 * i) + UInt16Value(bytes, 2 * i + 1)
  <2> DEFINE r == RegisterAt(2 * i)
  <2>1. r \in Nat /\ r >= 1 /\ r + 3 <= Len(bytes) /\ RegisterAt(2 * i + 1) = r + 2
    <3>1. bytes[9] \in Nat /\ Len(bytes) = bytes[9] + 9
      BY <1>1, <1>3, ByteIsNat
    <3>2. QED
      BY <3>1 DEF RegisterAt, UInt32Size, ByteCount
  <2>2. \A j \in r .. r + 3 : bytes[j] \in UInt8
    BY <1>1, <1>3, <2>1
  <2> HIDE DEF r
  <2>3. Ntohl(Load32(bytes, r))
          = TwoTo16 * Ntohs(Load16(bytes, r)) + Ntohs(Load16(bytes, r + 2))
    BY <1>1, <1>3, <2>1, <2>2, TwoWords, Zenon
  <2>4. QED
    BY <2>1, <2>3, Zenon DEF UInt32Value, UInt16Value, r
<1>4. ASSUME Inv PROVE ValuesAsSent
  <2> SUFFICES ASSUME object \in Responses
      PROVE  /\ \A i \in 0 .. ByteCount(bytes) \div 2 - 1 :
                  /\ RegisterAt(i) + 1 <= Len(bytes)
                  /\ UInt16Value(bytes, i) = BigEndian(bytes, RegisterAt(i))
             /\ \A i \in 0 .. UInt32Size(bytes) - 1 :
                  UInt32Value(bytes, i) =
                    TwoTo16 * UInt16Value(bytes, 2 * i) + UInt16Value(bytes, 2 * i + 1)
             /\ \A i \in 1 .. Len(Ascii(bytes)) :
                  Ascii(bytes)[i] = bytes[9 + i] /\ bytes[9 + i] # 0
    BY Zenon DEF ValuesAsSent
  <2>1. \A i \in 1 .. Len(Ascii(bytes)) :
          Ascii(bytes)[i] = bytes[9 + i] /\ bytes[9 + i] # 0
    BY <1>1, <1>4, TextIsSent, Zenon
  <2>2. QED
    BY <1>2, <1>3, <1>4, <2>1, Zenon
<1>5. QED
  BY <1>4, Invariant, PTL

=============================================================================
