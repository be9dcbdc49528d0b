----------------------------- MODULE MCDatagram -----------------------------
(* Datagram objects from bytes with boundary values in every field, from all *)
(* requests and all answers a device can give to them, and from fields.      *)

EXTENDS DatagramObject

BoundaryDatagrams ==
  [proto : {0, 1}, length : {0, 1, 2, 3, 4, 6, 7, 203, 254, 258, 65535},
   func : {1, 3, 4, 128, 131, 132}, count : {0, 1, 3, 200, 251, 255}]
Conversations ==
  {NewRequest(f) : f \in {ReadHoldingRegisters, ReadInputRegisters}}
  \cup {Answer(f, q) : f \in {ReadHoldingRegisters, ReadInputRegisters},
                       q \in RequestQuantities}
  \cup {ErrorAnswer(f, c) : f \in {ReadHoldingRegisters, ReadInputRegisters},
                            c \in 1 .. 11}

\* The receive buffer of TcpRequestAndReply with such a datagram.
Buffer(d) ==
  [i \in 1 .. MaxDatagramLength |->
     CASE i = 1 -> 1 [] i = 2 -> 44
       [] i = 3 -> d.proto \div 256 [] i = 4 -> d.proto % 256
       [] i = 5 -> d.length \div 256 [] i = 6 -> d.length % 256
       [] i = 7 -> 1 [] i = 8 -> d.func [] i = 9 -> d.count
       [] OTHER -> i % 5]

AllBuffers == { Buffer(d) : d \in BoundaryDatagrams \cup Conversations }

SomeSizes == {0, 5, 6, 7, 8, 9, 11, 12, 13, 209, 259, 260}

SomeWords == {0, 1, 2, 125, 126, 1400, 65535}

SomeUnits == {0, 1, 255}

=============================================================================
