------------------------------ MODULE MCTcpRar ------------------------------
(* One exchange with the datagrams and pieces that reach every branch.       *)

EXTENDS TcpRar

Good == {Answer(ReadInputRegisters, 100), Answer(ReadHoldingRegisters, 3),
         ErrorAnswer(ReadInputRegisters, 2)}

\* A wrong protocol number; two lengths that contradict each other; one that
\* is shorter than the header; another function; one longer than the receive
\* buffer.
Corrupt  == {[Answer(ReadInputRegisters, 2) EXCEPT !.proto = 1],
             [Answer(ReadInputRegisters, 2) EXCEPT !.count = 2],
             [Answer(ReadInputRegisters, 2) EXCEPT !.length = 1],
             [Answer(ReadInputRegisters, 2) EXCEPT !.func = 1]}
Oversize == {[Answer(ReadInputRegisters, 127) EXCEPT !.length = 257]}

AllDatagrams == Good \cup Corrupt \cup Oversize

SomeChunks == {7, 9}
TwoPieces  == {100}

\* Silence, fewer bytes than announced, exactly as many, and some to spare.
AllStreams   == {0, 8, 209, 300}
AllOrNothing == {0, 209, 260}

=============================================================================
