-------------------------- MODULE LM50ClientProofs --------------------------
(* Theorems about the whole program, from the end of ProgramOptions::parse   *)
(* to its exit status, with any arguments and any faults of the device.      *)
(*                                                                           *)
(* The program takes its steps of the device object in LM50Device, so the    *)
(* inductive invariant of LM50DeviceProofs carries over.  ClientIInv adds    *)
(* where the mode is (Walk), what is known of the connection there (Linked), *)
(* what has been read by then (Fresh) and what has been printed (Output).    *)

EXTENDS LM50Client, LM50DeviceProofs, ProgramOptionsProofs

\* There is a connection, even though the device may have closed it.
HasLink == conn \in {"connected", "broken"}

\* The channels are an answer to the latest request.
IsRead == lastUpdate # 0 /\ channels >= asked

HumanPlaces  == {"connect", "steady", "version", "update", "channels", "disconnect"}
CactiPlaces  == {"connect", "update", "disconnect", "channels"}
DaemonPlaces == {"connect", "update", "drop", "dial", "disconnect"}

\* Each mode keeps to its places, calls only where it may, and a call that has
\* begun is the one of its place.
Walk ==
  /\ called \in BOOLEAN
  /\ mode \in {"UNKNOWN", "HUMAN", "CACTI", "DAEMON"}
  /\ mode = "UNKNOWN" => place \in {"parse", "end"}
  /\ mode = "HUMAN" => place \in HumanPlaces \cup {"end"}
  /\ mode = "CACTI" => place \in CactiPlaces \cup {"end"}
  /\ mode = "DAEMON" => place \in DaemonPlaces \cup {"end"}
  /\ called => place \in CallPlaces
  /\ pc = "channels" => called /\ place = "update"
  /\ pc \in {"revision", "serial", "steady"} => called /\ place = "steady"
  /\ ~called /\ place # "end" => ended # "other"
  /\ place # "end" <=> status = "none"

\* Where exchanges are made, or still to come, there is a connection; at the
\* end of a successful run there is none.
Linked ==
  /\ place \in {"steady", "version", "update"} => HasLink
  /\ called /\ place \in {"connect", "dial"} /\ ended = "returned" => HasLink
  /\ called /\ place \in {"disconnect", "drop"} =>
       ended = "returned" /\ conn = "closed"
  /\ mode = "UNKNOWN" => conn = "closed"
  /\ mode = "CACTI" /\ place = "channels" => conn = "closed"
  /\ status = "0" => conn = "closed"

\* A call that has returned, and what comes after it, has the values it read.
Fresh ==
  /\ meter >= 1
  /\ called /\ place = "steady" /\ pc = "idle" /\ ended = "returned" =>
       serialNo = "serial"
  /\ place = "version" => serialNo = "serial"
  /\ called /\ place = "update" /\ pc = "idle" /\ ended = "returned" => IsRead
  /\ place = "channels" \/ (mode = "CACTI" /\ place = "disconnect") => IsRead

\* What is on standard output at each place.
Output ==
  /\ DOMAIN printed = {"version", "serial", "lines", "at"}
  /\ printed.version \in {"", "revision"}
  /\ printed.serial = IF printed.version = "" THEN "" ELSE "serial"
  /\ printed.lines # <<>> =>
       /\ printed.at >= asked
       /\ place = "end" \/ (mode = "HUMAN" /\ place = "disconnect")
  /\ mode = "HUMAN" /\ place \in {"update", "channels", "disconnect"} =>
       printed.version # ""
  /\ mode = "HUMAN" /\ place = "disconnect" => printed.lines = wanted
  /\ status = "0" => /\ mode \in {"HUMAN", "CACTI"} => printed.lines = wanted
                     /\ mode = "HUMAN" => printed.version # ""
  /\ status \notin {"none", "0"} => printed.lines = <<>>

Rest == Walk /\ Linked /\ Fresh /\ Output

ClientIInv == IInv /\ Rest

-----------------------------------------------------------------------------
(* What the steps of LM50Device do to what the modes look at.                *)

(* The device and the network only advance the counters or end the           *)
(* connection.                                                               *)
LEMMA DeviceEffect ==
  ASSUME IInv, Device
  PROVE  /\ UNCHANGED <<pc, revision, serialNo, channels, lastUpdate, ended, asked>>
         /\ meter \in Nat /\ meter' \in Nat /\ meter' >= meter
         /\ conn' = conn \/ (conn = "connected" /\ conn' = "broken")
<1>1. meter \in Nat
  BY Zenon DEF IInv, TypeOK
<1>2. CASE Count
  <2>1. meter' = meter + 1
        /\ UNCHANGED <<pc, revision, serialNo, channels, lastUpdate, ended, asked, conn>>
    BY <1>2 DEF Count, values
  <2>2. QED
    BY <1>1, <2>1
<1>3. CASE DeviceAnswers \/ DeviceIgnores \/ DeviceCloses
  <2>1. /\ UNCHANGED <<pc, revision, serialNo, channels, lastUpdate, ended,
                       asked, meter>>
        /\ conn' = conn \/ (conn = "connected" /\ conn' = "broken")
    BY <1>3 DEF DeviceAnswers, DeviceIgnores, DeviceCloses, values
  <2>2. QED
    BY <1>1, <2>1
<1>4. QED
  BY <1>2, <1>3 DEF Device

(* Connecting succeeds, or fails with a runtime_error.                       *)
LEMMA ConnectEffect ==
  ASSUME Connect
  PROVE  /\ pc = "idle"
         /\ UNCHANGED <<pc, meter, revision, serialNo, channels, lastUpdate, asked>>
         /\ \/ conn' = "connected" /\ ended' = "returned"
            \/ ended' = "runtime_error"
BY DEF Connect, Free, values

(* Disconnecting always succeeds.                                            *)
LEMMA DisconnectEffect ==
  ASSUME Disconnect
  PROVE  /\ pc = "idle"
         /\ UNCHANGED <<pc, meter, revision, serialNo, channels, lastUpdate, asked>>
         /\ conn' = "closed" /\ ended' = "returned"
BY DEF Disconnect, Free, values

(* A request is sent where there is a connection.                            *)
LEMMA AskEffect ==
  ASSUME NEW reg \in Registers, Ask(reg)
  PROVE  /\ UNCHANGED <<conn, meter, revision, serialNo, channels, lastUpdate>>
         /\ asked' = meter
         /\ \/ pc' = reg /\ ended' = ended
            \/ pc' = "idle" /\ ended' = "other" /\ ~HasLink
BY DEF Ask, Ends, values, HasLink

(* An exchange fails, or ends the way its register does.                     *)
LEMMA ExchangeEffect ==
  ASSUME IInv, Exchange
  PROVE  /\ pc \in Registers
         /\ UNCHANGED <<conn, meter, asked>>
         /\ \/ /\ pc' = "idle" /\ ended' \in {"runtime_error", "other"}
               /\ UNCHANGED <<serialNo, channels, lastUpdate>>
            \/ /\ pc = "revision" /\ pc' = "steady" /\ ended' = ended
               /\ UNCHANGED <<serialNo, channels, lastUpdate>>
            \/ /\ pc = "serial" /\ pc' = "idle" /\ ended' = "returned"
               /\ serialNo' = "serial"
               /\ UNCHANGED <<channels, lastUpdate>>
            \/ /\ pc = "channels" /\ pc' = "idle" /\ ended' = "returned"
               /\ channels' >= asked /\ lastUpdate' = meter
               /\ UNCHANGED serialNo
<1>1. CASE TimesOut \/ Breaks \/ ReceivesTorn \/ ReceivesError
           \/ ReceivesUnexpected \/ ReceivesForeign \/ ReceivesMalformed
  BY <1>1 DEF TimesOut, Breaks, ReceivesTorn, ReceivesError, Take, TakeOff,
              ReceivesUnexpected, ReceivesForeign, ReceivesMalformed, Ends,
              values, Waiting
<1>2. CASE Receives
  <2> DEFINE a == Head(answers)
  <2>1. UNCHANGED <<conn, meter, asked>> /\ Waiting
    BY <1>2 DEF Receives, Take, TakeOff
  <2>2. a.reg = pc /\ a.at \in asked .. meter
    BY <1>2, AcceptedIsOurs
  <2>3. meter \in Nat /\ asked \in Nat
    BY Zenon DEF IInv, TypeOK
  <2>4. a.at >= asked
    BY <2>2, <2>3
  <2>5. CASE StoreRevision(a)
    BY <2>1, <2>5 DEF StoreRevision, Waiting
  <2>6. CASE StoreSerial(a)
    BY <2>1, <2>2, <2>6 DEF StoreSerial, Ends, Waiting
  <2>7. CASE StoreChannels(a)
    BY <2>1, <2>4, <2>7 DEF StoreChannels, Ends, Waiting
  <2>8. QED
    BY <1>2, <2>5, <2>6, <2>7 DEF Receives
<1>3. QED
  BY <1>1, <1>2 DEF Exchange

(* The steps of the program are steps of LM50Device, or leave it alone.      *)
LEMMA ClientStep ==
  ASSUME [ClientNext]_<<vars, client>>
  PROVE  [Next]_vars
BY DEF ClientNext, OwnStep, RunNoMode, RunMode, Call, CallEnds, PrintVersion,
       PrintChannels, GoesOnAsking, EndOfExchange, Cancelled, Next, Caller

(* Its invariant therefore holds in the program.                             *)
LEMMA DeviceIInv ==
  ASSUME IInv, [ClientNext]_<<vars, client>>
  PROVE  IInv'
BY ClientStep, Keeps, StutterKeeps

-----------------------------------------------------------------------------
(* The first state.                                                          *)
LEMMA ClientInitially == ASSUME ClientInit PROVE ClientIInv
<1>1. IInv
  BY Initially DEF ClientInit
<1>2. /\ pc = "idle" /\ conn = "closed" /\ meter = 1 /\ ended = "returned"
      /\ mode = "UNKNOWN" /\ place = "parse" /\ called = FALSE /\ status = "none"
      /\ printed = [version |-> "", serial |-> "", lines |-> <<>>, at |-> 0]
  BY DEF ClientInit, Init
<1>3. Walk
  BY <1>2 DEF Walk, CallPlaces
<1>4. Linked
  BY <1>2 DEF Linked
<1>5. Fresh
  <2>1. 1 >= 1
    OBVIOUS
  <2>2. QED
    BY <1>2, <2>1, Zenon DEF Fresh
<1>6. Output
  BY <1>2 DEF Output
<1>7. QED
  BY <1>1, <1>3, <1>4, <1>5, <1>6 DEF ClientIInv, Rest

(* What an accepted mode is.                                                 *)
LEMMA ModeIsOne ==
  ASSUME NEW a, Parse(a) = "parsed"
  PROVE  Mode(a) \in {"HUMAN", "CACTI", "DAEMON"}
<1>1. ~CommonThrows(a)
  BY DEF Parse
<1>2. Mode(a) # "UNKNOWN"
  BY <1>1 DEF CommonThrows
<1>3. QED
  BY <1>2 DEF Mode, ModeOf


(* Nothing to do: the program ends before it has a mode.                     *)
LEMMA RunNoModeKeeps == ASSUME ClientIInv, RunNoMode PROVE Rest'
<1>1. /\ place = "parse" /\ place' = "end" /\ status' \in {"255", "0"}
      /\ UNCHANGED <<conn, meter, pc, revision, serialNo, channels, lastUpdate,
                     ended, asked, mode, wanted, called, printed>>
  BY DEF RunNoMode, Starting, Exit, vars, values
<1>2. mode = "UNKNOWN" /\ ~called /\ pc = "idle" /\ printed.lines = <<>>
  BY <1>1 DEF ClientIInv, Rest, IInv, TypeOK, Walk, Output, CallPlaces,
              HumanPlaces, CactiPlaces, DaemonPlaces, Registers
<1>3. Walk'
  BY <1>1, <1>2 DEF ClientIInv, Rest, Walk
<1>4. Linked'
  BY <1>1, <1>2 DEF ClientIInv, Rest, Linked
<1>5. Fresh'
  BY <1>1, <1>2 DEF ClientIInv, Rest, Fresh
<1>6. Output'
  BY <1>1, <1>2 DEF ClientIInv, Rest, Output
<1>7. QED
  BY <1>3, <1>4, <1>5, <1>6 DEF Rest

(* A mode begins with connecting.                                            *)
LEMMA RunModeKeeps == ASSUME ClientIInv, RunMode PROVE Rest'
<1>1. /\ place = "parse" /\ place' = "connect"
      /\ mode' \in {"HUMAN", "CACTI", "DAEMON"}
      /\ UNCHANGED <<conn, meter, pc, revision, serialNo, channels, lastUpdate,
                     ended, asked, called, printed, status>>
  BY ModeIsOne DEF RunMode, Starting, vars, values
<1>2. /\ mode = "UNKNOWN" /\ ~called /\ pc = "idle" /\ status = "none"
      /\ printed.lines = <<>>
  BY <1>1 DEF ClientIInv, Rest, IInv, TypeOK, Walk, Output, CallPlaces,
              HumanPlaces, CactiPlaces, DaemonPlaces, Registers
<1>3. Walk'
  BY <1>1, <1>2 DEF ClientIInv, Rest, Walk, HumanPlaces, CactiPlaces, DaemonPlaces
<1>4. Linked'
  BY <1>1, <1>2 DEF ClientIInv, Rest, Linked
<1>5. Fresh'
  BY <1>1, <1>2 DEF ClientIInv, Rest, Fresh
<1>6. Output'
  BY <1>1, <1>2 DEF ClientIInv, Rest, Output
<1>7. QED
  BY <1>3, <1>4, <1>5, <1>6 DEF Rest

(* A step of the device disturbs nothing.                                    *)
LEMMA DeviceKeeps ==
  ASSUME ClientIInv, Device, UNCHANGED client
  PROVE  Rest'
<1>1. /\ UNCHANGED <<pc, revision, serialNo, channels, lastUpdate, ended, asked>>
      /\ meter \in Nat /\ meter' \in Nat /\ meter' >= meter
      /\ conn' = conn \/ (conn = "connected" /\ conn' = "broken")
  BY DeviceEffect DEF ClientIInv
<1>2. UNCHANGED <<mode, wanted, place, called, printed, status>>
  BY DEF client
<1>3. Walk'
  BY <1>1, <1>2 DEF ClientIInv, Rest, Walk
<1>4. Linked'
  BY <1>1, <1>2 DEF ClientIInv, Rest, Linked, HasLink
<1>5. Fresh'
  BY <1>1, <1>2 DEF ClientIInv, Rest, Fresh, IsRead
<1>6. Output'
  BY <1>1, <1>2 DEF ClientIInv, Rest, Output
<1>7. QED
  BY <1>3, <1>4, <1>5, <1>6 DEF Rest

-----------------------------------------------------------------------------
(* The calls.                                                                *)

(* A call begins where its place is.                                         *)
LEMMA CallKeeps == ASSUME ClientIInv, Call PROVE Rest'
<1>1. /\ place \in CallPlaces /\ ~called /\ called' /\ called' \in BOOLEAN
      /\ UNCHANGED <<mode, wanted, place, printed, status>>
  BY DEF Call
<1>2. pc = "idle" /\ meter \in Nat /\ meter >= 1 /\ place # "end"
  BY <1>1, Zenon DEF ClientIInv, Rest, IInv, TypeOK, Walk, Fresh, CallPlaces, Registers
<1>3. CASE place \in {"connect", "dial"} /\ Connect
  <2>1. /\ UNCHANGED <<pc, meter, revision, serialNo, channels, lastUpdate, asked>>
        /\ \/ conn' = "connected" /\ ended' = "returned"
           \/ ended' = "runtime_error"
    BY <1>3, ConnectEffect
  <2>2. Walk'
    BY <1>1, <1>2, <1>3, <2>1 DEF ClientIInv, Rest, Walk
  <2>3. Linked'
    BY <1>1, <1>2, <1>3, <2>1 DEF ClientIInv, Rest, Walk, Linked, HasLink
  <2>4. Fresh'
    BY <1>1, <1>2, <1>3, <2>1 DEF ClientIInv, Rest, Fresh, IsRead
  <2>5. Output'
    BY <1>1, <1>2, <1>3, <2>1 DEF ClientIInv, Rest, Output
  <2>6. QED
    BY <2>2, <2>3, <2>4, <2>5 DEF Rest
<1>4. CASE place \in {"disconnect", "drop"} /\ Disconnect
  <2>1. /\ UNCHANGED <<pc, meter, revision, serialNo, channels, lastUpdate, asked>>
        /\ conn' = "closed" /\ ended' = "returned"
    BY <1>4, DisconnectEffect
  <2>2. Walk'
    BY <1>1, <1>2, <1>4, <2>1 DEF ClientIInv, Rest, Walk
  <2>3. Linked'
    BY <1>1, <1>2, <1>4, <2>1 DEF ClientIInv, Rest, Walk, Linked, HasLink
  <2>4. Fresh'
    BY <1>1, <1>2, <1>4, <2>1 DEF ClientIInv, Rest, Fresh, IsRead
  <2>5. Output'
    BY <1>1, <1>2, <1>4, <2>1 DEF ClientIInv, Rest, Output
  <2>6. QED
    BY <2>2, <2>3, <2>4, <2>5 DEF Rest
<1>5. ASSUME NEW reg \in Registers, Ask(reg),
             \/ place = "steady" /\ reg = "revision"
             \/ place = "update" /\ reg = "channels"
      PROVE  Rest'
  <2>1. /\ UNCHANGED <<conn, meter, revision, serialNo, channels, lastUpdate>>
        /\ pc' = reg /\ ended' = ended
    BY <1>1, <1>5, AskEffect DEF ClientIInv, Rest, Linked
  <2>2. Walk'
    BY <1>1, <1>2, <1>5, <2>1 DEF ClientIInv, Rest, Walk
  <2>3. Linked'
    BY <1>1, <1>2, <1>5, <2>1 DEF ClientIInv, Rest, Walk, Linked, HasLink
  <2>4. Fresh'
    BY <1>1, <1>2, <1>5, <2>1 DEF ClientIInv, Rest, Fresh
  <2>5. printed.lines = <<>>
    BY <1>5 DEF ClientIInv, Rest, Output
  <2>6. Output'
    BY <1>1, <1>2, <1>5, <2>1, <2>5 DEF ClientIInv, Rest, Output
  <2>7. QED
    BY <2>2, <2>3, <2>4, <2>6 DEF Rest
<1>6. CASE place = "steady" /\ ReadSteadyValues
  BY <1>5, <1>6 DEF ReadSteadyValues, Registers
<1>7. CASE place = "update" /\ UpdateVolatileValues
  BY <1>5, <1>7 DEF UpdateVolatileValues, Registers
<1>8. QED
  BY <1>3, <1>4, <1>6, <1>7 DEF Call

(* The second request of readSteadyValues.                                   *)
LEMMA AskSerialKeeps ==
  ASSUME ClientIInv, AskSerial, UNCHANGED client
  PROVE  Rest'
<1>1. UNCHANGED <<mode, wanted, place, called, printed, status>>
  BY DEF client
<1>2. /\ pc = "steady" /\ called /\ place = "steady" /\ HasLink
      /\ printed.lines = <<>>
  BY DEF AskSerial, ClientIInv, Rest, Walk, Linked, Output
<1>3. /\ UNCHANGED <<conn, meter, revision, serialNo, channels, lastUpdate>>
      /\ pc' = "serial" /\ ended' = ended
  BY <1>2, AskEffect DEF AskSerial, Registers
<1>4. Walk'
  BY <1>1, <1>2, <1>3 DEF ClientIInv, Rest, Walk
<1>5. Linked'
  BY <1>1, <1>2, <1>3 DEF ClientIInv, Rest, Linked, HasLink
<1>6. Fresh'
  BY <1>1, <1>2, <1>3 DEF ClientIInv, Rest, Fresh
<1>7. Output'
  BY <1>1, <1>2, <1>3 DEF ClientIInv, Rest, Output
<1>8. QED
  BY <1>4, <1>5, <1>6, <1>7 DEF Rest

(* The end of an exchange is that of the call, or the middle of              *)
(* readSteadyValues.                                                         *)
LEMMA ExchangeKeeps ==
  ASSUME ClientIInv, Exchange, UNCHANGED client
  PROVE  Rest'
<1>1. UNCHANGED <<mode, wanted, place, called, printed, status>>
  BY DEF client
<1>2. /\ pc \in Registers
      /\ UNCHANGED <<conn, meter, asked>>
      /\ \/ /\ pc' = "idle" /\ ended' \in {"runtime_error", "other"}
            /\ UNCHANGED <<serialNo, channels, lastUpdate>>
         \/ /\ pc = "revision" /\ pc' = "steady" /\ ended' = ended
            /\ UNCHANGED <<serialNo, channels, lastUpdate>>
         \/ /\ pc = "serial" /\ pc' = "idle" /\ ended' = "returned"
            /\ serialNo' = "serial"
            /\ UNCHANGED <<channels, lastUpdate>>
         \/ /\ pc = "channels" /\ pc' = "idle" /\ ended' = "returned"
            /\ channels' >= asked /\ lastUpdate' = meter
            /\ UNCHANGED serialNo
  BY ExchangeEffect DEF ClientIInv
<1>3. /\ called
      /\ \/ place = "steady" /\ pc \in {"revision", "serial"}
         \/ place = "update" /\ pc = "channels"
  BY <1>2 DEF ClientIInv, Rest, Walk, Registers
<1>4. Walk'
  BY <1>1, <1>2, <1>3 DEF ClientIInv, Rest, Walk
<1>5. Linked'
  BY <1>1, <1>2, <1>3 DEF ClientIInv, Rest, Linked, HasLink
<1>6. meter \in Nat /\ meter >= 1
  BY Zenon DEF ClientIInv, Rest, IInv, TypeOK, Fresh
<1>7. Fresh'
  BY <1>1, <1>2, <1>3, <1>6 DEF ClientIInv, Rest, Fresh, IsRead
<1>8. Output'
  BY <1>1, <1>2, <1>3 DEF ClientIInv, Rest, Output
<1>9. QED
  BY <1>4, <1>5, <1>7, <1>8 DEF Rest

-----------------------------------------------------------------------------
(* What comes after a call, and what is printed.                             *)

(* Where a mode goes on, call by call.                                       *)
LEMMA RunIs ==
  /\ mode = "HUMAN" =>
       /\ Run["connect"] = "steady" /\ Run["steady"] = "version"
       /\ Run["version"] = "update" /\ Run["update"] = "channels"
       /\ Run["channels"] = "disconnect" /\ Run["disconnect"] = "end"
  /\ mode = "CACTI" =>
       /\ Run["connect"] = "update" /\ Run["update"] = "disconnect"
       /\ Run["disconnect"] = "channels" /\ Run["channels"] = "end"
  /\ mode = "DAEMON" =>
       /\ Run["connect"] = "update" /\ Run["update"] = "update"
       /\ Run["drop"] = "dial" /\ Run["dial"] = "update"
       /\ Run["disconnect"] = "end"
BY DEF Run, HumanRun, CactiRun, DaemonRun

(* The daemon alone catches, at two of its calls.                            *)
LEMMA HandlersAre ==
  /\ place \in DOMAIN Handlers => mode = "DAEMON" /\ place \in {"update", "dial"}
  /\ mode = "DAEMON" => Handlers["update"] = "drop" /\ Handlers["dial"] = "dial"
BY DEF Handlers

(* The end of a call.                                                        *)
LEMMA CallEndsKeeps == ASSUME ClientIInv, CallEnds PROVE Rest'
<1>1. /\ called /\ pc = "idle" /\ called' = FALSE
      /\ UNCHANGED <<conn, meter, pc, revision, serialNo, channels, lastUpdate,
                     ended, asked, mode, wanted, printed>>
  BY DEF CallEnds, vars, values
<1>2. /\ mode \in {"HUMAN", "CACTI", "DAEMON"} /\ place # "end" /\ status = "none"
      /\ mode = "HUMAN" => place \in {"connect", "steady", "update", "disconnect"}
      /\ mode = "CACTI" => place \in {"connect", "update", "disconnect"}
      /\ mode = "DAEMON" => place \in DaemonPlaces
  BY <1>1 DEF ClientIInv, Rest, Walk, CallPlaces, HumanPlaces, CactiPlaces, DaemonPlaces
<1>3. CASE ended = "returned" /\ GoesOn(Run[place])
  <2>1. /\ mode = "HUMAN" =>
             \/ place = "connect" /\ place' = "steady"
             \/ place = "steady" /\ place' = "version"
             \/ place = "update" /\ place' = "channels"
             \/ place = "disconnect" /\ place' = "end"
        /\ mode = "CACTI" =>
             \/ place = "connect" /\ place' = "update"
             \/ place = "update" /\ place' = "disconnect"
             \/ place = "disconnect" /\ place' = "channels"
        /\ mode = "DAEMON" =>
             \/ place \in {"connect", "update", "dial"} /\ place' = "update"
             \/ place = "drop" /\ place' = "dial"
             \/ place = "disconnect" /\ place' = "end"
    BY <1>2, <1>3, RunIs DEF GoesOn, DaemonPlaces
  <2>2. status' = IF place' = "end" THEN "0" ELSE "none"
    BY <1>2, <1>3 DEF GoesOn
  <2>3. Walk'
    BY <1>1, <1>2, <1>3, <2>1, <2>2
       DEF ClientIInv, Rest, Walk, HumanPlaces, CactiPlaces, DaemonPlaces
  <2>4. Linked'
    BY <1>1, <1>2, <1>3, <2>1, <2>2 DEF ClientIInv, Rest, Linked, HasLink
  <2>5. Fresh'
    BY <1>1, <1>2, <1>3, <2>1, <2>2 DEF ClientIInv, Rest, Fresh, IsRead
  <2>6. Output'
    BY <1>1, <1>2, <1>3, <2>1, <2>2 DEF ClientIInv, Rest, Output
  <2>7. QED
    BY <2>3, <2>4, <2>5, <2>6 DEF Rest
<1>4. CASE Caught(ended) /\ GoesOn(Handlers[place])
  <2>1. /\ mode = "DAEMON" /\ ended = "runtime_error"
        /\ \/ place = "update" /\ place' = "drop"
           \/ place = "dial" /\ place' = "dial"
        /\ status' = "none"
    BY <1>2, <1>4, HandlersAre DEF Caught, GoesOn
  <2>2. Walk'
    BY <1>1, <1>2, <2>1 DEF ClientIInv, Rest, Walk, DaemonPlaces
  <2>3. Linked'
    BY <1>1, <1>2, <2>1 DEF ClientIInv, Rest, Linked, HasLink
  <2>4. Fresh'
    BY <1>1, <1>2, <2>1 DEF ClientIInv, Rest, Fresh, IsRead
  <2>5. Output'
    BY <1>1, <1>2, <2>1 DEF ClientIInv, Rest, Output
  <2>6. QED
    BY <2>2, <2>3, <2>4, <2>5 DEF Rest
<1>5. CASE ended # "returned" /\ Escapes(ended)
  <2>1. place' = "end" /\ status' \in {"aborted", "255", "errno"}
    BY <1>5 DEF Escapes, Exit
  <2>2. place \notin {"disconnect", "drop"} /\ printed.lines = <<>>
    BY <1>1, <1>2, <1>5 DEF ClientIInv, Rest, Linked, Output
  <2>3. Walk'
    BY <1>1, <1>2, <2>1 DEF ClientIInv, Rest, Walk
  <2>4. Linked'
    BY <1>1, <1>2, <2>1 DEF ClientIInv, Rest, Linked, HasLink
  <2>5. Fresh'
    BY <1>1, <1>2, <2>1 DEF ClientIInv, Rest, Fresh, IsRead
  <2>6. Output'
    BY <1>1, <1>2, <2>1, <2>2 DEF ClientIInv, Rest, Output
  <2>7. QED
    BY <2>3, <2>4, <2>5, <2>6 DEF Rest
<1>6. QED
  BY <1>3, <1>4, <1>5 DEF CallEnds

(* The daemon is cancelled between two calls.                                *)
LEMMA CancelledKeeps == ASSUME ClientIInv, Cancelled PROVE Rest'
<1>1. /\ mode = "DAEMON" /\ place \in {"update", "dial"} /\ ~called
      /\ place' = "disconnect"
      /\ UNCHANGED <<conn, meter, pc, revision, serialNo, channels, lastUpdate,
                     ended, asked, mode, wanted, called, printed, status>>
  BY DEF Cancelled, vars, values
<1>2. Walk'
  BY <1>1 DEF ClientIInv, Rest, Walk, DaemonPlaces
<1>3. Linked'
  BY <1>1 DEF ClientIInv, Rest, Linked, HasLink
<1>4. Fresh'
  BY <1>1 DEF ClientIInv, Rest, Fresh, IsRead
<1>5. Output'
  BY <1>1 DEF ClientIInv, Rest, Output
<1>6. QED
  BY <1>2, <1>3, <1>4, <1>5 DEF Rest

(* The revision and the serial number are printed after both have been read. *)
LEMMA PrintVersionKeeps == ASSUME ClientIInv, PrintVersion PROVE Rest'
<1>1. /\ place = "version"
      /\ UNCHANGED <<conn, meter, pc, revision, serialNo, channels, lastUpdate,
                     ended, asked, mode, wanted, called>>
  BY DEF PrintVersion, vars, values
<1>2. /\ mode = "HUMAN" /\ ~called /\ status = "none" /\ HasLink
      /\ serialNo = "serial" /\ printed.lines = <<>>
      /\ pc = "idle" /\ ended # "other"
  BY <1>1 DEF ClientIInv, Rest, IInv, TypeOK, Walk, Linked, Fresh, Output, CallPlaces,
              HumanPlaces, CactiPlaces, DaemonPlaces, Registers
<1>3. CASE revision # ""
  <2>1. /\ printed' = [printed EXCEPT !.version = revision, !.serial = serialNo]
        /\ GoesOn(Run[place])
    BY <1>3 DEF PrintVersion
  <2>2. revision = "revision"
    BY <1>3 DEF ClientIInv, Rest, IInv, RegistersNotMixed
  <2>3. place' = "update" /\ status' = "none"
    BY <1>1, <1>2, <2>1, RunIs DEF GoesOn
  <2>4. Walk'
    BY <1>1, <1>2, <2>1, <2>3 DEF ClientIInv, Rest, Walk, HumanPlaces
  <2>5. Linked'
    BY <1>1, <1>2, <2>1, <2>3 DEF ClientIInv, Rest, Linked, HasLink
  <2>6. Fresh'
    BY <1>1, <1>2, <2>1, <2>3 DEF ClientIInv, Rest, Fresh, IsRead
  <2>7. Output'
    BY <1>1, <1>2, <2>1, <2>2, <2>3 DEF ClientIInv, Rest, Output
  <2>8. QED
    BY <2>4, <2>5, <2>6, <2>7 DEF Rest
<1>4. CASE revision = ""
  <2>1. place' = "end" /\ status' \in {"255", "errno", "aborted"} /\ printed' = printed
    BY <1>1, <1>4 DEF PrintVersion, Escapes, Exit
  <2>2. Walk'
    BY <1>1, <1>2, <2>1 DEF ClientIInv, Rest, Walk
  <2>3. Linked'
    BY <1>1, <1>2, <2>1 DEF ClientIInv, Rest, Linked, HasLink
  <2>4. Fresh'
    BY <1>1, <1>2, <2>1 DEF ClientIInv, Rest, Fresh, IsRead
  <2>5. Output'
    BY <1>1, <1>2, <2>1 DEF ClientIInv, Rest, Output
  <2>6. QED
    BY <2>2, <2>3, <2>4, <2>5 DEF Rest
<1>5. QED
  BY <1>3, <1>4

(* The channels are printed once, after they have been read.                 *)
LEMMA PrintChannelsKeeps == ASSUME ClientIInv, PrintChannels PROVE Rest'
<1>1. /\ place = "channels"
      /\ printed' = [printed EXCEPT !.lines = wanted, !.at = channels]
      /\ UNCHANGED <<conn, meter, pc, revision, serialNo, channels, lastUpdate,
                     ended, asked, mode, wanted, called>>
  BY DEF PrintChannels, vars, values
<1>2. /\ mode \in {"HUMAN", "CACTI"} /\ ~called /\ status = "none"
      /\ channels >= asked
  BY <1>1 DEF ClientIInv, Rest, Walk, Fresh, IsRead, CallPlaces, DaemonPlaces
<1>3. /\ mode = "HUMAN" => place' = "disconnect" /\ status' = "none"
      /\ mode = "CACTI" => place' = "end" /\ status' = "0"
  BY <1>1, <1>2, RunIs DEF PrintChannels, GoesOn
<1>4. /\ printed'.lines = wanted /\ printed'.at = channels
      /\ printed'.version = printed.version /\ printed'.serial = printed.serial
      /\ DOMAIN printed' = {"version", "serial", "lines", "at"}
  BY <1>1 DEF ClientIInv, Rest, Output
<1>5. Walk'
  BY <1>1, <1>2, <1>3 DEF ClientIInv, Rest, Walk, HumanPlaces, CactiPlaces
<1>6. Linked'
  BY <1>1, <1>2, <1>3 DEF ClientIInv, Rest, Linked, HasLink
<1>7. Fresh'
  BY <1>1, <1>2, <1>3 DEF ClientIInv, Rest, Fresh, IsRead
<1>8. Output'
  BY <1>1, <1>2, <1>3, <1>4 DEF ClientIInv, Rest, Output
<1>9. QED
  BY <1>5, <1>6, <1>7, <1>8 DEF Rest

-----------------------------------------------------------------------------
(* Every step keeps the invariant, and so does one that changes nothing.     *)
LEMMA ClientKeeps ==
  ASSUME ClientIInv, [ClientNext]_<<vars, client>>
  PROVE  ClientIInv'
<1>1. IInv'
  BY DeviceIInv DEF ClientIInv
<1>2. ASSUME OwnStep \/ EndOfExchange PROVE Rest'
  BY <1>2, RunNoModeKeeps, RunModeKeeps, CallKeeps, CallEndsKeeps,
     PrintVersionKeeps, PrintChannelsKeeps, AskSerialKeeps, ExchangeKeeps
     DEF OwnStep, GoesOnAsking, EndOfExchange
<1>3. ASSUME UNCHANGED <<vars, client>> PROVE Rest'
  <2>1. UNCHANGED <<conn, meter, pc, revision, serialNo, channels, lastUpdate,
                    ended, asked, mode, wanted, place, called, printed, status>>
    BY <1>3 DEF vars, values, client
  <2>2. Walk' /\ Linked'
    BY <2>1 DEF ClientIInv, Rest, Walk, Linked, HasLink
  <2>3. Fresh' /\ Output'
    BY <2>1 DEF ClientIInv, Rest, Fresh, Output, IsRead
  <2>4. QED
    BY <2>2, <2>3 DEF Rest
<1>4. Rest'
  BY <1>2, <1>3, CancelledKeeps, DeviceKeeps DEF ClientNext
<1>5. QED
  BY <1>1, <1>4 DEF ClientIInv, Rest

(* The invariant holds throughout.                                           *)
LEMMA ClientInductive == ClientSpec => []ClientIInv
<1>1. ClientInit => ClientIInv
  BY ClientInitially
<1>2. ClientIInv /\ [ClientNext]_<<vars, client>> => ClientIInv'
  BY ClientKeeps
<1>3. QED
  BY <1>1, <1>2, PTL DEF ClientSpec

(* No mode calls after an exception it should not have survived, exchanges   *)
(* anything without a connection or looks at a channel that was never read.  *)
THEOREM CallsAreAllowed == ClientSpec => []CallsAllowed
<1>1. ClientIInv => CallsAllowed
  <2>1. SUFFICES ASSUME ClientIInv PROVE CallsAllowed
    OBVIOUS
  <2>2. ASSUME place \in CallPlaces, ~called PROVE Free
    BY <2>1, <2>2 DEF ClientIInv, Rest, IInv, TypeOK, Walk, Free, CallPlaces, Registers
  <2>3. QED
    BY <2>1, <2>2 DEF ClientIInv, Rest, Linked, Fresh, IsRead, HasLink, CallsAllowed
<1>2. QED
  BY <1>1, ClientInductive, PTL

(* What is printed has been read, as what it is printed as, and the channels *)
(* since they were asked for last.                                           *)
THEOREM PrintedWasRead == ClientSpec => []PrintedIsRead
<1>1. ClientIInv => PrintedIsRead
  BY DEF ClientIInv, Rest, Output, PrintedIsRead
<1>2. QED
  BY <1>1, ClientInductive, PTL

(* An exit status of 0 means that all was printed and the connection closed; *)
(* any other, that no channel was printed.                                   *)
THEOREM ZeroIsComplete == ClientSpec => []ExitZeroIsComplete
<1>1. ClientIInv => ExitZeroIsComplete
  BY DEF ClientIInv, Rest, Linked, Output, ExitZeroIsComplete
<1>2. QED
  BY <1>1, ClientInductive, PTL

-----------------------------------------------------------------------------
(* The arguments.                                                            *)

(* Before parse there is one set of arguments, afterwards there is none.     *)
OneOrNone == args = <<>> \/ \E a \in Args : args = <<a>>

(* The arguments stay what they were until they are parsed.                  *)
LEMMA ArgumentsStay == ClientSpec => []OneOrNone
<1>1. ClientInit => OneOrNone
  BY DEF ClientInit, OneOrNone
<1>2. ASSUME OneOrNone, [ClientNext]_<<vars, client>> PROVE OneOrNone'
  <2>1. args' = <<>> \/ args' = args
    BY <1>2 DEF ClientNext, OwnStep, GoesOnAsking, EndOfExchange, RunNoMode,
                RunMode, Starting, Call, CallEnds,
                PrintVersion, PrintChannels, Cancelled, client
  <2>2. QED
    BY <1>2, <2>1 DEF OneOrNone
<1>3. QED
  BY <1>1, <1>2, PTL DEF ClientSpec

(* So what holds of all arguments holds of those there are.                  *)
LEMMA ArgumentsAreOurs ==
  ASSUME OneOrNone, NEW i \in DOMAIN args
  PROVE  args[i] \in Args /\ args[i] \in Arguments
<1>1. args # <<>>
  OBVIOUS
<1>2. PICK a \in Args : args = <<a>>
  BY <1>1 DEF OneOrNone
<1>3. args[i] = a
  BY <1>2
<1>4. QED
  BY <1>3, LM50ClientAssumption DEF LM50ClientAssumption

(* The channels parse arrives at are those asked for, once each and in       *)
(* increasing order, and it refuses those the device does not have.          *)
THEOREM ChannelsAreAsAsked == ClientSpec => []ChannelsAsAsked
<1>1. OneOrNone => ChannelsAsAsked
  BY ArgumentsAreOurs, ChannelsAre DEF ChannelsAsAsked
<1>2. QED
  BY <1>1, ArgumentsStay, PTL

-----------------------------------------------------------------------------
(* The types of the variables of the program.                                *)

\* What ClientIInv does not say of them, and what it takes to keep it: there
\* are arguments until they are parsed.
Typed ==
  /\ OneOrNone
  /\ place = "parse" => args # <<>>
  /\ wanted \in Seq(Nat)
  /\ printed.lines \in Seq(Nat)
  /\ printed.at \in Nat
  /\ status \in Statuses

(* Once a mode is running, parse is not called again.                         *)
LEMMA ParsedOnce ==
  ASSUME ClientIInv, ClientIInv', place \in CallPlaces \cup PrintPlaces, mode' = mode
  PROVE  place' # "parse"
<1>1. mode # "UNKNOWN" /\ mode \in {"UNKNOWN", "HUMAN", "CACTI", "DAEMON"}
  BY DEF ClientIInv, Rest, Walk, CallPlaces, PrintPlaces
<1>2. QED
  BY <1>1 DEF ClientIInv, Rest, Walk, HumanPlaces, CactiPlaces, DaemonPlaces

(* The channels wanted are numbers.                                          *)
LEMMA RunModeTyped == ASSUME Typed, RunMode PROVE Typed'
<1>1. /\ place = "parse" /\ args' = <<>> /\ place' = "connect"
      /\ wanted' = Channels(Head(args))
      /\ UNCHANGED <<printed, status>>
  BY DEF RunMode, Starting
<1>2. PICK a \in Args : args = <<a>>
  BY <1>1 DEF Typed, OneOrNone
<1>3. Channels(a) \in Seq(Nat)
  BY ChannelsAre, LM50ClientAssumption DEF LM50ClientAssumption
<1>4. wanted' \in Seq(Nat)
  BY <1>1, <1>2, <1>3
<1>5. QED
  BY <1>1, <1>4 DEF Typed, OneOrNone

(* An exit status is one of those named.                                     *)
LEMMA RunNoModeTyped == ASSUME Typed, RunNoMode PROVE Typed'
<1>1. /\ args' = <<>> /\ place' = "end" /\ status' \in {"255", "0"}
      /\ UNCHANGED <<wanted, printed>>
  BY DEF RunNoMode, Starting, Exit
<1>2. QED
  BY <1>1 DEF Typed, OneOrNone, Statuses

(* See above.                                                                *)
LEMMA GoesOnOrEscapes ==
  ASSUME status \in Statuses, NEW p, NEW how, GoesOn(p) \/ Escapes(how)
  PROVE  status' \in Statuses
BY DEF GoesOn, Escapes, Exit, Statuses

(* What is printed is a copy of what has its type.                           *)
LEMMA PrintChannelsTyped ==
  ASSUME Typed, ClientIInv, ClientIInv', PrintChannels
  PROVE  Typed'
<1>1. /\ place = "channels" /\ GoesOn(Run[place])
      /\ printed' = [printed EXCEPT !.lines = wanted, !.at = channels]
      /\ UNCHANGED <<args, mode, wanted>>
  BY DEF PrintChannels
<1>2. printed'.lines = wanted /\ printed'.at = channels
  BY <1>1 DEF ClientIInv, Rest, Output
<1>3. channels \in Nat
  BY Zenon DEF ClientIInv, IInv, TypeOK
<1>4. place' # "parse"
  BY <1>1, ParsedOnce DEF PrintPlaces
<1>5. status' \in Statuses
  BY <1>1, GoesOnOrEscapes DEF Typed
<1>6. OneOrNone'
  BY <1>1 DEF Typed, OneOrNone
<1>7. QED
  BY <1>1, <1>2, <1>3, <1>4, <1>5, <1>6 DEF Typed

(* The other steps of a mode.                                                *)
LEMMA ModeTyped ==
  ASSUME Typed, ClientIInv, ClientIInv', CallEnds \/ Cancelled \/ PrintVersion
  PROVE  Typed'
<1>1. /\ place \in CallPlaces \cup PrintPlaces
      /\ UNCHANGED <<args, mode, wanted>>
  BY DEF CallEnds, Cancelled, PrintVersion, ClientIInv, Rest, Walk, CallPlaces,
         PrintPlaces
<1>2. place' # "parse"
  BY <1>1, ParsedOnce
<1>3. printed'.lines = printed.lines /\ printed'.at = printed.at
  BY DEF CallEnds, Cancelled, PrintVersion, ClientIInv, Rest, Output
<1>4. status' \in Statuses
  BY GoesOnOrEscapes DEF Typed, CallEnds, Cancelled, PrintVersion
<1>5. OneOrNone'
  BY <1>1 DEF Typed, OneOrNone
<1>6. QED
  BY <1>1, <1>2, <1>3, <1>4, <1>5 DEF Typed

(* Every step keeps the types.                                               *)
LEMMA TypedKeeps ==
  ASSUME Typed, ClientIInv, ClientIInv', [ClientNext]_<<vars, client>>
  PROVE  Typed'
<1>1. ASSUME UNCHANGED <<args, wanted, place, printed, status>> PROVE Typed'
  BY <1>1 DEF Typed, OneOrNone
<1>2. CASE Call \/ UNCHANGED client
  BY <1>1, <1>2 DEF Call, client
<1>3. QED
  BY <1>2, RunNoModeTyped, RunModeTyped, ModeTyped, PrintChannelsTyped
     DEF ClientNext, OwnStep, GoesOnAsking, EndOfExchange

(* Every variable has its type.                                              *)
THEOREM ClientTypes == ClientSpec => []ClientTypeOK
<1>1. ClientInit => Typed
  <2>1. 0 \in Nat
    OBVIOUS
  <2>2. SUFFICES ASSUME ClientInit PROVE Typed
    OBVIOUS
  <2>3. /\ wanted = <<>> /\ printed.lines = <<>> /\ printed.at = 0
        /\ status = "none" /\ \E a \in Args : args = <<a>>
    BY <2>2 DEF ClientInit
  <2>4. QED
    BY <2>1, <2>3 DEF Typed, OneOrNone, Statuses
<1>2. Typed /\ ClientIInv /\ ClientIInv' /\ [ClientNext]_<<vars, client>> => Typed'
  BY TypedKeeps
<1>3. Typed /\ ClientIInv => ClientTypeOK
  <2>1. SUFFICES ASSUME Typed, ClientIInv PROVE ClientTypeOK
    OBVIOUS
  <2>2. args \in Seq(Arguments) /\ Len(args) <= 1
    <3>1. CASE args = <<>>
      BY <3>1
    <3>2. CASE \E a \in Args : args = <<a>>
      <4>1. PICK a \in Arguments : args = <<a>>
        BY <3>2, LM50ClientAssumption DEF LM50ClientAssumption
      <4>2. QED
        BY <4>1
    <3>3. QED
      BY <2>1, <3>1, <3>2 DEF Typed, OneOrNone
  <2>3. place \in {"parse", "end"} \cup CallPlaces \cup PrintPlaces
    BY <2>1 DEF ClientIInv, Rest, Walk, HumanPlaces, CactiPlaces, DaemonPlaces,
                CallPlaces, PrintPlaces
  <2>4. printed.version \in Registers \cup {""} /\ printed.serial \in Registers \cup {""}
    BY <2>1 DEF ClientIInv, Rest, Output, Registers
  <2>5. called \in BOOLEAN /\ mode \in {"UNKNOWN", "HUMAN", "CACTI", "DAEMON"}
    BY <2>1 DEF ClientIInv, Rest, Walk
  <2>6. QED
    BY <2>1, <2>2, <2>3, <2>4, <2>5 DEF ClientTypeOK, Typed
<1>4. QED
  BY <1>1, <1>2, <1>3, ClientInductive, PTL DEF ClientSpec

-----------------------------------------------------------------------------
(* The program and the device object.                                        *)

(* The program uses the device object as LM50Device allows.                  *)
THEOREM ProgramUsesDevice == ClientSpec => Spec
<1>1. ClientInit => Init
  BY DEF ClientInit
<1>2. [ClientNext]_<<vars, client>> => [Next]_vars
  BY ClientStep
<1>3. QED
  BY <1>1, <1>2, PTL DEF ClientSpec, Spec

(* So what the modes print, and the daemon stores, keeps the promise of      *)
(* updateVolatileValues.                                                     *)
THEOREM ProgramKeepsReadings == ClientSpec => KeepsReadings
BY ProgramUsesDevice, ImplementsReadings

=============================================================================
