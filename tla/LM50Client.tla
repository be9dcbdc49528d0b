----------------------------- MODULE LM50Client -----------------------------
(***************************************************************************)
(* The program: main() and LM50ClientApp (apps/lm50client.cpp) with the    *)
(* options they are given, the two modes that print what they read         *)
(* (apps/mode_human.cpp, apps/mode_cacti.cpp) and the calls that the       *)
(* daemon mode makes of the device object (apps/mode_daemon.cpp), whose    *)
(* threads are in module Daemon.                                           *)
(*                                                                         *)
(* A mode walks through places of its run(): at some it calls the device   *)
(* object of module LM50Device and waits until the call has ended, at      *)
(* others it prints what the object has stored.                            *)
(***************************************************************************)

EXTENDS LM50Device, ProgramOptions

CONSTANT
  Args    \* what the program may be started with

ASSUME LM50ClientAssumption == Args \subseteq Arguments

VARIABLES
  args,     \* what the program was started with, until it has been parsed
  mode,     \* ProgramOptions::_operationMode
  wanted,   \* ProgramOptions::_channels
  place,    \* where main(), or the run() of the mode, is
  called,   \* the call made there is in progress, or its end not yet noticed
  printed,  \* the values on standard output
  status    \* the exit status, or "aborted"

client == <<args, mode, wanted, place, called, printed, status>>

CallPlaces  == {"connect", "steady", "update", "disconnect", "drop", "dial"}
PrintPlaces == {"version", "channels"}

Statuses == {"none", "0", "255", "errno", "aborted"}

ClientInit ==
  /\ Init
  /\ \E a \in Args : args = <<a>>
  /\ mode = "UNKNOWN" /\ wanted = <<>>
  /\ place = "parse" /\ called = FALSE
  /\ printed = [version |-> "", serial |-> "", lines |-> <<>>, at |-> 0]
  /\ status = "none"

Exit(s) == place' = "end" /\ status' \in s

-----------------------------------------------------------------------------
(* main(): ProgramOptions::parse, then LM50ClientApp::run.                 *)

Starting == place = "parse" /\ args' = <<>>

\* main() catches what parse throws; --help prints a text and is done.
RunNoMode ==
  /\ Starting
  /\ \/ Parse(Head(args)) = "throws" /\ Exit({"255"})
     \/ Parse(Head(args)) = "help" /\ Exit({"0"})
  /\ UNCHANGED <<vars, mode, wanted, called, printed>>

RunMode ==
  /\ Starting
  /\ Parse(Head(args)) = "parsed"
  /\ mode' = Mode(Head(args))
  /\ wanted' = Channels(Head(args))
  /\ place' = "connect"
  /\ UNCHANGED <<vars, called, printed, status>>

-----------------------------------------------------------------------------
(* The order of the calls.                                                 *)

HumanRun ==
  [connect |-> "steady", steady |-> "version", version |-> "update",
   update |-> "channels", channels |-> "disconnect", disconnect |-> "end"]

\* Mutant of CactiRun: the connection is not closed.
CactiRunOpen ==
  [connect |-> "update", update |-> "channels", channels |-> "end"]

CactiRun ==
  [connect |-> "update", update |-> "disconnect", disconnect |-> "channels",
   channels |-> "end"]

\* init, the updates of the worker, deinit.
DaemonRun ==
  [connect |-> "update", update |-> "update", drop |-> "dial",
   dial |-> "update", disconnect |-> "end"]

Run == CASE mode = "HUMAN"  -> HumanRun
         [] mode = "CACTI"  -> CactiRun
         [] mode = "DAEMON" -> DaemonRun

\* Mutant of Handlers: the human mode prints what it has.
HandlersHuman ==
  CASE mode = "DAEMON" -> [update |-> "drop", dial |-> "dial"]
    [] mode = "HUMAN"  -> [steady |-> "version"]
    [] OTHER           -> [p \in {} |-> p]

\* Mutant of Handlers: a mode that only prints waits for the device as well.
HandlersPatient ==
  CASE mode = "DAEMON" -> [update |-> "drop", dial |-> "dial"]
    [] OTHER           -> [connect |-> "connect"]

\* The catch clauses of ModeDaemon::deviceUpdate; the other modes have none.
Handlers ==
  IF mode = "DAEMON" THEN [update |-> "drop", dial |-> "dial"]
                     ELSE [p \in {} |-> p]

\* Mutant of Caught: the clauses catch every exception.
CaughtAll(how) == how # "returned" /\ place \in DOMAIN Handlers

Caught(how) == how = "runtime_error" /\ place \in DOMAIN Handlers

GoesOn(next) ==
  /\ place' = next
  /\ status' = IF next = "end" THEN "0" ELSE status

\* main() returns -1 for a std::exception and the number of an error_code;
\* an exception that leaves the worker thread of the daemon terminates it.
Escapes(how) ==
  Exit(IF mode = "DAEMON" /\ place # "connect" THEN {"aborted"}
       ELSE IF how = "runtime_error" THEN {"255"} ELSE {"255", "errno"})

-----------------------------------------------------------------------------
(* Calling the device object.                                              *)

Call ==
  /\ place \in CallPlaces
  /\ ~called
  /\ called' = TRUE
  /\ \/ place \in {"connect", "dial"} /\ Connect
     \/ place \in {"disconnect", "drop"} /\ Disconnect
     \/ place = "steady" /\ ReadSteadyValues
     \/ place = "update" /\ UpdateVolatileValues
  /\ UNCHANGED <<args, mode, wanted, place, printed, status>>

\* The call goes on by a step of the program, or by the end of its exchange.
GoesOnAsking == AskSerial /\ UNCHANGED client

EndOfExchange == Exchange /\ UNCHANGED client

CallEnds ==
  /\ called
  /\ pc = "idle"
  /\ called' = FALSE
  /\ \/ ended = "returned" /\ GoesOn(Run[place])
     \/ Caught(ended) /\ GoesOn(Handlers[place])
     \/ ended # "returned" /\ ~Caught(ended) /\ Escapes(ended)
  /\ UNCHANGED <<vars, args, mode, wanted, printed>>

\* ModeDaemon::run has got a signal; the loops of its worker end.
Cancelled ==
  /\ mode = "DAEMON"
  /\ place \in {"update", "dial"}
  /\ ~called
  /\ place' = "disconnect"
  /\ UNCHANGED <<vars, args, mode, wanted, called, printed, status>>

-----------------------------------------------------------------------------
(* Printing what it has stored.                                            *)

\* revision() and serialNumber() both throw if the revision is empty.
PrintVersion ==
  /\ place = "version"
  /\ \/ /\ revision # ""
        /\ printed' = [printed EXCEPT !.version = revision, !.serial = serialNo]
        /\ GoesOn(Run[place])
     \/ revision = "" /\ Escapes("runtime_error") /\ UNCHANGED printed
  /\ UNCHANGED <<vars, args, mode, wanted, called>>

\* The human mode prints a line for each channel, the cacti mode one line for
\* all of them.
PrintChannels ==
  /\ place = "channels"
  /\ printed' = [printed EXCEPT !.lines = wanted, !.at = channels]
  /\ GoesOn(Run[place])
  /\ UNCHANGED <<vars, args, mode, wanted, called>>

\* What the program does by itself.
OwnStep ==
  \/ RunNoMode \/ RunMode \/ Call \/ CallEnds \/ PrintVersion \/ PrintChannels
  \/ GoesOnAsking

ClientNext ==
  OwnStep \/ EndOfExchange \/ Cancelled \/ (Device /\ UNCHANGED client)

\* The program is not stopped; that an exchange ends is not assumed.
ClientSpec ==
  ClientInit /\ [][ClientNext]_<<vars, client>> /\ WF_<<vars, client>>(OwnStep)

-----------------------------------------------------------------------------
\* Every variable has its type.
ClientTypeOK ==
  /\ args \in Seq(Arguments) /\ Len(args) <= 1
  /\ mode \in {"UNKNOWN", "HUMAN", "CACTI", "DAEMON"}
  /\ wanted \in Seq(Nat)
  /\ place \in {"parse", "end"} \cup CallPlaces \cup PrintPlaces
  /\ called \in BOOLEAN
  /\ printed.version \in Registers \cup {""}
  /\ printed.serial \in Registers \cup {""}
  /\ printed.lines \in Seq(Nat) /\ printed.at \in Nat
  /\ status \in Statuses

\* No call is made after an exception that is not a runtime_error
\* (mb_tcprar.cpp:55: the io_service would still hold handlers bound to an
\* object that is gone), nor an exchange on a socket that is not connected;
\* no channel is looked at that was never read (channel() would throw).
CallsAllowed ==
  /\ place \in CallPlaces /\ ~called => Free
  /\ place \in {"steady", "update"} /\ ~called =>
       conn \in {"connected", "broken"}
  /\ place = "channels" => lastUpdate # 0

\* What is printed as the revision and the serial number was read as such,
\* although serialNumber() would return a number that was never read
\* (lm50device.cpp:213 looks at the revision only); the channels printed were
\* measured after the latest request was sent.
PrintedIsRead ==
  /\ printed.version \in {"", "revision"}
  /\ printed.serial = IF printed.version = "" THEN "" ELSE "serial"
  /\ printed.lines # <<>> => printed.at >= asked

\* An exit status of 0 means that everything asked for was printed and the
\* connection closed; the cacti mode prints all or nothing
\* (mode_cacti.cpp:35-38).
ExitZeroIsComplete ==
  /\ status = "0" =>
       /\ conn = "closed"
       /\ mode \in {"HUMAN", "CACTI"} => printed.lines = wanted
       /\ mode = "HUMAN" => printed.version # ""
  /\ status \notin {"none", "0"} => printed.lines = <<>>

\* Every exchange ends.  It does if the answer comes, comes whole, or does not
\* come at all; RunReturns of module TcpRar is refuted for an answer that stops
\* in its middle.
ExchangesEnd == WF_<<vars, client>>(EndOfExchange)

\* As long as no answer stops in its middle, the modes that print end: no
\* other fault of the device keeps them calling it or waiting for it.  (With
\* such an answer they hang for ever: none of them has a time limit.)
PrintingEnds == ExchangesEnd => (mode \in {"HUMAN", "CACTI"} ~> place = "end")

-----------------------------------------------------------------------------
(* What parse makes of the arguments, in the states in which it has not    *)
(* been called yet.                                                        *)

\* The channels are those asked for on either source, counted from 0, once
\* each and in increasing order, one at least (mode_cacti.cpp:44-47 take the
\* first of the list), and they are refused if there is one that the device
\* does not have (program_options.cpp:132 decrements them as unsigned numbers
\* before they are compared).
ChannelsAsAsked ==
  \A i \in DOMAIN args :
    LET given == Range(GivenChannels(args[i]))
        list  == Channels(args[i])
    IN /\ ChannelsOutOfRange(args[i]) <=> given \ (1 .. CountChannels) # {}
       /\ ~ChannelsOutOfRange(args[i]) =>
            /\ list # <<>> /\ { c + 1 : c \in Range(list) } = given
            /\ \A j, k \in DOMAIN list : j < k => list[j] < list[k]

=============================================================================
