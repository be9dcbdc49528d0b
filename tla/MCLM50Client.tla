---------------------------- MODULE MCLM50Client ----------------------------
(* The program with a device of three channels, started with what the lists  *)
(* of channels, the two sources and the options of the workers may be.       *)

EXTENDS LM50Client

LOCAL INSTANCE SequencesExt

Nothing ==
  [host |-> <<>>, port |-> <<>>, mode |-> <<>>, workers |-> <<>>,
   foreground |-> <<>>, verbose |-> <<>>, channels |-> <<>>,
   rrdFile |-> <<>>, rrdPeriod |-> <<>>,
   reportFile |-> <<>>, reportPeriod |-> <<>>, reportRecipient |-> <<>>]

Basic == [Nothing EXCEPT !.host = <<"lm50">>, !.mode = <<"h">>]

JustLine(line) ==
  [help |-> FALSE, config |-> <<>>, line |-> line, file |-> Nothing]

\* Every list of up to three channels.
ChannelArgs ==
  { JustLine([Basic EXCEPT !.channels = c]) :
      c \in BoundedSeq(0 .. SizeModulus - 1, 3) }

ModeArgs ==
  { JustLine([Basic EXCEPT !.mode = <<m>>, !.channels = c]) :
      m \in {"human", "cacti", "daemon", "report"}, c \in {<<>>, <<2>>} }

\* Options on the command line, in the file, on both, twice.
SourceArgs ==
  { [help |-> h, config |-> f,
     line |-> [Basic EXCEPT !.mode = m1, !.channels = c1, !.foreground = f1],
     file |-> [Nothing EXCEPT !.mode = m2, !.channels = c2, !.foreground = f2,
                              !.verbose = v2]] :
      h \in BOOLEAN,
      f \in {<<>>, <<"readable">>, <<"unreadable">>, <<"readable", "readable">>},
      m1 \in {<<>>, <<"c">>, <<"c", "c">>}, m2 \in {<<>>, <<"h">>, <<"h", "h">>},
      c1 \in {<<>>, <<2>>}, c2 \in {<<>>, <<1, 3>>, <<0>>},
      f1 \in {<<>>, <<TRUE>>}, f2 \in {<<>>, <<FALSE>>, <<TRUE>>},
      v2 \in {<<>>, <<TRUE>>} }

WorkerArgs ==
  { [help |-> FALSE, config |-> <<"readable">>,
     line |-> [Basic EXCEPT !.mode = m, !.workers = w, !.rrdFile = r1,
                            !.reportPeriod = p],
     file |-> [Nothing EXCEPT !.rrdFile = r2, !.reportFile = q1,
                              !.reportRecipient = q2]] :
      m \in {<<"d">>, <<"daemon">>},
      w \in {<<>>, <<"rrd">>, <<"report">>, <<"report", "rrd">>, <<"rdr">>},
      p \in {<<>>, <<"daily">>, <<"weekly">>, <<"monthly">>, <<"w">>},
      r1 \in {<<>>, <<"a">>}, r2 \in {<<>>, <<"b">>, <<"b", "b">>},
      q1 \in {<<>>, <<"c">>}, q2 \in {<<>>, <<"root">>} }

AllArgs == ChannelArgs \cup ModeArgs \cup SourceArgs \cup WorkerArgs

\* As the modes end after a failure, nothing but "twice" makes an answer late;
\* the run of MCLM50Device has it.
SomeFaults == FaultKinds \ {"twice"}

=============================================================================
