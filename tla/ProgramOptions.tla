--------------------------- MODULE ProgramOptions ---------------------------
(***************************************************************************)
(* ProgramOptions::parse of apps/program_options.cpp: what the program     *)
(* makes of its command line and of the configuration file named there.    *)
(*                                                                         *)
(* A source (the command line, or the file) maps every option to the       *)
(* values it gives the option, in their order; an option that is left out  *)
(* has none.  boost::program_options is external: of it there is which     *)
(* source counts, that an option with one value may not be given twice     *)
(* and that a required one may not be left out.  The spelling of options,  *)
(* unknown ones (which parse ignores) and texts no number can be made of   *)
(* are left out, and so is what foreground and verbose are used for:       *)
(* where the log is written.                                               *)
(***************************************************************************)

EXTENDS Integers, Sequences, FiniteSets, Functions

CONSTANTS
  CountChannels,  \* LM50Device::countChannels (50)
  SizeModulus     \* how many values an unsigned int has (2^32)

ASSUME ProgramOptionsAssumption ==
  /\ CountChannels \in Nat \ {0}
  /\ SizeModulus \in Nat
  /\ CountChannels < SizeModulus

\* The options; those of the two workers have names with a dot.
Source ==
  [host : Seq(STRING), port : Seq(STRING), mode : Seq(STRING),
   workers : Seq(STRING), foreground : Seq(BOOLEAN), verbose : Seq(BOOLEAN),
   channels : Seq(0 .. SizeModulus - 1), rrdFile : Seq(STRING), rrdPeriod : Seq(Nat),
   reportFile : Seq(STRING), reportPeriod : Seq(STRING),
   reportRecipient : Seq(STRING)]

\* help and config are options of the command line only; a configuration file
\* can be opened or not.
Arguments ==
  [help : BOOLEAN, config : Seq({"readable", "unreadable"}),
   line : Source, file : Source]

-----------------------------------------------------------------------------
(* Where the value of an option comes from.                                *)

HasFile(args) == args.config = <<"readable">>

\* po::store leaves alone what an earlier call of it has stored.
Values(args, name) ==
  IF args.line[name] = <<>> /\ HasFile(args) THEN args.file[name]
                                             ELSE args.line[name]

\* The value of an option that has one, and its default.
Value(args, name, default) ==
  IF Values(args, name) = <<>> THEN default ELSE Head(Values(args, name))

Missing(args, name)  == Values(args, name) = <<>>
Repeated(args, name) == Len(Values(args, name)) > 1

-----------------------------------------------------------------------------
(* The mode, the channels, the workers and the period of the reports.      *)

ModeOf(word) ==
  CASE word \in {"human", "h"}  -> "HUMAN"
    [] word \in {"cacti", "c"}  -> "CACTI"
    [] word \in {"daemon", "d"} -> "DAEMON"
    [] OTHER                    -> "UNKNOWN"

Mode(args) == ModeOf(Value(args, "mode", ""))

AllChannels == [i \in 1 .. CountChannels |-> i]

GivenChannels(args) ==
  IF Missing(args, "channels") THEN AllChannels ELSE Values(args, "channels")

Occurrences(s, v) == Cardinality({ i \in DOMAIN s : s[i] = v })

\* std::sort: the elements of s, each as often as s has it, in order.
Sorted[s \in Seq(Nat)] ==
  CHOOSE t \in [DOMAIN s -> Range(s)] :
    /\ \A v \in Range(s) : Occurrences(t, v) = Occurrences(s, v)
    /\ \A j, k \in DOMAIN s : j < k => t[j] <= t[k]

\* The elements of a finite set of numbers in their order.
InOrder[S \in SUBSET Nat] ==
  CHOOSE t \in [1 .. Cardinality(S) -> S] :
    \A j, k \in 1 .. Cardinality(S) : j < k => t[j] < t[k]

\* std::unique drops what equals its predecessor.
Kept(s) == { i \in DOMAIN s : i = 1 \/ s[i] # s[i - 1] }
Unique[s \in Seq(Nat)] ==
  LET at == InOrder[Kept(s)] IN [k \in DOMAIN at |-> s[at[k]]]

\* Mutant of SortedChannels: duplicates are looked for before sorting.
UniqueThenSorted(args) == Sorted[Unique[GivenChannels(args)]]

SortedChannels(args) == Unique[Sorted[GivenChannels(args)]]

\* Mutant of Decremented: the numbers are signed.
DecrementedSigned(c) == c - 1

Decremented(c) == (c + SizeModulus - 1) % SizeModulus

Channels(args) ==
  [i \in DOMAIN SortedChannels(args) |-> Decremented(SortedChannels(args)[i])]

ChannelsOutOfRange(args) ==
  \E c \in Range(Channels(args)) : c >= CountChannels

Rrd(args)    == "rrd" \in Range(Values(args, "workers"))
Report(args) == "report" \in Range(Values(args, "workers"))

\* The long names are compared with the period, the letters with the mode.
PeriodOf(period, mode) ==
  IF period = "daily" \/ mode = "d" THEN "DAILY"
  ELSE IF period = "weekly" \/ mode = "w" THEN "WEEKLY"
  ELSE IF period = "monthly" \/ mode = "m" THEN "MONTHLY"
  ELSE "UNKNOWN"

ReportPeriod(args) ==
  PeriodOf(Value(args, "reportPeriod", "monthly"), Value(args, "mode", ""))

-----------------------------------------------------------------------------
(* When parse throws.                                                      *)

\* The first pass, with the options of the command line only.
PreThrows(args) == Len(args.config) > 1

CommonThrows(args) ==
  \/ args.config = <<"unreadable">>
  \/ \E name \in {"host", "mode"} : Missing(args, name)
  \/ \E name \in {"host", "port", "mode", "foreground", "verbose"} :
       Repeated(args, name)
  \/ Mode(args) = "UNKNOWN"
  \/ ChannelsOutOfRange(args)
  \/ Range(Values(args, "workers")) \ {"rrd", "report"} # {}

RrdThrows(args) ==
  /\ Rrd(args)
  /\ \/ Missing(args, "rrdFile")
     \/ \E name \in {"rrdFile", "rrdPeriod"} : Repeated(args, name)

ReportThrows(args) ==
  /\ Report(args)
  /\ \/ \E name \in {"reportFile", "reportRecipient"} : Missing(args, name)
     \/ \E name \in {"reportFile", "reportRecipient", "reportPeriod"} :
          Repeated(args, name)
     \/ ReportPeriod(args) = "UNKNOWN"

\* What parse does: it throws, asks for the help text to be printed, or has
\* found the options.
Parse(args) ==
  IF PreThrows(args) THEN "throws"
  ELSE IF args.help THEN "help"
  ELSE IF CommonThrows(args) \/ RrdThrows(args) \/ ReportThrows(args)
    THEN "throws"
  ELSE "parsed"

=============================================================================
