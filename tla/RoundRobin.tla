----------------------------- MODULE RoundRobin -----------------------------
(***************************************************************************)
(* The round robin database as README.txt sets it up, and what it has to   *)
(* be given so that every step of its time has a measured value of its     *)
(* own.  A data source is a counter: what is stored for a step is the      *)
(* rate at which it has counted since the record before, and nothing if    *)
(* that is older than the heartbeat.                                       *)
(***************************************************************************)

EXTENDS Integers

CONSTANTS
  Length,    \* of a step ("--step 60")
  Heartbeat  \* the longest time between two records ("COUNTER:120")

VARIABLES
  last,    \* the time stamp of the last record, or -1
  regular  \* whoever makes the records is punctual; never changes

vars == <<last, regular>>

\* The step a time belongs to; -1 before there is a record.
StepOf(t) == t \div Length

Init == last = -1 /\ regular \in BOOLEAN

\* No step has two records; if they are made regularly, every step has one, and
\* none is too old for the next.
Update ==
  /\ last' \in Nat
  /\ StepOf(last') > StepOf(last)
  /\ regular /\ last # -1 => /\ StepOf(last') = StepOf(last) + 1
                             /\ last' < last + Heartbeat
  /\ UNCHANGED regular

Spec == Init /\ [][Update]_vars

=============================================================================
