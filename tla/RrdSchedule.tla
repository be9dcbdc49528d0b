---------------------------- MODULE RrdSchedule ----------------------------
(***************************************************************************)
(* When WorkerRrd (apps/worker_rrd.cpp) reads the device and under which   *)
(* time stamp it records the values: the loop of run() with the arithmetic *)
(* of stepBeat, sleepUntilBeat and updateRRD, against a clock that goes on *)
(* during every blocking call.                                             *)
(*                                                                         *)
(* now and readAt count half seconds, because updateRRD rounds a time to   *)
(* the nearest second; beats and stamps are seconds.  The clock may be set  *)
(* back.  The RRD file outlives the process.                               *)
(***************************************************************************)

EXTENDS Integers

CONSTANTS
  Period,   \* the option rrd.period
  Paces,    \* how slow the host and the device may be
  Horizon   \* bound: the time after which nothing starts and no beat is waited for

Places == {"start", "sleep", "read", "store", "step"}

\* late: by how many half seconds the thread may wake up too late, or find that
\* time has gone by where it only computes.  read, store:
\* how many obtainValues, and logValues with updateRRD, may take.  restarts:
\* may the process die and be started again?  back: where in the loop the
\* clock may be set back.
AllPaces == [late : Nat, read : Nat, store : Nat, restarts : BOOLEAN,
             back : SUBSET Places]

\* A period of zero divides by zero in run().
ASSUME RrdScheduleAssumption ==
  /\ Period \in Nat \ {0}
  /\ Paces \subseteq AllPaces
  /\ Horizon \in Nat

VARIABLES
  pace,    \* the pace of this behaviour; never changes
  now,     \* CLOCK_REALTIME
  pc,      \* one of Places; or aborted
  beat,    \* WorkerRrd::_timeBeat
  readAt,  \* WorkerRrd::_timeUpdate
  last     \* the time stamp of the last record in the RRD file

vars == <<pace, now, pc, beat, readAt, last>>

Seconds(t) == t \div 2

\* The time stamp updateRRD writes: rounded to the nearest second.
Stamp(t) == (t + 1) \div 2

Greater(a, b) == IF a >= b THEN a ELSE b

\* Mutants of StepBeat: the beat is decreased; never advanced more than once;
\* counted from the present after a miss; taken for missed already when it is
\* the next second.
StepBack(b, t)   == b - Period
StepOnce(b, t)   == b + Period
StepFromNow(b, t) ==
  IF b + Period > Seconds(t) THEN b + Period ELSE Seconds(t) + Period
StepBeyond(b, t) ==
  IF b + Period > Seconds(t) + 1 THEN b + Period
  ELSE b + ((Seconds(t) - b) \div Period + 2) * Period

\* stepBeat at time t: one period on if that is in the future, and otherwise
\* one period further than the first multiple that is (the while loop counts
\* the periods, the last line adds another one).
StepBeat(b, t) ==
  IF b + Period > Seconds(t) THEN b + Period
  ELSE b + ((Seconds(t) - b) \div Period + 2) * Period

Init ==
  /\ pace \in Paces
  /\ now \in 0 .. 2 * Period
  /\ pc = "start"
  /\ beat = 0 /\ readAt = 0 /\ last = -1

\* Mutant of Start: the first beat is the one of the present period.
StartAtOnce ==
  /\ pc = "start"
  /\ now <= Horizon
  /\ \E late \in 0 .. pace.late : now' = now + late
  /\ beat' = (Seconds(now) \div Period) * Period
  /\ pc' = "sleep"
  /\ UNCHANGED <<pace, readAt, last>>

\* run() up to its loop.  It looks at the clock, and stepBeat does so again.
Start ==
  /\ pc = "start"
  /\ now <= Horizon
  /\ \E late \in 0 .. pace.late : now' = now + late
  /\ beat' = StepBeat((Seconds(now) \div Period) * Period, now')
  /\ pc' = "sleep"
  /\ UNCHANGED <<pace, readAt, last>>

\* Mutant of Wake: a signal that interrupts clock_nanosleep ends the sleep.
WakeEarly ==
  /\ pc = "sleep"
  /\ 2 * beat <= Horizon
  /\ \E late \in 0 .. pace.late : now' = now + late
  /\ pc' = "read"
  /\ UNCHANGED <<pace, beat, readAt, last>>

\* sleepUntilBeat sleeps until the absolute time, interrupted or not.
Wake ==
  /\ pc = "sleep"
  /\ 2 * beat <= Horizon
  /\ \E late \in 0 .. pace.late : now' = Greater(now, 2 * beat) + late
  /\ pc' = "read"
  /\ UNCHANGED <<pace, beat, readAt, last>>

\* obtainValues; updateVolatileValues takes the time at its very end.
Read ==
  /\ pc = "read"
  /\ \E d \in 0 .. pace.read : now' = now + d
  /\ readAt' = now'
  /\ pc' = "store"
  /\ UNCHANGED <<pace, beat, last>>

\* Mutant of Store: the time is taken after the values have been logged.
StoreLate ==
  /\ pc = "store"
  /\ \E d \in 0 .. pace.store : now' = now + d
  /\ \/ /\ Stamp(now') > last
        /\ last' = Stamp(now')
        /\ pc' = "step"
     \/ /\ Stamp(now') <= last
        /\ pc' = "aborted"
        /\ UNCHANGED last
  /\ UNCHANGED <<pace, beat, readAt>>

\* updateRRD.  RRDtool accepts increasing time stamps only; the exception
\* updateRRD throws otherwise is caught nowhere.
Store ==
  /\ pc = "store"
  /\ \E d \in 0 .. pace.store : now' = now + d
  /\ \/ /\ Stamp(readAt) > last
        /\ last' = Stamp(readAt)
        /\ pc' = "step"
     \/ /\ Stamp(readAt) <= last
        /\ pc' = "aborted"
        /\ UNCHANGED last
  /\ UNCHANGED <<pace, beat, readAt>>

Step ==
  /\ pc = "step"
  /\ beat' = StepBeat(beat, now)
  /\ pc' = "sleep"
  /\ UNCHANGED <<pace, now, readAt, last>>

\* The process dies and is started again; it remembers nothing.
Restart ==
  /\ pace.restarts
  /\ pc # "start"
  /\ pc' = "start"
  /\ beat' = 0 /\ readAt' = 0
  /\ UNCHANGED <<pace, now, last>>

\* Somebody, or ntpd, sets CLOCK_REALTIME back.  (That it is set forward, or
\* that a call takes long, is the same to the code.)
SetBack ==
  /\ pc \in pace.back
  /\ now' \in 0 .. now
  /\ UNCHANGED <<pace, pc, beat, readAt, last>>

Next == Start \/ Wake \/ Read \/ Store \/ Step \/ Restart \/ SetBack

Spec == Init /\ [][Next]_vars

-----------------------------------------------------------------------------
\* Every variable has its type.
TypeOK ==
  /\ pace \in Paces
  /\ now \in Nat
  /\ pc \in Places \cup {"aborted"}
  /\ beat \in Nat
  /\ readAt \in Nat
  /\ last \in Nat \cup {-1}

\* The worker never goes to sleep for a beat that has already gone by,
\* however long reading and recording took and whenever the clock was set
\* back: no beat is recorded twice.
BeatInFuture == pc = "sleep" => 2 * beat > now

\* The clock goes on between waking up and taking the time of the reading.
Steady == "read" \notin pace.back

\* No record is older than the beat it is taken for.
RecordAtBeat == Steady /\ pc = "store" => Stamp(readAt) >= beat

\* Waking up and reading are done before the time that is rounded up to the
\* next beat.
Prompt == Steady /\ pace.late + pace.read < 2 * Period - 1

\* Besides, recording is done before the next beat and the process goes on.
Punctual ==
  /\ Prompt
  /\ pace.late + pace.read + pace.store < 2 * Period
  /\ ~pace.restarts

\* If the worker is punctual, there is one record in every period, from the
\* first one to the end of the process: the record that is added belongs to
\* the beat, the one before it to the beat before, although the clock may have
\* been set back while the worker slept or recorded.
NoBeatLeftOut ==
  [][Punctual /\ last' # last
       => /\ last' \in beat .. beat + Period - 1
          /\ last # -1 => last \in beat - Period .. beat - 1]_vars

\* The clock is not set back, or the process is not restarted.
Ordered == pace.back = {} \/ ~pace.restarts

\* If waking up and reading are prompt, RRDtool refuses no record, however long
\* recording takes and wherever else the clock is set back; or, if it never is,
\* whenever the process is restarted.
NeverRefused == Prompt /\ Ordered => pc # "aborted"

\* A beat is a multiple of the period, whatever has been missed and however
\* often the process has been restarted.
OnGrid(b) == \E k \in 0 .. b : b = k * Period

\* After missed beats, too, a record is taken for a beat on the grid of the
\* database's steps, under a time by which waking up and reading were done,
\* and the beat is at most two periods after the last record was finished.
ResumesOnGrid ==
  [][Steady /\ last' # last
       => /\ OnGrid(beat)
          /\ last' \in beat .. beat + Stamp(pace.late + pace.read)
          /\ ~pace.restarts /\ last # -1
               => beat <= last + Seconds(pace.store) + 2 * Period]_vars

\* The database has the step README.txt:6 and 44 give it and a heartbeat of two
\* steps.  That this step is the period holds for the 60 seconds of
\* etc/lm50client/lm50client.cnf:36, not for the default of 30.  A worker that
\* is not prompt, or disorders its stamps, promises nothing: its records are
\* left out.
Database == INSTANCE RoundRobin WITH
  Length    <- Period,
  Heartbeat <- 2 * Period,
  last      <- IF Prompt /\ Ordered THEN last ELSE -1,
  regular   <- Punctual

\* A prompt worker never makes two records in one step of the database, and a
\* punctual one fills every step, before the heartbeat has passed.
FillsDatabase == Database!Spec

\* Where clock, beat and last stamp are at each place of the loop: at any pace,
\* while nobody turns the clock during a reading, when nothing disorders the
\* stamps besides, and when the worker is punctual (for the theorems of module
\* RrdScheduleProofs).
Loop ==
  /\ pc = "sleep" => 2 * beat > now
  /\ OnGrid(beat)

SteadyLoop ==
  /\ pc = "start" /\ ~pace.restarts => last = -1
  /\ pc = "read" => 2 * beat <= now /\ now <= 2 * beat + pace.late
  /\ pc = "store" => /\ now <= readAt /\ 2 * beat <= readAt
                     /\ readAt <= 2 * beat + pace.late + pace.read
  /\ pc = "step" => beat <= last /\ now <= 2 * last + pace.store
  /\ pc \in {"sleep", "read", "store"} /\ ~pace.restarts /\ last # -1
       => beat <= last + Seconds(pace.store) + 2 * Period

AcceptedLoop ==
  /\ pc # "aborted"
  /\ pc \in {"sleep", "read", "store"} => last < beat
  /\ pc = "step" => last < beat + Period
  /\ pace.back = {} =>
       /\ pc = "store" => now = readAt
       /\ \A b \in 0 .. last : OnGrid(b) => b <= Seconds(now)

PunctualLoop ==
  /\ pc = "start" => last = -1
  /\ pc \in {"sleep", "read", "store"} /\ last # -1
       => last \in beat - Period .. beat - 1
  /\ pc = "step" => last \in beat .. beat + Period - 1
                    /\ now < 2 * (beat + Period)

IInv ==
  /\ TypeOK
  /\ Loop
  /\ Steady => SteadyLoop
  /\ Prompt /\ Ordered => AcceptedLoop
  /\ Punctual => PunctualLoop

-----------------------------------------------------------------------------
(* What comments of the code say and its steps do not keep.                *)

\* worker_rrd.cpp:105-107: stepBeat advances _timeBeat "by the smallest
\* multiple of _pollingPeriod such that the new _timeBeat value is located
\* in the future".
SmallestStep == pc = "sleep" => beat - Period <= Seconds(now)

\* worker_rrd.cpp:75: the loop runs "until the termination signal is
\* received", whatever time the device takes.
LoopsForever == pc # "aborted"

=============================================================================
