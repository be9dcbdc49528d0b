------------------------- MODULE RrdScheduleProofs -------------------------
(* Theorems about the schedule of the RRD worker for every period and every  *)
(* pace.  The inductive invariant relates the clock, the beat and the last   *)
(* stamp at each place of the loop; the arithmetic of stepBeat is in lemmas. *)

EXTENDS RrdSchedule, TLAPS

(* Division, as far as it is needed here.                                    *)
LEMMA Division ==
  ASSUME NEW d \in Nat, NEW p \in Nat \ {0}
  PROVE  /\ d \div p \in Nat /\ (d \div p) * p \in Nat
         /\ (d \div p) * p <= d /\ d < (d \div p + 1) * p
OBVIOUS

(* A time, cut off and rounded to seconds.                                   *)
LEMMA SecondsOfTime ==
  ASSUME NEW t \in Nat
  PROVE  /\ Seconds(t) \in Nat /\ 2 * Seconds(t) <= t /\ t < 2 * Seconds(t) + 2
         /\ Stamp(t) \in Nat /\ t <= 2 * Stamp(t) /\ 2 * Stamp(t) <= t + 1
BY DEF Seconds, Stamp

(* Seconds go on with the time, and a beat comes when its second does.      *)
LEMMA SecondsMonotone ==
  ASSUME NEW t \in Nat, NEW u \in Nat, t <= u
  PROVE  Seconds(t) <= Seconds(u)
BY DEF Seconds

(* A beat has come when its second has, and not before.                      *)
LEMMA BeatGone ==
  ASSUME NEW b \in Nat, NEW t \in Nat
  PROVE  /\ 2 * b <= t => b <= Seconds(t)
         /\ t < 2 * b => Seconds(t) < b
BY DEF Seconds

(* stepBeat puts the beat into the future, and as long as the next beat has  *)
(* not been missed, by one period.                                           *)
LEMMA StepIsForward ==
  ASSUME NEW b \in Nat, NEW t \in Nat
  PROVE  /\ StepBeat(b, t) \in Nat
         /\ StepBeat(b, t) > Seconds(t) /\ StepBeat(b, t) > b
         /\ b + Period > Seconds(t) => StepBeat(b, t) = b + Period
         /\ b + Period <= Seconds(t) => StepBeat(b, t) <= Seconds(t) + 2 * Period
<1>1. Period \in Nat \ {0} /\ Seconds(t) \in Nat
  BY RrdScheduleAssumption, SecondsOfTime
<1>2. CASE b + Period > Seconds(t)
  BY <1>1, <1>2 DEF StepBeat
<1>3. CASE ~(b + Period > Seconds(t))
  <2> DEFINE d == Seconds(t) - b
             q == d \div Period
  <2>1. d \in Nat
    BY <1>1, <1>3
  <2>2. q \in Nat /\ q * Period \in Nat /\ q * Period <= d /\ d < (q + 1) * Period
    BY <1>1, <2>1, Division
  <2>3. (q + 1) * Period = q * Period + Period
        /\ (q + 2) * Period = q * Period + 2 * Period
    BY <1>1, <2>2
  <2>4. StepBeat(b, t) = b + (q + 2) * Period
    BY <1>3 DEF StepBeat
  <2> HIDE DEF q
  <2>5. QED
    BY <1>1, <1>3, <2>1, <2>2, <2>3, <2>4
<1>4. QED
  BY <1>2, <1>3

(* Multiples of the period are on the grid, and so is every step from one.   *)
LEMMA MultiplesOnGrid ==
  ASSUME NEW k \in Nat
  PROVE  k * Period \in Nat /\ OnGrid(k * Period)
<1>1. Period \in Nat \ {0}
  BY RrdScheduleAssumption
<1>2. k * Period \in Nat /\ k <= k * Period
  BY <1>1
<1>3. QED
  BY <1>2 DEF OnGrid

(* stepBeat leaves a beat on the grid.                                       *)
LEMMA StepStaysOnGrid ==
  ASSUME NEW b \in Nat, NEW t \in Nat, OnGrid(b)
  PROVE  OnGrid(StepBeat(b, t))
<1>1. Period \in Nat \ {0} /\ Seconds(t) \in Nat
  BY RrdScheduleAssumption, SecondsOfTime
<1>2. PICK k \in 0 .. b : b = k * Period
  BY DEF OnGrid
<1>3. CASE b + Period > Seconds(t)
  <2>1. StepBeat(b, t) = (k + 1) * Period
    BY <1>1, <1>2, <1>3 DEF StepBeat
  <2>2. QED
    BY <2>1, MultiplesOnGrid
<1>4. CASE ~(b + Period > Seconds(t))
  <2> DEFINE q == (Seconds(t) - b) \div Period
  <2>1. Seconds(t) - b \in Nat
    BY <1>1, <1>4
  <2>2. q \in Nat
    BY <1>1, <2>1, Division
  <2>3. StepBeat(b, t) = b + (q + 2) * Period
    BY <1>4 DEF StepBeat
  <2> HIDE DEF q
  <2>4. StepBeat(b, t) = (k + (q + 2)) * Period
    BY <1>1, <1>2, <2>2, <2>3
  <2>5. QED
    BY <2>2, <2>4, MultiplesOnGrid
<1>5. QED
  BY <1>3, <1>4

(* Between a multiple of the period and the next one there is none.          *)
LEMMA GridGap ==
  ASSUME NEW b \in Nat, NEW c \in Nat, OnGrid(b), OnGrid(c), b < c
  PROVE  b + Period <= c
<1>1. Period \in Nat \ {0}
  BY RrdScheduleAssumption
<1>2. PICK i \in 0 .. b : b = i * Period
  BY DEF OnGrid
<1>3. PICK j \in 0 .. c : c = j * Period
  BY DEF OnGrid
<1>4. i < j
  <2>1. SUFFICES ASSUME j <= i
                 PROVE  FALSE
    BY <1>2, <1>3
  <2>2. PICK k \in Nat : i = j + k
    BY <2>1
  <2>3. i * Period = j * Period + k * Period /\ k * Period \in Nat
        /\ j * Period \in Nat
    BY <1>1, <1>3, <2>2
  <2>4. QED
    BY <1>2, <1>3, <2>3
<1>5. PICK k \in Nat : j = i + 1 + k
  BY <1>4
<1>6. j * Period = i * Period + Period + k * Period /\ k * Period \in Nat
      /\ i * Period \in Nat
  BY <1>1, <1>2, <1>5
<1>7. QED
  BY <1>1, <1>2, <1>3, <1>6

(* The first beat is computed from the start of the current period.          *)
LEMMA FirstBeat ==
  ASSUME NEW t \in Nat
  PROVE  /\ (Seconds(t) \div Period) * Period \in Nat
         /\ OnGrid((Seconds(t) \div Period) * Period)
<1>1. Seconds(t) \div Period \in Nat
  BY SecondsOfTime, Division, RrdScheduleAssumption
<1>2. QED
  BY <1>1, MultiplesOnGrid

-----------------------------------------------------------------------------
Typed == TypeOK /\ pace \in AllPaces

(* How much time each call may take.                                         *)
LEMMA PaceBounds ==
  ASSUME Typed
  PROVE  /\ pace \in Paces /\ pace.late \in Nat /\ pace.read \in Nat
         /\ pace.store \in Nat /\ now \in Nat /\ beat \in Nat /\ readAt \in Nat
         /\ last \in Nat \cup {-1}
BY DEF Typed, TypeOK, AllPaces

(* The first state is well typed.                                            *)
LEMMA TypedInit == Init => Typed
BY RrdScheduleAssumption DEF Init, Typed, TypeOK, Places

(* So is the state after a record.                                           *)
LEMMA TypedStore == Typed /\ Store => Typed'
<1> SUFFICES ASSUME Typed, Store
             PROVE  Typed'
  OBVIOUS
<1>1. PICK d \in 0 .. pace.store : now' = now + d
  BY DEF Store
<1>2. now' \in Nat
  BY <1>1, PaceBounds
<1>3. Stamp(readAt) \in Nat
  BY PaceBounds, SecondsOfTime
<1>4. last' \in Nat \cup {-1} /\ pc' \in {"step", "aborted"}
  BY <1>3, PaceBounds DEF Store
<1>5. pace' = pace /\ beat' = beat /\ readAt' = readAt
  BY DEF Store
<1>6. QED
  BY <1>2, <1>4, <1>5 DEF Typed, TypeOK, Places

(* What the first beat and the clock are after it has been computed.         *)
LEMMA StartTyped == ASSUME Typed, Start PROVE beat' \in Nat /\ now' \in Nat
<1> DEFINE b == (Seconds(now) \div Period) * Period
<1>1. b \in Nat
  BY PaceBounds, FirstBeat
<1>2. PICK l \in 0 .. pace.late : now' = now + l
  BY DEF Start
<1>3. now + l \in Nat
  BY PaceBounds
<1>4. beat' = StepBeat(b, now + l)
  BY <1>2 DEF Start
<1> HIDE DEF b
<1>5. QED
  BY <1>1, <1>2, <1>3, <1>4, StepIsForward

(* Every step keeps the types.                                               *)
LEMMA TypedStep == Typed /\ [Next]_vars => Typed'
<1> USE RrdScheduleAssumption DEF Typed, TypeOK, AllPaces, Places
<1>1. Typed /\ Start => Typed'
  <2> SUFFICES ASSUME Typed, Start PROVE Typed'
    OBVIOUS
  <2>1. beat' \in Nat /\ now' \in Nat
    BY StartTyped
  <2>2. QED
    BY <2>1 DEF Start
<1>2. Typed /\ Wake => Typed'
  BY DEF Wake, Greater
<1>3. Typed /\ Read => Typed'
  BY DEF Read
<1>4. Typed /\ Store => Typed'
  BY TypedStore
<1>5. Typed /\ Step => Typed'
  BY StepIsForward DEF Step
<1>6. Typed /\ Restart => Typed'
  BY DEF Restart
<1>7. Typed /\ SetBack => Typed'
  BY DEF SetBack
<1>8. Typed /\ UNCHANGED vars => Typed'
  BY DEF vars
<1>9. QED
  BY <1>1, <1>2, <1>3, <1>4, <1>5, <1>6, <1>7, <1>8 DEF Next

-----------------------------------------------------------------------------
(* A reading taken between two times is stamped between their stamps.         *)
LEMMA StampBetween ==
  ASSUME NEW b \in Nat, NEW t \in Nat, NEW d \in Nat,
         2 * b <= t, t <= 2 * b + d
  PROVE  Stamp(t) >= b /\ Stamp(t) <= b + Stamp(d)
BY DEF Stamp

(* The stamp of a prompt reading lies before the next beat.                  *)
LEMMA StampBeforeNext ==
  ASSUME NEW b \in Nat, NEW t \in Nat, t < 2 * (b + Period) - 1
  PROVE  Stamp(t) < b + Period
BY RrdScheduleAssumption DEF Stamp

(* A beat that lies beyond the present second lies beyond the present time.  *)
LEMMA BeyondTheSecond ==
  ASSUME NEW t \in Nat, NEW b \in Nat, b > Seconds(t)
  PROVE  2 * b > t
BY SecondsOfTime

(* What a step to the next beat does to the beat.                            *)
LEMMA StartFacts ==
  ASSUME Typed, Start
  PROVE  /\ now' \in Nat /\ now' >= now
         /\ beat' \in Nat /\ beat' > Seconds(now') /\ 2 * beat' > now'
         /\ OnGrid(beat')
<1> DEFINE b == (Seconds(now) \div Period) * Period
<1>1. b \in Nat /\ OnGrid(b)
  BY PaceBounds, FirstBeat
<1>2. PICK l \in 0 .. pace.late : now' = now + l
  BY DEF Start
<1>3. now + l \in Nat /\ now + l >= now
  BY PaceBounds
<1>4. beat' = StepBeat(b, now + l)
  BY <1>2 DEF Start
<1> HIDE DEF b
<1>5. /\ beat' \in Nat /\ beat' > Seconds(now + l) /\ 2 * beat' > now + l
      /\ OnGrid(beat')
  BY <1>1, <1>3, <1>4, StepIsForward, StepStaysOnGrid, BeyondTheSecond
<1>6. Seconds(now') = Seconds(now + l)
  BY <1>2 DEF Seconds
<1>7. QED
  BY <1>2, <1>3, <1>5, <1>6

(* What the step from one beat to the next does.                             *)
LEMMA StepFacts ==
  ASSUME Typed, Step
  PROVE  /\ beat' \in Nat /\ beat' > Seconds(now) /\ 2 * beat' > now
         /\ beat' > beat
         /\ beat + Period > Seconds(now) => beat' = beat + Period
         /\ beat + Period <= Seconds(now) => beat' <= Seconds(now) + 2 * Period
         /\ OnGrid(beat) => OnGrid(beat')
BY PaceBounds, StepIsForward, StepStaysOnGrid, BeyondTheSecond DEF Step

(* What waking up does to the clock.                                         *)
LEMMA WakeFacts ==
  ASSUME Typed, Wake
  PROVE  /\ now' >= 2 * beat /\ now' >= now
         /\ 2 * beat > now => now' <= 2 * beat + pace.late
<1>1. PICK l \in 0 .. pace.late : now' = Greater(now, 2 * beat) + l
  BY DEF Wake
<1>2. QED
  BY <1>1, PaceBounds DEF Greater

(* What reading does to the clock.                                           *)
LEMMA ReadFacts ==
  ASSUME Typed, Read
  PROVE  /\ now' >= now /\ readAt' = now'
         /\ now' <= now + pace.read
<1>1. PICK d \in 0 .. pace.read : now' = now + d
  BY DEF Read
<1>2. QED
  BY <1>1, PaceBounds DEF Read

(* What recording does to the clock.                                         *)
LEMMA StoreFacts ==
  ASSUME Typed, Store
  PROVE  now' \in Nat /\ now' >= now /\ now' <= now + pace.store
<1>1. PICK d \in 0 .. pace.store : now' = now + d
  BY DEF Store
<1>2. QED
  BY <1>1, PaceBounds

(* What setting the clock back does to it.                                   *)
LEMMA SetBackFacts ==
  ASSUME Typed, SetBack
  PROVE  /\ now' \in Nat /\ now' <= now
         /\ pc \in pace.back /\ pc' = pc /\ pace' = pace
         /\ beat' = beat /\ readAt' = readAt /\ last' = last
BY PaceBounds DEF SetBack

-----------------------------------------------------------------------------
(* Every step keeps the beat on the grid and, where the worker sleeps, in    *)
(* the future.                                                               *)
LEMMA LoopStep == Typed /\ Loop /\ [Next]_vars => Loop'
<1>1. Typed /\ Loop /\ Start => Loop'
  BY StartFacts DEF Start, Loop
<1>2. Typed /\ Loop /\ (Wake \/ Read \/ Store) => Loop'
  BY DEF Wake, Read, Store, Loop
<1>3. Typed /\ Loop /\ Step => Loop'
  BY StepFacts DEF Step, Loop
<1>4. Typed /\ Loop /\ Restart => Loop'
  <2>1. OnGrid(0)
    BY RrdScheduleAssumption DEF OnGrid
  <2>2. QED
    BY <2>1 DEF Restart, Loop
<1>5. Typed /\ Loop /\ SetBack => Loop'
  BY PaceBounds, SetBackFacts DEF Loop
<1>6. Typed /\ Loop /\ UNCHANGED vars => Loop'
  BY DEF vars, Loop
<1>7. QED
  BY <1>1, <1>2, <1>3, <1>4, <1>5, <1>6 DEF Next

(* The variables are numbers before and after every step.                    *)
LEMMA Numbers ==
  ASSUME Typed, [Next]_vars
  PROVE  /\ now \in Nat /\ beat \in Nat /\ readAt \in Nat /\ last \in Nat \cup {-1}
         /\ now' \in Nat /\ beat' \in Nat /\ readAt' \in Nat
         /\ last' \in Nat \cup {-1}
         /\ pace.late \in Nat /\ pace.read \in Nat /\ pace.store \in Nat
         /\ Period \in Nat \ {0} /\ Seconds(pace.store) \in Nat
BY PaceBounds, TypedStep, SecondsOfTime, RrdScheduleAssumption DEF Typed, TypeOK

(* While nobody turns the clock during a reading, a record that is accepted  *)
(* is stamped with the time of the reading, at the beat or after it.         *)
LEMMA SteadyStore ==
  ASSUME Typed, SteadyLoop, Store, pc' # "aborted"
  PROVE  /\ pc' = "step" /\ beat' = beat /\ last' = Stamp(readAt)
         /\ last' \in Nat /\ beat <= last'
         /\ last' <= beat + Stamp(pace.late + pace.read)
         /\ now' <= 2 * last' + pace.store
         /\ now' <= 2 * beat + pace.late + pace.read + pace.store
<1>1. /\ now <= readAt /\ 2 * beat <= readAt
      /\ readAt <= 2 * beat + pace.late + pace.read
  BY DEF Store, SteadyLoop
<1>2. pc' = "step" /\ beat' = beat /\ last' = Stamp(readAt)
  BY DEF Store
<1>3. /\ now \in Nat /\ beat \in Nat /\ readAt \in Nat
      /\ pace.late \in Nat /\ pace.read \in Nat /\ pace.store \in Nat
  BY PaceBounds
<1>4. pace.late + pace.read \in Nat
      /\ readAt <= 2 * beat + (pace.late + pace.read)
  BY <1>1, <1>3
<1>5. /\ Stamp(readAt) >= beat
      /\ Stamp(readAt) <= beat + Stamp(pace.late + pace.read)
  BY <1>1, <1>3, <1>4, StampBetween
<1>6. Stamp(readAt) \in Nat /\ readAt <= 2 * Stamp(readAt)
  BY <1>3, SecondsOfTime
<1>7. now' \in Nat /\ now' <= now + pace.store
  BY StoreFacts
<1>8. QED
  BY <1>1, <1>2, <1>3, <1>5, <1>6, <1>7

(* Every step keeps the bounds on the time of the reading and the next beat. *)
LEMMA SteadyStep ==
  ASSUME Typed, Loop, SteadyLoop, Steady, [Next]_vars
  PROVE  SteadyLoop'
<1> USE Numbers
<1>1. ASSUME Start
      PROVE  SteadyLoop'
  BY <1>1 DEF Start, SteadyLoop
<1>2. ASSUME Wake
      PROVE  SteadyLoop'
  <2>1. now' >= 2 * beat /\ now' <= 2 * beat + pace.late
    BY <1>2, WakeFacts DEF Loop, Wake
  <2>2. QED
    BY <1>2, <2>1 DEF Wake, SteadyLoop
<1>3. ASSUME Read
      PROVE  SteadyLoop'
  <2>1. /\ readAt' = now' /\ 2 * beat <= readAt'
        /\ readAt' <= 2 * beat + pace.late + pace.read
    BY <1>3, ReadFacts DEF Read, SteadyLoop
  <2>2. QED
    BY <1>3, <2>1 DEF Read, SteadyLoop
<1>4. ASSUME Store
      PROVE  SteadyLoop'
  <2>1. CASE pc' = "aborted"
    BY <2>1 DEF SteadyLoop
  <2>2. CASE pc' # "aborted"
    <3>1. pc' = "step" /\ beat' <= last' /\ now' <= 2 * last' + pace.store
      BY <1>4, <2>2, SteadyStore
    <3>2. pace' = pace
      BY <1>4 DEF Store
    <3>3. QED
      BY <3>1, <3>2 DEF SteadyLoop
  <2>3. QED
    BY <2>1, <2>2
<1>5. ASSUME Step
      PROVE  SteadyLoop'
  <2>1. pc' = "sleep" /\ last' = last /\ now' = now /\ pace' = pace
    BY <1>5 DEF Step
  <2>2. beat <= last /\ now <= 2 * last + pace.store
    BY <1>5 DEF Step, SteadyLoop
  <2>3. Seconds(now) <= last + Seconds(pace.store) /\ Seconds(now) \in Nat
    BY <2>2, <1>5 DEF Next, Seconds
  <2>4. beat' <= last + Seconds(pace.store) + 2 * Period
    BY <1>5, <2>2, <2>3, StepFacts DEF Next
  <2>5. QED
    BY <2>1, <2>4 DEF SteadyLoop
<1>6. ASSUME Restart
      PROVE  SteadyLoop'
  BY <1>6 DEF Restart, SteadyLoop
<1>7. ASSUME SetBack
      PROVE  SteadyLoop'
  <2>1. pc # "read"
    BY <1>7, SetBackFacts DEF Steady
  <2>2. pc = "step" => beat' <= last' /\ now' <= 2 * last' + pace.store
    BY <1>7, SetBackFacts DEF SteadyLoop
  <2>3. pc = "store" => now' <= readAt'
    BY <1>7, SetBackFacts DEF SteadyLoop
  <2>4. QED
    BY <1>7, <2>1, <2>2, <2>3, SetBackFacts DEF SteadyLoop
<1>8. ASSUME UNCHANGED vars
      PROVE  SteadyLoop'
  BY <1>8 DEF vars, SteadyLoop
<1>9. QED
  BY <1>1, <1>2, <1>3, <1>4, <1>5, <1>6, <1>7, <1>8 DEF Next

(* No beat up to the last stamp lies in the future; kept apart, because it   *)
(* quantifies over the beats.                                                *)
Gone == \A b \in 0 .. last : OnGrid(b) => b <= Seconds(now)

(* What has gone by stays so while the clock goes on.                        *)
LEMMA GoneLater ==
  ASSUME Typed, Typed', Gone, last' = last, now' >= now
  PROVE  Gone'
<1>1. now \in Nat /\ now' \in Nat
  BY DEF Typed, TypeOK
<1>2. Seconds(now) <= Seconds(now') /\ Seconds(now) \in Nat /\ Seconds(now') \in Nat
  BY <1>1, SecondsOfTime, SecondsMonotone
<1>3. SUFFICES ASSUME NEW b \in 0 .. last', OnGrid(b)
               PROVE  b <= Seconds(now')
  BY DEF Gone, Seconds
<1>4. b <= Seconds(now) /\ b \in Nat
  BY <1>3 DEF Gone
<1>5. QED
  BY <1>2, <1>4

(* A record stamps no beat but the one it is taken for, which has gone by.   *)
LEMMA GoneAfterStore ==
  ASSUME Typed, Typed', OnGrid(beat), last' < beat + Period, now' >= 2 * beat
  PROVE  Gone'
<1>1. beat \in Nat /\ now' \in Nat /\ Period \in Nat /\ last' \in Nat \cup {-1}
  BY RrdScheduleAssumption DEF Typed, TypeOK
<1>2. beat <= Seconds(now') /\ Seconds(now') \in Nat
  BY <1>1, SecondsOfTime, BeatGone
<1>3. SUFFICES ASSUME NEW b \in 0 .. last', OnGrid(b)
               PROVE  b <= Seconds(now')
  BY DEF Gone, Seconds
<1>4. b \in Nat /\ b < beat + Period
  BY <1>1
<1>5. ~(beat < b)
  BY <1>1, <1>3, <1>4, GridGap
<1>6. QED
  BY <1>1, <1>2, <1>4, <1>5

(* The first beat after a restart comes after the last stamp.                *)
LEMMA FirstAfterLast ==
  ASSUME Typed, Typed', Gone, Start
  PROVE  last < beat'
<1>1. /\ beat' \in Nat /\ beat' > Seconds(now') /\ now' \in Nat /\ now' >= now
      /\ OnGrid(beat')
  BY StartFacts
<1>2. last \in Nat \cup {-1} /\ Seconds(now) \in Nat /\ Seconds(now') \in Nat
      /\ Seconds(now) <= Seconds(now')
  BY <1>1, PaceBounds, SecondsOfTime, SecondsMonotone
<1>3. ~(beat' \in 0 .. last)
  BY <1>1, <1>2 DEF Gone
<1>4. QED
  BY <1>1, <1>2, <1>3

(* A prompt reading is stamped before the next beat.                         *)
LEMMA PromptStamp ==
  ASSUME Typed, SteadyLoop, Prompt, pc = "store"
  PROVE  Stamp(readAt) \in Nat /\ beat <= Stamp(readAt) /\ Stamp(readAt) < beat + Period
<1>1. /\ 2 * beat <= readAt /\ readAt <= 2 * beat + pace.late + pace.read
      /\ pace.late + pace.read < 2 * Period - 1
  BY DEF SteadyLoop, Prompt
<1>2. /\ beat \in Nat /\ readAt \in Nat /\ pace.late \in Nat /\ pace.read \in Nat
      /\ Period \in Nat
  BY PaceBounds, RrdScheduleAssumption
<1>3. readAt < 2 * (beat + Period) - 1
  BY <1>1, <1>2
<1>4. Stamp(readAt) < beat + Period
  BY <1>2, <1>3, StampBeforeNext
<1>5. Stamp(readAt) \in Nat /\ readAt <= 2 * Stamp(readAt)
  BY <1>2, SecondsOfTime
<1>6. QED
  BY <1>1, <1>2, <1>4, <1>5

(* AcceptedLoop with its quantifier folded.                                  *)
LEMMA AcceptedIs ==
  AcceptedLoop <=> /\ pc # "aborted"
                   /\ pc \in {"sleep", "read", "store"} => last < beat
                   /\ pc = "step" => last < beat + Period
                   /\ pace.back = {} => (pc = "store" => now = readAt) /\ Gone
BY DEF AcceptedLoop, Gone

(* The same of the next state.                                               *)
LEMMA AcceptedIsNext ==
  AcceptedLoop' <=> /\ pc' # "aborted"
                    /\ pc' \in {"sleep", "read", "store"} => last' < beat'
                    /\ pc' = "step" => last' < beat' + Period
                    /\ pace'.back = {} => (pc' = "store" => now' = readAt') /\ Gone'
BY DEF AcceptedLoop, Gone, Seconds

(* The stamp of a prompt reading is later than the last one.                 *)
LEMMA AcceptedStep ==
  ASSUME Typed, Loop, SteadyLoop, AcceptedLoop, Prompt, Ordered, [Next]_vars
  PROVE  AcceptedLoop'
<1> USE Numbers
<1>0. Typed'
  BY TypedStep
<1>1. ASSUME Start
      PROVE  AcceptedLoop'
  <2>1. /\ now' >= now /\ last' = last /\ pc' = "sleep" /\ pc = "start"
        /\ pace' = pace
    BY <1>1, StartFacts DEF Start
  <2>2. pace.back = {} => last < beat' /\ Gone'
    BY <1>0, <1>1, <2>1, FirstAfterLast, GoneLater, AcceptedIs
  <2>3. ~pace.restarts => last = -1
    BY <2>1 DEF SteadyLoop
  <2>4. last < beat'
    BY <2>2, <2>3 DEF Ordered
  <2>5. QED
    BY <2>1, <2>2, <2>4, AcceptedIsNext
<1>2. ASSUME Wake
      PROVE  AcceptedLoop'
  <2>1. now' >= now /\ pc' = "read" /\ last' = last /\ beat' = beat /\ pace' = pace
        /\ pc = "sleep"
    BY <1>2, WakeFacts DEF Wake
  <2>2. last < beat /\ (pace.back = {} => Gone')
    BY <1>0, <2>1, GoneLater, AcceptedIs
  <2>3. QED
    BY <2>1, <2>2, AcceptedIsNext
<1>3. ASSUME Read
      PROVE  AcceptedLoop'
  <2>1. /\ now' >= now /\ readAt' = now' /\ pc' = "store" /\ last' = last
        /\ beat' = beat /\ pace' = pace /\ pc = "read"
    BY <1>3, ReadFacts DEF Read
  <2>2. last < beat /\ (pace.back = {} => Gone')
    BY <1>0, <2>1, GoneLater, AcceptedIs
  <2>3. QED
    BY <2>1, <2>2, AcceptedIsNext
<1>4. ASSUME Store
      PROVE  AcceptedLoop'
  <2>1. pc = "store" /\ last < beat
    BY <1>4, AcceptedIs DEF Store
  <2>2. beat <= Stamp(readAt) /\ Stamp(readAt) < beat + Period /\ Stamp(readAt) \in Nat
    BY <2>1, PromptStamp
  <2>3. Stamp(readAt) > last /\ ~(Stamp(readAt) <= last)
    BY <2>1, <2>2
  <2>4. pc' = "step" /\ last' = Stamp(readAt) /\ beat' = beat /\ pace' = pace
    BY <1>4, <2>3 DEF Store
  <2>5. pace.back = {} => now = readAt
    BY <2>1, AcceptedIs
  <2>6. now' >= now /\ 2 * beat <= readAt
    BY <1>4, <2>1, StoreFacts DEF SteadyLoop
  <2>7. pace.back = {} => Gone'
    <3>1. SUFFICES ASSUME pace.back = {}
                   PROVE  Gone'
      OBVIOUS
    <3>2. last' < beat + Period /\ now' >= 2 * beat
      BY <2>2, <2>4, <2>5, <2>6, <3>1
    <3>3. QED
      BY <1>0, <3>2, GoneAfterStore DEF Loop
  <2>8. last' < beat' + Period
    BY <2>2, <2>4
  <2>9. QED
    BY <2>4, <2>7, <2>8, AcceptedIsNext
<1>5. ASSUME Step
      PROVE  AcceptedLoop'
  <2>1. now' = now /\ last' = last /\ pc' = "sleep" /\ pace' = pace /\ pc = "step"
    BY <1>5 DEF Step
  <2>2. last < beat + Period /\ (pace.back = {} => Gone')
    BY <1>0, <2>1, GoneLater, AcceptedIs
  <2>3. beat' > Seconds(now) /\ Seconds(now) \in Nat
        /\ (beat + Period > Seconds(now) => beat' = beat + Period)
    BY <1>5, StepFacts, SecondsOfTime
  <2>4. last < beat'
    BY <2>2, <2>3
  <2>5. QED
    BY <2>1, <2>2, <2>4, AcceptedIsNext
<1>6. ASSUME Restart
      PROVE  AcceptedLoop'
  <2>1. now' = now /\ last' = last /\ pc' = "start" /\ pace' = pace
    BY <1>6 DEF Restart
  <2>2. pace.back = {} => Gone'
    BY <1>0, <2>1, GoneLater, AcceptedIs
  <2>3. QED
    BY <2>1, <2>2, AcceptedIsNext
<1>7. ASSUME SetBack
      PROVE  AcceptedLoop'
  <2>1. pace.back # {} /\ pace' = pace /\ pc' = pc /\ last' = last /\ beat' = beat
    BY <1>7, SetBackFacts
  <2>2. QED
    BY <2>1, AcceptedIs, AcceptedIsNext
<1>8. ASSUME UNCHANGED vars
      PROVE  AcceptedLoop'
  BY <1>8 DEF vars, AcceptedLoop
<1>9. QED
  BY <1>1, <1>2, <1>3, <1>4, <1>5, <1>6, <1>7, <1>8 DEF Next

(* The record before belongs to the beat before, at every step.              *)
LEMMA PunctualStep ==
  ASSUME Typed, Loop, SteadyLoop, AcceptedLoop, PunctualLoop, Punctual,
         [Next]_vars
  PROVE  PunctualLoop'
<1>0. /\ Prompt /\ ~pace.restarts
      /\ pace.late + pace.read + pace.store < 2 * Period
  BY DEF Punctual
<1> USE Numbers
<1>1. ASSUME Start
      PROVE  PunctualLoop'
  BY <1>1 DEF Start, PunctualLoop
<1>2. ASSUME Wake \/ Read
      PROVE  PunctualLoop'
  BY <1>2 DEF Wake, Read, PunctualLoop
<1>3. ASSUME Store
      PROVE  PunctualLoop'
  <2>1. last < beat /\ beat <= Stamp(readAt) /\ Stamp(readAt) < beat + Period
        /\ Stamp(readAt) \in Nat
    BY <1>0, <1>3, PromptStamp, AcceptedIs DEF Store
  <2>2. pc' # "aborted"
    BY <1>3, <2>1 DEF Store
  <2>3. /\ pc' = "step" /\ last' = Stamp(readAt) /\ beat' = beat
        /\ now' <= 2 * beat + pace.late + pace.read + pace.store
    BY <1>0, <1>3, <2>2, SteadyStore
  <2>4. now' < 2 * (beat + Period)
    BY <1>0, <2>3
  <2>5. last' \in beat .. beat + Period - 1
    BY <2>1, <2>3
  <2>6. QED
    BY <2>3, <2>4, <2>5 DEF PunctualLoop
<1>4. ASSUME Step
      PROVE  PunctualLoop'
  <2>1. last \in beat .. beat + Period - 1 /\ now < 2 * (beat + Period)
    BY <1>4 DEF Step, PunctualLoop
  <2>2. beat + Period > Seconds(now)
    BY <2>1, BeatGone
  <2>3. beat' = beat + Period
    BY <1>4, <2>2, StepFacts
  <2>4. pc' = "sleep" /\ last' = last
    BY <1>4 DEF Step
  <2>5. last' \in beat' - Period .. beat' - 1
    BY <2>1, <2>3, <2>4
  <2>6. QED
    BY <2>4, <2>5 DEF PunctualLoop
<1>5. ASSUME Restart
      PROVE  PunctualLoop'
  BY <1>0, <1>5 DEF Restart
<1>6. ASSUME SetBack
      PROVE  PunctualLoop'
  BY <1>6, SetBackFacts DEF PunctualLoop
<1>7. ASSUME UNCHANGED vars
      PROVE  PunctualLoop'
  BY <1>7 DEF vars, PunctualLoop
<1>8. QED
  BY <1>1, <1>2, <1>3, <1>4, <1>5, <1>6, <1>7 DEF Next

(* The pace never changes.                                                   *)
LEMMA PaceStays ==
  ASSUME [Next]_vars
  PROVE  pace' = pace
BY DEF Next, vars, Start, Wake, Read, Store, Step, Restart, SetBack

-----------------------------------------------------------------------------
\* The invariant, with the pace one that may be reasoned about as numbers.
Inductive == IInv /\ pace \in AllPaces

(* The first state satisfies the invariant.                                  *)
LEMMA InductiveInit == Init => Inductive
<1> SUFFICES ASSUME Init
             PROVE  Inductive
  OBVIOUS
<1>1. Typed
  BY TypedInit
<1>2. pc = "start" /\ last = -1 /\ now \in Nat /\ beat = 0
  BY PaceBounds, <1>1 DEF Init
<1>3. OnGrid(0)
  BY RrdScheduleAssumption DEF OnGrid
<1>4. Loop /\ PunctualLoop /\ SteadyLoop /\ AcceptedLoop
  BY <1>2, <1>3 DEF Loop, PunctualLoop, SteadyLoop, AcceptedLoop
<1>5. QED
  BY <1>1, <1>4 DEF Inductive, IInv, Typed

(* Every step keeps it.                                                      *)
LEMMA InductiveStep == Inductive /\ [Next]_vars => Inductive'
<1> SUFFICES ASSUME Inductive, [Next]_vars
             PROVE  Inductive'
  OBVIOUS
<1>1. /\ Typed /\ Loop
      /\ Steady => SteadyLoop
      /\ Prompt /\ Ordered => AcceptedLoop
      /\ Punctual => PunctualLoop
  BY DEF Inductive, IInv, Typed
<1>2. Typed' /\ Loop'
  BY <1>1, TypedStep, LoopStep
<1>3. /\ Steady' <=> Steady
      /\ Prompt' <=> Prompt
      /\ Punctual' <=> Punctual
      /\ Ordered' <=> Ordered
  BY PaceStays DEF Prompt, Punctual, Ordered, Steady
<1>4. Steady' => SteadyLoop'
  BY <1>1, <1>3, SteadyStep
<1>5. Prompt' /\ Ordered' => AcceptedLoop'
  BY <1>1, <1>3, AcceptedStep DEF Prompt
<1>6. Punctual' => PunctualLoop'
  BY <1>1, <1>3, PunctualStep DEF Punctual, Prompt, Ordered
<1>7. QED
  BY <1>2, <1>4, <1>5, <1>6 DEF Inductive, IInv, Typed

(* So it holds throughout.                                                   *)
LEMMA InductiveHolds == Spec => []Inductive
BY InductiveInit, InductiveStep, PTL DEF Spec

(* A step that adds a record is Store, and RRDtool accepts the record.       *)
LEMMA RecordIsStored ==
  ASSUME [Next]_vars, last' # last
  PROVE  Store /\ pc = "store" /\ pc' # "aborted"
<1>1. Store
  BY DEF Next, vars, Start, Wake, Read, Step, Restart, SetBack
<1>2. QED
  BY <1>1 DEF Store

-----------------------------------------------------------------------------
(* Every variable of the schedule keeps its type, for every period.          *)
THEOREM TypeCorrect == Spec => []TypeOK
<1>1. Inductive => TypeOK
  BY DEF Inductive, IInv
<1>2. QED
  BY <1>1, InductiveHolds, PTL

(* Whatever the period, however slow everything is and wherever the clock is *)
(* set back, run() never sleeps for a beat that has gone by.                 *)
THEOREM BeatsInFuture == Spec => []BeatInFuture
<1>1. Inductive => BeatInFuture
  BY DEF Inductive, IInv, Loop, BeatInFuture
<1>2. QED
  BY <1>1, InductiveHolds, PTL

(* No reading is stamped with a time before its beat, unless the clock is    *)
(* set back while the reading is taken.                                      *)
THEOREM RecordsAtBeat == Spec => []RecordAtBeat
<1>1. Inductive => RecordAtBeat
  <2> SUFFICES ASSUME Inductive, Steady, pc = "store"
               PROVE  Stamp(readAt) >= beat
    BY DEF RecordAtBeat
  <2>1. Typed /\ readAt >= 2 * beat
    BY DEF Inductive, IInv, Typed, SteadyLoop
  <2>2. QED
    BY <2>1, PaceBounds, SecondsOfTime
<1>2. QED
  BY <1>1, InductiveHolds, PTL

(* RRDtool refuses no record of a worker that wakes up and reads promptly,   *)
(* however long it takes to record, unless the clock is set back and the     *)
(* process restarted afterwards.                                             *)
THEOREM NeverIsRefused == Spec => []NeverRefused
<1>1. Inductive => NeverRefused
  BY DEF Inductive, IInv, AcceptedLoop, NeverRefused
<1>2. QED
  BY <1>1, InductiveHolds, PTL

(* A punctual worker adds one record in every period, however the times it   *)
(* needs for waking up, reading and recording are distributed.               *)
THEOREM NoBeatIsLeftOut == Spec => NoBeatLeftOut
<1> DEFINE Recorded == Punctual /\ last' # last
                         => /\ last' \in beat .. beat + Period - 1
                            /\ last # -1 => last \in beat - Period .. beat - 1
<1>1. Inductive /\ [Next]_vars => [Recorded]_vars
  <2> SUFFICES ASSUME Inductive, [Next]_vars, Punctual, last' # last
               PROVE  Recorded
    BY DEF Recorded
  <2>1. Store /\ pc = "store" /\ pc' # "aborted"
    BY RecordIsStored
  <2>2. Typed /\ SteadyLoop /\ PunctualLoop /\ Prompt
    BY DEF Inductive, IInv, Typed, Punctual, Prompt
  <2>3. last' = Stamp(readAt)
    BY <2>1, <2>2, SteadyStore
  <2>4. beat <= Stamp(readAt) /\ Stamp(readAt) < beat + Period /\ Stamp(readAt) \in Nat
    BY <2>1, <2>2, PromptStamp
  <2>5. last' \in beat .. beat + Period - 1
    BY <2>2, <2>3, <2>4, PaceBounds, RrdScheduleAssumption
  <2>6. last # -1 => last \in beat - Period .. beat - 1
    BY <2>1, <2>2 DEF PunctualLoop
  <2>7. QED
    BY <2>5, <2>6
<1>2. QED
  BY <1>1, InductiveHolds, PTL DEF Spec, NoBeatLeftOut

(* However slow the worker is and however often it is restarted: as long as  *)
(* nobody turns the clock during a reading, it records for beats on the grid *)
(* of the period only, and takes up recording soon after a miss.             *)
THEOREM ResumesOnTheGrid == Spec => ResumesOnGrid
<1> DEFINE Resumed == Steady /\ last' # last
                        => /\ OnGrid(beat)
                           /\ last' \in beat .. beat + Stamp(pace.late + pace.read)
                           /\ ~pace.restarts /\ last # -1
                                => beat <= last + Seconds(pace.store) + 2 * Period
<1>1. Inductive /\ [Next]_vars => [Resumed]_vars
  <2> SUFFICES ASSUME Inductive, [Next]_vars, Steady, last' # last
               PROVE  Resumed
    BY DEF Resumed
  <2>1. Store /\ pc = "store" /\ pc' # "aborted"
    BY RecordIsStored
  <2>2. Typed /\ SteadyLoop /\ OnGrid(beat)
    BY DEF Inductive, IInv, Typed, Loop
  <2>3. /\ last' \in Nat /\ beat <= last'
        /\ last' <= beat + Stamp(pace.late + pace.read)
    BY <2>1, <2>2, SteadyStore
  <2>4. beat \in Nat /\ pace.late + pace.read \in Nat
    BY <2>2, PaceBounds
  <2>5. Stamp(pace.late + pace.read) \in Nat
    BY <2>4, SecondsOfTime
  <2>6. last' \in beat .. beat + Stamp(pace.late + pace.read)
    BY <2>3, <2>4, <2>5
  <2>7. ~pace.restarts /\ last # -1
          => beat <= last + Seconds(pace.store) + 2 * Period
    BY <2>1, <2>2 DEF SteadyLoop
  <2>8. QED
    BY <2>2, <2>6, <2>7
<1>2. QED
  BY <1>1, InductiveHolds, PTL DEF Spec, ResumesOnGrid

-----------------------------------------------------------------------------
(* The database.                                                             *)

(* The step a time belongs to is the one that begins at the multiple of the  *)
(* period before it.                                                         *)
LEMMA StepOfTime ==
  ASSUME NEW k \in Nat, NEW t \in Nat, k * Period <= t, t < k * Period + Period
  PROVE  t \div Period = k
<1> DEFINE q == t \div Period
<1>1. Period \in Nat \ {0}
  BY RrdScheduleAssumption
<1>2. q \in Nat /\ q * Period \in Nat /\ q * Period <= t /\ t < (q + 1) * Period
  BY <1>1, Division
<1>3. (q + 1) * Period = q * Period + Period /\ k * Period \in Nat
  BY <1>1, <1>2
<1> HIDE DEF q
<1>4. OnGrid(k * Period) /\ OnGrid(q * Period)
  BY <1>2, MultiplesOnGrid
<1>5. k * Period = q * Period
  <2>1. ASSUME k * Period < q * Period PROVE FALSE
    <3>1. k * Period + Period <= q * Period
      BY <1>2, <1>3, <1>4, <2>1, GridGap
    <3>2. QED
      BY <1>1, <1>2, <1>3, <3>1
  <2>2. ASSUME q * Period < k * Period PROVE FALSE
    <3>1. q * Period + Period <= k * Period
      BY <1>2, <1>3, <1>4, <2>2, GridGap
    <3>2. QED
      BY <1>1, <1>2, <1>3, <3>1
  <2>3. QED
    BY <1>2, <1>3, <2>1, <2>2
<1>6. k = q
  BY <1>1, <1>2, <1>5
<1>7. QED
  BY <1>6 DEF q

(* Before the beat of a step there are earlier steps only, and a period       *)
(* before it, the step before.                                               *)
LEMMA StepBefore ==
  ASSUME NEW k \in Nat, NEW t \in Nat \cup {-1}, t < k * Period
  PROVE  /\ t \div Period \in Int /\ t \div Period < k
         /\ t # -1 /\ k * Period - Period <= t => t \div Period = k - 1
<1>1. Period \in Nat \ {0} /\ k * Period \in Nat
  BY RrdScheduleAssumption
<1>2. CASE t = -1
  <2>1. (-1) \div Period = -1
    BY <1>1
  <2>2. QED
    BY <1>2, <2>1
<1>3. CASE t \in Nat
  <2> DEFINE q == t \div Period
  <2>1. q \in Nat /\ q * Period \in Nat /\ q * Period <= t
    BY <1>1, <1>3, Division
  <2> HIDE DEF q
  <2>2. q < k
    <3>1. SUFFICES ASSUME k <= q PROVE FALSE
      BY <2>1
    <3>2. PICK m \in Nat : q = k + m
      BY <2>1, <3>1
    <3>3. q * Period = k * Period + m * Period /\ m * Period \in Nat
      BY <1>1, <3>2
    <3>4. QED
      BY <1>1, <1>3, <2>1, <3>3
  <2>3. ASSUME k * Period - Period <= t
        PROVE  q = k - 1
    <3>1. k - 1 \in Nat
      BY <2>1, <2>2
    <3>2. (k - 1) * Period = k * Period - Period
      BY <1>1
    <3>3. QED
      BY <1>1, <1>3, <2>3, <3>1, <3>2, StepOfTime DEF q
  <2>4. QED
    BY <2>1, <2>2, <2>3 DEF q
<1>4. QED
  BY <1>2, <1>3

(* Every step of the schedule is an update of the database, or none.         *)
LEMMA DatabaseStep ==
  ASSUME Inductive, Inductive', [Next]_vars
  PROVE  [Database!Update]_(Database!vars)
<1>1. pace' = pace /\ Typed /\ Typed'
  BY PaceStays DEF Inductive, IInv, Typed
<1>2. (Prompt' <=> Prompt) /\ (Ordered' <=> Ordered) /\ Punctual' = Punctual
  BY <1>1 DEF Punctual, Prompt, Steady, Ordered
<1>3. CASE ~(Prompt /\ Ordered) \/ last' = last
  BY <1>2, <1>3 DEF Database!vars
<1>4. CASE Prompt /\ Ordered /\ last' # last
  <2>1. Store /\ pc = "store" /\ pc' # "aborted"
    BY <1>4, RecordIsStored
  <2>2. SteadyLoop /\ AcceptedLoop /\ Steady
    BY <1>4 DEF Inductive, IInv, Prompt
  <2>3. last' = Stamp(readAt)
    BY <1>1, <2>1, <2>2, SteadyStore
  <2>4. beat <= last' /\ last' < beat + Period /\ last' \in Nat
    BY <1>1, <1>4, <2>1, <2>2, <2>3, PromptStamp
  <2>5. Period \in Nat \ {0} /\ beat \in Nat /\ last \in Nat \cup {-1} /\ last < beat
    BY <1>1, <2>1, <2>2, PaceBounds, RrdScheduleAssumption DEF AcceptedLoop
  <2>6. PICK k \in Nat : beat = k * Period
    BY <2>5 DEF Inductive, IInv, Loop, OnGrid
  <2>7. last' \div Period = k
    BY <2>4, <2>6, StepOfTime
  <2>8. /\ last \div Period < k
        /\ last # -1 /\ beat - Period <= last => last \div Period = k - 1
    BY <2>5, <2>6, StepBefore
  <2>9. ASSUME Punctual, last # -1
        PROVE  last' \div Period = last \div Period + 1 /\ last' < last + 2 * Period
    <3>1. beat - Period <= last
      BY <2>1, <2>5, <2>9 DEF Inductive, IInv, PunctualLoop
    <3>2. last \div Period = k - 1
      BY <2>8, <2>9, <3>1
    <3>3. last' \div Period = last \div Period + 1
      BY <2>6, <2>7, <3>2
    <3>4. last' < last + 2 * Period
      BY <2>4, <2>5, <2>9, <3>1
    <3>5. QED
      BY <3>3, <3>4
  <2>10. Database!Update
    BY <1>2, <1>4, <2>4, <2>7, <2>8, <2>9 DEF Database!Update, Database!StepOf
  <2>11. QED
    BY <2>10
<1>5. QED
  BY <1>3, <1>4

(* A prompt worker makes no two records in one step of the database; and a   *)
(* punctual one makes one in each, before the heartbeat has passed.          *)
THEOREM DatabaseIsFilled == Spec => FillsDatabase
<1>1. Init => Database!Init
  BY DEF Init, Database!Init, Punctual, Prompt, Steady
<1>2. QED
  BY <1>1, DatabaseStep, InductiveHolds, PTL
     DEF Spec, FillsDatabase, Database!Spec

-----------------------------------------------------------------------------
(* What the comment on stepBeat promises, "the smallest multiple of          *)
(* _pollingPeriod such that the new _timeBeat value is located in the        *)
(* future" (worker_rrd.cpp:105), it keeps for a beat that has come exactly   *)
(* as long as the next one has not been missed; after a miss it skips just   *)
(* one beat that lies in the future.                                         *)
THEOREM StepBeatIsSmallest ==
  ASSUME NEW b \in Nat, NEW t \in Nat, b <= Seconds(t)
  PROVE  /\ StepBeat(b, t) - Period <= Seconds(t) <=> b + Period > Seconds(t)
         /\ StepBeat(b, t) - 2 * Period <= Seconds(t)
<1>1. Period \in Nat \ {0} /\ Seconds(t) \in Nat
  BY RrdScheduleAssumption, SecondsOfTime
<1>2. CASE b + Period > Seconds(t)
  BY <1>1, <1>2 DEF StepBeat
<1>3. CASE ~(b + Period > Seconds(t))
  <2> DEFINE d == Seconds(t) - b
             q == d \div Period
  <2>1. d \in Nat
    BY <1>1
  <2>2. q \in Nat /\ q * Period \in Nat /\ q * Period <= d /\ d < (q + 1) * Period
    BY <1>1, <2>1, Division
  <2>3. (q + 1) * Period = q * Period + Period
        /\ (q + 2) * Period = q * Period + 2 * Period
    BY <1>1, <2>2
  <2>4. StepBeat(b, t) = b + (q + 2) * Period
    BY <1>3 DEF StepBeat
  <2> HIDE DEF q
  <2>5. QED
    BY <1>1, <1>3, <2>1, <2>2, <2>3, <2>4
<1>4. QED
  BY <1>2, <1>3

=============================================================================
