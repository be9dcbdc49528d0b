# lm50client: specification, model checking and proofs

lm50client reads the 50 counters of an LM50TCP+, a device that counts electric
impulses, over ModBus/TCP. It prints them once (modes *human* and *cacti*) or
runs as a daemon that polls the device periodically and records the values in a
round robin database (mode *daemon*). This directory holds TLA+ specifications of
what in the program is hard to get right: two threads, signals, a connection that
comes and goes, answers that are late or in pieces, numbers in the byte order of
somebody else, options from two sources, and a clock.

To repeat the work, in this directory:

    tlc -workers 2 -config daemon.cfg MCDaemon     # any run of the table below
    tlapm DaemonProofs.tla                         # any of the eight *Proofs modules

`PROJECT.json` lists the runs, what each definition stands for in the source
(`map`), the hazards and the findings.


## 1. The system

    main() -- LM50ClientApp -- ProgramOptions
                   |
                   +-- ModeHuman, ModeCacti --------+
                   |                                |
                   +-- ModeDaemon -- (mutex) -- LM50Device -- TcpCommunication
                           |                        |
                           +-- DaemonWorker         +-- TcpRequestAndReply -- asio
                                   |                        |
                                   WorkerRrd -- rrd_update_r   Base::createObject
                                                               (the datagrams)

| Component | Source | State | Operations | Who calls it |
|---|---|---|---|---|
| Daemon mode | `apps/mode_daemon.*` | `_isCancelled`, `_mutex`, the device object, (DEBUG) `_mutex_owner` | `run` = init, daemonize, block signals, start worker, sigwait, cancel, terminate, deinit; `lockDevice`, `unlockDevice`, `deviceUpdate`, `deviceLastUpdate`, `deviceChannel` | main thread; the worker calls the last five |
| Worker thread | `apps/daemon_worker.*` | `_thread`, `_isCancelled`, `_isRunning` | `start`, `terminate`, `main`, destructor | main thread; `main` is the thread |
| RRD worker | `apps/worker_rrd.*` | `_timeBeat`, `_timeUpdate`, `_chValues`; the RRD file outlives the process | `run`, `stepBeat`, `sleepUntilBeat`, `obtainValues`, `updateRRD` | the worker thread |
| Device object | `core/lm50device.*` | `_revision`, `_serialNo`, `_channels`, `_lastUpdate`, `_lastRequestId`, `_lastReplyId` | `connect`, `disconnect`, `readSteadyValues`, `updateVolatileValues`, the getters | the three modes |
| Request and reply | `lib/mb_tcprar.*` | counts of bytes sent and received, the timer, the buffers | `run`, `handleSend`, `handleReceive`, `handleDeadline` | the device object; asio calls the handlers |
| TCP connection | `lib/mb_tcpcomm.*` | socket, io_service | `open`, `close` | the device object |
| Datagrams | `lib/mb_base.*`, `mb_r*reg*.*`, `mb_errorres.*`, `mb_generic.*` | the bytes | `createObject`, `missingBytes`, the constructors, getters and setters | request and reply, device object |
| Interpreters | `lib/mb_uint16.*`, `mb_uint32.*`, `mb_ascii.*` | none | constructors, `value`, `string` | device object |
| Options | `apps/program_options.*` | the options | `parse` and its passes over two sources | main() |
| Human, cacti | `apps/mode_human.*`, `mode_cacti.*` | none | `run` | main() |
| Application | `apps/lm50client.*` | the mode | `run`, main()'s catch clauses | |
| Init script | `etc/init.d/lm50client` | the process | start, stop, restart | the administrator |

How they interact. The main thread and the worker share the device object, the
mutex and three plain `bool`s; the main thread also sends the worker a signal (DEBUG
builds only) and joins it. Within an exchange asio runs one completion handler at a
time, but the kernel, the peer and the clock complete the operations in any order.
Between exchanges the TCP connection keeps what was under way: the answer to a
request whose time-out has passed arrives during a later call.

What is hard, and what makes each part correct:

* **Daemon.** A signal may come at any time: before the worker has executed its
  first instruction, while it sleeps, while it holds the mutex in an endless loop.
  Correct means that the process ends cleanly then, that the main thread's own,
  unlocked uses of the device never meet the worker's, that no exchange is tried on a
  dead connection and that old values are not recorded as new ones.
* **Request and reply.** The deadline and the last bytes race; an answer may come in
  pieces; the peer announces its own length. Correct means that the buffers hold, that
  only a complete datagram becomes a response, and that the call ends.
* **Datagrams.** Lengths are stated three times (header, byte count, bytes received)
  and a request is told from a response by a length of 6. The bytes of an object are
  cast to structures and set in place, in the byte order of the network, on hosts of
  either order. Correct means that exactly the complete and consistent datagrams are
  accepted, and every answer to a request this program sends; that an object stays
  what it was made as; and that numbers arrive as they were sent.
* **Options and application.** An option may come from the command line, the
  configuration file, both, or twice; the channels are sorted, freed of duplicates,
  decremented as unsigned numbers and only then compared with their limit. Correct
  means that exactly the channels asked for are printed, and that an exit status of 0
  stands for a complete output.
* **Device object.** Correct means that an answer is never taken for another one's,
  that a failed update leaves the readings alone, and that what a getter returns
  was read.
* **Schedule.** The clock goes on during every call; beats are whole seconds, stamps
  are rounded. Correct means that every beat is recorded once and under its own time.

`PROJECT.json` lists the places under `hazards`, each at its line.


## 2. The modules

| Module | Models | Extends |
|---|---|---|
| `Daemon` | both threads, the mutex, flags, signals, the reconnection loops, the end of the process | - |
| `RrdSchedule` | the worker's loop against the clock, with the arithmetic on beats and stamps | Integers |
| `RoundRobin` | what the database of `README.txt` has to be given; `RrdSchedule` implements it | Integers |
| `Datagram` | the datagrams as the tests in the code see them; requests and answers | Integers |
| `DatagramObject` | the life of one datagram object: constructed or received, set, interpreted; byte order | `Datagram` |
| `TcpRar` | one call of `TcpRequestAndReply::run` on a model of the asio operations | `Datagram` |
| `Exchange` | what that call promises; `TcpRar` implements it | - |
| `LM50Device` | all calls of the device object over a connection with a late, silent or wrong peer | Sequences, Functions |
| `Readings` | what `updateVolatileValues` promises; `LM50Device` implements it | Naturals |
| `ProgramOptions` | `parse`: a function from the two sources of options to their values or an exception | Integers, Sequences, FiniteSets, Functions |
| `LM50Client` | main(), the application object and the three modes as callers of the device object | `LM50Device`, `ProgramOptions` |
| `MC...` | values of the constants for TLC | the above |
| `DaemonProofs`, `DatagramProofs`, `DatagramObjectProofs`, `TcpRarProofs`, `LM50DeviceProofs`, `ProgramOptionsProofs`, `LM50ClientProofs`, `RrdScheduleProofs` | theorems | the above, TLAPS |

The same activity appears at three grains. An exchange is a sequence of handlers in
`TcpRar`, one step (a request sent, then an outcome) in `LM50Device`, and one of three
outcomes in `Daemon`. The properties shown on one level justify what the next one
takes for granted: `Exchange` allows exactly response, no response after the time-out,
and exception; `LM50Device` turns the second into a `runtime_error`; `Daemon` catches
that and no other. `LM50Client` composes the other way round: the whole of `LM50Device`
runs inside it, step by step, and is called by the modes instead of by anybody.

### Daemon

Every access to something the other thread can see is a step; a blocking call has
a program counter of its own. `mpc` follows `ModeDaemon::run` line by line
(`MainInit`, `Daemonize`, `BlockSignals`, `StartWorker`, `Sigwait`, `Cancel`,
`TerminateWorker`, `KillWorker`, `JoinWorker`, `MainDeinit`, `MainReturn`). The error of
`sigwait` is kept in `err` and thrown only after the worker has been joined
(`SigwaitFails`, `MainReturn`), that of `pthread_join` at once (`JoinFails`); `masked`
says whether the signals have been blocked yet. An exception goes through `MainUnwind`, which destroys the worker object, to `MainCatch`
in main(). `wpc` follows `DaemonWorker::main` and `WorkerRrd::run`, with
`deviceUpdate` as `UpdateTest`, `Exchange`, `Disconnect`, `ConnectTest`, `DialOk` and
`DialFails`. The program options that matter and the build never change and are kept
in the variable `options`, so that one run covers both builds.

* *DEBUG and Release.* `pthread_kill` and the mutex owner exist in DEBUG builds only,
  assertions only there take effect. In Release builds the assertions' side effects
  vanish too: `pthread_mutex_init` (mode_daemon.cpp:27) is not called, and the mutex
  is used value-initialised, which on Linux is a valid fast mutex. The worker never
  locks twice, so its not being recursive does not matter, and the model has one
  mutex for both builds.
* *Data race.* `_isCancelled` and `_isRunning` are plain `bool`s. Each read sees the
  latest write in the model; between two reads the code calls into other translation
  units, which keeps the compiler from caching the values. A build that did cache
  them is outside the model.
* *Undefined behaviour* after `WorkerRrd` has been destroyed under its thread is
  `WorkerAfterDestruction`: the process may crash at any time, or end before anything
  is seen.
* *Abstracted:* the 50 values are `stamp`: never read, read since the last record, or
  recorded already. It is at the same time the time stamp RRDtool compares.

### RrdSchedule

Time counts half seconds, the finest distinction `updateRRD` makes. A behaviour picks
a `pace` (how late the thread may wake up, how long reading and recording may take,
whether the process may be restarted, and where in the loop the clock may be set back)
and keeps it, so that one run holds paces of very different kinds and properties can be
stated about punctual workers only. The `while` loop of `stepBeat` is the closed form
in `StepBeat`. Before the loop the clock is looked at twice, by `run` and by `stepBeat`, and
time may pass in between (`Start`).

The clock is `CLOCK_REALTIME`, and `SetBack` moves it to any earlier time. A beat that
was fixed before then lies far ahead: the worker sleeps until it comes and records
nothing in between, so that no time is recorded twice (`NeverRefused`) and every period
has its record (`NoBeatLeftOut`). The records stay on the grid of the database's steps
(`ResumesOnGrid`, which also bounds the stamp of a late record and the gap after missed
beats). A clock set forward is a call that takes long, to this code.

Each property says at which paces it holds, and the bounds are those of the code:

* `Steady`: the clock is not set back between waking up and the end of the reading.
* `Prompt`: besides, waking up and reading take less than a period less half a second,
  from where on the time is rounded up to the next beat. Recording may take any time. At
  exactly that bound the record at the next beat is refused: the run `schedule_refused`.
* `Punctual`: besides, recording is done before the next beat and there are no restarts.
* `Ordered`: no restarts, or a clock that is never set back. One that is set back before
  a restart makes RRDtool refuse a record.

`RoundRobin` knows nothing of beats. It is the database as `README.txt` has it created:
steps of 60 s, and counters of which a step remains unknown if the record before is
older than 120 s. The step is taken to be the period of the worker. That is so with the
configuration file that is delivered (`rrd.period` 60, etc/lm50client/lm50client.cnf:36)
and not with the default of 30 s, at which two records fall in one step. `FillsDatabase` says that a
prompt and ordered worker never makes two records in one step, also if it is restarted in
between, and that a punctual one makes one in each, before the heartbeat has passed.

### Datagram, TcpRar, Exchange

A datagram is the four fields the code looks at (protocol, length, function, byte
count) and the number of bytes received; `CreateObject` says which class results or
which exception is thrown, `MissingBytes` and `MissingThrows` what `missingBytes` does.

`DatagramObject` has the bytes themselves. `Load16`, `Store16` and `Load32` are what an
access through a pointer to a wider type does on the host, which is little-endian or
not (`little`, chosen once); `Ntohs` and `Ntohl` are the conversions. An object
begins with `Receive` (any buffer, any number of bytes received) or with `Construct`,
and the setters follow in any order and number. `given` remembers what was received or
set last, and the properties read the bytes with `BigEndian` and `Sent`, which know
nothing of the host.

`TcpRar` has the three asio operations (send, receive, timer) as `none`, `pending`,
`ready`, `failed` or `aborted`, and one action per handler and branch. A cancel aborts
what is pending; what has completed keeps its result although its handler has not run.
This is what makes deadline and arrival race. `expires_from_now` is a cancel, as in
asio. Transfers are of any size in `Chunks`, or as much as fits.

### LM50Device, Readings

The connection is a pair of queues; the device (external) answers in order, once or
twice, rightly or wrongly, or not at all, or closes. `Ask` gives the next transaction
number; `Take` removes the first answer together with what the same receive brought
(`TakeOff`), perhaps only a part of the next answer: the stream is torn then, and the rest
is taken for a datagram later (`ReceivesTorn`). A call that times out may have received
a part of its answer, or have received nothing (`TimesOut`). An answer may be malformed,
so that the parser throws although the connection is whole (`ReceivesMalformed`).
The caller may call anything in any order, which includes what the three modes do
(`LM50Client`).
Three things are assumed and said in the module: a transaction number is not given
again while an answer to its last use is still under way on the same connection (with
65536 numbers, over one connection, in the time an answer may be late); no call follows
an exception that is not a `runtime_error`, because it ends the program in all three
modes (`CallsAllowed` shows it); and the middle of a torn datagram does not happen to
look like a header with the current number.

### ProgramOptions, LM50Client

A source of options maps every option to the list of values it gives. `Values` is what
boost's `store` makes of two sources and the order in which `parse` stores them;
`CommonThrows`, `RrdThrows` and `ReportThrows` are the exceptions of the passes, in
their order as far as an order can be seen. `Sorted` and `Unique` are `std::sort` and
`std::unique` by what these are specified to return, a list in order in which everything
occurs as often as before, and what differs from its predecessor. `Decremented` is modulo the width of an
`unsigned int`, so that channel 0 becomes the largest number. `PeriodOf` has the letters
compared with the mode, as in the source. Foreground and verbose, which decide where the
log goes, are left out. That the first source stored goes first is boost's rule and
assumed.

`LM50Client` walks through `run()` of a mode: `place` is where it is, `HumanRun`,
`CactiRun` and `DaemonRun` are the order of calls, and `Handlers` says where a
`runtime_error` is caught and what comes next. At a call it takes a step of
`LM50Device` and waits until `ended` tells how the call ended. What escapes becomes the
exit status (main() returns -1 for a `std::exception` and the number of an
`error_code`) or, in the daemon's worker thread, ends the process. The daemon's
threads are not repeated here; its calls of the device are.


## 3. The runs

All finish within three minutes on two workers, most in seconds. *States* are distinct states.

| Run | States | Properties | Shows |
|---|---|---|---|
| `daemon` | 6,748 | `TypeOK`, `DeviceExclusion`, `ExchangeOnlyWhenConnected`, `StaleOnlyWhenCancelled`, `CleanExit`, `OwnerAssertion`, `NoNewWorkAfterTerminate`, `SignalEndsProcess`, `BeatLeadsToRecord` | with both builds, every outcome of an exchange and every failing call |
| `datagram` | 175,820 | `ParsesAsSpecified`, `AnswersRecognised`, `ErrorsRecognised`, `StaysWhole`, `FieldsAsGiven`, `ValuesAsSent` | objects received and constructed are what the specification says, on hosts of both byte orders, whatever is set in them |
| `tcprar` | 638,061 | `TypeOK`, `BuffersHold`, `ResponseIsComplete`, `KeepsPromise`, `SilenceEnds` | `TcpRar` implements `Exchange`, and a silent device does not block it |
| `device` | 5,670,814 | `TypeOK`, `RegistersNotMixed`, `CurrentIsOurs`, `KeepsReadings` | `LM50Device` implements `Readings` |
| `schedule` | 274,924 | `TypeOK`, `BeatInFuture`, `RecordAtBeat`, `NeverRefused`, `NoBeatLeftOut`, `ResumesOnGrid`, `FillsDatabase` | eight paces; `RrdSchedule` implements `RoundRobin`, with restarts and with a clock that is set back |
| `main` | 72,672 | `ClientTypeOK`, `CallsAllowed`, `PrintedIsRead`, `ExitZeroIsComplete`, `ChannelsAsAsked`, `PrintingEnds` | from the arguments to the exit status, in every mode and with a faulty device |

The bounds, and why they suffice:

* `daemon` has none. The state space is finite and explored completely. The faults are
  all the calls whose failure the code tests, `sigwait` and `pthread_join` among them.
* `datagram`: each field takes the values on both sides of every comparison in the code
  (0, 1, 2, 3, 4, 6, 7, 203, 254, 258 and 65535 for the length), the bytes received
  those around the header (5, 6), the fixed parts, the largest answer (209) and the
  buffer's end (259, 260). Besides, every answer to every allowed request, and every
  exception code of ModBus. Fields are set to numbers that a swap of bytes changes
  (1400, 126) and does not (0, 65535), in both byte orders. Registers are small numbers
  with a NUL at every fifth place; the theorems are about all of them. Deadlock is not
  checked, because an exception leaves no object.
* `tcprar`: good answers of several lengths, four kinds of contradictory ones and one
  longer than the buffer; no bytes, fewer than announced, as many, and more; pieces of
  7 and 9 bytes, so that a piece ends inside the header, after it and in the data; the
  peer may answer before it has been asked.
* `device`: three transaction numbers, so that they wrap around within a behaviour
  while two requests or answers are under way; the counters advance once, which is
  enough to tell an old reading from a new one. Deadlock is not checked: an exception
  that is no `runtime_error` ends the program, and `Ask` waits for a free number.
* `schedule`: period 3 s, time to 30 s (`Horizon` in half seconds, after which nothing
  begins). Recording takes up
  to 2.5 s; waking up and reading take up to 2 s, alone or followed by a recording of up
  to 4.5 s with restarts (these are the largest that are punctual, and prompt); or
  everything is slow. `StepBeat` skips no, one and two periods then. In four more
  paces the clock may be set back to any earlier time, at one, two, four or all places
  of the loop. Deadlock is not checked: the worker may have been aborted, and no beat
  is waited for beyond the `Horizon`.
* `main`: a device of three channels and an `unsigned int` of six values: 0 and every
  number beyond the channels are refused, every list of up to three is tried. Options
  are given by the command line, the file, both or neither, once or twice; the file can
  be read or not. Four transaction numbers, the counters advance twice and three
  requests may be under way, more than a mode that prints ever sends. Every fault of the
  device but the double answer, which `device` has. Deadlock is not checked: the program
  ends.

Six runs show a disagreement between the code and what it says of itself:

| Run | Property | What happens |
|---|---|---|
| `daemon_start_race` | `DestructorAssertion` | a signal comes after `pthread_create` but before the thread has set `_isRunning`; `terminate()` throws, and the worker object is destroyed under its thread |
| `daemon_cancel_reconnect` | `ProperTermination` | cancelled while reconnecting, after a record has been made, `deviceUpdate` returns as after a success; the old values are offered again under the old stamp, RRDtool refuses it, and nothing catches the exception. (If nothing has been read yet, `deviceChannel()` throws before that, with the same end; the property leaves this case out.) |
| `daemon_uncaught` | `RunsUntilSignal` | only `runtime_error` is retried; the `error_code` thrown when the device closes the connection, and the `invalid_argument` of a malformed answer, end the daemon |
| `tcprar_pieces` | `RunReturns` | the first piece of an answer cancels the timer and nobody starts it again; if the rest does not come, `run` never returns |
| `schedule_skip` | `SmallestStep` | after a missed beat `stepBeat` goes one period too far |
| `schedule_refused` | `LoopsForever` | a late reading is rounded up to the second of the next beat, whose record is then refused |

Three more places differ from what the repository says of them and are seen in the
models, but have no run of their own:

* *The wake-up signal.* `DaemonWorker::terminate` "sends a signal to the thread" in case
  it is blocked and joins it (daemon_worker.h:22-30, daemon_worker.cpp:47-50), and
  mode_daemon.cpp:61-63 relies on it. A Release build sends none, so ending the process may
  take until the next beat (`Nap` goes on). In a DEBUG build the signal has no handler, and
  its default action kills the process instead of waking the worker (`DeliverKill`).
  `SignalEndsProcess` names this end `KilledByWakeUp`, and does not claim that a process
  ends in time.
* *`serialNumber()`* throws if `readSteadyValues` has not been successful, according to
  lm50device.cpp:207-211. It looks at the revision (:213) and would return a number that
  was never read if only the second exchange had failed. No mode asks for it then
  (`PrintedIsRead`).
* *The letters of `report.period`.* The help text accepts "d", "w" and "m"
  (program_options.cpp:60). They are compared with the mode (:169), so that all three are
  refused, and with the mode given as "d" every period is daily. Nothing uses the period
  yet, and no property is about it; `PeriodOf` is as in the source.

Of the following nothing in the repository says otherwise:

* An answer that announces more than 254 bytes fills the buffer, after which receives of
  size zero complete at once, for ever (`RecvEmpty`).
* A `rrd.period` of 0 is accepted, and `WorkerRrd::run` divides by it.
* The setters of the unit number store `htons(id)` cut to one byte, which is 0 on a
  little-endian host (`SetUnit`). The program sets unit numbers in constructors only.
* A `Generic` datagram may announce a length below 2, and is then shorter than the header
  its getters read (`StaysWhole` leaves out what they would see).

## 4. Fairness

* `Daemon!FairSpec`: weak fairness of the steps of the main thread (`MainStep`) and of
  the worker's own (`WorkerOwnStep`). Threads are scheduled, and an attempt to connect
  ends, by the kernel's time-out at the latest. That the mutex is obtained follows from
  weak fairness, since one thread only takes it. Nothing is assumed of an exchange, nor of
  the failures of `sigwait` and `pthread_join` (`WaitFails`): fairness never makes a wait
  end by failing.
* *An exchange need not end.* The time-out is there for it, but `tcprar_pieces` shows that
  a device which stops in the middle of an answer is waited for without a limit. Daemon
  and printing mode hang then, and a signal does not end the daemon. So `ExchangesEnd`,
  weak fairness of the end of an exchange, whatever end that is, is an explicit
  hypothesis of the two properties that need it: `SignalEndsProcess` and, with its own
  definition in `LM50Client`, `PrintingEnds`. They hold of devices that answer in whole or
  not at all.
* `SignalEndsProcess` has status 0, with the worker joined (`CleanExit`), as one end, and
  names the others: the worker met an exception that nobody catches (`WorkerFailed`), a
  call of the main thread failed (`MainFailed`), the wake-up signal killed a DEBUG build
  (`KilledByWakeUp`).
* `BeatLeadsToRecord` is an implication, too. Its hypothesis, `DeviceReturns`, is strong
  fairness of a successful connect and of an answered exchange: the device comes back,
  and no exchange hangs. It is no assumption about the program and no other property uses
  it.
* `TcpRar!FairSpec`: asio executes handlers while there are any and completes a receive
  into an empty buffer; the clock goes on. Nothing is assumed of the peer. `SilenceEnds`
  says what the timer guarantees, `RunReturns` what it does not.
* `LM50Client!ClientSpec`: weak fairness of the program's own steps (`OwnStep`), which do
  not include the end of an exchange. The device is free to do nothing.
* `LM50Device`, `RrdSchedule` and `DatagramObject` state safety only and assume no
  fairness.


## 5. What is proved

For every value of the constants (builds, outcomes, faults; buffers, streams and
pieces; numbers of transactions and of answers under way; periods and paces), from the
named assumptions of the modules only:

| Module | Theorems | Argument |
|---|---|---|
| `DaemonProofs` | `TypeCorrect`, `DeviceExclusionHolds`, `ExchangesAreConnected`, `StaleIsCancelled`, `ExitsCleanly`, `OwnerAssertionHolds`, `NoNewWork` | `IInv` = types and `Discipline` |
| `TcpRarProofs` | `TypeCorrect`, `NoOverrun`, `NoTruncatedResponse`, `ImplementsExchange` | `IInv` = types, the buffers, completeness and `OpsAgree` |
| `LM50DeviceProofs` | `Types`, `CurrentNumberIsOurs`, `RegistersAreNotMixed`, `ImplementsReadings` | `IInv` = types, `CurrentIsOurs` and the registers |
| `ProgramOptionsProofs` | `ChannelsAre` | what `Sorted` and `Unique` are, by counting |
| `LM50ClientProofs` | `CallsAreAllowed`, `PrintedWasRead`, `ZeroIsComplete`, `ChannelsAreAsAsked`, `ClientTypes`, `ProgramUsesDevice`, `ProgramKeepsReadings` | `ClientIInv` = `IInv` of `LM50DeviceProofs`, `Walk`, `Linked`, `Fresh` and `Output`; `Typed` |
| `DatagramProofs` | `ObjectIsWhole`, `AnswersAreResponses`, `ErrorsAreRecognised` | by cases of `CreateObject` |
| `DatagramObjectProofs` | `ParsingIsExact`, `AnswersAreRecognised`, `ErrorAnswersAreRecognised`, `FieldsAreInNetworkOrder`, `ObjectsStayWhole`, `ValuesAreAsSent` | `Inv` = what is received, what it became, and what has been set since |
| `RrdScheduleProofs` | `TypeCorrect`, `BeatsInFuture`, `RecordsAtBeat`, `NeverIsRefused`, `NoBeatIsLeftOut`, `ResumesOnTheGrid`, `DatabaseIsFilled`, `StepBeatIsSmallest` | `IInv` = types, `Loop`, and `SteadyLoop`, `AcceptedLoop` and `PunctualLoop` for workers that are so |

None of the invariants is inductive by itself.

* *Daemon.* That the worker is out of the locked section when the main thread
  disconnects follows from its being gone then (`WorkerLife`: `deinit` is reached
  through `JoinWorker` only, or without a worker). That an exchange finds a connection
  depends on the loops and on what a cancellation leaves behind: outside the
  reconnection the socket is connected *or the daemon cancelled*, and the latter
  leads past the exchange (`ConnFollowsWorker`). The disjunct `cancelled` in
  `StampFollowsWorker` is the defect `daemon_cancel_reconnect` shows.
* *TcpRar.* A receive ends for good with a complete datagram, or aborted after the
  timer has expired, or with an exception (`OpsAgree`). `ImplementsExchange` needs
  exactly this to map `Return` to `Answered` or `TimedOut`.
* *LM50Device.* `CurrentIsOurs` carries the others: whatever is under way with the
  current number was asked for by the latest request, and what of it is an answer was
  measured since. Taking from the queues or forgetting them cannot disturb it (lemma
  `FewerUnderWay`); of the two steps that add to them, a request takes a number that
  nothing under way bears and an answer bears that of its request. So a datagram that is
  accepted is ours (`AcceptedIsOurs`), and `Receives` implements `Readings!Update`.
* *LM50Client.* Every step of the program is a step of `LM50Device` or leaves it alone
  (`ClientStep`), so the device object's invariant carries over and its actions are
  needed only through what they do to a caller (`ConnectEffect`, `AskEffect`,
  `ExchangeEffect` ...). The rest of `ClientIInv` says, place by place, what is known of
  the connection, of the values read and of the output: for instance that the channels
  are an answer to the latest request from the end of `update` until they are printed.
  `ClientTypes` needs `Typed` besides: there are arguments as long as they are not
  parsed, and what `parse` arrives at is a list of natural numbers. `ProgramUsesDevice`
  puts the two modules together: `ClientSpec` implements the `Spec` of `LM50Device`, and therefore
  `Readings` (`ProgramKeepsReadings`).
* *ProgramOptions.* `ChannelsAsAsked` is about lists of any length. What a loop over one
  computes would take induction over data; `Sorted`, `InOrder` and `Unique` are instead
  characterised by what the standard says they return, and it has to be proved that such
  a list exists. It is given by counting: at place k it has the value which fewer than k
  elements lie below and at least k do not exceed (`SomeIsAt`, by the least number of
  that kind), and every value then takes as many places as it has occurrences
  (`ListingExists`; the facts about cardinalities are the library's). A finite set is the
  case without repetitions (`InOrderIs`). Decremented as an unsigned number, only 0
  becomes one that is not smaller, and that is beyond every channel (`DecrementedIs`).
* *DatagramObject.* The getters and setters are shown to be those of the network order
  in both byte orders, which takes the place of the casts everywhere else. Then `Inv`
  says that the bytes are as many as the length field and the class demand, that the
  bytes a class is told by are those it was made from (no setter reaches them, which is
  `ObjectsStayWhole`), and that the fields are what was given last. `Ascii` is defined by
  a least index, whose existence is shown with well-founded induction on numbers
  (`WFMin` of the library).
* *RrdSchedule.* `Loop` holds at any pace and rests on one fact about the arithmetic,
  lemma `StepIsForward`: the new beat is later than the present second, and on the grid.
  As long as nobody turns the clock during a reading, `SteadyLoop` bounds the time of the
  reading by that of the beat, and the next beat by the end of the record. A prompt
  worker's time of reading is rounded to a second before the next beat
  (`StampBeforeNext`), and two beats on the grid are a period apart (`GridGap`), so that
  every stamp is later than the last (`AcceptedLoop`); if it records before the next beat
  too, the record before it is that of the beat before (`PunctualLoop`). A clock that is
  set back while the worker sleeps leaves the beat alone, and so all of this; elsewhere
  `Ordered` says what is still known of the order of times. `StepBeatIsSmallest` is what
  there is to say of `stepBeat` itself: it keeps its comment's promise exactly as long as
  no beat has been missed (`schedule_skip` has the other case). `DatabaseIsFilled` maps
  every record to an update of `RoundRobin`: beats on the grid are where the steps of the
  database begin (`StepOfTime`), the last stamp lies before the beat (`AcceptedLoop`) and,
  for a punctual worker, not before the last but one (`PunctualLoop`, `StepBefore`).

Each invariant was checked by TLC on the run's constants before it was proved.

*Model-checked only:* the liveness properties (`SignalEndsProcess`,
`BeatLeadsToRecord`, `SilenceEnds`, `PrintingEnds`), since neither fairness nor ENABLED
is within the prover's reach. Every invariant and action property of a passing run is a
theorem.


## 6. What is not modelled

The init script: what `start`, `stop` and `restart` do to the process is what
`start-stop-daemon` does, of which `src/` has nothing; its one decision of its own,
the exit status of a pipeline, is listed under `hazards`. The texts of messages, logs
and exceptions; the spelling of options and the parsing of numbers, which are boost's;
name resolution (a way a connect may fail); memory (a datagram leaks when an interpreter
throws); the fork's second process, as the model follows
one of the two; the report worker, of which there are options and no code. Build files,
patches and `tests/` (a build file only) keep no state.


## 7. Order of the work

`Daemon` (the threads are the most important and least testable part), `Datagram`,
`TcpRar` over it with `Exchange`, `LM50Device` with `Readings`, `RrdSchedule`, the proofs
about four of them; then a clock that is set back, `ProgramOptions`, `LM50Client`,
`DatagramObject`, and the proofs about these and about `LM50Device`; then the sharp
bounds of the schedule, and the proofs about `ProgramOptions` and about the program as
a composition.

What would come next is a composition of `Daemon` with `RrdSchedule`, in which the time a
reconnection takes is the time a reading takes.
