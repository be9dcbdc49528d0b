------------------------------- MODULE Daemon -------------------------------
(***************************************************************************)
(* The daemon mode of lm50client: ModeDaemon (apps/mode_daemon.cpp), the   *)
(* thread it starts through DaemonWorker (apps/daemon_worker.cpp) and the  *)
(* loop that thread runs, WorkerRrd (apps/worker_rrd.cpp).                 *)
(*                                                                         *)
(* Two threads share the device object, the mutex meant to guard it and    *)
(* three plain bool flags that nothing guards.  A step is what a thread    *)
(* does between two accesses to state the other thread can see; blocking   *)
(* calls (sigwait, pthread_join, clock_nanosleep, an exchange with the     *)
(* device, a TCP connect) have a program counter of their own, so that     *)
(* the other thread and the environment can act while they last.           *)
(*                                                                         *)
(* Abstracted: the 50 channel values (only their age matters here), the    *)
(* wall clock (module RrdSchedule), the bytes of an exchange (module       *)
(* TcpRar).                                                                *)
(***************************************************************************)

CONSTANTS
  Builds,     \* "debug": compiled with -DDEBUG, "release": with -DNDEBUG
  Outcomes,   \* how LM50Device::updateVolatileValues may end
  Faults      \* which system calls may fail

\* "answer": the 50 values arrived.  "runtime_error": a std::runtime_error,
\* e.g. a time out or a ModBus exception.  "other": an exception that is not
\* one, e.g. the boost::system::error_code that a connection closed by the
\* device makes TcpRequestAndReply throw, or the std::invalid_argument of a
\* malformed datagram.
OutcomeKinds == {"answer", "runtime_error", "other"}
FaultKinds   == {"connect", "fork", "sigmask", "create", "sigwait", "join",
                 "rrd", "eintr"}

ASSUME DaemonAssumption ==
  /\ Builds \subseteq {"debug", "release"}
  /\ Outcomes \subseteq OutcomeKinds
  /\ Faults \subseteq FaultKinds

VARIABLES
  options,     \* the program options that matter here and the build; never
               \* changes
  proc,        \* the process: running, or how it ended
  mpc,         \* program counter of the main thread
  wpc,         \* program counter of the worker thread
  cancelled,   \* ModeDaemon::_isCancelled
  wCancelled,  \* DaemonWorker::_isCancelled
  wRunning,    \* DaemonWorker::_isRunning
  mutex,       \* ModeDaemon::_mutex: "free" or "worker"
  conn,        \* the socket of ModeDaemon::_dev
  stamp,       \* LM50Device::_lastUpdate, seen from the RRD file
  masked,      \* the main thread has blocked the signals
  pending,     \* a termination signal is pending for the process
  err,         \* ModeDaemon::run's err: sigwait has failed
  wSignal,     \* SIGRTMAX is pending for the worker thread
  destroyed    \* the WorkerRrd object on ModeDaemon::run's stack is gone

optVars  == <<options>>
flagVars == <<cancelled, wCancelled, wRunning>>
devVars  == <<mutex, conn, stamp>>
sigVars  == <<masked, pending, err, wSignal>>
vars == <<options, proc, mpc, wpc, cancelled, wCancelled, wRunning, mutex,
          conn, stamp, masked, pending, err, wSignal, destroyed>>

Options == [rrd : BOOLEAN, foreground : BOOLEAN, build : Builds]

Debug == options.build = "debug"

\* exited: main() returned 0.  failed: main() caught an exception and
\* returned -1.  aborted: std::terminate or a failed assertion.  killed: a
\* signal's default action.
ProcStates == {"running", "exited", "failed", "aborted", "killed"}

MainPCs == {"connect", "daemonize", "block", "start", "sigwait", "cancel",
            "terminate", "kill", "join", "deinit", "return", "unwind",
            "catch"}

\* The worker's code from lockDevice() to unlockDevice().
LockedSection == {"updTest", "exchange", "disconnect", "connTest", "dial",
                  "copy", "unlock"}
WorkerPCs == {"none", "spawned", "signals", "napTest", "nap", "beat", "lock",
              "store", "again", "exited"} \cup LockedSection

\* The worker thread cannot take a step of its own any more.
WorkerGone == wpc \in {"none", "exited"}

Init ==
  /\ options \in Options
  /\ proc = "running"
  /\ mpc = "connect" /\ wpc = "none"
  /\ cancelled = TRUE /\ wCancelled = TRUE /\ wRunning = FALSE
  /\ mutex = "free" /\ conn = "closed" /\ stamp = "never"
  /\ masked = FALSE /\ pending = FALSE /\ err = FALSE /\ wSignal = FALSE
  /\ destroyed = FALSE

-----------------------------------------------------------------------------
(* The main thread: ModeDaemon::run and what main() does around it.        *)

MainAt(pc) == proc = "running" /\ mpc = pc

\* LM50Device::connect as TcpCommunication::open leaves the socket: connected;
\* or an exception after close() and before tcpSocket.open() (the host name
\* does not resolve); or one after it (the connection is refused), and then
\* is_open() holds although there is no peer.
OpenSocket    == conn' = "connected"
OpenFails     == conn' \in {"closed", "opened"}

\* ModeDaemon::init.  An exception reaches the catch clauses of main().
MainInit ==
  /\ MainAt("connect")
  /\ \/ /\ OpenSocket
        /\ mpc' = "daemonize"
        /\ UNCHANGED proc
     \/ /\ "connect" \in Faults
        /\ OpenFails
        /\ mpc' = "catch"
        /\ UNCHANGED proc
  /\ UNCHANGED <<optVars, wpc, flagVars, mutex, stamp, sigVars, destroyed>>

\* ModeDaemon::daemonize.  After fork() the model follows one of the two
\* processes: the child goes on, the parent returns from run(), destroys the
\* application (which closes its descriptor of the socket) and exits.
Daemonize ==
  /\ MainAt("daemonize")
  /\ \/ /\ mpc' = "block"                      \* foreground, or the child
        /\ UNCHANGED <<proc, conn>>
     \/ /\ ~options.foreground                 \* the parent
        /\ proc' = "exited" /\ conn' = "closed"
        /\ UNCHANGED mpc
     \/ /\ ~options.foreground /\ "fork" \in Faults
        /\ mpc' = "catch"
        /\ UNCHANGED <<proc, conn>>
  /\ UNCHANGED <<optVars, wpc, flagVars, mutex, stamp, sigVars, destroyed>>

\* _isCancelled = false, then every signal is blocked, for the rest of the
\* program, or the failure is an exception and none is.
BlockSignals ==
  /\ MainAt("block")
  /\ cancelled' = FALSE
  /\ \/ masked' = TRUE /\ mpc' = "start"
     \/ "sigmask" \in Faults /\ mpc' = "catch" /\ UNCHANGED masked
  /\ UNCHANGED <<optVars, proc, wpc, wCancelled, wRunning, devVars, pending,
                 err, wSignal, destroyed>>

\* The WorkerRrd object is built and, if the worker is enabled, start()ed.
\* start() is called once, so its check of _isRunning never throws here; it
\* does not wait for the thread to run.
StartWorker ==
  /\ MainAt("start")
  /\ ~wRunning
  /\ \/ /\ options.rrd
        /\ wCancelled' = FALSE
        /\ \/ wpc' = "spawned" /\ mpc' = "sigwait"
           \/ "create" \in Faults /\ mpc' = "unwind" /\ UNCHANGED wpc
     \/ /\ ~options.rrd
        /\ mpc' = "sigwait"
        /\ UNCHANGED <<wCancelled, wpc>>
  /\ UNCHANGED <<optVars, proc, cancelled, wRunning, devVars, sigVars,
                 destroyed>>

\* sigwait() consumes a pending termination signal.
Sigwait ==
  /\ MainAt("sigwait")
  /\ pending /\ pending' = FALSE
  /\ mpc' = "cancel"
  /\ UNCHANGED <<optVars, proc, wpc, flagVars, devVars, masked, err, wSignal,
                 destroyed>>

\* It fails, which is looked at in the end only.
SigwaitFails ==
  /\ "sigwait" \in Faults
  /\ MainAt("sigwait")
  /\ err' = TRUE
  /\ mpc' = "cancel"
  /\ UNCHANGED <<optVars, proc, wpc, flagVars, devVars, masked, pending,
                 wSignal, destroyed>>

\* Mutant of Cancel: terminate() is forgotten.
CancelOnly ==
  /\ MainAt("cancel")
  /\ cancelled' = TRUE
  /\ mpc' = "deinit"
  /\ UNCHANGED <<optVars, proc, wpc, wCancelled, wRunning, devVars, sigVars,
                 destroyed>>

Cancel ==
  /\ MainAt("cancel")
  /\ cancelled' = TRUE
  /\ mpc' = IF options.rrd THEN "terminate" ELSE "deinit"
  /\ UNCHANGED <<optVars, proc, wpc, wCancelled, wRunning, devVars, sigVars,
                 destroyed>>

\* DaemonWorker::terminate throws if the thread has not set _isRunning yet.
TerminateWorker ==
  /\ MainAt("terminate")
  /\ \/ /\ ~wRunning
        /\ mpc' = "unwind"
        /\ UNCHANGED wCancelled
     \/ /\ wRunning
        /\ wCancelled' = TRUE
        /\ mpc' = IF Debug THEN "kill" ELSE "join"
  /\ UNCHANGED <<optVars, proc, wpc, cancelled, wRunning, devVars, sigVars,
                 destroyed>>

\* pthread_kill( _thread, SIGRTMAX ) is compiled in DEBUG builds only; a
\* thread that has exited is not affected.
KillWorker ==
  /\ MainAt("kill")
  /\ wSignal' = (wpc # "exited")
  /\ mpc' = "join"
  /\ UNCHANGED <<optVars, proc, wpc, flagVars, devVars, masked, pending, err,
                 destroyed>>

\* Mutant of JoinWorker: the worker is not waited for.
JoinNothing ==
  /\ MainAt("join")
  /\ wRunning' = FALSE
  /\ mpc' = "deinit"
  /\ UNCHANGED <<optVars, proc, wpc, cancelled, wCancelled, devVars, sigVars,
                 destroyed>>

\* pthread_join waits for the thread.
JoinWorker ==
  /\ MainAt("join")
  /\ wpc = "exited"
  /\ wRunning' = FALSE
  /\ mpc' = "deinit"
  /\ UNCHANGED <<optVars, proc, wpc, cancelled, wCancelled, devVars, sigVars,
                 destroyed>>

\* It fails, and terminate() throws.
JoinFails ==
  /\ "join" \in Faults
  /\ MainAt("join")
  /\ mpc' = "unwind"
  /\ UNCHANGED <<optVars, proc, wpc, flagVars, devVars, sigVars, destroyed>>

\* Mutant of MainDeinit: it locks the device and does not unlock it.
MainDeinitLocks ==
  /\ MainAt("deinit")
  /\ mutex = "free" /\ mutex' = "main"
  /\ conn' = "closed"
  /\ mpc' = "return"
  /\ UNCHANGED <<optVars, proc, wpc, flagVars, stamp, sigVars, destroyed>>

\* ModeDaemon::deinit: _dev.disconnect() without the mutex.
MainDeinit ==
  /\ MainAt("deinit")
  /\ conn' = "closed"
  /\ mpc' = "return"
  /\ UNCHANGED <<optVars, proc, wpc, flagVars, mutex, stamp, sigVars,
                 destroyed>>

\* The condition asserted by ~DaemonWorker.
DestructorCondition == wCancelled /\ ~wRunning

\* ~WorkerRrd runs when run() returns and when an exception leaves it.
DestroyWorker(pc, end, next) ==
  /\ MainAt(pc)
  /\ \/ /\ Debug /\ ~DestructorCondition
        /\ proc' = "aborted"
        /\ UNCHANGED <<mpc, destroyed>>
     \/ /\ ~Debug \/ DestructorCondition
        /\ destroyed' = TRUE
        /\ proc' = end
        /\ mpc' = next
  /\ UNCHANGED <<optVars, wpc, flagVars, devVars, sigVars>>

\* run() throws if sigwait had failed.  (Its other exception, "Unexpected
\* signal arrived", cannot happen: sigwait returns members of its set only.)
\* Otherwise it returns, main() destroys the application and returns 0.
MainReturn ==
  \/ ~err /\ DestroyWorker("return", "exited", "return")
  \/ /\ MainAt("return") /\ err
     /\ mpc' = "unwind"
     /\ UNCHANGED <<optVars, proc, wpc, flagVars, devVars, sigVars, destroyed>>

\* An exception leaves run() ...
MainUnwind == DestroyWorker("unwind", "running", "catch")

\* ... and main() catches it, prints it and returns -1.
MainCatch ==
  /\ MainAt("catch")
  /\ proc' = "failed"
  /\ UNCHANGED <<optVars, mpc, wpc, flagVars, devVars, sigVars, destroyed>>

MainStep ==
  \/ MainInit \/ Daemonize \/ BlockSignals \/ StartWorker \/ Sigwait
  \/ Cancel \/ TerminateWorker \/ KillWorker \/ JoinWorker \/ MainDeinit
  \/ MainReturn \/ MainUnwind \/ MainCatch

\* A call that waits may fail, which never is the way out of the wait.
WaitFails == SigwaitFails \/ JoinFails

-----------------------------------------------------------------------------
(* The worker thread: DaemonWorker::main and WorkerRrd::run.               *)

WorkerAt(pc) == proc = "running" /\ ~destroyed /\ wpc = pc

WorkerGoes(pc, next) == WorkerAt(pc) /\ wpc' = next

\* An exception no one catches leaves the thread's function: std::terminate.
UncaughtException ==
  /\ proc' = "aborted"
  /\ UNCHANGED wpc

WorkerMain ==
  /\ WorkerGoes("spawned", "signals")
  /\ wRunning' = TRUE
  /\ UNCHANGED <<optVars, proc, mpc, cancelled, wCancelled, devVars, sigVars,
                 destroyed>>

\* The thread unblocks SIGRTMAX and enters WorkerRrd::run up to its loop.  If
\* pthread_sigmask fails the thread returns at once.
WorkerSignals ==
  /\ WorkerAt("signals")
  /\ \/ wpc' = "napTest"
     \/ "sigmask" \in Faults /\ wpc' = "exited"
  /\ UNCHANGED <<optVars, proc, mpc, flagVars, devVars, sigVars, destroyed>>

\* The loop of sleepUntilBeat: its test, and clock_nanosleep, which the code
\* repeats when a signal interrupts it.
NapTest ==
  /\ WorkerAt("napTest")
  /\ wpc' = IF wCancelled THEN "beat" ELSE "nap"
  /\ UNCHANGED <<optVars, proc, mpc, flagVars, devVars, sigVars, destroyed>>

Nap ==
  /\ WorkerAt("nap")
  /\ \/ wpc' = "beat"
     \/ "eintr" \in Faults /\ wpc' = "napTest"
  /\ UNCHANGED <<optVars, proc, mpc, flagVars, devVars, sigVars, destroyed>>

\* Mutant of Beat: the flag is not looked at after the sleep.
BeatUnchecked ==
  /\ WorkerGoes("beat", "lock")
  /\ UNCHANGED <<optVars, proc, mpc, flagVars, devVars, sigVars, destroyed>>

\* if( isCancelled() ) return 0;
Beat ==
  /\ WorkerAt("beat")
  /\ wpc' = IF wCancelled THEN "exited" ELSE "lock"
  /\ UNCHANGED <<optVars, proc, mpc, flagVars, devVars, sigVars, destroyed>>

LockDevice ==
  /\ WorkerGoes("lock", "updTest")
  /\ mutex = "free"
  /\ mutex' = "worker"
  /\ UNCHANGED <<optVars, proc, mpc, flagVars, conn, stamp, sigVars,
                 destroyed>>

\* The outer loop of ModeDaemon::deviceUpdate: it ends without an update when
\* the daemon is cancelled, and its caller cannot tell.
UpdateTest ==
  /\ WorkerAt("updTest")
  /\ wpc' = IF cancelled THEN "copy" ELSE "exchange"
  /\ UNCHANGED <<optVars, proc, mpc, flagVars, devVars, sigVars, destroyed>>

\* Mutant of Exchange: the exception is swallowed, old values are used.
ExchangeSwallows(o) ==
  /\ WorkerGoes("exchange", "copy")
  /\ stamp' = IF o = "answer" THEN "fresh" ELSE stamp
  /\ UNCHANGED <<optVars, proc, mpc, flagVars, mutex, conn, sigVars, destroyed>>

\* LM50Device::updateVolatileValues.  Without a connection
\* TcpRequestAndReply::run throws what deviceUpdate does not catch.
Exchange(o) ==
  /\ WorkerAt("exchange")
  /\ \/ /\ o = "answer" /\ conn = "connected"
        /\ stamp' = "fresh"
        /\ wpc' = "copy"
        /\ UNCHANGED proc
     \/ /\ o = "runtime_error" /\ conn = "connected"
        /\ wpc' = "disconnect"
        /\ UNCHANGED <<proc, stamp>>
     \/ /\ o = "other" \/ conn # "connected"
        /\ UncaughtException
        /\ UNCHANGED stamp
  /\ UNCHANGED <<optVars, mpc, flagVars, mutex, conn, sigVars, destroyed>>

\* Mutant of Disconnect: the mutex is given up while the device is away.
DisconnectUnlocks ==
  /\ WorkerGoes("disconnect", "connTest")
  /\ conn' = "closed" /\ mutex' = "free"
  /\ UNCHANGED <<optVars, proc, mpc, flagVars, stamp, sigVars, destroyed>>

Disconnect ==
  /\ WorkerGoes("disconnect", "connTest")
  /\ conn' = "closed"
  /\ UNCHANGED <<optVars, proc, mpc, flagVars, mutex, stamp, sigVars,
                 destroyed>>

\* Mutant of ConnectTest: the inner loop is endless.
ConnectTestEndless ==
  /\ WorkerGoes("connTest", "dial")
  /\ UNCHANGED <<optVars, proc, mpc, flagVars, devVars, sigVars, destroyed>>

\* The inner loop of deviceUpdate.
ConnectTest ==
  /\ WorkerAt("connTest")
  /\ wpc' = IF cancelled THEN "updTest" ELSE "dial"
  /\ UNCHANGED <<optVars, proc, mpc, flagVars, devVars, sigVars, destroyed>>

\* Mutant of DialOk: the break after connect() is missing.
DialNoBreak ==
  /\ WorkerGoes("dial", "connTest")
  /\ OpenSocket
  /\ UNCHANGED <<optVars, proc, mpc, flagVars, mutex, stamp, sigVars,
                 destroyed>>

DialOk ==
  /\ WorkerGoes("dial", "updTest")
  /\ OpenSocket
  /\ UNCHANGED <<optVars, proc, mpc, flagVars, mutex, stamp, sigVars,
                 destroyed>>

\* Mutant of DialFails: one attempt to connect only.
DialOnce ==
  /\ "connect" \in Faults
  /\ WorkerGoes("dial", "updTest")
  /\ OpenFails
  /\ UNCHANGED <<optVars, proc, mpc, flagVars, mutex, stamp, sigVars,
                 destroyed>>

DialFails ==
  /\ "connect" \in Faults
  /\ WorkerGoes("dial", "connTest")
  /\ OpenFails
  /\ UNCHANGED <<optVars, proc, mpc, flagVars, mutex, stamp, sigVars,
                 destroyed>>

\* obtainValues copies time stamp and channels; LM50Device::channel throws if
\* the device has never been read.
CopyValues ==
  /\ WorkerAt("copy")
  /\ \/ /\ stamp # "never"
        /\ wpc' = "unlock"
        /\ UNCHANGED proc
     \/ /\ stamp = "never"
        /\ UncaughtException
  /\ UNCHANGED <<optVars, mpc, flagVars, devVars, sigVars, destroyed>>

UnlockDevice ==
  /\ WorkerGoes("unlock", "store")
  /\ mutex' = "free"
  /\ UNCHANGED <<optVars, proc, mpc, flagVars, conn, stamp, sigVars,
                 destroyed>>

\* rrd_update_r refuses a time stamp the file already holds, and may fail for
\* reasons of its own; updateRRD turns either into an exception.
RrdRefuses == stamp = "stored" \/ "rrd" \in Faults

UpdateRRD ==
  /\ WorkerAt("store")
  /\ \/ /\ stamp = "fresh"
        /\ stamp' = "stored"
        /\ wpc' = "again"
        /\ UNCHANGED proc
     \/ /\ RrdRefuses
        /\ UncaughtException
        /\ UNCHANGED stamp
  /\ UNCHANGED <<optVars, mpc, flagVars, mutex, conn, sigVars, destroyed>>

\* stepBeat and the condition of the do-while loop.
LoopTest ==
  /\ WorkerAt("again")
  /\ wpc' = IF wCancelled THEN "exited" ELSE "napTest"
  /\ UNCHANGED <<optVars, proc, mpc, flagVars, devVars, sigVars, destroyed>>

\* The steps that end whatever the device does.
WorkerOwnStep ==
  \/ WorkerMain \/ WorkerSignals \/ NapTest \/ Nap \/ Beat \/ LockDevice
  \/ UpdateTest \/ Disconnect \/ ConnectTest \/ DialOk \/ DialFails
  \/ CopyValues \/ UnlockDevice \/ UpdateRRD \/ LoopTest

AnyExchange == \E o \in Outcomes : Exchange(o)

WorkerStep == WorkerOwnStep \/ AnyExchange

\* The thread goes on after its object was destroyed: undefined behaviour.
\* Nothing visible may happen before the process ends, or it crashes.
WorkerAfterDestruction ==
  /\ proc = "running" /\ destroyed /\ ~WorkerGone
  /\ proc' = "aborted"
  /\ UNCHANGED <<optVars, mpc, wpc, flagVars, devVars, sigVars, destroyed>>

-----------------------------------------------------------------------------
(* Signals and the end of the process.                                     *)

\* SIGHUP, SIGINT, SIGQUIT, SIGTERM or SIGTSTP is sent to the process, which
\* it ends as long as it is not blocked (for SIGTSTP: stops it).
RaiseSignal ==
  /\ proc = "running"
  /\ ~pending
  /\ \/ /\ masked
        /\ pending' = TRUE
        /\ UNCHANGED proc
     \/ /\ ~masked
        /\ proc' = "killed"
        /\ UNCHANGED pending
  /\ UNCHANGED <<optVars, mpc, wpc, flagVars, devVars, masked, err, wSignal,
                 destroyed>>

\* No handler is installed for SIGRTMAX: once the worker has unblocked it,
\* its default action ends the process.
DeliverKill ==
  /\ proc = "running" /\ wSignal
  /\ wpc \notin {"spawned", "signals", "exited"}
  /\ proc' = "killed"
  /\ wSignal' = FALSE
  /\ UNCHANGED <<optVars, mpc, wpc, flagVars, devVars, masked, pending, err,
                 destroyed>>

\* The process has ended.
Ended == proc # "running" /\ UNCHANGED vars

Next == MainStep \/ WaitFails \/ WorkerStep \/ WorkerAfterDestruction
        \/ RaiseSignal \/ DeliverKill \/ Ended

Spec == Init /\ [][Next]_vars

-----------------------------------------------------------------------------
(* Safety.                                                                 *)

\* Every variable has its type.
TypeOK ==
  /\ options \in Options
  /\ proc \in ProcStates
  /\ mpc \in MainPCs
  /\ wpc \in WorkerPCs
  /\ cancelled \in BOOLEAN
  /\ wCancelled \in BOOLEAN
  /\ wRunning \in BOOLEAN
  /\ mutex \in {"free", "worker"}
  /\ conn \in {"closed", "opened", "connected"}
  /\ stamp \in {"never", "fresh", "stored"}
  /\ masked \in BOOLEAN
  /\ pending \in BOOLEAN
  /\ err \in BOOLEAN
  /\ wSignal \in BOOLEAN
  /\ destroyed \in BOOLEAN

\* The main thread uses the device (connect() in init, disconnect() in
\* deinit) without the mutex.  That is right only if the worker is never
\* between lockDevice() and unlockDevice() then.
DeviceExclusion ==
  proc = "running" /\ mpc \in {"connect", "deinit"} => wpc \notin LockedSection

\* deviceUpdate's two nested loops never call updateVolatileValues on a
\* device whose last connect() failed: TcpRequestAndReply::run would throw a
\* logic_error, which they do not catch.
ExchangeOnlyWhenConnected == wpc = "exchange" => conn = "connected"

\* Values that were not read since the last record reach updateRRD only when
\* deviceUpdate gave up because the daemon is cancelled.
StaleOnlyWhenCancelled == wpc = "store" => stamp = "fresh" \/ cancelled

\* main() returns 0 only when no thread is left, the device's mutex (which
\* ~ModeDaemon destroys) is free and the connection is closed.
CleanExit ==
  proc = "exited" => WorkerGone /\ mutex = "free" /\ conn = "closed"

\* Places where the worker has nothing in hand that it must finish.
Idle == {"napTest", "nap", "beat", "again", "exited"}

\* Once terminate() has set the flag, a worker that is between two beats
\* neither falls asleep again nor begins another record.
NoNewWorkAfterTerminate ==
  [][mpc = "join" /\ wpc \in Idle
       => wpc' \in Idle /\ (wpc' = "nap" => wpc = "nap")]_vars

\* The assertions of deviceUpdate, deviceLastUpdate, deviceChannel and
\* unlockDevice: whoever uses the device through ModeDaemon has locked it.
OwnerAssertion == wpc \in LockedSection => mutex = "worker"

\* The invariant the safety theorems rest on (module DaemonProofs).
\* Before the worker is started it does not exist, and without the rrd option
\* it never does; deinit and return are reached only when it is gone.
WorkerLife ==
  /\ mpc \in {"connect", "daemonize", "block", "start"} => wpc = "none"
  /\ ~options.rrd => wpc = "none"
  /\ mpc \in {"deinit", "return"} => WorkerGone

\* When the two cancel flags have which value.
FlagsFollowMain ==
  /\ mpc \in {"terminate", "kill", "join"} => cancelled
  /\ mpc \in {"kill", "join"} => wCancelled

\* The mutex is held exactly in the locked section.
MutexFollowsWorker == (mutex = "worker") <=> (wpc \in LockedSection)

\* The connection stands whenever the worker is not busy restoring it, unless
\* a cancellation made it give up; it is closed when run() returns.
ConnFollowsWorker ==
  /\ proc = "running" /\ mpc \in {"daemonize", "block", "start"}
       => conn = "connected"
  /\ wpc \notin {"none", "exited", "exchange", "disconnect", "connTest", "dial"}
       => conn = "connected" \/ cancelled
  /\ wpc = "exchange" => conn = "connected"
  /\ mpc = "return" => conn = "closed"

\* What has been copied out of the device is fresh unless cancelled.
StampFollowsWorker ==
  wpc \in {"copy", "unlock", "store"} => stamp = "fresh" \/ cancelled

Discipline ==
  /\ WorkerLife
  /\ FlagsFollowMain
  /\ MutexFollowsWorker
  /\ ConnFollowsWorker
  /\ StampFollowsWorker
  /\ CleanExit

IInv == TypeOK /\ Discipline

-----------------------------------------------------------------------------
(* Liveness.  Both threads are scheduled; an attempt to connect ends, by the *)
(* time out of the kernel at the latest.  Nothing is assumed of an exchange:  *)
(* TcpRequestAndReply waits for ever once a part of an answer has come, and   *)
(* the run tcprar_pieces shows it.                                            *)

Fairness == WF_vars(MainStep) /\ WF_vars(WorkerOwnStep)

FairSpec == Spec /\ Fairness

\* The device never stops in the middle of an answer: every exchange ends, in
\* whatever way.
ExchangesEnd == WF_vars(AnyExchange)

\* How a process that was told to end may end otherwise than with status 0.
\* The worker met an exception that no one catches, ...
WorkerFailed == proc = "aborted" /\ wpc \in {"exchange", "copy", "store"}
\* ... a call of the main thread did: start(), terminate() before the thread
\* has said that it is running, pthread_join or sigwait, ...
MainFailed == proc \in {"failed", "aborted"} /\ mpc \in {"unwind", "catch"}
\* ... or, in a DEBUG build, SIGRTMAX, which shall only wake the worker, has
\* killed the process.
KilledByWakeUp == Debug /\ proc = "killed" /\ mpc # "catch"

\* A termination signal ends the process if exchanges end, wherever the worker
\* is: asleep, in an exchange, or in one of the endless loops of deviceUpdate.
\* It ends with status 0, and then the worker is joined (CleanExit), unless
\* one of the named things goes wrong.  (daemon_worker.h:22-30,
\* daemon_worker.cpp:47-50 and mode_daemon.cpp:61-63 promise more: that the
\* signal wakes the worker, which is then joined.  A release build sends none
\* and waits for the worker; a debug build has no handler for it.)
SignalEndsProcess ==
  ExchangesEnd =>
    (pending ~> \/ proc = "exited"
                \/ WorkerFailed
                \/ MainFailed
                \/ KilledByWakeUp)

\* The device comes back: of infinitely many attempts to connect one succeeds,
\* of infinitely many exchanges one is answered, and none hangs for ever.
DeviceReturns == SF_vars(DialOk) /\ SF_vars(Exchange("answer"))

\* When the beat comes, the values are read and recorded, however often the
\* connection has to be restored first, if only the device comes back.
BeatLeadsToRecord ==
  DeviceReturns =>
    (wpc = "lock" ~> (wpc = "again" \/ cancelled \/ proc # "running"))

-----------------------------------------------------------------------------
(* What comments and assertions of the code say and its steps do not keep.  *)

\* ~DaemonWorker asserts _isCancelled && !_isRunning (daemon_worker.cpp:16).
DestructorAssertion == destroyed => DestructorCondition

\* mode_daemon.cpp:61-63: while deviceUpdate runs "endlessly" until the device
\* is reconnected, a "proper termination is still being guaranteed".  Being
\* cancelled while the connection is down must not make a process abort that
\* has read the device before.  (One that has not aborts too, in CopyValues:
\* LM50Device::channel throws.)
ProperTermination ==
  cancelled /\ ~destroyed /\ stamp # "never" /\ conn # "connected"
    => proc # "aborted"

\* mode_daemon.cpp:55-57 and worker_rrd.cpp:75: whatever the device does, the
\* daemon tries again until the termination signal is received.
RunsUntilSignal == ~cancelled => proc # "aborted"

=============================================================================
