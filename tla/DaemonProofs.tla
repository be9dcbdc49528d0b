---------------------------- MODULE DaemonProofs ----------------------------
(* Theorems about the daemon for every value of its constants: both builds,  *)
(* every set of outcomes of an exchange and every set of failing calls.      *)
(*                                                                           *)
(* The safety invariants are not inductive one by one: that the main thread  *)
(* finds the device unused in deinit depends on when the worker can exist    *)
(* (WorkerLife), that no exchange is tried without a connection depends on   *)
(* what a cancellation leaves behind (ConnFollowsWorker), and a clean exit   *)
(* on both and on who holds the mutex.  Their conjunction IInv is inductive. *)

EXTENDS Daemon, TLAPS

(* The types a step can store in each variable.                              *)
LEMMA TypeStep == TypeOK /\ [Next]_vars => TypeOK'
<1> USE DEF TypeOK, ProcStates, MainPCs, WorkerPCs, LockedSection,
            optVars, flagVars, devVars, sigVars
<1>1. TypeOK /\ MainInit => TypeOK'
  BY DEF MainInit, MainAt, OpenSocket, OpenFails
<1>2. TypeOK /\ Daemonize => TypeOK'
  BY DEF Daemonize, MainAt
<1>3. ASSUME TypeOK, BlockSignals PROVE TypeOK'
  <2>1. cancelled' \in BOOLEAN /\ masked' \in BOOLEAN /\ mpc' \in MainPCs
    BY <1>3, Zenon DEF BlockSignals
  <2>2. UNCHANGED <<options, proc, wpc, wCancelled, wRunning, mutex, conn,
                    stamp, pending, err, wSignal, destroyed>>
    BY <1>3 DEF BlockSignals
  <2>3. QED
    BY <1>3, <2>1, <2>2
<1>4. ASSUME TypeOK, StartWorker PROVE TypeOK'
  <2>1. wCancelled' \in BOOLEAN /\ wpc' \in WorkerPCs /\ mpc' \in MainPCs
    BY <1>4, Zenon DEF StartWorker
  <2>2. UNCHANGED <<options, proc, cancelled, wRunning, mutex, conn, stamp,
                    masked, pending, err, wSignal, destroyed>>
    BY <1>4 DEF StartWorker
  <2>3. QED
    BY <1>4, <2>1, <2>2
<1>5. ASSUME TypeOK, Sigwait \/ SigwaitFails PROVE TypeOK'
  <2>1. pending' \in BOOLEAN /\ err' \in BOOLEAN /\ mpc' \in MainPCs
    BY <1>5, Zenon DEF Sigwait, SigwaitFails, TypeOK
  <2>2. UNCHANGED <<options, proc, wpc, cancelled, wCancelled, wRunning, mutex,
                    conn, stamp, masked, wSignal, destroyed>>
    BY <1>5 DEF Sigwait, SigwaitFails
  <2>3. QED
    BY <1>5, <2>1, <2>2
<1>6. TypeOK /\ Cancel => TypeOK'
  BY DEF Cancel, MainAt
<1>7. ASSUME TypeOK, TerminateWorker PROVE TypeOK'
  <2>1. wCancelled' \in BOOLEAN /\ mpc' \in MainPCs
    BY <1>7, Zenon DEF TerminateWorker
  <2>2. UNCHANGED <<options, proc, wpc, cancelled, wRunning, mutex, conn, stamp,
                    masked, pending, err, wSignal, destroyed>>
    BY <1>7 DEF TerminateWorker
  <2>3. QED
    BY <1>7, <2>1, <2>2
<1>8. TypeOK /\ KillWorker => TypeOK'
  BY DEF KillWorker, MainAt
<1>9. ASSUME TypeOK, JoinWorker \/ JoinFails PROVE TypeOK'
  <2>1. wRunning' \in BOOLEAN /\ mpc' \in MainPCs
    BY <1>9, Zenon DEF JoinWorker, JoinFails, flagVars, TypeOK
  <2>2. UNCHANGED <<options, proc, wpc, cancelled, wCancelled, mutex, conn,
                    stamp, masked, pending, err, wSignal, destroyed>>
    BY <1>9 DEF JoinWorker, JoinFails
  <2>3. QED
    BY <1>9, <2>1, <2>2
<1>10. TypeOK /\ MainDeinit => TypeOK'
  BY DEF MainDeinit, MainAt
<1>11. TypeOK /\ MainReturn => TypeOK'
  BY DEF MainReturn, MainAt, DestroyWorker
<1>12. TypeOK /\ MainUnwind => TypeOK'
  BY DEF MainUnwind, MainAt, DestroyWorker
<1>13. TypeOK /\ MainCatch => TypeOK'
  BY DEF MainCatch, MainAt
<1>14. TypeOK /\ WorkerMain => TypeOK'
  BY DEF WorkerMain, WorkerAt, WorkerGoes
<1>15. TypeOK /\ WorkerSignals => TypeOK'
  BY DEF WorkerSignals, WorkerAt
<1>16. TypeOK /\ NapTest => TypeOK'
  BY DEF NapTest, WorkerAt
<1>17. TypeOK /\ Nap => TypeOK'
  BY DEF Nap, WorkerAt
<1>18. TypeOK /\ Beat => TypeOK'
  BY DEF Beat, WorkerAt
<1>19. TypeOK /\ LockDevice => TypeOK'
  BY DEF LockDevice, WorkerAt, WorkerGoes
<1>20. TypeOK /\ UpdateTest => TypeOK'
  BY DEF UpdateTest, WorkerAt
<1>21. ASSUME TypeOK, NEW o \in Outcomes, Exchange(o) PROVE TypeOK'
  BY <1>21 DEF Exchange, WorkerAt, UncaughtException
<1>22. TypeOK /\ Disconnect => TypeOK'
  BY DEF Disconnect, WorkerAt, WorkerGoes
<1>23. TypeOK /\ ConnectTest => TypeOK'
  BY DEF ConnectTest, WorkerAt
<1>24. TypeOK /\ DialOk => TypeOK'
  BY DEF DialOk, WorkerAt, WorkerGoes, OpenSocket
<1>25. TypeOK /\ DialFails => TypeOK'
  BY DEF DialFails, WorkerAt, WorkerGoes, OpenFails
<1>26. TypeOK /\ CopyValues => TypeOK'
  BY DEF CopyValues, WorkerAt, UncaughtException
<1>27. TypeOK /\ UnlockDevice => TypeOK'
  BY DEF UnlockDevice, WorkerAt, WorkerGoes
<1>28. TypeOK /\ UpdateRRD => TypeOK'
  BY DEF UpdateRRD, WorkerAt, UncaughtException
<1>29. TypeOK /\ LoopTest => TypeOK'
  BY DEF LoopTest, WorkerAt
<1>30. TypeOK /\ WorkerAfterDestruction => TypeOK'
  BY DEF WorkerAfterDestruction
<1>31. ASSUME TypeOK, RaiseSignal PROVE TypeOK'
  <2>1. pending' \in BOOLEAN /\ proc' \in ProcStates
    BY <1>31, Zenon DEF RaiseSignal
  <2>2. UNCHANGED <<options, mpc, wpc, cancelled, wCancelled, wRunning, mutex,
                    conn, stamp, masked, err, wSignal, destroyed>>
    BY <1>31 DEF RaiseSignal
  <2>3. QED
    BY <1>31, <2>1, <2>2
<1>32. ASSUME TypeOK, DeliverKill PROVE TypeOK'
  <2>1. wSignal' \in BOOLEAN /\ proc' \in ProcStates
    BY <1>32, Zenon DEF DeliverKill
  <2>2. UNCHANGED <<options, mpc, wpc, cancelled, wCancelled, wRunning, mutex,
                    conn, stamp, masked, pending, err, destroyed>>
    BY <1>32 DEF DeliverKill
  <2>3. QED
    BY <1>32, <2>1, <2>2
<1>33. TypeOK /\ Ended => TypeOK'
  BY DEF Ended, vars
<1>34. TypeOK /\ UNCHANGED vars => TypeOK'
  BY DEF vars
<1>35. QED
  BY <1>1, <1>2, <1>3, <1>4, <1>5, <1>6, <1>7, <1>8, <1>9, <1>10, <1>11,
     <1>12, <1>13, <1>14, <1>15, <1>16, <1>17, <1>18, <1>19, <1>20, <1>21,
     <1>22, <1>23, <1>24, <1>25, <1>26, <1>27, <1>28, <1>29, <1>30, <1>31,
     <1>32, <1>33, <1>34
     DEF Next, MainStep, WaitFails, WorkerStep, WorkerOwnStep, AnyExchange

(* Every variable keeps its type: TypeOK is an invariant of the daemon.      *)
THEOREM TypeCorrect == Spec => []TypeOK
<1>1. Init => TypeOK
  BY DEF Init, TypeOK, Options, ProcStates, MainPCs, WorkerPCs
<1>2. QED
  BY <1>1, TypeStep, PTL DEF Spec

(* The initial state satisfies the inductive invariant.                      *)
LEMMA InitIInv == Init => IInv
  BY DEF Init, IInv, Discipline, TypeOK, Options, ProcStates, MainPCs, WorkerPCs,
         LockedSection, WorkerLife, FlagsFollowMain, MutexFollowsWorker,
         ConnFollowsWorker, StampFollowsWorker, CleanExit, WorkerGone

(* Every step preserves the inductive invariant.                             *)
LEMMA StepIInv == IInv /\ [Next]_vars => IInv'
<1> USE DEF Discipline, WorkerLife, FlagsFollowMain, MutexFollowsWorker,
            ConnFollowsWorker, StampFollowsWorker, CleanExit, WorkerGone,
            LockedSection, optVars, flagVars, devVars, sigVars
<1>1. Discipline /\ MainInit => Discipline'
  BY DEF MainInit, MainAt, OpenSocket, OpenFails
<1>2. ASSUME TypeOK, Discipline, Daemonize PROVE Discipline'
  <2>1. wpc = "none" /\ mutex = "free"
    BY <1>2 DEF Daemonize, MainAt, TypeOK
  <2>2. QED
    BY <1>2, <2>1 DEF Daemonize, MainAt
<1>3. Discipline /\ BlockSignals => Discipline'
  BY DEF BlockSignals, MainAt
<1>4. Discipline /\ StartWorker => Discipline'
  BY DEF StartWorker, MainAt
<1>5. Discipline /\ (Sigwait \/ SigwaitFails) => Discipline'
  BY DEF Sigwait, SigwaitFails, MainAt
<1>6. Discipline /\ Cancel => Discipline'
  BY DEF Cancel, MainAt
<1>7. Discipline /\ TerminateWorker => Discipline'
  BY DEF TerminateWorker, MainAt
<1>8. Discipline /\ KillWorker => Discipline'
  BY DEF KillWorker, MainAt
<1>9. Discipline /\ (JoinWorker \/ JoinFails) => Discipline'
  BY DEF JoinWorker, JoinFails, MainAt
<1>10. Discipline /\ MainDeinit => Discipline'
  BY DEF MainDeinit, MainAt
<1>11. ASSUME TypeOK, Discipline, MainReturn PROVE Discipline'
  <2>1. WorkerGone /\ conn = "closed" /\ mutex = "free"
    BY <1>11 DEF MainReturn, DestroyWorker, MainAt, TypeOK
  <2>2. QED
    BY <1>11, <2>1 DEF MainReturn, DestroyWorker, MainAt
<1>12. Discipline /\ MainUnwind => Discipline'
  BY DEF MainUnwind, MainAt, DestroyWorker
<1>13. Discipline /\ MainCatch => Discipline'
  BY DEF MainCatch, MainAt
<1>14. Discipline /\ WorkerMain => Discipline'
  BY DEF WorkerMain, WorkerAt, WorkerGoes
<1>15. Discipline /\ WorkerSignals => Discipline'
  BY DEF WorkerSignals, WorkerAt
<1>16. Discipline /\ NapTest => Discipline'
  BY DEF NapTest, WorkerAt
<1>17. Discipline /\ Nap => Discipline'
  BY DEF Nap, WorkerAt
<1>18. Discipline /\ Beat => Discipline'
  BY DEF Beat, WorkerAt
<1>19. Discipline /\ LockDevice => Discipline'
  BY DEF LockDevice, WorkerAt, WorkerGoes
<1>20. Discipline /\ UpdateTest => Discipline'
  BY DEF UpdateTest, WorkerAt
<1>21. ASSUME Discipline, NEW o \in Outcomes, Exchange(o) PROVE Discipline'
  BY <1>21 DEF Exchange, WorkerAt, UncaughtException
<1>22. Discipline /\ Disconnect => Discipline'
  BY DEF Disconnect, WorkerAt, WorkerGoes
<1>23. Discipline /\ ConnectTest => Discipline'
  BY DEF ConnectTest, WorkerAt
<1>24. Discipline /\ DialOk => Discipline'
  BY DEF DialOk, WorkerAt, WorkerGoes, OpenSocket
<1>25. Discipline /\ DialFails => Discipline'
  BY DEF DialFails, WorkerAt, WorkerGoes, OpenFails
<1>26. Discipline /\ CopyValues => Discipline'
  BY DEF CopyValues, WorkerAt, UncaughtException
<1>27. Discipline /\ UnlockDevice => Discipline'
  BY DEF UnlockDevice, WorkerAt, WorkerGoes
<1>28. Discipline /\ UpdateRRD => Discipline'
  BY DEF UpdateRRD, WorkerAt, UncaughtException
<1>29. Discipline /\ LoopTest => Discipline'
  BY DEF LoopTest, WorkerAt
<1>30. Discipline /\ WorkerAfterDestruction => Discipline'
  BY DEF WorkerAfterDestruction
<1>31. Discipline /\ RaiseSignal => Discipline'
  BY DEF RaiseSignal
<1>32. Discipline /\ DeliverKill => Discipline'
  BY DEF DeliverKill
<1>33. Discipline /\ Ended => Discipline'
  BY DEF Ended, vars
<1>34. Discipline /\ UNCHANGED vars => Discipline'
  BY DEF vars
<1>35. QED
  BY TypeStep, <1>1, <1>2, <1>3, <1>4, <1>5, <1>6, <1>7, <1>8, <1>9, <1>10,
     <1>11, <1>12, <1>13, <1>14, <1>15, <1>16, <1>17, <1>18, <1>19, <1>20,
     <1>21, <1>22, <1>23, <1>24, <1>25, <1>26, <1>27, <1>28, <1>29, <1>30,
     <1>31, <1>32, <1>33, <1>34
     DEF IInv, Next, MainStep, WaitFails, WorkerStep, WorkerOwnStep, AnyExchange

(* IInv is an invariant of the daemon.                                       *)
THEOREM Inductive == Spec => []IInv
  BY InitIInv, StepIInv, PTL DEF Spec

(* The main thread connects and disconnects the device only while the worker *)
(* is outside the section it locks, although it takes no lock itself.        *)
THEOREM DeviceExclusionHolds == Spec => []DeviceExclusion
<1>1. IInv => DeviceExclusion
  BY DEF IInv, Discipline, WorkerLife, WorkerGone, DeviceExclusion,
         LockedSection
<1>2. QED
  BY <1>1, Inductive, PTL

(* deviceUpdate never exchanges a datagram without a connection.             *)
THEOREM ExchangesAreConnected == Spec => []ExchangeOnlyWhenConnected
<1>1. IInv => ExchangeOnlyWhenConnected
  BY DEF IInv, Discipline, ConnFollowsWorker, ExchangeOnlyWhenConnected
<1>2. QED
  BY <1>1, Inductive, PTL

(* Old values are offered to the RRD file only after a cancellation.         *)
THEOREM StaleIsCancelled == Spec => []StaleOnlyWhenCancelled
<1>1. IInv => StaleOnlyWhenCancelled
  BY DEF IInv, Discipline, StampFollowsWorker, StaleOnlyWhenCancelled
<1>2. QED
  BY <1>1, Inductive, PTL

(* A process that ends with status 0 has joined its worker, released the     *)
(* mutex and closed the connection.                                          *)
THEOREM ExitsCleanly == Spec => []CleanExit
<1>1. IInv => CleanExit
  BY DEF IInv, Discipline
<1>2. QED
  BY <1>1, Inductive, PTL

(* The assertions about the mutex's owner in the debug build never fail.     *)
THEOREM OwnerAssertionHolds == Spec => []OwnerAssertion
<1>1. IInv => OwnerAssertion
  BY DEF IInv, Discipline, MutexFollowsWorker, OwnerAssertion
<1>2. QED
  BY <1>1, Inductive, PTL

(* After terminate() has set the flag an idle worker finds no new work.      *)
LEMMA IdleStep ==
  IInv /\ [Next]_vars
    => [mpc = "join" /\ wpc \in Idle
          => wpc' \in Idle /\ (wpc' = "nap" => wpc = "nap")]_vars
<1> SUFFICES ASSUME IInv, [Next]_vars, mpc = "join", wpc \in Idle
             PROVE  wpc' \in Idle /\ (wpc' = "nap" => wpc = "nap")
  OBVIOUS
<1>1. wCancelled
  BY DEF IInv, Discipline, FlagsFollowMain
<1>2. CASE wpc' = wpc
  BY <1>2
<1>3. CASE wpc' # wpc
  <2>1. NapTest \/ Nap \/ Beat \/ LoopTest
    BY <1>3 DEF Idle, Next, MainStep, WaitFails, SigwaitFails, JoinFails,
       WorkerStep, WorkerOwnStep, AnyExchange,
       Ended, vars, MainAt, MainInit, Daemonize, BlockSignals, StartWorker, Sigwait, Cancel,
       TerminateWorker, KillWorker, JoinWorker, MainDeinit, MainReturn,
       MainUnwind, DestroyWorker, MainCatch, WorkerAt, WorkerGoes, WorkerMain,
       WorkerSignals, LockDevice, UpdateTest, Exchange, Disconnect,
       ConnectTest, DialOk, DialFails, CopyValues, UnlockDevice, UpdateRRD,
       WorkerAfterDestruction, RaiseSignal, DeliverKill
  <2>2. QED
    BY <1>1, <2>1 DEF Idle, NapTest, Nap, Beat, LoopTest, WorkerAt
<1>4. QED
  BY <1>2, <1>3

(* Hence a worker between two beats does not start another one.              *)
THEOREM NoNewWork == Spec => NoNewWorkAfterTerminate
  BY Inductive, IdleStep, PTL DEF Spec, NoNewWorkAfterTerminate

=============================================================================
