---------------------------- MODULE McInterface ----------------------------
(***************************************************************************)
(* The motor control interface (src/mc_interface.c) between the threads    *)
(* that use it: the speed thread commands the motor, or the ready thread   *)
(* in its place, never both at once (Scooter, OneInAdjustSpeed); the       *)
(* timeout thread stops it when the switch thread falls silent, the        *)
(* fault-stop thread when a fault is signalled, and whoever stores a       *)
(* configuration holds it still meanwhile.  A command asks                 *)
(* mc_interface_try_input first and acts after: threads of equal priority  *)
(* may come in between.                                                    *)
(***************************************************************************)
EXTENDS Naturals, FiniteSets

CONSTANTS
    Storers,        \* threads that store a configuration
    Faults,         \* what the interrupts may signal
    NoFault,
    StopTime,       \* m_fault_stop_time_ms, in runs of the timer thread
    TimeoutMotor    \* what timeout_brake_current makes of the motor

ASSUME StopTimeAssumption == StopTime \in Nat \ {0}
ASSUME FaultsAssumption == NoFault \notin Faults
ASSUME StorersAssumption == IsFiniteSet(Storers)
ASSUME TimeoutMotorAssumption == TimeoutMotor \in {"off", "brake"}

VARIABLES
    motor,          \* what the motor does
    locked,         \* m_lock_enabled
    ignore,         \* m_ignore_iterations
    fault,          \* m_fault_now
    signal,         \* m_fault_stop_fault, while its event is pending
    switch,         \* the thread that resets the timeout
    timeoutPc,      \* the timeout thread
    order,          \* what the speed thread was let through with
    store,          \* where each storing thread is
    sysLockCnt,     \* sys_lock_cnt of utils.c
    sysLocked,      \* the system is locked
    asked,          \* history: what the speed thread asked for last
    late,           \* history: a store or a fault came before the order was obeyed
    slipped         \* history: the motor runs by such an order

sys == <<sysLockCnt, sysLocked>>
history == <<asked, late, slipped>>
vars == <<motor, locked, ignore, fault, signal, switch, timeoutPc, order, store, sys, history>>

Init ==
    /\ motor = "off"
    /\ locked = FALSE
    /\ ignore = 0
    /\ fault = NoFault
    /\ signal = NoFault
    /\ switch = "alive"
    /\ timeoutPc = "sleep"
    /\ order = "none"
    /\ store = [s \in Storers |-> "idle"]
    /\ sysLockCnt = 0
    /\ sysLocked = FALSE
    /\ asked = "off"
    /\ late = FALSE
    /\ slipped = FALSE

\* A thread of normal priority runs when the system is not locked, or by the
\* thread itself, and the fault-stop thread has nothing to do
Scheduled == ~sysLocked /\ signal = NoFault

\* Mutant: the lock is not asked
AllowedLocked == ignore = 0

\* mc_interface_try_input returns 0
Allowed == ignore = 0 /\ ~locked

Moves(m) == motor' = m /\ slipped' = (slipped /\ m = "run")

(***************************************************************************)
(* The speed thread: set_pid_speed or release_motor                        *)
(***************************************************************************)
\* The states of a store in which it has tried to release the motor and is not
\* done with it yet
Held == {"lock", "reopen", "retry", "rerelease", "relock", "syslock", "write", "sleep", "unlock"}
Holding(s) == store[s] \in Held

\* Commands are let through, though a store or a fault is not over: another
\* thread has unlocked the motor, the store has not locked it yet, or the ignore
\* period has just ended
Gap == ~locked /\ ignore = 0 /\ (fault # NoFault \/ \E s \in Storers : Holding(s))

Command(c) ==
    /\ Scheduled
    /\ order = "none"
    /\ asked' = c
    /\ order' = IF Allowed THEN c ELSE "none"
    /\ late' = (Gap /\ c = "run")
    /\ UNCHANGED <<motor, locked, ignore, fault, signal, switch, timeoutPc, store, sys, slipped>>

Obey ==
    /\ Scheduled
    /\ order # "none"
    /\ motor' = order
    /\ order' = "none"
    /\ slipped' = late
    /\ late' = FALSE
    /\ UNCHANGED <<locked, ignore, fault, signal, switch, timeoutPc, store, sys, asked>>

\* An order that is still to be obeyed comes late
Overtakes == late' = (order = "run")

(***************************************************************************)
(* Faults: signalled by interrupts, handled by a thread of high priority   *)
(***************************************************************************)
Signal(f) ==
    /\ ~sysLocked
    /\ signal' = f
    /\ UNCHANGED <<motor, locked, ignore, fault, switch, timeoutPc, order, store, sys, history>>

\* The fault that is there already only renews the ignore period
FaultStop ==
    /\ ~sysLocked
    /\ signal # NoFault
    /\ ignore' = StopTime
    /\ IF signal = fault THEN UNCHANGED <<motor, fault, slipped>> ELSE fault' = signal /\ Moves("off")
    /\ signal' = NoFault
    /\ Overtakes
    /\ UNCHANGED <<locked, switch, timeoutPc, order, store, sys, asked>>


\* run_timer_tasks, every millisecond.  The fault is forgotten one run after the
\* period has ended, unless the gate driver's pin still shows one.
Timer ==
    /\ Scheduled
    /\ IF ignore > 0 THEN ignore' = ignore - 1 /\ UNCHANGED fault
       ELSE fault' \in {fault, NoFault} /\ UNCHANGED ignore
    /\ UNCHANGED <<motor, locked, signal, switch, timeoutPc, order, store, sys, history>>

(***************************************************************************)
(* The safety timeout.  A switch thread that runs resets it in time.       *)
(***************************************************************************)
Hang ==
    /\ switch = "alive"
    /\ switch' = "hung"
    /\ UNCHANGED <<motor, locked, ignore, fault, signal, timeoutPc, order, store, sys, history>>

TimeoutExpires ==
    /\ Scheduled
    /\ switch = "hung"
    /\ switch' = "overdue"
    /\ UNCHANGED <<motor, locked, ignore, fault, signal, timeoutPc, order, store, sys, history>>

\* timeout_thread, every 10 ms: unlock, then set_brake_current
TimeoutUnlock ==
    /\ Scheduled
    /\ timeoutPc = "sleep"
    /\ switch = "overdue"
    /\ locked' = FALSE
    /\ timeoutPc' = "try"
    /\ UNCHANGED <<motor, ignore, fault, signal, switch, order, store, sys, history>>

TimeoutTry ==
    /\ Scheduled
    /\ timeoutPc = "try"
    /\ timeoutPc' = IF Allowed THEN "brake" ELSE "sleep"
    /\ UNCHANGED <<motor, locked, ignore, fault, signal, switch, order, store, sys, history>>

TimeoutBrake ==
    /\ Scheduled
    /\ timeoutPc = "brake"
    /\ Moves(TimeoutMotor)
    /\ timeoutPc' = "sleep"
    /\ UNCHANGED <<locked, ignore, fault, signal, switch, order, store, sys, asked, late>>

TimeoutThread == TimeoutUnlock \/ TimeoutTry \/ TimeoutBrake

(***************************************************************************)
(* conf_general_store_app_configuration and .._mc_configuration            *)
(***************************************************************************)
At(s, here, there) == store[s] = here /\ store' = [store EXCEPT ![s] = there]

StoreBegins(s) ==
    /\ Scheduled
    /\ At(s, "idle", "try")
    /\ locked' = FALSE
    /\ UNCHANGED <<motor, ignore, fault, signal, switch, timeoutPc, order, sys, history>>

\* The calls for a second motor, of which there is none: they are for the first
\* one over again.
StoreReopens(s) ==
    /\ Scheduled
    /\ At(s, "reopen", "retry")
    /\ locked' = FALSE
    /\ UNCHANGED <<motor, ignore, fault, signal, switch, timeoutPc, order, sys, history>>

StoreTries(s) ==
    /\ Scheduled
    /\ \/ At(s, "try", IF Allowed THEN "release" ELSE "lock")
       \/ At(s, "retry", IF Allowed THEN "rerelease" ELSE "relock")
    /\ UNCHANGED <<motor, locked, ignore, fault, signal, switch, timeoutPc, order, sys, history>>

\* Mutant: locks the motor as it is
StoreReleasesNot(s) ==
    /\ Scheduled
    /\ At(s, "release", "lock") \/ At(s, "rerelease", "relock")
    /\ UNCHANGED <<motor, locked, ignore, fault, signal, switch, timeoutPc, order, sys, history>>

StoreReleases(s) ==
    /\ Scheduled
    /\ At(s, "release", "lock") \/ At(s, "rerelease", "relock")
    /\ Moves("off")
    /\ Overtakes
    /\ UNCHANGED <<locked, ignore, fault, signal, switch, timeoutPc, order, sys, asked>>

StoreLocks(s) ==
    /\ Scheduled
    /\ At(s, "lock", "reopen") \/ At(s, "relock", "syslock")
    /\ locked' = TRUE
    /\ Overtakes
    /\ UNCHANGED <<motor, ignore, fault, signal, switch, timeoutPc, order, sys, asked, slipped>>

\* utils_sys_lock_cnt
StoreLocksSystem(s) ==
    /\ Scheduled
    /\ At(s, "syslock", "write")
    /\ sysLockCnt' = sysLockCnt + 1
    /\ sysLocked' = (sysLocked \/ sysLockCnt = 0)
    /\ UNCHANGED <<motor, locked, ignore, fault, signal, switch, timeoutPc, order, history>>

\* The words are written; chThdSleepMilliseconds lets the others run, whatever
\* sys_lock_cnt says
StoreWrites(s) ==
    /\ sysLocked \/ Scheduled
    /\ At(s, "write", "sleep")
    /\ sysLocked' = FALSE
    /\ UNCHANGED <<motor, locked, ignore, fault, signal, switch, timeoutPc, order, sysLockCnt, history>>

\* Mutant: returns without unlocking the motor
StoreUnlocksNot(s) ==
    /\ Scheduled
    /\ At(s, "sleep", "unlock")
    /\ UNCHANGED <<motor, locked, ignore, fault, signal, switch, timeoutPc, order, sys, history>>

StoreUnlocks(s) ==
    /\ Scheduled
    /\ At(s, "sleep", "unlock")
    /\ locked' = FALSE
    /\ UNCHANGED <<motor, ignore, fault, signal, switch, timeoutPc, order, sys, history>>

\* Mutant: the count is not taken back
StoreCountsOn(s) ==
    /\ Scheduled
    /\ At(s, "unlock", "idle")
    /\ UNCHANGED <<motor, locked, ignore, fault, signal, switch, timeoutPc, order, sys, history>>

\* utils_sys_unlock_cnt
StoreUnlocksSystem(s) ==
    /\ Scheduled
    /\ At(s, "unlock", "idle")
    /\ sysLockCnt' = IF sysLockCnt > 0 THEN sysLockCnt - 1 ELSE 0
    /\ UNCHANGED <<motor, locked, ignore, fault, signal, switch, timeoutPc, order, sysLocked, history>>

StoreContinues(s) ==
    \/ StoreReopens(s) \/ StoreTries(s) \/ StoreReleases(s) \/ StoreLocks(s)
    \/ StoreLocksSystem(s) \/ StoreWrites(s) \/ StoreUnlocks(s) \/ StoreUnlocksSystem(s)

Next ==
    \/ \E c \in {"run", "off"} : Command(c)
    \/ Obey
    \/ \E f \in Faults : Signal(f)
    \/ FaultStop
    \/ Timer
    \/ Hang \/ TimeoutExpires \/ TimeoutThread
    \/ \E s \in Storers : StoreBegins(s) \/ StoreContinues(s)

\* Threads of equal priority take turns: one that is ready whenever neither the
\* system lock nor the fault-stop thread keeps it from running runs in the end
Fairness ==
    /\ WF_vars(FaultStop)
    /\ SF_vars(Obey)
    /\ SF_vars(Timer)
    /\ SF_vars(TimeoutExpires)
    /\ SF_vars(TimeoutThread)
    /\ \A s \in Storers : SF_vars(StoreContinues(s))

Spec == Init /\ [][Next]_vars /\ Fairness

(***************************************************************************)
(* Properties                                                              *)
(***************************************************************************)
Progress == {"idle", "try", "release"} \cup Held

TypeOK ==
    /\ motor \in {"off", "run", "brake"}
    /\ locked \in BOOLEAN
    /\ ignore \in 0..StopTime
    /\ fault \in Faults \cup {NoFault} /\ signal \in Faults \cup {NoFault}
    /\ switch \in {"alive", "hung", "overdue"}
    /\ timeoutPc \in {"sleep", "try", "brake"}
    /\ order \in {"none", "run", "off"}
    /\ store \in [Storers -> Progress]
    /\ sysLockCnt \in 0..Cardinality(Storers) /\ sysLocked \in BOOLEAN
    /\ asked \in {"run", "off"} /\ late \in BOOLEAN /\ slipped \in BOOLEAN

\* While a store that has released the motor writes flash, the motor runs only
\* by a late order (conf_general_store_app_configuration).
StillWhileStoring ==
    motor = "run" /\ (\E s \in Storers : store[s] \in {"syslock", "write", "sleep"}) => slipped

\* The motor runs on against the wish of the speed thread only by a late order:
\* no other interleaving of timeout, faults and stores makes a refused release
\* matter (mc_interface_release_motor).
OnlyALateOrder ==
    motor = "run" /\ order = "none" /\ asked = "off" => slipped

\* No fault is signalled any more and nobody begins to store
Calm == <>[][signal' = signal /\ \A s \in Storers : store[s] = "idle" => store'[s] = "idle"]_<<signal, store>>


\* A lock does not stay, whatever faults, timeouts and stores come in between
\* (conf_general_store_app_configuration).
LockEnds == locked ~> ~locked

\* A fault stops the motor, whenever the fault-stop thread handles one
\* (fault_stop_thread).
FaultsStop == [][FaultStop => motor' # "run"]_vars
=============================================================================
