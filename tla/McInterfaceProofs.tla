------------------------- MODULE McInterfaceProofs -------------------------
(***************************************************************************)
(* Proofs about McInterface: its types, with the count of the system lock  *)
(* equal to the stores that hold it, and that only a late order defeats    *)
(* the lock and the ignore period.                                         *)
(***************************************************************************)
EXTENDS McInterface, FiniteSetTheorems, TLAPS

\* The stores that count in sys_lock_cnt
Counted == {s \in Storers : store[s] \in {"write", "sleep", "unlock"}}

Types ==
    /\ motor \in {"off", "run", "brake"}
    /\ locked \in BOOLEAN
    /\ ignore \in 0..StopTime
    /\ fault \in Faults \cup {NoFault} /\ signal \in Faults \cup {NoFault}
    /\ switch \in {"alive", "hung", "overdue"}
    /\ timeoutPc \in {"sleep", "try", "brake"}
    /\ order \in {"none", "run", "off"}
    /\ store \in [Storers -> Progress]
    /\ sysLockCnt \in Nat /\ sysLocked \in BOOLEAN
    /\ asked \in {"run", "off"} /\ late \in BOOLEAN /\ slipped \in BOOLEAN

\* A fault or a store is not over
Busy == locked \/ ignore > 0 \/ fault # NoFault \/ \E s \in Storers : Holding(s)

\* An order to run that is pending meanwhile, or obeyed, was late
Late ==
    /\ Busy /\ order = "run" => late
    /\ Busy /\ motor = "run" => slipped

\* The pending order is the last wish
Wish == order # "none" => asked = order

Inv == Types /\ sysLockCnt = Cardinality(Counted) /\ Late /\ Wish /\ OnlyALateOrder

\* The initial state satisfies the invariant.
LEMMA InitInv == Init => Inv
<1> SUFFICES ASSUME Init PROVE Inv
  OBVIOUS
<1>0. locked \in BOOLEAN /\ sysLocked \in BOOLEAN /\ late \in BOOLEAN /\ slipped \in BOOLEAN
  BY Zenon DEF Init
<1>1. Types
  BY <1>0, StopTimeAssumption DEF Init, Types, Progress
<1>2. Late /\ Wish /\ OnlyALateOrder
  BY DEF Init, Late, Wish, OnlyALateOrder
<1>3. sysLockCnt = Cardinality(Counted)
  <2>1. Counted = {}
    BY DEF Init, Counted
  <2> QED
    BY <2>1, FS_EmptySet DEF Init
<1> QED
  BY <1>1, <1>2, <1>3 DEF Inv

\* The types are preserved by every step.
LEMMA TypesStep == Types /\ [Next]_vars => Types'
<1> SUFFICES ASSUME Types, [Next]_vars PROVE Types'
  OBVIOUS
<1> USE StopTimeAssumption, TimeoutMotorAssumption DEF Types, Progress, Held
<1>1. ASSUME NEW c \in {"run", "off"}, Command(c) PROVE Types'
  BY <1>1 DEF Command, Gap, sys, history
<1>2. CASE Obey
  BY <1>2 DEF Obey, sys, history
<1>3. ASSUME NEW f \in Faults, Signal(f) PROVE Types'
  BY <1>3 DEF Signal, sys, history
<1>4. CASE FaultStop
  BY <1>4 DEF FaultStop, Overtakes, Moves, sys, history
<1>5. CASE Timer
  BY <1>5 DEF Timer, sys, history
<1>6. CASE Hang \/ TimeoutExpires \/ TimeoutThread
  <2>1. CASE Hang \/ TimeoutExpires \/ TimeoutTry
    BY <2>1 DEF Hang, TimeoutExpires, TimeoutTry, sys, history
  <2>3. CASE TimeoutUnlock
    <3>1. locked' \in BOOLEAN
      BY <2>3, Zenon DEF TimeoutUnlock
    <3> QED
      BY <2>3, <3>1 DEF TimeoutUnlock, sys, history
  <2>2. CASE TimeoutBrake
    BY <2>2 DEF TimeoutBrake, Moves, sys
  <2> QED
    BY <1>6, <2>1, <2>2, <2>3 DEF TimeoutThread
<1>7. ASSUME NEW s \in Storers, StoreBegins(s) \/ StoreContinues(s) PROVE Types'
  <2>1. CASE StoreBegins(s) \/ StoreReopens(s) \/ StoreUnlocks(s)
    <3>1. locked' \in BOOLEAN
      BY <2>1, Zenon DEF StoreBegins, StoreReopens, StoreUnlocks
    <3> QED
      BY <2>1, <3>1 DEF StoreBegins, StoreReopens, StoreUnlocks, At, sys, history
  <2>7. CASE StoreTries(s)
    BY <2>7 DEF StoreTries, At, sys, history
  <2>2. CASE StoreReleases(s)
    BY <2>2 DEF StoreReleases, At, Overtakes, Moves, sys
  <2>3. CASE StoreLocks(s)
    BY <2>3 DEF StoreLocks, At, Overtakes, sys
  <2>4. CASE StoreLocksSystem(s)
    BY <2>4 DEF StoreLocksSystem, At, history
  <2>5. CASE StoreWrites(s)
    <3>1. sysLocked' \in BOOLEAN
      BY <2>5, Zenon DEF StoreWrites
    <3> QED
      BY <2>5, <3>1 DEF StoreWrites, At, history
  <2>6. CASE StoreUnlocksSystem(s)
    BY <2>6 DEF StoreUnlocksSystem, At, history
  <2> QED
    BY <1>7, <2>1, <2>2, <2>3, <2>4, <2>5, <2>6, <2>7 DEF StoreContinues
<1>8. CASE UNCHANGED vars
  BY <1>8 DEF vars, sys, history
<1> QED
  BY <1>1, <1>2, <1>3, <1>4, <1>5, <1>6, <1>7, <1>8 DEF Next

\* Locks, faults and stores overtake a pending order or find it late already.
LEMMA LateStep == Types /\ Late /\ [Next]_vars => Late'
<1> SUFFICES ASSUME Types, Late, [Next]_vars PROVE Late'
  OBVIOUS
<1> USE StopTimeAssumption, TimeoutMotorAssumption DEF Types, Late, Busy, Holding, Held
<1>1. ASSUME NEW c \in {"run", "off"}, Command(c) PROVE Late'
  <2>1. Busy' = Busy /\ motor' = motor /\ slipped' = slipped
    BY <1>1 DEF Command, sys
  <2>2. order' = "run" => c = "run" /\ Allowed /\ (late' <=> Gap)
    BY <1>1 DEF Command
  <2>3. Busy /\ Allowed => Gap
    BY DEF Gap, Allowed
  <2> QED
    BY <2>1, <2>2, <2>3
<1>2. CASE Obey
  BY <1>2 DEF Obey, sys, history
<1>3. ASSUME NEW f \in Faults, Signal(f) PROVE Late'
  BY <1>3 DEF Signal, sys, history
<1>4. CASE FaultStop
  BY <1>4 DEF FaultStop, Overtakes, Moves, sys, history
<1>5. CASE Timer
  BY <1>5 DEF Timer, sys, history
<1>6. CASE Hang \/ TimeoutExpires \/ TimeoutThread
  BY <1>6 DEF Hang, TimeoutExpires, TimeoutThread, TimeoutUnlock, TimeoutTry, TimeoutBrake, Moves, sys, history
<1>7. ASSUME NEW s \in Storers, StoreBegins(s) \/ StoreReopens(s) PROVE Late'
  BY <1>7 DEF StoreBegins, StoreReopens, At, sys, history
<1>8. ASSUME NEW s \in Storers, StoreTries(s) PROVE Late'
  BY <1>8 DEF StoreTries, At, Allowed, sys, history
<1>9. ASSUME NEW s \in Storers, StoreReleases(s) PROVE Late'
  BY <1>9 DEF StoreReleases, At, Overtakes, Moves, sys, history
<1>10. ASSUME NEW s \in Storers, StoreLocks(s) PROVE Late'
  BY <1>10 DEF StoreLocks, At, Overtakes, sys, history
<1>11. ASSUME NEW s \in Storers, StoreLocksSystem(s) \/ StoreWrites(s) \/ StoreUnlocks(s) \/ StoreUnlocksSystem(s)
       PROVE Late'
  BY <1>11 DEF StoreLocksSystem, StoreWrites, StoreUnlocks, StoreUnlocksSystem, At, sys, history
<1>12. CASE UNCHANGED vars
  BY <1>12 DEF vars, sys, history
<1> QED
  BY <1>1, <1>2, <1>3, <1>4, <1>5, <1>6, <1>7, <1>8, <1>9, <1>10, <1>11, <1>12 DEF Next, StoreContinues

\* A refused release finds the motor still, or running by a late order.
LEMMA WishStep == Inv /\ [Next]_vars => (Wish /\ OnlyALateOrder)'
<1> SUFFICES ASSUME Inv, [Next]_vars PROVE (Wish /\ OnlyALateOrder)'
  OBVIOUS
<1> USE TimeoutMotorAssumption DEF Inv, Types, Wish, OnlyALateOrder
<1>1. ASSUME NEW c \in {"run", "off"}, Command(c) PROVE (Wish /\ OnlyALateOrder)'
  BY <1>1 DEF Command, Late, Busy, Allowed, sys, history
<1>2. CASE Obey
  BY <1>2 DEF Obey, sys, history
<1>3. ASSUME NEW f \in Faults, Signal(f) PROVE (Wish /\ OnlyALateOrder)'
  BY <1>3 DEF Signal, sys, history
<1>4. CASE FaultStop
  BY <1>4 DEF FaultStop, Overtakes, Moves, sys, history
<1>5. CASE Timer
  BY <1>5 DEF Timer, sys, history
<1>6. CASE Hang \/ TimeoutExpires \/ TimeoutThread
  BY <1>6 DEF Hang, TimeoutExpires, TimeoutThread, TimeoutUnlock, TimeoutTry, TimeoutBrake, Moves, sys, history
<1>7. ASSUME NEW s \in Storers, StoreBegins(s) \/ StoreContinues(s) PROVE (Wish /\ OnlyALateOrder)'
  BY <1>7 DEF StoreBegins, StoreContinues, StoreReopens, StoreTries, StoreReleases, StoreLocks, StoreLocksSystem,
              StoreWrites, StoreUnlocks, StoreUnlocksSystem, At, Overtakes, Moves, sys, history
<1>8. CASE UNCHANGED vars
  BY <1>8 DEF vars, sys, history
<1> QED
  BY <1>1, <1>2, <1>3, <1>4, <1>5, <1>6, <1>7, <1>8 DEF Next

\* The count of the system lock is that of the stores that hold it.
LEMMA CountStep ==
    Types /\ sysLockCnt = Cardinality(Counted) /\ [Next]_vars => sysLockCnt' = Cardinality(Counted')
<1> SUFFICES ASSUME Types, sysLockCnt = Cardinality(Counted), [Next]_vars
             PROVE  sysLockCnt' = Cardinality(Counted')
  OBVIOUS
<1>1. IsFiniteSet(Counted)
  BY StorersAssumption, FS_Subset DEF Counted
<1>2. ASSUME NEW s \in Storers, StoreLocksSystem(s) PROVE sysLockCnt' = Cardinality(Counted')
  <2>1. s \notin Counted /\ Counted' = Counted \cup {s}
    BY <1>2 DEF StoreLocksSystem, At, Counted, Types
  <2>2. Cardinality(Counted') = Cardinality(Counted) + 1
    BY <1>1, <2>1, FS_AddElement
  <2> QED
    BY <1>2, <2>2 DEF StoreLocksSystem
<1>3. ASSUME NEW s \in Storers, StoreUnlocksSystem(s) PROVE sysLockCnt' = Cardinality(Counted')
  <2>1. s \in Counted /\ Counted' = Counted \ {s}
    BY <1>3 DEF StoreUnlocksSystem, At, Counted, Types
  <2>2. Cardinality(Counted') = Cardinality(Counted) - 1
    BY <1>1, <2>1, FS_RemoveElement
  <2>3. sysLockCnt > 0
    BY <1>1, <2>1, FS_EmptySet DEF Types
  <2> QED
    BY <1>3, <2>2, <2>3 DEF StoreUnlocksSystem
<1>4. ASSUME NEW s \in Storers,
             \/ StoreBegins(s) \/ StoreReopens(s) \/ StoreTries(s) \/ StoreReleases(s)
             \/ StoreLocks(s) \/ StoreWrites(s) \/ StoreUnlocks(s)
      PROVE  sysLockCnt' = Cardinality(Counted')
  <2>1. sysLockCnt' = sysLockCnt
    BY <1>4 DEF StoreBegins, StoreReopens, StoreTries, StoreReleases, StoreLocks, StoreWrites, StoreUnlocks, sys
  <2>2. Counted' = Counted
    BY <1>4 DEF StoreBegins, StoreReopens, StoreTries, StoreReleases, StoreLocks, StoreWrites, StoreUnlocks, At, Counted, Types
  <2> QED
    BY <2>1, <2>2
<1>5. CASE UNCHANGED <<store, sysLockCnt>>
  BY <1>5 DEF Counted
<1>6. ASSUME NEW c \in {"run", "off"}, Command(c) PROVE UNCHANGED <<store, sysLockCnt>>
  BY <1>6 DEF Command, sys
<1>7. ASSUME NEW f \in Faults, Signal(f) PROVE UNCHANGED <<store, sysLockCnt>>
  BY <1>7 DEF Signal, sys
<1>8. Obey \/ FaultStop \/ Timer \/ Hang \/ TimeoutExpires \/ TimeoutThread \/ UNCHANGED vars
      => UNCHANGED <<store, sysLockCnt>>
  BY DEF Obey, FaultStop, Timer, Hang, TimeoutExpires, TimeoutThread, TimeoutUnlock, TimeoutTry, TimeoutBrake,
         vars, sys
<1> QED
  BY <1>2, <1>3, <1>4, <1>5, <1>6, <1>7, <1>8 DEF Next, StoreContinues

\* The invariant holds in every state of the specification.
LEMMA InvHolds == Spec => []Inv
<1>1. Inv /\ [Next]_vars => Inv'
  BY TypesStep, LateStep, WishStep, CountStep DEF Inv
<1> QED
  BY InitInv, <1>1, PTL DEF Spec

\* The values stay in their types, and sys_lock_cnt counts no more than the
\* threads that store (utils_sys_lock_cnt, utils_sys_unlock_cnt).
THEOREM TypeOKHolds == Spec => []TypeOK
<1>1. ASSUME Inv PROVE TypeOK
  <2>1. Cardinality(Counted) <= Cardinality(Storers)
    BY StorersAssumption, FS_Subset DEF Counted
  <2>2. sysLockCnt \in 0..Cardinality(Storers)
    BY <1>1, <2>1, StorersAssumption, FS_CardinalityType DEF Inv, Types
  <2> QED
    BY <1>1, <2>2 DEF Inv, Types, TypeOK
<1> QED
  BY <1>1, InvHolds, PTL

\* Whoever stores, whatever faults come and whenever the threads take turns: a
\* configuration is written with the motor running only after a late order
\* (mc_interface_try_input, conf_general_store_app_configuration).
THEOREM StillWhileStoringHolds == Spec => []StillWhileStoring
<1>1. Inv => StillWhileStoring
  BY DEF Inv, Late, Busy, Holding, Held, StillWhileStoring
<1> QED
  BY <1>1, InvHolds, PTL

\* A refused release leaves the motor running only after a late order
\* (mc_interface_release_motor).
THEOREM OnlyALateOrderHolds == Spec => []OnlyALateOrder
<1>1. Inv => OnlyALateOrder
  BY DEF Inv
<1> QED
  BY <1>1, InvHolds, PTL
=============================================================================
