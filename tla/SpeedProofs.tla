----------------------------- MODULE SpeedProofs -----------------------------
(***************************************************************************)
(* What Speed.cfg checks of who drives the motor, for every table of       *)
(* speeds, ramp, band and limit.                                           *)
(***************************************************************************)
EXTENDS Speed, MailboxProofs

-----------------------------------------------------------------------------
(* Types *)

Users == 0 .. MAX_SPEED_SETTING - 1
Drives == [on : BOOLEAN, speed : Nat, amps : 0..MAX_SPEED_SETTING, guarded : BOOLEAN]

\* The settings a thread reads are indices into the table of speeds.
LEMMA SettingsType ==
    ASSUME settings \in SettingsSpace
    PROVE  /\ DEFAULT_SPEED \in Users /\ settings.jump_speed - 1 \in Users
           /\ settings.max_speed - 1 \in Users
           /\ settings.low_migrate \in 0..1 /\ settings.use_safety \in 0..1
<1>1. /\ settings.speed_default \in 1..Len(Speeds) /\ settings.max_speed \in 1..Len(Speeds)
      /\ settings.jump_speed \in 1..Len(Speeds)
      /\ settings.use_safety \in 0..1 /\ settings.low_migrate \in 0..1
  BY SettingsAssumption
<1>2. Len(Speeds) \in Nat
  BY SpeedsAssumption
<1> QED BY <1>1, <1>2 DEF DEFAULT_SPEED, Users, MAX_SPEED_SETTING

\* The table has one to nine levels, and 0 is one of them.
LEMMA TableType == Speeds \in Seq(Nat) /\ MAX_SPEED_SETTING \in 1..9 /\ 0 \in Users
<1>1. Speeds \in Seq(Nat)
  BY SpeedsAssumption
<1>2. MAX_SPEED_SETTING \in 1..9
  BY SpeedsAssumption DEF MAX_SPEED_SETTING
<1>3. 0 \in Users
  BY <1>2 DEF Users
<1> QED BY <1>1, <1>2, <1>3

\* The division that lowers a speed for the battery gives a speed.
LEMMA LimitType ==
    ASSUME NEW speed \in Nat, battery \in Nat
    PROVE  LimitByBattery(speed) \in Nat
<1>1. speed * battery \in Nat
  OBVIOUS
<1>2. LowBattery \in Nat \ {0}
  BY SpeedsAssumption
<1>3. (speed * battery) \div LowBattery \in Nat
  BY <1>1, <1>2
<1> QED BY <1>3 DEF LimitByBattery

\* A user's level of the table, lowered for the battery, is a speed.
LEMMA LimitedType ==
    ASSUME NEW user \in Users, battery \in Nat
    PROVE  LimitedSpeed(user) \in Nat
<1>1. Speeds[user + 1] \in Nat
  BY TableType DEF Users, MAX_SPEED_SETTING
<1> QED BY <1>1, LimitType DEF LimitedSpeed

\* A step of the ramp goes towards the programmed speed and not too far.
LEMMA RampingStep ==
    ASSUME NEW present \in Nat, NEW programmed \in Nat
    PROVE  /\ Ramping(present, programmed) \in Nat
           /\ Ramping(present, programmed) - present \in -RampDelta .. RampDelta
<1>1. RampDelta \in Nat
  BY SpeedsAssumption
<1> QED BY <1>1 DEF Ramping

\* What set_pid_speed gets, in half units, is a natural number too.
LEMMA SetpointType == \A speed \in Nat : Setpoint(speed) \in Nat
BY DEF Setpoint

\* Whichever mode adjust_speed is called in, the motor is told something sane.
LEMMA RunType ==
    ASSUME TypeOK, NEW user \in Users, RunMotor(user)
    PROVE  presentSpeed' \in Nat /\ motor' \in Drives
<1>1. battery \in Nat /\ presentSpeed \in Nat /\ inverted \in 0..1
  BY SpeedsAssumption DEF TypeOK
<1>2. presentSpeed' \in Nat
  BY <1>1, LimitedType, RampingStep DEF RunMotor
<1>3. Setpoint(presentSpeed') \in Nat /\ user + 1 \in 0..MAX_SPEED_SETTING
  BY <1>2, TableType, SetpointType DEF Users
<1> QED BY <1>2, <1>3 DEF RunMotor, Drives

\* The guard speed, lowered for the battery, is a speed the motor can be told.
LEMMA GuardType ==
    ASSUME TypeOK, GuardMotor
    PROVE  presentSpeed' \in Nat /\ motor' \in Drives
<1>1. battery \in Nat /\ GuardSpeed \in Nat
  BY SpeedsAssumption DEF TypeOK
<1>2. presentSpeed' \in Nat
  BY <1>1, LimitType DEF GuardMotor
<1>3. Setpoint(presentSpeed') \in Nat /\ GUARD \in 0..MAX_SPEED_SETTING
  BY <1>2, TableType, SetpointType DEF GUARD
<1> QED BY <1>2, <1>3 DEF GuardMotor, Drives

\* Releasing the motor leaves it off.
LEMMA ReleaseType ==
    ASSUME TypeOK, ReleaseMotor
    PROVE  presentSpeed' \in Nat /\ motor' \in Drives /\ ~motor'.on
BY TableType DEF TypeOK, ReleaseMotor, Drives

\* What is posted to the display thread is a message of its.
LEMMA ShowType ==
    ASSUME TypeOK, NEW user \in Users,
           \/ ShowSpeed(user) \/ ShowStart(user)
           \/ Show("DISP_ON_TRIGGER") \/ Show("DISP_OFF_TRIGGER")
    PROVE  displayMbox' \in MailboxOf(DisplayMsg)
<1>1. DispSpeed[user + 1] \in DisplayMsg
  <2>1. user + 1 \in 1..9
    BY TableType DEF Users
  <2> QED BY <2>1 DEF DisplayMsg
<1>2. {"DISP_ON_TRIGGER", "DISP_OFF_TRIGGER"} \subseteq DisplayMsg
  BY DEF DisplayMsg
<1>3. Post(displayMbox, "DISP_ON_TRIGGER") \in MailboxOf(DisplayMsg)
  BY <1>2, PostType DEF TypeOK
<1> QED BY <1>1, <1>2, <1>3, PostType DEF TypeOK, ShowSpeed, ShowStart, Show

\* A message heard was one of the thread's, and its mailbox stays sane.
LEMMA HearsType ==
    ASSUME TypeOK, NEW event, Hears(event)
    PROVE  /\ speedMbox' \in MailboxOf(SpeedMsg)
           /\ UNCHANGED <<readyTimeout, safeCt, failCt, attempt, battery, settings>>
<1>1. CASE event = "TIMER_EXPIRY"
  BY <1>1 DEF Hears, TimesOut, TypeOK, readyVars, worldVars
<1>2. CASE event # "TIMER_EXPIRY"
  BY <1>2, FetchType DEF Hears, TypeOK, readyVars, worldVars
<1> QED BY <1>1, <1>2

\* The speed thread keeps to programmed speeds.
LEMMA UserType ==
    ASSUME TypeOK, NEW user \in Users
    PROVE  Increase(user) \in Users /\ Decrease(user) \in Users /\ Migrate(user) \in Users
<1>1. DEFAULT_SPEED \in Users /\ settings.max_speed - 1 \in Users
  BY SettingsType DEF TypeOK
<1>2. MAX_SPEED_SETTING \in Nat
  BY TableType
<1>3. Increase(user) \in Users /\ Decrease(user) \in Users
  BY <1>1, <1>2 DEF Increase, Decrease, Users
<1>4. Migrate(user) \in Users
  BY <1>1, <1>2 DEF Migrate, Users
<1> QED BY <1>3, <1>4

\* The speed thread keeps the types.
LEMMA SpeedThreadType ==
    ASSUME TypeOK, SpeedThread
    PROVE  TypeOK'
<1>1. /\ userSpeed \in Users /\ 0 \in Users /\ settings.jump_speed - 1 \in Users
      /\ motor \in Drives
  BY TableType, SettingsType DEF TypeOK, Users, Drives
<1>2. ASSUME /\ speedMbox' \in MailboxOf(SpeedMsg)
             /\ UNCHANGED <<readyTimeout, safeCt, failCt, attempt, battery, settings>>,
             readyMbox' \in MailboxOf(ReadyMsg), displayMbox' \in MailboxOf(DisplayMsg),
             NEW state \in {"OFF", "ON", "START"}, NEW user \in Users,
             NEW timeout \in {INFINITE, RAMPING, CHECKING, MIGRATING},
             Go(state, user, timeout),
             presentSpeed' \in Nat, motor' \in Drives, inverted' \in 0..1, screen' \in Screen
      PROVE  TypeOK'
  BY <1>2 DEF TypeOK, Go, Users, Drives
<1>3. CASE StartGuarded
  <2>1. readyMbox' \in MailboxOf(ReadyMsg)
    BY <1>3, PostType DEF StartGuarded, TypeOK, ReadyMsg
  <2> QED BY <1>1, <1>2, <1>3, <2>1, HearsType, ShowType DEF StartGuarded, driveVars, TypeOK
<1>4. CASE StartUnguarded
  BY <1>1, <1>2, <1>4, HearsType, ShowType, RunType DEF StartUnguarded, TypeOK
<1>5. CASE JumpStart
  BY <1>1, <1>2, <1>5, HearsType, ShowType, RunType DEF JumpStart, Go, TypeOK
<1>6. CASE TurnAround
  BY <1>1, <1>2, <1>6, HearsType, ReleaseType DEF TurnAround, TypeOK, Screen
<1>7. CASE MigrateSpeed
  BY <1>1, <1>2, <1>7, HearsType, UserType DEF MigrateSpeed, driveVars, TypeOK
<1>8. CASE Stop
  BY <1>1, <1>2, <1>8, HearsType, ShowType, ReleaseType DEF Stop, TypeOK
<1>9. CASE ChangeSpeed
  BY <1>1, <1>2, <1>9, HearsType, UserType, ShowType, RunType DEF ChangeSpeed, Go, TypeOK
<1>10. CASE KeepRunning
  BY <1>1, <1>2, <1>10, HearsType, RunType DEF KeepRunning, TypeOK
<1>11. CASE StopGuarded
  <2>1. readyMbox' \in MailboxOf(ReadyMsg)
    BY <1>11, PostType DEF StopGuarded, TypeOK, ReadyMsg
  <2> QED BY <1>1, <1>2, <1>11, <2>1, HearsType, ShowType, ReleaseType DEF StopGuarded, TypeOK
<1>12. CASE Approved
  BY <1>1, <1>2, <1>12, HearsType, ShowType, RunType DEF Approved, TypeOK
<1>13. CASE Disregard
  BY <1>13, HearsType DEF Disregard, speedVars, driveVars, TypeOK
<1> QED BY <1>3, <1>4, <1>5, <1>6, <1>7, <1>8, <1>9, <1>10, <1>11, <1>12, <1>13 DEF SpeedThread

\* So does the ready thread.
LEMMA ReadyThreadType ==
    ASSUME TypeOK, ReadyThread
    PROVE  TypeOK'
<1>1. /\ userSpeed \in Users /\ motor \in Drives
      /\ SafeCount \in Nat /\ FailCount \in Nat /\ CounterRange \in Nat \ {0}
      /\ attempt.good \in 0 .. SafeCount + 1 /\ attempt.bad \in 0 .. FailCount + 1
  BY SpeedsAssumption DEF TypeOK, Users, Drives
<1>2. UNCHANGED <<displayMbox, speedVars, inverted, screen, battery, settings>>
  BY DEF ReadyThread, worldVars
<1>3. ASSUME speedMbox' \in MailboxOf(SpeedMsg), readyMbox' \in MailboxOf(ReadyMsg),
             readyTimeout' \in {INFINITE, RAMPING, DELAY},
             safeCt' \in 0 .. CounterRange - 1, failCt' \in 0 .. CounterRange - 1,
             attempt' \in [good : 0 .. SafeCount + 1, bad : 0 .. FailCount + 1],
             presentSpeed' \in Nat, motor' \in Drives
      PROVE  TypeOK'
  BY <1>2, <1>3 DEF TypeOK, speedVars, Drives
<1>4. CASE ReadyDelay
  <2>1. readyMbox' \in MailboxOf(ReadyMsg)
    BY <1>4, FetchType DEF ReadyDelay, Fetches, TypeOK
  <2> QED BY <1>1, <1>3, <1>4, <2>1 DEF ReadyDelay, driveVars, TypeOK
<1>5. CASE ReadyOn
  <2>1. readyMbox' \in MailboxOf(ReadyMsg)
    BY <1>5, FetchType DEF ReadyOn, TypeOK
  <2> QED BY <1>1, <1>3, <1>5, <2>1, GuardType DEF ReadyOn, TypeOK
<1>6. CASE ReadyOff
  <2>1. readyMbox' \in MailboxOf(ReadyMsg)
    BY <1>6, FetchType DEF ReadyOff, TypeOK
  <2> QED BY <1>1, <1>3, <1>6, <2>1 DEF ReadyOff, driveVars, TypeOK
<1>7. ASSUME NEW sample \in Samples, ReadySample(sample)
      PROVE  TypeOK'
  <2>1. Post(speedMbox, "SPEED_OFF") \in MailboxOf(SpeedMsg)
    BY PostType DEF TypeOK, SpeedMsg, Order
  <2>2. /\ Post(speedMbox, "SPEED_READY") \in MailboxOf(SpeedMsg)
        /\ Post(Post(speedMbox, "SPEED_OFF"), "SPEED_READY") \in MailboxOf(SpeedMsg)
    BY <2>1, PostType DEF TypeOK, SpeedMsg
  <2>3. speedMbox' \in MailboxOf(SpeedMsg)
    BY <1>7, <2>1, <2>2 DEF ReadySample, TypeOK
  <2>4. safeCt' \in 0 .. CounterRange - 1 /\ failCt' \in 0 .. CounterRange - 1
    BY <1>1, <1>7 DEF ReadySample, Count, TypeOK
  <2>5. attempt' \in [good : 0 .. SafeCount + 1, bad : 0 .. FailCount + 1]
    BY <1>1, <1>7 DEF ReadySample, Upto
  <2> QED BY <1>1, <1>3, <1>7, <2>3, <2>4, <2>5 DEF ReadySample, TimesOut, driveVars, TypeOK
<1> QED BY <1>4, <1>5, <1>6, <1>7 DEF ReadyThread

\* And so does the rest of the application.
LEMMA WorldType ==
    ASSUME TypeOK, DisplayFetches \/ World
    PROVE  TypeOK'
<1>1. CASE DisplayFetches
  <2>1. <<>> \in MailboxOf(DisplayMsg)
    BY QueueAssumption DEF MailboxOf
  <2> QED BY <1>1, <2>1
      DEF DisplayFetches, TypeOK, Screen, speedVars, driveVars, readyVars, worldVars
<1>2. CASE UserOrders
  <2>1. speedMbox' \in MailboxOf(SpeedMsg)
    BY <1>2, PostType DEF UserOrders, TypeOK, SpeedMsg
  <2> QED BY <1>2, <2>1 DEF UserOrders, TypeOK, speedVars, driveVars, readyVars, worldVars
<1>3. CASE MeasureBattery
  BY <1>3 DEF MeasureBattery, TypeOK, speedVars, driveVars, readyVars
<1>4. CASE ChangeSettings
  BY <1>4 DEF ChangeSettings, TypeOK, speedVars, driveVars, readyVars
<1> QED BY <1>1, <1>2, <1>3, <1>4 DEF World

\* The threads start typed.
LEMMA InitType == Init => TypeOK
<1> SUFFICES ASSUME Init PROVE TypeOK
  OBVIOUS
<1>1. userSpeed \in Users
  BY SettingsType DEF Init
<1>2. \A Msg : <<>> \in MailboxOf(Msg)
  BY QueueAssumption DEF MailboxOf
<1>3. /\ CounterRange \in Nat \ {0} /\ SafeCount \in Nat /\ FailCount \in Nat
      /\ MAX_SPEED_SETTING \in Nat
  BY SpeedsAssumption, TableType
<1> QED BY <1>1, <1>2, <1>3 DEF Init, TypeOK, Users, Screen

\* The variables of the speed and ready threads keep their types: user_speed
\* stays an index of the table, the uint8_t counters stay in their range, no
\* mailbox holds another's message or more than QUEUE_SZ.
THEOREM TypeCorrect == Spec => []TypeOK
<1>1. TypeOK /\ [Next]_vars => TypeOK'
  <2> SUFFICES ASSUME TypeOK, [Next]_vars PROVE TypeOK'
    OBVIOUS
  <2>1. CASE Next
    BY <2>1, SpeedThreadType, ReadyThreadType, WorldType DEF Next
  <2>2. CASE UNCHANGED vars
    BY <2>2 DEF vars, TypeOK, speedVars, driveVars, readyVars, worldVars
  <2> QED BY <2>1, <2>2
<1> QED BY InitType, <1>1, PTL DEF Spec
==============================================================================
