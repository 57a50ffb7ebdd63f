-------------------------------- MODULE Speed --------------------------------
(***************************************************************************)
(* The speed thread drives the motor as the trigger thread orders; the     *)
(* ready thread watches the motor current of a guarded start and approves  *)
(* or aborts it.  Both drive the motor through adjust_speed.               *)
(*                                                                         *)
(* Speeds are small multiples of a unit; the output of adjust_speed is in  *)
(* halves of it, so that reverse, at half speed, stays an integer.         *)
(***************************************************************************)
EXTENDS Mailbox, Msgs, Integers

CONSTANTS
    Speeds,         \* settings->speeds: the programmed speeds, in order
    RampDelta,      \* what a speed may change by in RAMPING_TIME_MS
    GuardSpeed,     \* settings->guard_erpm
    LowBattery,     \* battery level from which speeds are limited; 0 is the cutoff
    SafeCount,      \* settings->safe_count
    FailCount,      \* settings->fail_count
    CounterRange,   \* 2^8: the counters of the ready thread are uint8_t
    SettingsSpace   \* the values the other settings may be given

MAX_SPEED_SETTING == Len(Speeds)

ASSUME SpeedsAssumption ==
    /\ Speeds \in Seq(Nat) /\ Len(Speeds) \in 1..9
    /\ {RampDelta, LowBattery, CounterRange} \subseteq Nat \ {0}
    /\ {GuardSpeed, SafeCount, FailCount} \subseteq Nat
    /\ \A n \in {GuardSpeed} \cup {Speeds[i] : i \in 1..Len(Speeds)} : n % LowBattery = 0

ASSUME SettingsAssumption ==
    SettingsSpace \subseteq [speed_default : 1..Len(Speeds), max_speed : 1..Len(Speeds),
                             jump_speed : 1..Len(Speeds), use_safety : 0..1,
                             low_migrate : 0..1]

VARIABLES
    speedMbox, readyMbox, displayMbox,
    motorState,     \* MOTOR_STATE of the speed thread
    userSpeed,      \* user_speed: index of a programmed speed, from 0
    speedTimeout,   \* speed_timeout
    presentSpeed,   \* the static of adjust_speed, shared by both threads
    motor,          \* what the motor control was told last
    inverted,       \* conf->m_invert_direction
    screen,         \* what the LED matrix shows, "R" and "F" drawn by the speed thread
    readyTimeout,   \* ready_timeout, and the delay before its loop
    safeCt, failCt, \* running_safe_ct, running_fail_ct
    attempt,        \* history: samples in a row in and over the band since READY_ON
    battery,        \* what get_lowest_battery_voltage returns
    settings

speedVars == <<motorState, userSpeed, speedTimeout>>
driveVars == <<presentSpeed, motor>>
readyVars == <<readyTimeout, safeCt, failCt, attempt>>
worldVars == <<battery, settings>>
vars == <<speedMbox, readyMbox, displayMbox, speedVars, driveVars, inverted, screen,
          readyVars, worldVars>>

\* The periods of the speed thread's timer
RAMPING == "RAMPING_TIME_MS"
CHECKING == "CHECK_BATTERY_PERIOD_MS"
MIGRATING == "migrate_rate"
\* The ready thread's 500 ms before its loop
DELAY == "DELAY"

Samples == {"low", "inband", "limit", "over"}   \* against guard_low and guard_high

GUARD == 0      \* motor.amps: guard_limit; i stands for limits[i - 1]

TypeOK ==
    /\ speedMbox \in MailboxOf(SpeedMsg)
    /\ readyMbox \in MailboxOf(ReadyMsg)
    /\ displayMbox \in MailboxOf(DisplayMsg)
    /\ motorState \in {"OFF", "ON", "START"}
    /\ userSpeed \in 0 .. MAX_SPEED_SETTING - 1
    /\ speedTimeout \in {INFINITE, RAMPING, CHECKING, MIGRATING}
    /\ presentSpeed \in Nat
    /\ motor \in [on : BOOLEAN, speed : Nat, amps : 0..MAX_SPEED_SETTING, guarded : BOOLEAN]
    /\ inverted \in 0..1
    /\ screen \in Screen
    /\ readyTimeout \in {INFINITE, RAMPING, DELAY}
    /\ safeCt \in 0 .. CounterRange - 1 /\ failCt \in 0 .. CounterRange - 1
    /\ attempt \in [good : 0 .. SafeCount + 1, bad : 0 .. FailCount + 1]
    /\ battery \in 0 .. LowBattery + 1
    /\ settings \in SettingsSpace

DEFAULT_SPEED == settings.speed_default - 1

Init ==
    /\ speedMbox = <<>> /\ readyMbox = <<>> /\ displayMbox = <<>>
    /\ motorState = "OFF" /\ speedTimeout = INFINITE
    /\ settings \in SettingsSpace /\ userSpeed = DEFAULT_SPEED
    /\ presentSpeed = 0
    /\ motor = [on |-> FALSE, speed |-> 0, amps |-> MAX_SPEED_SETTING, guarded |-> FALSE]
    /\ inverted = 0 /\ screen = "battery"
    /\ readyTimeout = DELAY /\ safeCt = 0 /\ failCt = 0
    /\ attempt = [good |-> 0, bad |-> 0]
    /\ battery \in 0 .. LowBattery + 1

-----------------------------------------------------------------------------
(* Helpers of both threads *)

Increase(speed) == IF speed >= settings.max_speed - 1 THEN settings.max_speed - 1
                                                      ELSE speed + 1
Decrease(speed) == IF speed > 0 THEN speed - 1 ELSE 0

\* Mutant: the default itself is not recognized
MigratePast(speed) ==
    IF speed > DEFAULT_SPEED THEN speed - 1
    ELSE IF settings.low_migrate = 0 /\ inverted = 0 THEN speed + 1
    ELSE speed

\* One step of the programmed speed towards the default
Migrate(speed) ==
    IF speed > DEFAULT_SPEED THEN speed - 1
    ELSE IF speed < DEFAULT_SPEED /\ settings.low_migrate = 0 /\ inverted = 0 THEN speed + 1
    ELSE speed

\* Below the default is far enough where low_migrate or reverse says so.
Migrated(speed) ==
    \/ Migrate(speed) = DEFAULT_SPEED
    \/ speed < DEFAULT_SPEED /\ (settings.low_migrate = 1 \/ inverted = 1)

\* Mutant: no ramp
RampingAtOnce(present, programmed) == programmed

Ramping(present, programmed) ==
    IF programmed - present > RampDelta THEN present + RampDelta
    ELSE IF present - programmed > RampDelta THEN present - RampDelta
    ELSE programmed

\* Linear from the full speed at a low battery to none at the cutoff
LimitByBattery(speed) ==
    IF battery > LowBattery THEN speed ELSE (speed * battery) \div LowBattery

LimitedSpeed(user) == LimitByBattery(Speeds[user + 1])

\* What set_pid_speed gets for a speed, in half units
Setpoint(speed) == IF inverted = 1 THEN speed ELSE 2 * speed

\* adjust_speed in its three modes
ReleaseMotor ==
    /\ presentSpeed' = 0
    /\ motor' = [on |-> FALSE, speed |-> 0, amps |-> 1, guarded |-> motor.guarded]

GuardMotor ==
    /\ presentSpeed' = LimitByBattery(GuardSpeed)
    /\ motor' = [on |-> TRUE, speed |-> Setpoint(presentSpeed'), amps |-> GUARD,
                 guarded |-> TRUE]

RunMotor(user) ==
    /\ presentSpeed' = Ramping(presentSpeed, LimitedSpeed(user))
    /\ motor' = [on |-> TRUE, speed |-> Setpoint(presentSpeed'), amps |-> user + 1,
                 guarded |-> FALSE]

-----------------------------------------------------------------------------
(* The speed thread *)

Hears(event) ==
    /\ IF event = "TIMER_EXPIRY" THEN TimesOut(speedMbox, speedTimeout, speedMbox')
                                 ELSE Fetches(speedMbox, event, speedMbox')
    /\ UNCHANGED <<readyVars, worldVars>>

Go(state, user, timeout) == motorState' = state /\ userSpeed' = user /\ speedTimeout' = timeout

Show(msg) == displayMbox' = Post(displayMbox, msg)
\* Mutant: speeds reported one too high
ShowSpeedAbove(user) == displayMbox' = Post(displayMbox, DispSpeed[user + 2])

ShowSpeed(user) == displayMbox' = Post(displayMbox, DispSpeed[user + 1])
ShowStart(user) ==
    displayMbox' = Post(Post(displayMbox, "DISP_ON_TRIGGER"), DispSpeed[user + 1])

\* An obstruction is looked for when the programmed speed is back at the default.
Guarded == settings.use_safety = 1 /\ userSpeed = DEFAULT_SPEED

StartGuarded ==
    /\ motorState = "OFF" /\ Hears("SPEED_ON") /\ Guarded
    /\ Go("START", userSpeed, speedTimeout)
    /\ readyMbox' = Post(readyMbox, "READY_ON")
    /\ Show("DISP_ON_TRIGGER")
    /\ UNCHANGED <<driveVars, inverted, screen>>

StartUnguarded ==
    /\ motorState = "OFF" /\ Hears("SPEED_ON") /\ ~Guarded
    /\ Go("ON", userSpeed, RAMPING)
    /\ RunMotor(userSpeed) /\ ShowStart(userSpeed)
    /\ UNCHANGED <<readyMbox, inverted, screen>>

JumpStart ==
    /\ motorState = "OFF" /\ Hears("JUMP_SPEED_START")
    /\ Go("ON", settings.jump_speed - 1, RAMPING)
    /\ RunMotor(userSpeed') /\ ShowStart(userSpeed')
    /\ UNCHANGED <<readyMbox, inverted, screen>>

\* display_reverse draws on the LED matrix from this thread.
TurnAround ==
    /\ \/ motorState = "OFF" /\ Hears("REVERSE_SPEED_START")
       \/ motorState = "ON" /\ Hears("REVERSE_SPEED")
    /\ Go("OFF", 0, MIGRATING)
    /\ ReleaseMotor
    /\ inverted' = 1 - inverted
    /\ screen' = IF inverted = 0 THEN "R" ELSE "F"
    /\ UNCHANGED <<readyMbox, displayMbox>>

\* Mutant: the timer stops after one step
MigrateOnce ==
    /\ motorState = "OFF" /\ Hears("TIMER_EXPIRY")
    /\ Go("OFF", Migrate(userSpeed), INFINITE)
    /\ UNCHANGED <<readyMbox, displayMbox, driveVars, inverted, screen>>

MigrateSpeed ==
    /\ motorState = "OFF" /\ Hears("TIMER_EXPIRY")
    /\ Go("OFF", Migrate(userSpeed), IF Migrated(userSpeed) THEN INFINITE ELSE MIGRATING)
    /\ UNCHANGED <<readyMbox, displayMbox, driveVars, inverted, screen>>

\* Mutant: the motor is not released
StopForgotten ==
    /\ motorState = "ON" /\ Hears("SPEED_OFF")
    /\ Go("OFF", userSpeed, MIGRATING)
    /\ Show("DISP_OFF_TRIGGER")
    /\ UNCHANGED <<readyMbox, driveVars, inverted, screen>>

Stop ==
    /\ motorState = "ON" /\ Hears("SPEED_OFF")
    /\ Go("OFF", userSpeed, MIGRATING)
    /\ ReleaseMotor /\ Show("DISP_OFF_TRIGGER")
    /\ UNCHANGED <<readyMbox, inverted, screen>>

\* Mutant: adjust_speed is left to the timer
ChangeSpeedLater ==
    /\ motorState = "ON"
    /\ \/ Hears("SPEED_UP") /\ Go("ON", Increase(userSpeed), RAMPING)
       \/ Hears("SPEED_DOWN") /\ Go("ON", Decrease(userSpeed), RAMPING)
       \/ Hears("JUMP_SPEED") /\ Go("ON", settings.jump_speed - 1, RAMPING)
    /\ ShowSpeed(userSpeed')
    /\ UNCHANGED <<readyMbox, driveVars, inverted, screen>>

ChangeSpeed ==
    /\ motorState = "ON"
    /\ \/ Hears("SPEED_UP") /\ Go("ON", Increase(userSpeed), RAMPING)
       \/ Hears("SPEED_DOWN") /\ Go("ON", Decrease(userSpeed), RAMPING)
       \/ Hears("JUMP_SPEED") /\ Go("ON", settings.jump_speed - 1, RAMPING)
    /\ RunMotor(userSpeed') /\ ShowSpeed(userSpeed')
    /\ UNCHANGED <<readyMbox, inverted, screen>>

\* Mutant: the timer stops when the speed is reached
KeepRunningOnce ==
    /\ motorState = "ON" /\ Hears("TIMER_EXPIRY")
    /\ RunMotor(userSpeed)
    /\ Go("ON", userSpeed,
          IF presentSpeed' = LimitedSpeed(userSpeed) THEN INFINITE ELSE RAMPING)
    /\ UNCHANGED <<readyMbox, displayMbox, inverted, screen>>

\* 20 times a second while ramping, then every 5 s for the battery
KeepRunning ==
    /\ motorState = "ON" /\ Hears("TIMER_EXPIRY")
    /\ RunMotor(userSpeed)
    /\ Go("ON", userSpeed,
          IF presentSpeed' = LimitedSpeed(userSpeed) THEN CHECKING ELSE RAMPING)
    /\ UNCHANGED <<readyMbox, displayMbox, inverted, screen>>

\* Mutants: the ready thread is not called off; the motor is not released
StopGuardedWatched ==
    /\ motorState = "START" /\ Hears("SPEED_OFF")
    /\ Go("OFF", userSpeed, MIGRATING)
    /\ ReleaseMotor /\ Show("DISP_OFF_TRIGGER")
    /\ UNCHANGED <<readyMbox, inverted, screen>>

StopGuardedForgotten ==
    /\ motorState = "START" /\ Hears("SPEED_OFF")
    /\ Go("OFF", userSpeed, MIGRATING)
    /\ Show("DISP_OFF_TRIGGER")
    /\ readyMbox' = Post(readyMbox, "READY_OFF")
    /\ UNCHANGED <<driveVars, inverted, screen>>

StopGuarded ==
    /\ motorState = "START" /\ Hears("SPEED_OFF")
    /\ Go("OFF", userSpeed, MIGRATING)
    /\ ReleaseMotor /\ Show("DISP_OFF_TRIGGER")
    /\ readyMbox' = Post(readyMbox, "READY_OFF")
    /\ UNCHANGED <<inverted, screen>>

Approved ==
    /\ motorState = "START" /\ Hears("SPEED_READY")
    /\ Go("ON", userSpeed, RAMPING)
    /\ RunMotor(userSpeed) /\ ShowStart(userSpeed)
    /\ UNCHANGED <<readyMbox, inverted, screen>>

\* A message the state has no case for.  (The timer of a migration that was not
\* over may expire in START, to no effect.)
Handled ==
    IF motorState = "OFF" THEN {"SPEED_ON", "JUMP_SPEED_START", "REVERSE_SPEED_START"}
    ELSE IF motorState = "ON"
         THEN {"SPEED_OFF", "SPEED_UP", "SPEED_DOWN", "JUMP_SPEED", "REVERSE_SPEED"}
    ELSE {"SPEED_OFF", "SPEED_READY"}

Disregard ==
    /\ \E msg \in SpeedMsg \ Handled : Hears(msg)
    /\ UNCHANGED <<speedVars, readyMbox, displayMbox, driveVars, inverted, screen>>

SpeedThread ==
    \/ StartGuarded \/ StartUnguarded \/ JumpStart \/ TurnAround \/ MigrateSpeed
    \/ Stop \/ ChangeSpeed \/ KeepRunning \/ StopGuarded \/ Approved \/ Disregard

-----------------------------------------------------------------------------
(* The ready thread *)

\* The fetch before the loop discards the message it may get.
ReadyDelay ==
    /\ readyTimeout = DELAY /\ readyTimeout' = INFINITE
    /\ readyMbox' = IF readyMbox = <<>> THEN readyMbox ELSE Tail(readyMbox)
    /\ UNCHANGED <<speedMbox, driveVars, safeCt, failCt, attempt>>

\* Mutant: the count of an earlier attempt is kept
ReadyOnStale ==
    /\ readyTimeout # DELAY /\ Fetches(readyMbox, "READY_ON", readyMbox')
    /\ GuardMotor
    /\ readyTimeout' = RAMPING
    /\ attempt' = [good |-> 0, bad |-> 0]
    /\ UNCHANGED <<speedMbox, safeCt, failCt>>

ReadyOn ==
    /\ readyTimeout # DELAY /\ Fetches(readyMbox, "READY_ON", readyMbox')
    /\ GuardMotor
    /\ readyTimeout' = RAMPING /\ safeCt' = 0
    /\ attempt' = [good |-> 0, bad |-> 0]
    /\ UNCHANGED <<speedMbox, failCt>>

ReadyOff ==
    /\ readyTimeout # DELAY /\ Fetches(readyMbox, "READY_OFF", readyMbox')
    /\ readyTimeout' = INFINITE /\ safeCt' = 0
    /\ UNCHANGED <<speedMbox, driveVars, failCt, attempt>>

Count(ct, counted) == IF counted THEN (ct + 1) % CounterRange ELSE 0
Upto(ct, counted, limit) == IF ~counted THEN 0 ELSE IF ct > limit THEN ct ELSE ct + 1

\* A sample at the limit counts for a failure and for an approval.
TooHigh(sample) == sample \in {"limit", "over"}
InBand(sample)  == sample \in {"inband", "limit"}

\* Mutant: sampling goes on after the verdict
ReadySampleOn(sample) ==
    /\ readyTimeout # DELAY /\ TimesOut(readyMbox, readyTimeout, readyMbox')
    /\ failCt' = Count(failCt, TooHigh(sample))
    /\ safeCt' = Count(safeCt, InBand(sample))
    /\ speedMbox' = IF InBand(sample) /\ safeCt' > SafeCount
                    THEN Post(speedMbox, "SPEED_READY") ELSE speedMbox
    /\ UNCHANGED <<driveVars, readyTimeout, attempt>>

ReadySample(sample) ==
    /\ readyTimeout # DELAY /\ TimesOut(readyMbox, readyTimeout, readyMbox')
    /\ failCt' = Count(failCt, TooHigh(sample))
    /\ safeCt' = Count(safeCt, InBand(sample))
    /\ LET failed == TooHigh(sample) /\ failCt' > FailCount
           safe   == InBand(sample) /\ safeCt' > SafeCount
           told   == IF failed THEN Post(speedMbox, "SPEED_OFF") ELSE speedMbox
       IN  /\ speedMbox' = IF safe THEN Post(told, "SPEED_READY") ELSE told
           /\ readyTimeout' = IF failed \/ safe THEN INFINITE ELSE readyTimeout
    /\ attempt' = [good |-> Upto(attempt.good, InBand(sample), SafeCount),
                   bad  |-> Upto(attempt.bad, TooHigh(sample), FailCount)]
    /\ UNCHANGED driveVars

ReadyThread ==
    /\ \/ ReadyDelay \/ ReadyOn \/ ReadyOff
       \/ \E sample \in Samples : ReadySample(sample)
    /\ UNCHANGED <<displayMbox, speedVars, inverted, screen, worldVars>>

-----------------------------------------------------------------------------
(* The world: the trigger thread, the display thread, batteries, terminal *)

\* Orders come at the pace of a finger, the threads answer within milliseconds;
\* two clicks take longer than the ready thread's delay.
UserOrders ==
    /\ speedMbox = <<>> /\ readyMbox = <<>> /\ readyTimeout # DELAY
    /\ \E order \in Order : speedMbox' = Post(speedMbox, order)
    /\ UNCHANGED <<readyMbox, displayMbox, speedVars, driveVars, inverted, screen,
                   readyVars, worldVars>>

\* Nothing here depends on when the display reads, so it reads at once.
DisplayFetches ==
    /\ displayMbox # <<>> /\ displayMbox' = <<>>
    /\ screen' = "blank"
    /\ UNCHANGED <<speedMbox, readyMbox, speedVars, driveVars, inverted, readyVars,
                   worldVars>>

MeasureBattery ==
    /\ battery' \in 0 .. LowBattery + 1
    /\ UNCHANGED <<speedMbox, readyMbox, displayMbox, speedVars, driveVars, inverted,
                   screen, readyVars, settings>>

ChangeSettings ==
    /\ settings' \in SettingsSpace
    /\ UNCHANGED <<speedMbox, readyMbox, displayMbox, speedVars, driveVars, inverted,
                   screen, readyVars, battery>>

World == UserOrders \/ MeasureBattery \/ ChangeSettings

Next == \/ DisplayFetches
        \/ displayMbox = <<>> /\ (SpeedThread \/ ReadyThread \/ World)

\* Both threads run, and a finite period ends.
Fairness == WF_vars(SpeedThread) /\ WF_vars(ReadyThread) /\ WF_vars(DisplayFetches)

Spec == Init /\ [][Next]_vars /\ Fairness

-----------------------------------------------------------------------------

Pending(mbox, msg) == \E i \in 1..Len(mbox) : mbox[i] = msg

\* A motor that is off stays released: no guarded start is under way or about
\* to be begun by the ready thread behind the speed thread's back.
OffMeansReleased ==
    motorState = "OFF" => ~motor.on /\ ~Pending(readyMbox, "READY_ON")

\* A guarded start is watched until its verdict is on its way, and outside of
\* one nobody is watching whose late verdict could stop a running motor.
GuardWatch ==
    /\ motorState = "START" =>
           \/ Pending(readyMbox, "READY_ON") \/ readyTimeout = RAMPING
           \/ Pending(speedMbox, "SPEED_OFF") \/ Pending(speedMbox, "SPEED_READY")
    /\ motorState # "START" /\ readyMbox = <<>> /\ readyTimeout # DELAY =>
           readyTimeout = INFINITE

\* What the motor control was told last, by whichever thread, is what the speed
\* thread's state calls for.
DriveMatchesState ==
    /\ motorState = "ON" =>
           motor = [on |-> TRUE, speed |-> Setpoint(presentSpeed),
                    amps |-> userSpeed + 1, guarded |-> FALSE]
    /\ motorState = "START" /\ motor.on => motor.guarded /\ motor.amps = GUARD

\* A guarded start is approved after more than SafeCount samples in a row, all
\* of this attempt, within the band.
ApprovedOnEvidence ==
    [][motorState = "START" /\ motorState' = "ON" => attempt.good > SafeCount]_vars

\* While the motor is driven, by either thread, it keeps its direction and no
\* step changes the speed by more than the ramp.
NoLurch ==
    [][motor.on /\ motor'.on =>
           /\ inverted' = inverted
           /\ presentSpeed' - presentSpeed \in -RampDelta .. RampDelta]_vars

\* A motor left running, without orders, reaches its programmed speed, limited by the battery as
\* last measured: the timer never stops before, and starts again for a battery
\* that sinks later.
RampCompletes ==
    \A user \in 0 .. MAX_SPEED_SETTING - 1, level \in 0 .. LowBattery + 1 :
        <>[](/\ motorState = "ON" /\ userSpeed = user /\ battery = level
             /\ speedMbox = <<>>)
            => <>[](presentSpeed = LimitedSpeed(user))

AtDefault ==
    \/ userSpeed = DEFAULT_SPEED
    \/ userSpeed < DEFAULT_SPEED /\ (settings.low_migrate = 1 \/ inverted = 1)

\* Without orders, a motor left off migrates to the default speed, or stays below
\* it where low_migrate or reverse says so: its timer does not stop before.
MigrationEnds ==
    \A s \in SettingsSpace :
        motorState = "OFF" /\ speedTimeout # INFINITE /\ settings = s
            ~> AtDefault \/ settings # s \/ speedMbox # <<>>

-----------------------------------------------------------------------------
(* What comments and documents say, and the threads do not do *)

\* defaults.h on fail_count: a start is aborted when the current has been too
\* high for more than FailCount samples, of this start.
AbortedOnEvidence ==
    [][readyTimeout = RAMPING /\ readyTimeout' = INFINITE
         /\ speedMbox' = Append(speedMbox, "SPEED_OFF")
           => attempt'.bad > FailCount]_vars
==============================================================================
