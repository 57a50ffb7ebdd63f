------------------------------- MODULE Scooter -------------------------------
(***************************************************************************)
(* The application: switch, trigger, speed, ready and display threads      *)
(* joined by their mailboxes, at the mercy of a user, two batteries and a  *)
(* terminal.  The threads are those of Trigger, Speed and Display; what    *)
(* Speed leaves to its World is done by the others here.                   *)
(*                                                                         *)
(* A finger is slower than the threads, but not slower than the half       *)
(* second the display thread sleeps for each speed it shows in reverse.    *)
(***************************************************************************)
EXTENDS Speed

CONSTANTS Options, Backlog,     \* of Trigger
          Dots                  \* of Display

ASSUME DotsAssumption == Dots \in Nat

VARIABLES
    pad, sw, triggerMbox, trigState, trigTimeout, options,      \* Trigger
    dispState, dispTimeout, lastSpeed, dotPos, drawing,         \* Display
    missed      \* history: the display's mailbox had no room for the speed reported last

T == INSTANCE Trigger
D == INSTANCE Display

ASSUME TriggerAssumption == T!OptionsAssumption /\ T!BacklogAssumption

triggerOnly == <<pad, sw, triggerMbox, trigState, trigTimeout, options>>
speedOnly == <<readyMbox, speedVars, driveVars, readyVars, worldVars>>
displayOnly == <<dispState, dispTimeout, lastSpeed, dotPos, drawing>>
appVars == <<triggerOnly, speedMbox, speedOnly, inverted, displayMbox, displayOnly, screen, missed>>

AppInit == T!Init /\ Init /\ D!Init /\ missed = FALSE

\* The threads that are awake have caught up with the user.  The display thread
\* may be asleep, with any mail waiting.
CaughtUp ==
    /\ triggerMbox = <<>> /\ speedMbox = <<>> /\ readyMbox = <<>>
    /\ drawing = "none" => displayMbox = <<>>
    /\ readyTimeout # DELAY

displaySide == <<displayMbox, displayOnly, screen, missed>>

\* There are 25 ms between samples of the switch, and click windows of 200 ms at
\* the least.
User == CaughtUp /\ T!MoveTrigger /\ UNCHANGED <<speedOnly, inverted, displaySide>>
SwitchTurn == CaughtUp /\ T!SampleSwitch /\ UNCHANGED <<speedOnly, inverted, displaySide>>
TriggerTurn == T!TriggerThread /\ UNCHANGED <<speedOnly, inverted, displaySide>>

\* A speed is reported by this turn of the speed thread, after DISP_ON_TRIGGER
\* when the motor starts ...
ReportsSpeed ==
    /\ motorState' = "ON"
    /\ \/ motorState # "ON"
       \/ speedMbox # <<>> /\ Head(speedMbox) \in {"SPEED_UP", "SPEED_DOWN", "JUMP_SPEED"}

\* ... and thrown away
NoRoom == Len(displayMbox) + (IF motorState = "ON" THEN 0 ELSE 1) >= QUEUE_SZ

SpeedTurn ==
    /\ SpeedThread
    /\ missed' = IF ReportsSpeed THEN NoRoom ELSE missed
    /\ UNCHANGED <<triggerOnly, displayOnly>>

ReadyTurn == ReadyThread /\ UNCHANGED <<triggerOnly, displayOnly, missed>>
DisplayTurn == D!DisplayThread /\ UNCHANGED <<triggerOnly, speedMbox, speedOnly, missed>>

BatteryChanges == MeasureBattery /\ UNCHANGED <<triggerOnly, displayOnly, missed>>

\* Typing is slower than a guarded start, as it is than a gesture.
Terminal ==
    /\ CaughtUp /\ motorState # "START"
    /\ \/ T!ChangeOption /\ UNCHANGED <<speedOnly, inverted, displaySide>>
       \/ ChangeSettings /\ UNCHANGED <<triggerOnly, displayOnly, missed>>

Threads == SwitchTurn \/ TriggerTurn \/ SpeedTurn \/ ReadyTurn \/ DisplayTurn

AppNext == User \/ Threads \/ BatteryChanges \/ Terminal

AppFairness ==
    /\ WF_appVars(SwitchTurn) /\ WF_appVars(TriggerTurn) /\ WF_appVars(SpeedTurn)
    /\ WF_appVars(ReadyTurn) /\ WF_appVars(DisplayTurn)

AppSpec == AppInit /\ [][AppNext]_appVars /\ AppFairness

\* Reverse and guarded starts are not both set.  Five clicks during a guarded
\* start are lost on the speed thread: with both, the motor goes its own way
\* (FiveClicksReverse).
NotBoth == options.reverse = 0 \/ settings.use_safety = 0

-----------------------------------------------------------------------------

\* The five threads keep each other's mailboxes and their own state typed.
AppTypeOK ==
    /\ TypeOK /\ D!TypeOK
    /\ pad \in 0..1 /\ sw \in 0..1 /\ options \in Options
    /\ triggerMbox \in MailboxOf(SwitchMsg)
    /\ trigState \in T!State /\ trigTimeout \in Timeout
    /\ missed \in BOOLEAN

StopOrders == {"SPEED_OFF", "REVERSE_SPEED"}

\* The motor is driven, by whichever thread, or about to be only while the trigger
\* thread means it to run, or has already posted the order that stops it.
MotorFollowsTrigger ==
    motorState # "OFF" \/ motor.on =>
        trigState \in T!Running \/ \E order \in StopOrders : Pending(speedMbox, order)

\* Whatever the ready thread does meanwhile, a trigger that is let go and left
\* alone releases the motor, except in cruise.
ReleaseStopsMotor == (sw = 0) ~> (sw = 1 \/ trigState = "CRUISE" \/ ~motor.on)

\* A number on the display of a running scooter, whose display thread has neither
\* mail nor sleeps, is the programmed speed, ...
ShowsCurrent ==
    motorState = "ON" /\ displayMbox = <<>> /\ drawing = "none" /\ screen \in D!SpeedMsgs
        => screen = DispSpeed[userSpeed + 1]

\* ... unless its report found the mailbox full: nothing else leaves an old speed
\* standing, be it the sleeps, lost reports of earlier speeds, lost starts and
\* stops, or what the speed thread draws itself.
ShownSpeedIsCurrent == missed \/ ShowsCurrent

\* No mailbox that carries reports of the switch, orders or verdicts fills up, so
\* none of those is thrown away, whatever the display thread is doing.
NothingLost ==
    \A mbox \in {triggerMbox, speedMbox, readyMbox} : Len(mbox) < QUEUE_SZ

\* While the ready thread has a guarded start to begin, the speed thread has no
\* turn in which it would call adjust_speed too, and gets none from a click
\* window that runs out: the two never meet in that function, which has no lock.
OneInAdjustSpeed ==
    Pending(readyMbox, "READY_ON") =>
        motorState = "START" /\ speedMbox = <<>> /\ trigTimeout = INFINITE

-----------------------------------------------------------------------------
(* What the README says, and the threads do not do *)

\* Five clicks stop the motor and reverse its direction.
FiveClicksReverse ==
    [][Fetches(speedMbox, "REVERSE_SPEED", speedMbox')
           => motorState' = "OFF" /\ inverted' = 1 - inverted]_appVars

\* The display shows R until the motor is started again.
RUntilStart ==
    [][motorState = "OFF" /\ motorState' = "OFF" /\ drawing = "none" /\ screen = "R"
           => screen' \in {"R", "F"}]_appVars
==============================================================================
