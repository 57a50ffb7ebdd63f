------------------------------- MODULE Display -------------------------------
(***************************************************************************)
(* The display thread: what the LED matrix shows as the motor starts,      *)
(* changes speed and stops.                                                *)
(***************************************************************************)
EXTENDS Mailbox, Msgs

CONSTANT Dots       \* steps of the waiting display

VARIABLES
    displayMbox,
    dispState,      \* DISP_STATE
    dispTimeout,    \* the period of the next fetch
    lastSpeed,      \* last_speed: "none" or the speed reported last
    dotPos,         \* dot_pos
    drawing,        \* the speed to draw when the sleep after "R" is over, or "none"
    screen,         \* what the LED matrix shows
    inverted        \* conf->m_invert_direction, the speed thread's

displayVars == <<dispState, dispTimeout, lastSpeed, dotPos, drawing>>
vars == <<displayMbox, displayVars, screen, inverted>>

SpeedMsgs == {DispSpeed[i] : i \in 1..9}

TypeOK ==
    /\ displayMbox \in MailboxOf(DisplayMsg)
    /\ dispState \in {"PWR_ON", "TRIG", "SPEED", "OFF", "WAIT", "BATT"}
    /\ dispTimeout \in {INFINITE, FINITE}
    /\ lastSpeed \in SpeedMsgs \cup {"none"} /\ drawing \in SpeedMsgs \cup {"none"}
    /\ dotPos \in 0..Dots
    /\ screen \in Screen
    /\ inverted \in 0..1

Init ==
    /\ displayMbox = <<>>
    /\ dispState = "PWR_ON" /\ dispTimeout = FINITE
    /\ lastSpeed = "none" /\ dotPos = 0 /\ drawing = "none"
    /\ screen = "battery"
    /\ inverted = 0

-----------------------------------------------------------------------------

\* The thread is at its fetch, not asleep in display_speed.
Hears(event) ==
    /\ drawing = "none"
    /\ IF event = "TIMER_EXPIRY" THEN TimesOut(displayMbox, dispTimeout, displayMbox')
                                 ELSE Fetches(displayMbox, event, displayMbox')
    /\ UNCHANGED inverted

Go(state, timeout) == dispState' = state /\ dispTimeout' = timeout

\* display_speed: in reverse it shows R and sleeps before the speed; it shows
\* nothing new when there is no speed to show.
ShowSpeed(speed) ==
    IF speed = "none" THEN UNCHANGED <<screen, drawing>>
    ELSE IF inverted = 1 THEN screen' = "R" /\ drawing' = speed
    ELSE screen' = speed /\ UNCHANGED drawing

EndSleep ==
    /\ drawing # "none"
    /\ screen' = drawing /\ drawing' = "none"
    /\ UNCHANGED <<displayMbox, dispState, dispTimeout, lastSpeed, dotPos, inverted>>

\* DISP_ON_TRIGGER begins the display cycle, except while a speed is shown.
MotorStarts ==
    /\ dispState \in {"PWR_ON", "OFF", "WAIT", "BATT"} /\ Hears("DISP_ON_TRIGGER")
    /\ Go("TRIG", FINITE) /\ lastSpeed' = "none"
    /\ UNCHANGED <<dotPos, drawing, screen>>

RedrawBattery ==
    /\ dispState = "PWR_ON"
    /\ \E msg \in DisplayMsg \ {"DISP_ON_TRIGGER"} : Hears(msg)
    /\ screen' = "battery"
    /\ UNCHANGED displayVars

NoteSpeed ==
    /\ dispState = "TRIG"
    /\ \E speed \in SpeedMsgs : Hears(speed) /\ lastSpeed' = speed
    /\ UNCHANGED <<dispState, dispTimeout, dotPos, drawing, screen>>

TriggerHeld ==
    /\ dispState = "TRIG" /\ Hears("TIMER_EXPIRY")
    /\ Go("SPEED", FINITE) /\ ShowSpeed(lastSpeed)
    /\ UNCHANGED <<lastSpeed, dotPos>>

ChangeSpeed ==
    /\ dispState = "SPEED"
    /\ \E speed \in SpeedMsgs :
           Hears(speed) /\ lastSpeed' = speed /\ ShowSpeed(speed)
    /\ Go("SPEED", FINITE)
    /\ UNCHANGED dotPos

MotorStops ==
    /\ dispState = "SPEED" /\ Hears("DISP_OFF_TRIGGER")
    /\ Go("WAIT", FINITE) /\ dotPos' = 0 /\ screen' = "blank"
    /\ UNCHANGED <<lastSpeed, drawing>>

\* The other messages find no case.
Disregard ==
    /\ \/ /\ dispState \in {"OFF", "WAIT", "BATT"}
          /\ \E msg \in DisplayMsg \ {"DISP_ON_TRIGGER"} : Hears(msg)
       \/ /\ dispState = "TRIG"
          /\ \E msg \in {"DISP_ON_TRIGGER", "DISP_OFF_TRIGGER"} : Hears(msg)
       \/ dispState = "SPEED" /\ Hears("DISP_ON_TRIGGER")
    /\ UNCHANGED <<displayVars, screen>>

\* A speed, the start-up display or the battery has been shown for long enough.
GoIdle ==
    /\ dispState \in {"PWR_ON", "SPEED", "BATT"} /\ Hears("TIMER_EXPIRY")
    /\ Go(IF dispState = "SPEED" THEN "SPEED" ELSE "OFF", INFINITE) /\ screen' = "blank"
    /\ UNCHANGED <<lastSpeed, dotPos, drawing>>

\* Mutant: the dots never end
WaitOn ==
    /\ dispState = "WAIT" /\ Hears("TIMER_EXPIRY")
    /\ Go("WAIT", FINITE) /\ screen' = "dots" /\ dotPos' = dotPos + 1
    /\ UNCHANGED <<lastSpeed, drawing>>

Wait ==
    /\ dispState = "WAIT" /\ Hears("TIMER_EXPIRY")
    /\ IF dotPos = Dots THEN Go("BATT", FINITE) /\ screen' = "battery" /\ UNCHANGED dotPos
       ELSE Go("WAIT", FINITE) /\ screen' = "dots" /\ dotPos' = dotPos + 1
    /\ UNCHANGED <<lastSpeed, drawing>>

DisplayThread ==
    \/ EndSleep \/ MotorStarts \/ RedrawBattery \/ NoteSpeed \/ TriggerHeld \/ ChangeSpeed
    \/ MotorStops \/ Disregard \/ GoIdle \/ Wait
==============================================================================
