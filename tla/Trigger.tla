------------------------------- MODULE Trigger -------------------------------
(***************************************************************************)
(* The switch thread samples the trigger and reports each change to the    *)
(* trigger thread, which counts clicks and orders the speed thread about.  *)
(*                                                                         *)
(* A click window (trig_on_time, trig_off_time) is a period that may run   *)
(* out at any moment: no property depends on its length.                   *)
(***************************************************************************)
EXTENDS Mailbox, Msgs

CONSTANTS
    Options,    \* the values the terminal may give reverse, jump and cruise
    Backlog     \* messages the trigger thread may lag behind the switch thread

ASSUME OptionsAssumption ==
    Options \subseteq [reverse : 0..1, jump : 0..1, cruise : 0..1]

\* The switch is sampled every 25 ms, a thread of the same priority gets the
\* processor within a few 0.4 ms quanta: the mailbox never fills up.
ASSUME BacklogAssumption == Backlog \in 0 .. QUEUE_SZ - 1

VARIABLES
    pad,            \* the pin: 1 while the trigger is held
    sw,             \* what the switch thread reported last
    triggerMbox,    \* SW_PRESSED, SW_RELEASED
    trigState,      \* SW_STATE
    trigTimeout,    \* the period of the next fetch
    options,        \* settings->reverse, jump, cruise
    speedMbox       \* orders to the speed thread

switchVars  == <<pad, sw>>
triggerVars == <<trigState, trigTimeout>>
vars == <<pad, sw, triggerMbox, trigState, trigTimeout, options, speedMbox>>

\* The states that wait for the trigger to be let go ...
Holding == {"ON", "GOING_ON", "ONE_START", "FOUR_OFF_START", "FIVE_OFF", "ONE_ON",
            "CLICKED", "TWO_OFF", "THREE_OFF", "FOUR_OFF"}
\* ... and those that wait, for one click window, for it to be pulled again.
Releasing == {"ONE_OFF", "THREE_START", "FOUR_START", "REV_START", "GOING_OFF",
              "CLCKD_OFF", "THREE", "FOUR", "FIVE"}
\* OFF and CRUISE wait for a pull however long it takes.
State == Holding \cup Releasing \cup {"OFF", "CRUISE"}

\* The states in which the speed thread is to run the motor
Running == {"ONE_ON", "GOING_OFF", "CLICKED", "CLCKD_OFF", "TWO_OFF", "THREE",
            "THREE_OFF", "FOUR", "FOUR_OFF", "FIVE", "CRUISE"}

TypeOK ==
    /\ pad \in 0..1 /\ sw \in 0..1
    /\ triggerMbox \in MailboxOf(SwitchMsg)
    /\ trigState \in State
    /\ trigTimeout \in Timeout
    /\ options \in Options
    /\ speedMbox \in MailboxOf(Order)

Init ==
    /\ pad \in 0..1 /\ sw = 1
    /\ triggerMbox = <<>>
    /\ trigState = "OFF" /\ trigTimeout = INFINITE
    /\ options \in Options
    /\ speedMbox = <<>>

-----------------------------------------------------------------------------
(* The user and the switch thread *)

MoveTrigger ==
    /\ pad' = 1 - pad
    /\ UNCHANGED <<sw, triggerMbox, triggerVars, options, speedMbox>>

\* Mutant: every turn reports, change or not
SampleSwitchAlways ==
    /\ Len(triggerMbox) <= Backlog
    /\ sw' = pad
    /\ triggerMbox' = Post(triggerMbox, IF pad = 1 THEN "SW_PRESSED" ELSE "SW_RELEASED")
    /\ UNCHANGED <<pad, triggerVars, options, speedMbox>>

\* A turn of the switch thread's loop that sees a change
SampleSwitch ==
    /\ pad # sw
    /\ Len(triggerMbox) <= Backlog
    /\ sw' = pad
    /\ triggerMbox' = Post(triggerMbox, IF pad = 1 THEN "SW_PRESSED" ELSE "SW_RELEASED")
    /\ UNCHANGED <<pad, triggerVars, options, speedMbox>>

\* A setting typed at the terminal: between gestures, which last less than the
\* typing does.
ChangeOption ==
    /\ trigTimeout = INFINITE
    /\ options' \in Options
    /\ UNCHANGED <<switchVars, triggerMbox, triggerVars, speedMbox>>

-----------------------------------------------------------------------------
(* What the cases of the trigger thread are made of *)

Hears(event) ==
    /\ IF event = "TIMER_EXPIRY" THEN TimesOut(triggerMbox, trigTimeout, triggerMbox')
                                 ELSE Fetches(triggerMbox, event, triggerMbox')
    /\ UNCHANGED <<switchVars, options>>

Pressed  == Hears("SW_PRESSED")
Released == Hears("SW_RELEASED")
Expired  == Hears("TIMER_EXPIRY")

\* The gesture goes on: the next click has to come within a window
Count(s) == trigState' = s /\ trigTimeout' = FINITE /\ UNCHANGED speedMbox

\* The gesture is over, without and with an order to the speed thread
Rest(s) == trigState' = s /\ trigTimeout' = INFINITE /\ UNCHANGED speedMbox
Say(s, order) ==
    /\ trigState' = s /\ trigTimeout' = INFINITE
    /\ speedMbox' = Post(speedMbox, order)

\* Mutant: the order is forgotten
GiveUpSilently == Expired /\ Rest("OFF")

\* A window ran out on a released trigger: stop the motor
GiveUp == Expired /\ Say("OFF", "SPEED_OFF")

Reverse == options.reverse = 1
Jump    == options.jump = 1
Cruise  == options.cruise = 1

-----------------------------------------------------------------------------
(* The motor is off: the clicks that start it *)

Off == trigState = "OFF" /\ Pressed /\ Count("GOING_ON")

On == trigState = "ON" /\ Released /\ Rest("OFF")

GoingOn ==
    /\ trigState = "GOING_ON"
    /\ \/ Released /\ Count("ONE_OFF")
       \/ Expired /\ Rest("ON")

OneOff ==
    /\ trigState = "ONE_OFF"
    /\ \/ Pressed /\ IF ~Reverse /\ ~Jump THEN Say("ONE_ON", "SPEED_ON")
                                          ELSE Count("ONE_START")
       \/ Expired /\ Rest("OFF")

\* Mutant: the window goes on after the order
OneStartTimed ==
    /\ trigState = "ONE_START"
    /\ \/ Released /\ Count("THREE_START")
       \/ /\ Expired
          /\ trigState' = "ONE_ON" /\ trigTimeout' = FINITE
          /\ speedMbox' = Post(speedMbox, "SPEED_ON")

OneStart ==
    /\ trigState = "ONE_START"
    /\ \/ Released /\ Count("THREE_START")
       \/ Expired /\ Say("ONE_ON", "SPEED_ON")

ThreeStart ==
    /\ trigState = "THREE_START"
    /\ \/ Pressed /\ IF ~Reverse THEN Say("ONE_ON", "JUMP_SPEED_START")
                                 ELSE Count("FOUR_OFF_START")
       \/ GiveUp

FourOffStart ==
    /\ trigState = "FOUR_OFF_START"
    /\ \/ Released /\ Count("FOUR_START")
       \/ Expired /\ Say("ONE_ON", IF Jump THEN "JUMP_SPEED_START" ELSE "SPEED_DOWN")

FourStart ==
    /\ trigState = "FOUR_START"
    /\ \/ Pressed /\ Count("FIVE_OFF")
       \/ GiveUp

FiveOff ==
    /\ trigState = "FIVE_OFF"
    /\ \/ Released /\ Count("REV_START")
       \/ Expired /\ Rest("ONE_ON")

RevStart ==
    /\ trigState = "REV_START"
    /\ \/ Pressed /\ Say("OFF", "REVERSE_SPEED_START")
       \/ GiveUp

-----------------------------------------------------------------------------
(* The motor runs: the clicks that change its speed *)

\* Mutant: the release opens no window
OneOnForever == trigState = "ONE_ON" /\ Released /\ Rest("GOING_OFF")

OneOn == trigState = "ONE_ON" /\ Released /\ Count("GOING_OFF")

GoingOff ==
    /\ trigState = "GOING_OFF"
    /\ \/ Pressed /\ Count("CLICKED")
       \/ GiveUp

Clicked ==
    /\ trigState = "CLICKED"
    /\ \/ Released /\ Count("CLCKD_OFF")
       \/ Expired /\ Say("ONE_ON", "SPEED_DOWN")

ClckdOff ==
    /\ trigState = "CLCKD_OFF"
    /\ \/ Pressed /\ Count("TWO_OFF")
       \/ GiveUp

\* Mutant: two clicks slow down
TwoOffDown ==
    /\ trigState = "TWO_OFF"
    /\ \/ Released /\ Count("THREE")
       \/ Expired /\ Say("ONE_ON", "SPEED_DOWN")

TwoOff ==
    /\ trigState = "TWO_OFF"
    /\ \/ Released /\ Count("THREE")
       \/ Expired /\ Say("ONE_ON", "SPEED_UP")

\* With no use for a third click, it is the first of a new gesture.
Three ==
    /\ trigState = "THREE"
    /\ \/ Pressed /\ Count(IF Reverse \/ Jump \/ Cruise THEN "THREE_OFF" ELSE "CLICKED")
       \/ GiveUp

ThreeOff ==
    /\ trigState = "THREE_OFF"
    /\ \/ Released /\ Count("FOUR")
       \/ Expired /\ IF Jump THEN Say("ONE_ON", "JUMP_SPEED") ELSE Count("CLICKED")

Four ==
    /\ trigState = "FOUR"
    /\ \/ Pressed /\ IF Cruise /\ ~Reverse THEN Rest("CRUISE") ELSE Count("FOUR_OFF")
       \/ GiveUp

\* Mutant: the release starts a new gesture, with reverse too
FourOffSlips ==
    /\ trigState = "FOUR_OFF"
    /\ \/ Released /\ Count("CLICKED")
       \/ Expired /\ IF Cruise THEN Rest("CRUISE") ELSE Say("ONE_ON", "SPEED_UP")

\* The release of a fourth click no setting has a use for leads to CLICKED,
\* which waits for a release.
FourOff ==
    /\ trigState = "FOUR_OFF"
    /\ \/ Released /\ Count(IF Reverse THEN "FIVE" ELSE "CLICKED")
       \/ Expired /\ IF Cruise THEN Rest("CRUISE") ELSE Say("ONE_ON", "SPEED_UP")

InCruise == trigState = "CRUISE" /\ Pressed /\ Rest("ONE_ON")

Five ==
    /\ trigState = "FIVE"
    /\ \/ Pressed /\ Say("OFF", "REVERSE_SPEED")
       \/ Expired /\ IF Cruise THEN Rest("CRUISE") ELSE Say("OFF", "SPEED_OFF")

\* No case of the state is for the message.
Ignored ==
    /\ IF trigState \in Holding THEN Pressed ELSE Released
    /\ UNCHANGED <<triggerVars, speedMbox>>

-----------------------------------------------------------------------------

Starting == \/ Off \/ On \/ GoingOn \/ OneOff \/ OneStart \/ ThreeStart
            \/ FourOffStart \/ FourStart \/ FiveOff \/ RevStart
Adjusting == \/ OneOn \/ GoingOff \/ Clicked \/ ClckdOff \/ TwoOff \/ Three
             \/ ThreeOff \/ Four \/ FourOff \/ InCruise \/ Five

\* One turn of the trigger thread's loop
TriggerThread == Starting \/ Adjusting \/ Ignored

\* The speed thread takes its next message (what it does is another module's).
SpeedFetches ==
    /\ speedMbox # <<>>
    /\ speedMbox' = Tail(speedMbox)
    /\ UNCHANGED <<switchVars, triggerMbox, triggerVars, options>>

Next == MoveTrigger \/ SampleSwitch \/ ChangeOption \/ TriggerThread \/ SpeedFetches

\* A thread with something to do gets the processor, and a finite period ends;
\* nobody has to touch the trigger or the terminal.
Fairness == WF_vars(SampleSwitch) /\ WF_vars(TriggerThread) /\ WF_vars(SpeedFetches)

Spec == Init /\ [][Next]_vars /\ Fairness

-----------------------------------------------------------------------------

\* The two threads never disagree for good about the trigger: once the trigger
\* thread has read its mail it waits for a release exactly when the switch is
\* closed, so no click is missed and the motor cannot be left running by a
\* trigger that is not held.  OFF and CRUISE take any pull, with the trigger
\* already released or not.
PhaseAgreement ==
    /\ trigState \in Holding =>
           IF triggerMbox = <<>> THEN sw = 1 ELSE Head(triggerMbox) = "SW_RELEASED"
    /\ trigState \in Releasing =>
           IF triggerMbox = <<>> THEN sw = 0 ELSE Head(triggerMbox) = "SW_PRESSED"

\* A running motor is being held on or is about to be given up.
DeadMan ==
    trigState \in Running \ {"CRUISE"} /\ triggerMbox = <<>> /\ sw = 0
        => trigTimeout = FINITE

\* A trigger that is let go, and left alone, ends in rest, without the motor
\* running except in cruise.
ReleaseStops == (sw = 0) ~> (sw = 1 \/ trigState \in {"OFF", "CRUISE"})

\* What the states and timeouts mean to the user
Clicks ==
    IF trigState \in {"OFF", "ON", "ONE_ON", "GOING_OFF", "CRUISE"} THEN 0
    ELSE IF trigState \in {"GOING_ON", "ONE_OFF", "CLICKED", "CLCKD_OFF"} THEN 1
    ELSE IF trigState \in {"ONE_START", "THREE_START", "TWO_OFF", "THREE"} THEN 2
    ELSE IF trigState \in {"FOUR_OFF_START", "FOUR_START", "THREE_OFF", "FOUR"} THEN 3
    ELSE 4

G == INSTANCE Gesture WITH
        mode <- IF trigState = "CRUISE" THEN "cruise"
                ELSE IF trigState \in Running THEN "running" ELSE "stopped",
        held <- trigState \in Holding,
        clicks <- Clicks

\* The threads do what the count of clicks says and nothing else.
ImplementsGesture == G!Spec
==============================================================================
