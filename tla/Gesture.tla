------------------------------- MODULE Gesture -------------------------------
(***************************************************************************)
(* What the trigger promises its user, without switch, mailbox and the     *)
(* states of the thread: clicks are counted, and the count says what the   *)
(* speed thread is told when the trigger is then held or left alone.       *)
(***************************************************************************)
EXTENDS Mailbox

CONSTANT Options    \* as in Trigger

VARIABLES
    mode,       \* "stopped", "running" or "cruise"
    held,       \* the trigger is being held, as far as the gesture goes
    clicks,     \* pulls counted so far; 0 between gestures
    options,    \* the settings reverse, jump, cruise
    speedMbox   \* what the speed thread has been told

vars == <<mode, held, clicks, options, speedMbox>>

Init ==
    /\ mode = "stopped" /\ ~held /\ clicks = 0
    /\ options \in Options
    /\ speedMbox = <<>>

Reverse == options.reverse = 1
Jump    == options.jump = 1
Cruise  == options.cruise = 1

\* After so many clicks nothing can follow: the last one acts at once.
LastToStart == IF Reverse THEN 5 ELSE IF Jump THEN 3 ELSE 2
LastWhileRunning == IF Reverse THEN 5 ELSE IF Cruise THEN 4 ELSE 6

\* A third click while running that no setting has a use for starts over.
Counted(n) == IF mode = "running" /\ n = 3 /\ ~Reverse /\ ~Jump /\ ~Cruise THEN 1 ELSE n

Become(m, h, c) == mode' = m /\ held' = h /\ clicks' = c /\ UNCHANGED options

Tell(order) == speedMbox' = Post(speedMbox, order)
TellNothing == UNCHANGED speedMbox

\* The trigger is pulled and counting goes on.
Pull ==
    /\ ~held /\ mode # "cruise"
    /\ clicks + 1 < (IF mode = "stopped" THEN LastToStart ELSE LastWhileRunning)
    /\ Become(mode, TRUE, Counted(clicks + 1)) /\ TellNothing

\* The trigger is pulled for the last click that has a meaning.
PullLast ==
    /\ ~held
    /\ \/ /\ mode = "stopped" /\ clicks + 1 = LastToStart
          /\ IF Reverse THEN Become("stopped", FALSE, 0) /\ Tell("REVERSE_SPEED_START")
             ELSE Become("running", TRUE, 0)
                    /\ Tell(IF Jump THEN "JUMP_SPEED_START" ELSE "SPEED_ON")
       \/ /\ mode = "running" /\ clicks + 1 = LastWhileRunning
          /\ IF Reverse THEN Become("stopped", FALSE, 0) /\ Tell("REVERSE_SPEED")
                        ELSE Become("cruise", FALSE, 0) /\ TellNothing
       \/ mode = "cruise" /\ Become("running", TRUE, 0) /\ TellNothing

LetGo == held /\ Become(mode, FALSE, clicks) /\ TellNothing

\* The trigger has been held for a whole window: the clicks mean something.
HoldToStart ==
    /\ held /\ mode = "stopped" /\ clicks > 0
    /\ CASE clicks = 1 -> Become("stopped", TRUE, 0) /\ TellNothing
         [] clicks = 2 -> Become("running", TRUE, 0) /\ Tell("SPEED_ON")
         [] clicks = 3 -> Become("running", TRUE, 0)
                            /\ Tell(IF Jump THEN "JUMP_SPEED_START" ELSE "SPEED_DOWN")
         [] clicks = 4 -> Become("running", TRUE, 0) /\ TellNothing

HoldWhileRunning ==
    /\ held /\ mode = "running" /\ clicks > 0
    /\ CASE clicks = 1 -> Become("running", TRUE, 0) /\ Tell("SPEED_DOWN")
         [] clicks = 2 -> Become("running", TRUE, 0) /\ Tell("SPEED_UP")
         [] clicks = 3 -> IF Jump THEN Become("running", TRUE, 0) /\ Tell("JUMP_SPEED")
                                  ELSE Become("running", TRUE, 1) /\ TellNothing
         [] clicks = 4 -> IF Cruise THEN Become("cruise", FALSE, 0) /\ TellNothing
                                    ELSE Become("running", TRUE, 0) /\ Tell("SPEED_UP")

\* The trigger has been left alone for a whole window: the motor stops, unless
\* the clicks asked for cruise or were no more than a single one.
Lapse ==
    /\ ~held
    /\ \/ mode = "stopped" /\ clicks = 1 /\ Become("stopped", FALSE, 0) /\ TellNothing
       \/ mode = "stopped" /\ clicks > 1 /\ Become("stopped", FALSE, 0) /\ Tell("SPEED_OFF")
       \/ mode = "running" /\ ~(clicks = 4 /\ Cruise)
            /\ Become("stopped", FALSE, 0) /\ Tell("SPEED_OFF")
       \/ mode = "running" /\ clicks = 4 /\ Cruise
            /\ Become("cruise", FALSE, 0) /\ TellNothing

ChangeOption ==
    /\ clicks = 0
    /\ options' \in Options
    /\ UNCHANGED <<mode, held, clicks, speedMbox>>

SpeedFetches ==
    /\ speedMbox # <<>>
    /\ speedMbox' = Tail(speedMbox)
    /\ UNCHANGED <<mode, held, clicks, options>>

Next == \/ Pull \/ PullLast \/ LetGo \/ HoldToStart \/ HoldWhileRunning \/ Lapse
        \/ ChangeOption \/ SpeedFetches

Spec == Init /\ [][Next]_vars
==============================================================================
