-------------------------------- MODULE Msgs --------------------------------
EXTENDS Naturals

(* The messages of msgs.h, by the mailbox they are posted to. *)

SwitchMsg == {"SW_PRESSED", "SW_RELEASED"}

\* From the trigger thread to the speed thread
Order == {"SPEED_OFF", "SPEED_ON", "SPEED_UP", "SPEED_DOWN", "JUMP_SPEED_START",
          "REVERSE_SPEED_START", "JUMP_SPEED", "REVERSE_SPEED"}

\* The ready thread adds its verdicts, SPEED_READY and SPEED_OFF.  Nobody posts
\* CHECK_BATTERY.
SpeedMsg == Order \cup {"SPEED_READY"}

ReadyMsg == {"READY_ON", "READY_OFF"}

\* DISP_SPEED_1 + user_speed
DispSpeed == <<"DISP_SPEED_1", "DISP_SPEED_2", "DISP_SPEED_3", "DISP_SPEED_4",
               "DISP_SPEED_5", "DISP_SPEED_6", "DISP_SPEED_7", "DISP_SPEED_8",
               "DISP_SPEED_9">>

DisplayMsg == {"DISP_ON_TRIGGER", "DISP_OFF_TRIGGER"} \cup {DispSpeed[i] : i \in 1..9}

\* What the LED matrix may show: nothing, the bar graph of the battery, the dots
\* of waiting, the letters of a change of direction, or a speed.
Screen == {"blank", "battery", "dots", "R", "F"} \cup {DispSpeed[i] : i \in 1..9}
=============================================================================
