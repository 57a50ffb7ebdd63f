---------------------------- MODULE ScooterProofs ----------------------------
(***************************************************************************)
(* What Scooter.cfg checks with mailboxes of four and two speeds, for any  *)
(* speeds and every size of the mailboxes that is large enough.            *)
(***************************************************************************)
EXTENDS Scooter, GuardProofs

\* The mailboxes of the source have room for four messages.
RoomForFour == QUEUE_SZ >= 4

-----------------------------------------------------------------------------
(* Types *)

\* The modules of the threads mean the same by a mailbox and its messages.
LEMMA SameMailbox ==
    /\ \A mbox, msg : T!Post(mbox, msg) = Post(mbox, msg)
    /\ \A mbox, msg, rest : /\ T!Fetches(mbox, msg, rest) <=> Fetches(mbox, msg, rest)
                            /\ D!Fetches(mbox, msg, rest) <=> Fetches(mbox, msg, rest)
    /\ \A Msg : D!MailboxOf(Msg) = MailboxOf(Msg)
    /\ T!INFINITE = INFINITE /\ T!FINITE = FINITE
BY DEF T!Post, Post, T!Fetches, D!Fetches, Fetches, D!MailboxOf, MailboxOf, T!INFINITE,
       T!FINITE, INFINITE, FINITE

\* The speed and display threads mean the same by a message and a screen.
LEMMA SameMessages ==
    /\ D!DispSpeed = DispSpeed /\ D!DisplayMsg = DisplayMsg /\ D!Screen = Screen
    /\ D!SpeedMsgs \subseteq DisplayMsg /\ D!SpeedMsgs \subseteq Screen
BY DEF D!DispSpeed, DispSpeed, D!DisplayMsg, DisplayMsg, D!Screen, Screen, D!SpeedMsgs

\* What a turn of the trigger thread amounts to for the other threads: it has
\* been moved or its window is over, it says nothing or it gives one order and is
\* done, and an order is a start just when the thread means the motor to run anew.
TriggerSays(order) ==
    /\ speedMbox' = Post(speedMbox, order) /\ trigTimeout' = INFINITE
    /\ order \in {"SPEED_ON", "JUMP_SPEED_START"} =>
           trigState \notin T!Running /\ trigState' \in T!Running
    /\ trigState' \notin T!Running =>
           \/ trigState \notin T!Running \/ order = "SPEED_OFF"
           \/ order = "REVERSE_SPEED" /\ trigState = "FIVE"

TriggerSaysNothing ==
    /\ speedMbox' = speedMbox
    /\ trigState' \notin T!Running => trigState \notin T!Running

\* Every case of the trigger thread moves it in the manner above.
LEMMA TriggerMoves ==
    ASSUME AppTypeOK, T!TriggerThread
    PROVE  /\ \/ triggerMbox # <<>> /\ triggerMbox' = Tail(triggerMbox)
              \/ triggerMbox = <<>> /\ trigTimeout # INFINITE /\ triggerMbox' = <<>>
           /\ UNCHANGED <<pad, sw, options>>
           /\ trigState' \in T!State /\ trigTimeout' \in Timeout
           /\ trigState' = "FIVE" =>
                  \/ UNCHANGED <<trigState, trigTimeout>>
                  \/ options.reverse = 1 /\ trigTimeout' = FINITE
           /\ TriggerSaysNothing \/ \E order \in Order : TriggerSays(order)
<1> DEFINE Heard == \/ triggerMbox # <<>> /\ triggerMbox' = Tail(triggerMbox)
                    \/ /\ triggerMbox = <<>> /\ trigTimeout # INFINITE
                       /\ triggerMbox' = <<>>
           Moved == /\ trigState' \in T!State /\ trigTimeout' \in Timeout
                    /\ trigState' = "FIVE" =>
                           \/ UNCHANGED <<trigState, trigTimeout>>
                           \/ options.reverse = 1 /\ trigTimeout' = FINITE
                    /\ TriggerSaysNothing \/ \E order \in Order : TriggerSays(order)
<1>1. ASSUME NEW event, T!Hears(event)
      PROVE  Heard /\ UNCHANGED <<pad, sw, options>>
  BY <1>1 DEF T!Hears, T!TimesOut, T!Fetches, T!switchVars, T!INFINITE, INFINITE
<1>2. \E event : T!Hears(event)
  BY DEF T!TriggerThread, T!Starting, T!Adjusting, T!Ignored, T!Off, T!On, T!GoingOn,
         T!OneOff, T!OneStart, T!ThreeStart, T!FourOffStart, T!FourStart, T!FiveOff,
         T!RevStart, T!OneOn, T!GoingOff, T!Clicked, T!ClckdOff, T!TwoOff, T!Three,
         T!ThreeOff, T!Four, T!FourOff, T!InCruise, T!Five, T!Pressed, T!Released,
         T!Expired, T!GiveUp
<1> USE DEF T!Running, T!State, T!Holding, T!Releasing, Order
<1>3. ASSUME NEW to \in T!State, T!Count(to) \/ T!Rest(to),
             to \in T!Running \/ trigState \notin T!Running,
             to = "FIVE" => options.reverse = 1 /\ T!Count(to)
      PROVE  Moved
  BY <1>3, SameMailbox DEF T!Count, T!Rest, TriggerSaysNothing, Timeout
<1>4. ASSUME NEW to \in {"ONE_ON", "OFF"}, NEW order \in Order, T!Say(to, order),
             to = "ONE_ON" /\ order \in {"SPEED_ON", "JUMP_SPEED_START"} =>
                 trigState \notin T!Running,
             to = "OFF" =>
                 /\ order \notin {"SPEED_ON", "JUMP_SPEED_START"}
                 /\ \/ trigState \notin T!Running \/ order = "SPEED_OFF"
                    \/ order = "REVERSE_SPEED" /\ trigState = "FIVE"
      PROVE  Moved
  <2>1. TriggerSays(order)
    BY <1>4, SameMailbox DEF T!Say, TriggerSays
  <2> QED BY <1>4, <2>1, SameMailbox DEF T!Say, TriggerSaysNothing, Timeout
<1> HIDE DEF Moved
<1>5. ASSUME T!Off \/ T!On \/ T!GoingOn
      PROVE  Moved
  BY <1>3, <1>5 DEF T!Off, T!On, T!GoingOn
<1>6. ASSUME T!OneOff \/ T!OneStart
      PROVE  Moved
  BY <1>3, <1>4, <1>6 DEF T!OneOff, T!OneStart
<1>7. ASSUME T!ThreeStart \/ T!FourOffStart
      PROVE  Moved
  BY <1>3, <1>4, <1>7 DEF T!ThreeStart, T!FourOffStart, T!GiveUp
<1>8. ASSUME T!FourStart \/ T!FiveOff \/ T!RevStart
      PROVE  Moved
  BY <1>3, <1>4, <1>8 DEF T!FourStart, T!FiveOff, T!RevStart, T!GiveUp
<1>9. ASSUME T!OneOn \/ T!GoingOff \/ T!Clicked \/ T!ClckdOff
      PROVE  Moved
  BY <1>3, <1>4, <1>9 DEF T!OneOn, T!GoingOff, T!Clicked, T!ClckdOff, T!GiveUp
<1>10. ASSUME T!TwoOff \/ T!Three \/ T!ThreeOff
       PROVE  Moved
  BY <1>3, <1>4, <1>10 DEF T!TwoOff, T!Three, T!ThreeOff, T!GiveUp
<1>11. ASSUME T!Four \/ T!FourOff \/ T!InCruise \/ T!Five
       PROVE  Moved
  BY <1>3, <1>4, <1>11 DEF T!Four, T!FourOff, T!InCruise, T!Five, T!GiveUp, T!Reverse
<1>12. ASSUME T!Ignored
       PROVE  Moved
  BY <1>12 DEF T!Ignored, T!triggerVars, Moved, TriggerSaysNothing, AppTypeOK
<1>13. Moved
  BY <1>5, <1>6, <1>7, <1>8, <1>9, <1>10, <1>11, <1>12
     DEF T!TriggerThread, T!Starting, T!Adjusting
<1> QED BY <1>1, <1>2, <1>13 DEF Moved

\* A turn of the display thread keeps its variables typed.
LEMMA DisplayHearsType ==
    ASSUME D!TypeOK, NEW event, D!Hears(event)
    PROVE  displayMbox' \in MailboxOf(DisplayMsg) /\ inverted' = inverted
<1>1. displayMbox \in MailboxOf(DisplayMsg)
  BY SameMailbox, SameMessages DEF D!TypeOK
<1>2. CASE event = "TIMER_EXPIRY"
  BY <1>1, <1>2 DEF D!Hears, D!TimesOut
<1>3. CASE event # "TIMER_EXPIRY"
  <2>1. Fetches(displayMbox, event, displayMbox')
    BY <1>3, SameMailbox DEF D!Hears
  <2> QED BY <1>1, <1>3, <2>1, FetchType DEF D!Hears
<1> QED BY <1>2, <1>3

\* The display thread keeps its types, and lets the mounting be.
LEMMA DisplayThreadType ==
    ASSUME D!TypeOK, D!DisplayThread
    PROVE  D!TypeOK' /\ inverted' = inverted
<1>1. ASSUME displayMbox' \in MailboxOf(DisplayMsg), inverted' = inverted,
             dispState' \in {"PWR_ON", "TRIG", "SPEED", "OFF", "WAIT", "BATT"},
             dispTimeout' \in {D!INFINITE, D!FINITE}, dotPos' \in 0..Dots,
             lastSpeed' \in D!SpeedMsgs \cup {"none"},
             drawing' \in D!SpeedMsgs \cup {"none"}, screen' \in Screen
      PROVE  D!TypeOK' /\ inverted' = inverted
  BY <1>1, SameMailbox, SameMessages DEF D!TypeOK
<1>2. /\ {"blank", "battery", "dots", "R"} \subseteq Screen /\ screen \in Screen
      /\ D!SpeedMsgs \subseteq Screen /\ Dots \in Nat /\ displayMbox \in MailboxOf(DisplayMsg)
  BY SameMailbox, SameMessages, DotsAssumption DEF D!TypeOK, Screen
<1> USE <1>1, <1>2, DisplayHearsType DEF D!TypeOK, D!Go
<1>3. CASE D!EndSleep
  BY <1>3 DEF D!EndSleep
<1>4. CASE D!MotorStarts
  BY <1>4 DEF D!MotorStarts
<1>5. CASE D!RedrawBattery
  BY <1>5 DEF D!RedrawBattery, D!displayVars
<1>6. CASE D!NoteSpeed
  BY <1>6 DEF D!NoteSpeed
<1>7. CASE D!TriggerHeld
  BY <1>7 DEF D!TriggerHeld, D!ShowSpeed
<1>8. CASE D!ChangeSpeed
  BY <1>8 DEF D!ChangeSpeed, D!ShowSpeed
<1>9. CASE D!MotorStops
  BY <1>9 DEF D!MotorStops
<1>10. CASE D!Disregard
  BY <1>10 DEF D!Disregard, D!displayVars
<1>11. CASE D!GoIdle
  BY <1>11 DEF D!GoIdle
<1>12. CASE D!Wait
  BY <1>12 DEF D!Wait
<1> QED
  BY <1>3, <1>4, <1>5, <1>6, <1>7, <1>8, <1>9, <1>10, <1>11, <1>12 DEF D!DisplayThread

\* Every step of the application keeps everything typed.
LEMMA AppStepType ==
    ASSUME AppTypeOK, [AppNext]_appVars
    PROVE  AppTypeOK'
<1> USE DEF triggerOnly, speedOnly, displayOnly, displaySide, speedVars, driveVars, readyVars,
            worldVars
<1>1. ASSUME UNCHANGED speedOnly, UNCHANGED <<inverted, displaySide>>,
             speedMbox' \in MailboxOf(SpeedMsg), triggerMbox' \in MailboxOf(SwitchMsg),
             pad' \in 0..1, sw' \in 0..1, options' \in Options,
             trigState' \in T!State, trigTimeout' \in Timeout
      PROVE  AppTypeOK'
  BY <1>1 DEF AppTypeOK, TypeOK, D!TypeOK
<1>2. CASE User
  BY <1>1, <1>2 DEF User, T!MoveTrigger, T!triggerVars, AppTypeOK, TypeOK
<1>3. CASE SwitchTurn
  <2>1. triggerMbox' \in MailboxOf(SwitchMsg)
    BY <1>3, SameMailbox, PostType DEF SwitchTurn, T!SampleSwitch, AppTypeOK, SwitchMsg
  <2> QED
    BY <1>1, <1>3, <2>1 DEF SwitchTurn, T!SampleSwitch, T!triggerVars, AppTypeOK, TypeOK
<1>4. CASE TriggerTurn
  <2>1. triggerMbox' \in MailboxOf(SwitchMsg)
    <3>1. triggerMbox # <<>> => Fetches(triggerMbox, Head(triggerMbox), Tail(triggerMbox))
      BY DEF Fetches
    <3> QED BY <1>4, <3>1, TriggerMoves, FetchType DEF TriggerTurn, AppTypeOK
  <2>2. speedMbox' \in MailboxOf(SpeedMsg)
    BY <1>4, TriggerMoves, PostType
       DEF TriggerTurn, TriggerSays, TriggerSaysNothing, AppTypeOK, TypeOK, SpeedMsg
  <2> QED BY <1>1, <1>4, <2>1, <2>2, TriggerMoves DEF TriggerTurn, AppTypeOK
<1>5. ASSUME TypeOK', UNCHANGED triggerOnly, UNCHANGED displayOnly, missed' \in BOOLEAN
      PROVE  AppTypeOK'
  BY <1>5, SameMailbox, SameMessages DEF AppTypeOK, TypeOK, D!TypeOK
<1>6. CASE SpeedTurn
  <2>1. missed' \in BOOLEAN
    <3>1. NoRoom \in BOOLEAN
      BY DEF NoRoom
    <3>2. missed \in BOOLEAN /\ missed' \in {NoRoom, missed}
      BY <1>6 DEF SpeedTurn, AppTypeOK
    <3> QED BY <3>1, <3>2
  <2> QED BY <1>5, <1>6, <2>1, SpeedThreadType DEF SpeedTurn, AppTypeOK
<1>7. CASE ReadyTurn
  BY <1>5, <1>7, ReadyThreadType DEF ReadyTurn, AppTypeOK
<1>8. CASE BatteryChanges
  BY <1>5, <1>8, WorldType DEF BatteryChanges, World, AppTypeOK
<1>9. CASE DisplayTurn
  <2>1. D!TypeOK' /\ inverted' = inverted
    BY <1>9, DisplayThreadType DEF DisplayTurn, AppTypeOK
  <2>2. TypeOK'
    BY <1>9, <2>1, SameMailbox, SameMessages DEF DisplayTurn, AppTypeOK, TypeOK, D!TypeOK
  <2> QED BY <1>9, <2>1, <2>2 DEF DisplayTurn, AppTypeOK
<1>10. CASE Terminal
  <2>1. CASE T!ChangeOption /\ UNCHANGED <<speedOnly, inverted, displaySide>>
    BY <1>1, <2>1 DEF T!ChangeOption, T!switchVars, T!triggerVars, AppTypeOK, TypeOK
  <2>2. CASE ChangeSettings /\ UNCHANGED <<triggerOnly, displayOnly, missed>>
    BY <1>5, <2>2, WorldType DEF World, AppTypeOK
  <2> QED BY <1>10, <2>1, <2>2 DEF Terminal
<1>11. CASE UNCHANGED appVars
  BY <1>11 DEF appVars, AppTypeOK, TypeOK, D!TypeOK
<1> QED BY <1>2, <1>3, <1>4, <1>6, <1>7, <1>8, <1>9, <1>10, <1>11 DEF AppNext, Threads

\* The five threads keep each other's mailboxes and their own state typed,
\* whatever the user, the terminal and the batteries do.
THEOREM AppTypeCorrect == AppSpec => []AppTypeOK
<1>1. AppInit => AppTypeOK
  <2> SUFFICES ASSUME AppInit PROVE AppTypeOK
    OBVIOUS
  <2>1. TypeOK
    BY InitType DEF AppInit
  <2>2. \A Msg : <<>> \in MailboxOf(Msg)
    BY QueueAssumption DEF MailboxOf
  <2>3. D!TypeOK
    BY <2>2, SameMailbox, SameMessages, DotsAssumption DEF AppInit, D!Init, D!TypeOK, Screen
  <2>4. missed \in BOOLEAN
    BY DEF AppInit
  <2> QED
    BY <2>1, <2>2, <2>3, <2>4, SameMailbox
       DEF AppInit, AppTypeOK, T!Init, T!State, T!Holding, Timeout
<1> QED BY <1>1, AppStepType, PTL DEF AppSpec

-----------------------------------------------------------------------------
(* Where the threads stand to each other *)

\* The trigger thread has said all it has to say to the last move of the trigger;
\* before that, one order at most is still to come.
Spoken == triggerMbox = <<>> /\ trigTimeout = INFINITE
ToCome == IF Spoken THEN 0 ELSE 1

\* The orders that start the motor
Starts == {"SPEED_ON", "JUMP_SPEED_START"}
Startless(q) == q \in Seq(SpeedMsg \ Starts)

\* Before the first move of the trigger
Fresh ==
    /\ motorState = "OFF" /\ readyTimeout = DELAY /\ Spoken
    /\ speedMbox = <<>> /\ readyMbox = <<>>

\* A start is ordered and all is quiet otherwise.
Called ==
    /\ motorState = "OFF" /\ readyMbox = <<>> /\ readyTimeout = INFINITE
    /\ \E order \in Starts : speedMbox = <<order>>
    /\ Spoken /\ trigState \in T!Running

Stopped ==
    /\ motorState = "OFF" /\ readyMbox = <<>> /\ readyTimeout = INFINITE
    /\ Startless(speedMbox) /\ Len(speedMbox) + ToCome <= 3

Driving ==
    /\ motorState = "ON" /\ readyMbox = <<>> /\ readyTimeout = INFINITE
    /\ Startless(speedMbox) /\ Len(speedMbox) + ToCome <= 3

\* A guarded start: asked of the ready thread ...
Requested ==
    /\ motorState = "START" /\ readyMbox = <<"READY_ON">> /\ readyTimeout = INFINITE
    /\ speedMbox = <<>> /\ Spoken /\ trigState \in T!Running
    /\ ~motor.on

\* ... watched by it, with an order of the user underway perhaps ...
Sampled ==
    /\ motorState = "START" /\ readyMbox = <<>> /\ readyTimeout = RAMPING
    /\ speedMbox \in Seq(Order \ Starts) /\ Len(speedMbox) + ToCome <= 1
    /\ safeCt <= SafeCount /\ safeCt <= attempt.good
    /\ motor.guarded /\ motor.amps = GUARD

\* ... judged, with the verdict behind that order ...
Decided ==
    /\ motorState = "START" /\ readyMbox = <<>> /\ readyTimeout = INFINITE
    /\ Startless(speedMbox) /\ Len(speedMbox) + ToCome <= 3
    /\ Pending(speedMbox, "SPEED_OFF") \/ Pending(speedMbox, "SPEED_READY")
    /\ speedMbox \in Seq(Order) \/ attempt.good > SafeCount
    /\ motor.guarded /\ motor.amps = GUARD

\* ... or given up, which the ready thread has yet to learn.
Withdrawn ==
    /\ motorState = "OFF" /\ readyMbox = <<"READY_OFF">>
    /\ readyTimeout \in {RAMPING, INFINITE}
    /\ Startless(speedMbox) /\ Len(speedMbox) + ToCome <= 3

Stages == \/ Fresh \/ Called \/ Stopped \/ Driving
          \/ Requested \/ Sampled \/ Decided \/ Withdrawn

\* While the user is being listened to with the motor stopped, nothing else goes on.
AtRest ==
    ~Spoken /\ trigState \notin T!Running =>
        /\ motorState = "OFF" /\ readyTimeout = INFINITE
        /\ speedMbox = <<>> /\ readyMbox = <<>>

\* An order of five clicks finds the motor on, unless it is off already.
WillStop ==
    trigState \notin T!Running =>
        /\ Startless(speedMbox)
        /\ \/ motorState = "OFF" \/ Pending(speedMbox, "SPEED_OFF")
           \/ motorState = "ON" /\ Pending(speedMbox, "REVERSE_SPEED")

Apart ==
    /\ NotBoth
    /\ motorState = "START" => settings.use_safety = 1
    /\ trigState = "FIVE" => options.reverse = 1 /\ trigTimeout = FINITE

StageInv ==
    /\ Len(triggerMbox) <= 1
    /\ Released /\ Running
    /\ Stages /\ AtRest /\ WillStop /\ Apart

-----------------------------------------------------------------------------

\* A message taken from the mailbox of the speed thread leaves what was behind it.
LEMMA TakeOne ==
    ASSUME NEW q \in Seq(SpeedMsg), q # <<>>
    PROVE  /\ Startless(q) => Startless(Tail(q)) /\ Head(q) \notin Starts
           /\ \A msg : Pending(q, msg) /\ Head(q) # msg => Pending(Tail(q), msg)
<1>1. /\ Len(q) \in Nat \ {0} /\ Len(Tail(q)) = Len(q) - 1 /\ Head(q) = q[1]
      /\ \A i \in 1..Len(Tail(q)) : Tail(q)[i] = q[i + 1]
  OBVIOUS
<1>2. Startless(q) => Startless(Tail(q)) /\ Head(q) \notin Starts
  BY DEF Startless
<1>3. ASSUME NEW msg, Pending(q, msg), Head(q) # msg
      PROVE  Pending(Tail(q), msg)
  <2>1. PICK i \in 1..Len(q) : q[i] = msg
    BY <1>3 DEF Pending
  <2>2. i - 1 \in 1..Len(Tail(q)) /\ Tail(q)[i - 1] = msg
    BY <1>1, <1>3, <2>1
  <2> QED BY <2>2 DEF Pending
<1> QED BY <1>2, <1>3

\* A message posted goes behind what waits.
LEMMA PostOne ==
    ASSUME NEW q \in Seq(SpeedMsg), Len(q) < QUEUE_SZ, NEW msg \in SpeedMsg
    PROVE  /\ Post(q, msg) \in Seq(SpeedMsg) /\ Len(Post(q, msg)) = Len(q) + 1
           /\ Pending(Post(q, msg), msg)
           /\ Startless(q) /\ msg \notin Starts => Startless(Post(q, msg))
           /\ \A other : Pending(q, other) => Pending(Post(q, msg), other)
<1> DEFINE more == Append(q, msg)
<1>1. Post(q, msg) = more
  BY DEF Post
<1>2. /\ more \in Seq(SpeedMsg) /\ Len(more) = Len(q) + 1 /\ Len(q) \in Nat
      /\ more[Len(q) + 1] = msg
      /\ \A i \in 1..Len(q) : more[i] = q[i]
  OBVIOUS
<1> HIDE DEF more
<1>3. Pending(more, msg)
  BY <1>2 DEF Pending
<1>4. Startless(q) /\ msg \notin Starts => Startless(more)
  BY DEF Startless, more
<1>5. \A other : Pending(q, other) => Pending(more, other)
  BY <1>2 DEF Pending
<1> QED BY <1>1, <1>2, <1>3, <1>4, <1>5

\* What the stages say of the mailboxes, for the arithmetic
LEMMA Lengths ==
    ASSUME AppTypeOK
    PROVE  /\ QUEUE_SZ \in Nat /\ ToCome \in {0, 1} /\ (ToCome = 0 <=> Spoken)
           /\ triggerMbox \in Seq(SwitchMsg) /\ Len(triggerMbox) \in Nat
           /\ speedMbox \in Seq(SpeedMsg) /\ Len(speedMbox) \in Nat
           /\ (speedMbox = <<>> <=> Len(speedMbox) = 0)
           /\ displayMbox \in Seq(DisplayMsg) /\ Len(displayMbox) \in Nat
<1>1. /\ triggerMbox \in Seq(SwitchMsg) /\ speedMbox \in Seq(SpeedMsg)
      /\ displayMbox \in Seq(DisplayMsg)
  BY DEF AppTypeOK, TypeOK, MailboxOf
<1>2. speedMbox = <<>> <=> Len(speedMbox) = 0
  BY <1>1
<1>3. ToCome \in {0, 1} /\ (ToCome = 0 <=> Spoken)
  BY DEF ToCome
<1> QED BY <1>1, <1>2, <1>3, QueueAssumption

\* Nobody's turn: the user, the batteries and the display change no stage.
LEMMA StageStutter ==
    ASSUME AppTypeOK, StageInv,
           UNCHANGED <<triggerMbox, trigState, trigTimeout, options, settings>>,
           UNCHANGED <<motorState, userSpeed, presentSpeed, motor, inverted>>,
           UNCHANGED <<speedMbox, readyMbox, readyTimeout, safeCt, attempt>>
    PROVE  StageInv'
<1>1. Released' /\ Running'
  BY AlonePhase DEF StageInv
<1>2. Spoken' = Spoken /\ ToCome' = ToCome
  BY DEF Spoken, ToCome
<1>3. Stages'
  BY <1>2
     DEF StageInv, Stages, Fresh, Called, Stopped, Driving, Requested, Sampled, Decided,
         Withdrawn
<1>4. AtRest' /\ WillStop' /\ Apart' /\ Len(triggerMbox') <= 1
  BY <1>2 DEF StageInv, AtRest, WillStop, Apart, NotBoth
<1> QED BY <1>1, <1>3, <1>4 DEF StageInv

\* No setting is typed during a guarded start or a gesture: it changes no stage, and
\* takes nothing from what the two uses of inverted need.
LEMMA TerminalStage ==
    ASSUME AppTypeOK, StageInv, Terminal, NotBoth'
    PROVE  StageInv'
<1>1. /\ speedMbox = <<>> /\ readyMbox = <<>> /\ readyTimeout # DELAY
      /\ motorState # "START"
  BY DEF Terminal, CaughtUp
<1>2. /\ UNCHANGED <<triggerMbox, trigState, trigTimeout>>
      /\ UNCHANGED <<motorState, userSpeed, presentSpeed, motor, inverted>>
      /\ UNCHANGED <<speedMbox, readyMbox, readyTimeout, safeCt, attempt>>
  BY DEF Terminal, T!ChangeOption, T!switchVars, T!triggerVars, ChangeSettings, speedOnly,
         triggerOnly, speedVars, driveVars, readyVars, worldVars
<1>3. options' = options \/ trigTimeout = INFINITE
  BY SameMailbox DEF Terminal, T!ChangeOption, triggerOnly
<1>4. Spoken' = Spoken /\ ToCome' = ToCome
  BY <1>2 DEF Spoken, ToCome
<1>5. Stages'
  <2>1. Stopped \/ Driving
    BY <1>1 DEF StageInv, Stages, Fresh, Called, Requested, Sampled, Decided, Withdrawn
  <2> QED BY <1>2, <1>4, <2>1 DEF Stages, Stopped, Driving
<1>6. Released' /\ Running'
  BY <1>2, AlonePhase DEF StageInv
<1>7. Apart'
  BY <1>1, <1>2, <1>3 DEF StageInv, Apart, FINITE, INFINITE
<1> QED BY <1>2, <1>4, <1>5, <1>6, <1>7 DEF StageInv, AtRest, WillStop

\* The trigger is moved once everybody has caught up: a guarded start is sampled,
\* or the motor is on, or off and unwatched.
LEMMA SwitchStage ==
    ASSUME AppTypeOK, StageInv, RoomForFour, SwitchTurn
    PROVE  StageInv'
<1>1. triggerMbox = <<>> /\ speedMbox = <<>> /\ readyMbox = <<>> /\ readyTimeout # DELAY
  BY DEF SwitchTurn, CaughtUp
<1>2. UNCHANGED <<trigState, trigTimeout, options, settings, motorState, userSpeed, presentSpeed,
                  motor, inverted, speedMbox, readyMbox, readyTimeout, safeCt, attempt>>
  BY DEF SwitchTurn, T!SampleSwitch, T!triggerVars, speedOnly, speedVars, driveVars, readyVars,
         worldVars
<1>3. triggerMbox' # <<>> /\ Len(triggerMbox') = 1 /\ ~Spoken' /\ ToCome' = 1
  <2>1. PICK msg : triggerMbox' = Post(<<>>, msg)
    BY <1>1, SameMailbox DEF SwitchTurn, T!SampleSwitch
  <2>2. triggerMbox' = <<msg>>
    BY <2>1, QueueAssumption DEF Post
  <2>3. triggerMbox' # <<>> /\ Len(triggerMbox') = 1
    BY <2>2
  <2> QED BY <2>3 DEF Spoken, ToCome
<1>4. Stopped \/ Driving \/ Sampled
  BY <1>1 DEF StageInv, Stages, Fresh, Called, Requested, Decided, Pending, Withdrawn
<1>5. Len(speedMbox) = 0
  BY <1>1
<1>6. Stages'
  BY <1>2, <1>3, <1>4, <1>5 DEF Stages, Stopped, Driving, Sampled
<1>7. AtRest'
  BY <1>1, <1>2, <1>4 DEF StageInv, WillStop, Pending, AtRest, Stopped, Driving, Sampled
<1>8. Released' /\ Running'
  BY <1>2, AlonePhase DEF StageInv
<1> QED BY <1>2, <1>3, <1>6, <1>7, <1>8 DEF StageInv, WillStop, Apart, NotBoth

\* The trigger thread speaks only while it has not spoken: a start finds everything
\* at rest, another order finds room.
LEMMA TriggerStage ==
    ASSUME AppTypeOK, StageInv, RoomForFour, TriggerTurn
    PROVE  StageInv'
<1>1. UNCHANGED <<options, settings, motorState, userSpeed, presentSpeed, motor, inverted,
                  readyMbox, readyTimeout, safeCt, attempt>>
  BY TriggerMoves
     DEF TriggerTurn, speedOnly, speedVars, driveVars, readyVars, worldVars
<1>2. ~Spoken /\ ToCome = 1 /\ triggerMbox' = <<>> /\ Len(triggerMbox') <= 1
  <2>1. ~Spoken /\ ToCome = 1
    BY TriggerMoves DEF TriggerTurn, Spoken, ToCome
  <2>2. triggerMbox' = <<>>
    <3>1. triggerMbox \in Seq(SwitchMsg) /\ Len(triggerMbox) <= 1
      BY DEF StageInv, AppTypeOK, MailboxOf
    <3>2. triggerMbox # <<>> => Tail(triggerMbox) = <<>>
      BY <3>1
    <3> QED BY <3>2, TriggerMoves DEF TriggerTurn
  <2>3. Len(<<>>) <= 1
    OBVIOUS
  <2> QED BY <2>1, <2>2, <2>3
<1>3. Released' /\ Running'
  BY <1>1, AlonePhase DEF StageInv
<1>4. Apart'
  BY <1>1, TriggerMoves DEF TriggerTurn, StageInv, Apart, NotBoth
<1>5. Stopped \/ Driving \/ Sampled \/ Decided \/ Withdrawn
  BY <1>2 DEF StageInv, Stages, Fresh, Called, Requested
<1>6. CASE TriggerSaysNothing
  <2>1. speedMbox' = speedMbox /\ ToCome' \in {0, 1} /\ ToCome' <= ToCome
    BY <1>2, <1>6 DEF TriggerSaysNothing, ToCome
  <2>2. Stages'
    BY <1>1, <1>5, <2>1, Lengths
       DEF Stages, Stopped, Driving, Sampled, Decided, Withdrawn
  <2>3. AtRest' /\ WillStop'
    BY <1>1, <1>2, <1>6 DEF TriggerSaysNothing, StageInv, AtRest, WillStop
  <2> QED BY <1>2, <1>3, <1>4, <2>2, <2>3 DEF StageInv
<1>7. ASSUME NEW order \in Order, TriggerSays(order)
      PROVE  StageInv'
  <2>1. Spoken' /\ ToCome' = 0 /\ speedMbox' = Post(speedMbox, order)
    BY <1>2, <1>7 DEF TriggerSays, Spoken, ToCome
  <2>2. AtRest'
    BY <2>1 DEF AtRest
  <2>3. CASE order \in Starts
    <3>1. /\ motorState = "OFF" /\ readyTimeout = INFINITE /\ trigState' \in T!Running
          /\ speedMbox = <<>> /\ readyMbox = <<>>
      BY <1>2, <1>7, <2>3 DEF TriggerSays, Starts, StageInv, AtRest
    <3>2. speedMbox' = <<order>>
      BY <2>1, <3>1, QueueAssumption DEF Post
    <3>3. Called' /\ WillStop'
      BY <1>1, <2>1, <2>3, <3>1, <3>2 DEF Called, WillStop
    <3> QED BY <1>2, <1>3, <1>4, <2>2, <3>3 DEF StageInv, Stages
  <2>4. CASE order \notin Starts
    <3>1. Len(speedMbox) <= 2
      BY <1>2, <1>5, Lengths DEF Stopped, Driving, Sampled, Decided, Withdrawn
    <3>2. /\ speedMbox \in Seq(SpeedMsg) /\ order \in SpeedMsg /\ Len(speedMbox) < QUEUE_SZ
          /\ speedMbox' = Append(speedMbox, order)
      BY <2>1, <3>1, Lengths DEF RoomForFour, SpeedMsg, Post
    <3>3. /\ Len(speedMbox') = Len(speedMbox) + 1
          /\ Startless(speedMbox) => Startless(speedMbox')
          /\ \A other : Pending(speedMbox, other) => Pending(speedMbox', other)
          /\ Pending(speedMbox', order)
      BY <2>1, <2>4, <3>2, PostOne
    <3>4. /\ speedMbox \in Seq(Order) => speedMbox' \in Seq(Order)
          /\ speedMbox \in Seq(Order \ Starts) => speedMbox' \in Seq(Order \ Starts)
      BY <2>4, <3>2
    <3>5. Stages'
      BY <1>1, <1>2, <1>5, <2>1, <3>3, <3>4, Lengths
         DEF Stages, Stopped, Driving, Sampled, Decided, Withdrawn
    <3>6. WillStop'
      <4> SUFFICES ASSUME trigState' \notin T!Running
                   PROVE  /\ Startless(speedMbox')
                          /\ \/ motorState' = "OFF" \/ Pending(speedMbox', "SPEED_OFF")
                             \/ motorState' = "ON" /\ Pending(speedMbox', "REVERSE_SPEED")
        BY DEF WillStop
      <4>1. Startless(speedMbox)
        <5>1. Seq(Order \ Starts) \subseteq Seq(SpeedMsg \ Starts)
          BY DEF SpeedMsg
        <5> QED
          BY <1>5, <5>1 DEF Stopped, Driving, Sampled, Decided, Withdrawn, Startless
      <4>2. CASE trigState \notin T!Running \/ order = "SPEED_OFF"
        BY <1>1, <3>3, <4>1, <4>2 DEF StageInv, WillStop
      <4>3. CASE order = "REVERSE_SPEED" /\ trigState = "FIVE"
        <5>1. motorState \in {"OFF", "ON"}
          BY <4>3 DEF StageInv, Apart, NotBoth, AppTypeOK, TypeOK
        <5> QED BY <1>1, <3>3, <4>1, <4>3, <5>1
      <4> QED BY <1>7, <4>2, <4>3 DEF TriggerSays
    <3> QED BY <1>2, <1>3, <1>4, <2>2, <3>5, <3>6 DEF StageInv
  <2> QED BY <2>3, <2>4
<1> QED BY <1>6, <1>7, TriggerMoves DEF TriggerTurn

\* A message the speed thread hears leaves the rest behind.
LEMMA SpeedHears ==
    ASSUME AppTypeOK, NEW event, Hears(event), UNCHANGED triggerOnly
    PROVE  /\ UNCHANGED <<settings, readyTimeout, safeCt, attempt>>
           /\ UNCHANGED <<triggerMbox, trigState, trigTimeout, options>>
           /\ Spoken' = Spoken /\ ToCome' = ToCome
           /\ event = "TIMER_EXPIRY" => speedMbox = <<>> /\ speedMbox' = <<>>
           /\ event # "TIMER_EXPIRY" =>
                  /\ speedMbox # <<>> /\ Len(speedMbox') = Len(speedMbox) - 1
                  /\ Startless(speedMbox) => Startless(speedMbox') /\ event \notin Starts
                  /\ \A msg : Pending(speedMbox, msg) /\ event # msg => Pending(speedMbox', msg)
                  /\ speedMbox \in Seq(Order) => event # "SPEED_READY"
                  /\ speedMbox \in Seq(Order \ Starts) => speedMbox' \in Seq(Order \ Starts)
                  /\ speedMbox \in Seq(Order) => speedMbox' \in Seq(Order)
                  /\ \A order : speedMbox = <<order>> => event = order /\ speedMbox' = <<>>
<1>1. /\ UNCHANGED <<settings, readyTimeout, safeCt, attempt>>
      /\ UNCHANGED <<triggerMbox, trigState, trigTimeout, options>>
      /\ Spoken' = Spoken /\ ToCome' = ToCome
  BY DEF Hears, readyVars, worldVars, triggerOnly, Spoken, ToCome
<1>2. CASE event = "TIMER_EXPIRY"
  BY <1>1, <1>2, HeardRest DEF AppTypeOK
<1>3. CASE event # "TIMER_EXPIRY"
  <2>1. /\ speedMbox \in Seq(SpeedMsg) /\ speedMbox # <<>>
        /\ event = Head(speedMbox) /\ speedMbox' = Tail(speedMbox)
        /\ Len(speedMbox') = Len(speedMbox) - 1
        /\ speedMbox \in Seq(Order) => event \in Order /\ speedMbox' \in Seq(Order)
    BY <1>3, HeardRest, Lengths DEF AppTypeOK
  <2>2. "SPEED_READY" \notin Order
    BY DEF Order
  <2>3. speedMbox \in Seq(Order \ Starts) => speedMbox' \in Seq(Order \ Starts)
    BY <2>1
  <2>4. ASSUME NEW order, speedMbox = <<order>>
        PROVE  event = order /\ speedMbox' = <<>>
    BY <2>1, <2>4
  <2> QED BY <1>1, <1>3, <2>1, <2>2, <2>3, <2>4, TakeOne
<1> QED BY <1>2, <1>3

\* The speed thread has nothing to do while the trigger thread counts the clicks
\* that start it, and takes no order to stop without stopping.
LEMMA SpeedObeys ==
    ASSUME AppTypeOK, StageInv, SpeedTurn
    PROVE  AtRest' /\ WillStop' /\ Apart' /\ Len(triggerMbox') <= 1
<1>1. SpeedThread /\ UNCHANGED triggerOnly
  BY DEF SpeedTurn
<1>2. /\ UNCHANGED <<settings, readyTimeout, triggerMbox, trigState, trigTimeout, options>>
      /\ Spoken' = Spoken
  <2>1. \E event : Hears(event)
    BY <1>1 DEF SpeedThread, StartGuarded, StartUnguarded, JumpStart, TurnAround, MigrateSpeed,
                Stop, ChangeSpeed, KeepRunning, StopGuarded, Approved, Disregard
  <2> QED BY <1>1, <2>1, SpeedHears
<1>3. AtRest'
  <2> SUFFICES ASSUME ~Spoken, trigState \notin T!Running PROVE AtRest'
    BY <1>2 DEF AtRest
  <2>1. /\ motorState = "OFF" /\ readyTimeout = INFINITE
        /\ speedMbox = <<>> /\ readyMbox = <<>>
    BY DEF StageInv, AtRest
  <2>2. \A event : Hears(event) => event = "TIMER_EXPIRY"
    BY <1>1, <2>1, SpeedHears
  <2>3. MigrateSpeed
    BY <1>1, <2>1, <2>2
       DEF SpeedThread, StartGuarded, StartUnguarded, JumpStart, TurnAround, Stop, ChangeSpeed,
           KeepRunning, StopGuarded, Approved, Disregard, SpeedMsg, Order
  <2>4. speedMbox' = <<>>
    BY <1>1, <2>3, SpeedHears DEF MigrateSpeed
  <2> QED BY <1>2, <2>1, <2>3, <2>4 DEF AtRest, MigrateSpeed, Go
<1>4. WillStop'
  <2> SUFFICES ASSUME trigState \notin T!Running PROVE WillStop'
    BY <1>2 DEF WillStop
  <2>1. /\ Startless(speedMbox)
        /\ \/ motorState = "OFF" \/ Pending(speedMbox, "SPEED_OFF")
           \/ motorState = "ON" /\ Pending(speedMbox, "REVERSE_SPEED")
    BY DEF StageInv, WillStop
  <2>2. \A event : Hears(event) => Startless(speedMbox') /\ event \notin Starts
    <3>1. <<>> \in Seq(SpeedMsg \ Starts) /\ "TIMER_EXPIRY" \notin Starts
      BY DEF Starts
    <3> QED BY <1>1, <2>1, <3>1, SpeedHears DEF Startless
  <2>3. Startless(speedMbox')
    BY <1>1, <2>2 DEF SpeedThread, StartGuarded, StartUnguarded, JumpStart, TurnAround,
                      MigrateSpeed, Stop, ChangeSpeed, KeepRunning, StopGuarded, Approved,
                      Disregard
  <2>4. CASE motorState' = "OFF"
    BY <2>3, <2>4 DEF WillStop
  <2>5. CASE motorState' # "OFF"
    <3>1. ChangeSpeed \/ KeepRunning \/ Approved \/ (Disregard /\ motorState # "OFF")
      BY <1>1, <2>2, <2>5
         DEF SpeedThread, StartGuarded, StartUnguarded, JumpStart, TurnAround, MigrateSpeed,
             Stop, StopGuarded, Disregard, Go, speedVars, Starts
    <3>2. CASE KeepRunning
      <4>1. motorState = "ON" /\ speedMbox = <<>>
        BY <1>1, <3>2, SpeedHears DEF KeepRunning
      <4> QED BY <2>1, <4>1 DEF Pending
    <3>3. CASE ChangeSpeed
      <4>1. \A order \in StopOrders : Pending(speedMbox, order) => Pending(speedMbox', order)
        BY <1>1, <3>3, SpeedHears DEF ChangeSpeed, StopOrders
      <4> QED BY <2>1, <2>3, <3>3, <4>1 DEF ChangeSpeed, Go, WillStop, StopOrders
    <3>4. CASE Approved
      <4>1. Pending(speedMbox, "SPEED_OFF") => Pending(speedMbox', "SPEED_OFF")
        BY <1>1, <3>4, SpeedHears DEF Approved
      <4> QED BY <2>1, <2>3, <3>4, <4>1 DEF Approved, WillStop
    <3>5. CASE Disregard /\ motorState # "OFF"
      <4> PICK msg \in SpeedMsg \ Handled : Hears(msg)
        BY <3>5 DEF Disregard
      <4>1. motorState' = motorState
        BY <3>5 DEF Disregard, speedVars
      <4>2. /\ msg # "TIMER_EXPIRY" /\ msg # "SPEED_OFF"
            /\ motorState = "ON" => msg # "REVERSE_SPEED"
        BY <3>5 DEF Handled, SpeedMsg, Order
      <4>3. \A order : Pending(speedMbox, order) /\ msg # order => Pending(speedMbox', order)
        BY <1>1, <4>2, SpeedHears
      <4> QED BY <2>1, <2>3, <4>1, <4>2, <4>3 DEF WillStop
    <3> QED BY <3>1, <3>2, <3>3, <3>4, <3>5
  <2> QED BY <2>4, <2>5
<1>5. Apart'
  <2>1. motorState' = "START" => settings.use_safety = 1
    BY <1>1 DEF SpeedThread, StartGuarded, StartUnguarded, JumpStart, TurnAround, MigrateSpeed,
                Stop, ChangeSpeed, KeepRunning, StopGuarded, Approved, Disregard, Go, Guarded,
                speedVars, StageInv, Apart
  <2> QED BY <1>2, <2>1 DEF StageInv, Apart, NotBoth
<1> QED BY <1>2, <1>3, <1>4, <1>5 DEF StageInv

\* Every turn of the speed thread leads from one stage to the next.
LEMMA SpeedStage ==
    ASSUME AppTypeOK, StageInv, SpeedTurn
    PROVE  StageInv'
<1>1. SpeedThread /\ UNCHANGED triggerOnly /\ Stages /\ Released /\ Running
  BY DEF SpeedTurn, StageInv
<1>2. Released' /\ Running' /\ AtRest' /\ WillStop' /\ Apart' /\ Len(triggerMbox') <= 1
  BY <1>1, SpeedDrives, SpeedObeys
<1> SUFFICES Stages'
  BY <1>2 DEF StageInv
<1>3. /\ Seq(Order \ Starts) \subseteq Seq(Order)
      /\ Seq(Order \ Starts) \subseteq Seq(SpeedMsg \ Starts)
      /\ <<>> \in Seq(SpeedMsg \ Starts) /\ Len(<<>>) = 0
      /\ \A msg : ~Pending(<<>>, msg)
  BY DEF SpeedMsg, Pending
<1>5. CASE StartGuarded
  <2>1. Called /\ speedMbox' = <<>>
    BY <1>1, <1>5, SpeedHears
       DEF StartGuarded, Stages, Fresh, Called, Stopped, Driving, Requested, Sampled, Decided,
           Withdrawn, Starts
  <2>2. readyMbox' = <<"READY_ON">>
    BY <1>3, <1>5, <2>1, QueueAssumption DEF StartGuarded, Post, Called
  <2>3. Requested'
    BY <1>1, <1>5, <2>1, <2>2, SpeedHears
       DEF StartGuarded, Go, driveVars, Called, Requested, Released
  <2> QED BY <2>3 DEF Stages
<1>6. CASE StartUnguarded \/ JumpStart
  <2>1. Called /\ speedMbox' = <<>> /\ readyMbox' = <<>> /\ readyTimeout' = INFINITE
    BY <1>1, <1>6, SpeedHears
       DEF StartUnguarded, JumpStart, Stages, Fresh, Called, Stopped, Driving, Requested,
           Sampled, Decided, Withdrawn, Starts
  <2>2. ToCome' = 0
    <3>1. ToCome' = ToCome
      BY <1>1, <1>6, SpeedHears DEF StartUnguarded, JumpStart
    <3> QED BY <2>1, <3>1 DEF Called, ToCome
  <2>3. Driving'
    BY <1>3, <1>6, <2>1, <2>2 DEF StartUnguarded, JumpStart, Go, Driving, Startless
  <2> QED BY <2>3 DEF Stages
<1>7. CASE TurnAround
  <2>1. Stopped \/ Withdrawn \/ Driving
    BY <1>1, <1>7, SpeedHears
       DEF TurnAround, Stages, Fresh, Called, Requested, Sampled, Decided, Starts
  <2>2. UNCHANGED <<readyMbox, readyTimeout>> /\ ToCome' = ToCome
    BY <1>1, <1>7, SpeedHears DEF TurnAround
  <2>3. Startless(speedMbox') /\ Len(speedMbox') = Len(speedMbox) - 1
    BY <1>1, <1>7, <2>1, SpeedHears DEF TurnAround, Stopped, Withdrawn, Driving
  <2>4. Stopped' \/ Withdrawn'
    BY <1>7, <2>1, <2>2, <2>3, Lengths DEF TurnAround, Go, Stopped, Withdrawn, Driving
  <2> QED BY <2>4 DEF Stages
<1>8. CASE MigrateSpeed
  <2>1. speedMbox = <<>> /\ speedMbox' = <<>> /\ motorState = "OFF" /\ motorState' = "OFF"
    BY <1>1, <1>8, SpeedHears DEF MigrateSpeed, Go
  <2>2. UNCHANGED <<readyMbox, readyTimeout, trigState>> /\ Spoken' = Spoken
        /\ ToCome' = ToCome
    BY <1>1, <1>8, SpeedHears DEF MigrateSpeed
  <2>3. Fresh' \/ Stopped' \/ Withdrawn'
    BY <1>1, <2>1, <2>2
       DEF Stages, Fresh, Called, Stopped, Driving, Requested, Sampled, Decided, Withdrawn
  <2> QED BY <2>3 DEF Stages
<1>9. CASE Stop
  <2>1. Driving
    BY <1>1, <1>9
       DEF Stop, Stages, Fresh, Called, Stopped, Requested, Sampled, Decided, Withdrawn
  <2>2. /\ UNCHANGED <<readyMbox, readyTimeout>> /\ ToCome' = ToCome
        /\ Startless(speedMbox') /\ Len(speedMbox') = Len(speedMbox) - 1
    BY <1>1, <1>9, <2>1, SpeedHears DEF Stop, Driving
  <2>3. Stopped'
    BY <1>9, <2>1, <2>2, Lengths DEF Stop, Go, Driving, Stopped
  <2> QED BY <2>3 DEF Stages
<1>10. CASE ChangeSpeed
  <2>1. Driving
    BY <1>1, <1>10
       DEF ChangeSpeed, Stages, Fresh, Called, Stopped, Requested, Sampled, Decided, Withdrawn
  <2>2. /\ UNCHANGED <<readyMbox, readyTimeout>> /\ ToCome' = ToCome
        /\ Startless(speedMbox') /\ Len(speedMbox') = Len(speedMbox) - 1
    BY <1>1, <1>10, <2>1, SpeedHears DEF ChangeSpeed, Driving
  <2>3. Driving'
    BY <1>10, <2>1, <2>2, Lengths DEF ChangeSpeed, Go, Driving
  <2> QED BY <2>3 DEF Stages
<1>11. CASE KeepRunning
  <2>1. Driving
    BY <1>1, <1>11
       DEF KeepRunning, Stages, Fresh, Called, Stopped, Requested, Sampled, Decided, Withdrawn
  <2>2. UNCHANGED <<speedMbox, readyMbox, readyTimeout>> /\ ToCome' = ToCome
    BY <1>1, <1>11, SpeedHears DEF KeepRunning
  <2>3. Driving'
    BY <1>11, <2>1, <2>2 DEF KeepRunning, Go, Driving
  <2> QED BY <2>3 DEF Stages
<1>12. CASE StopGuarded
  <2>1. Sampled \/ Decided
    BY <1>1, <1>12, SpeedHears
       DEF StopGuarded, Stages, Fresh, Called, Stopped, Driving, Requested, Withdrawn
  <2>2. readyMbox' = <<"READY_OFF">>
    <3>1. readyMbox = <<>>
      BY <2>1 DEF Sampled, Decided
    <3> QED BY <1>3, <1>12, <3>1, QueueAssumption DEF StopGuarded, Post
  <2>3. /\ UNCHANGED readyTimeout /\ ToCome' = ToCome
        /\ Startless(speedMbox') /\ Len(speedMbox') = Len(speedMbox) - 1
    <3>1. Startless(speedMbox)
      BY <1>3, <2>1 DEF Sampled, Decided, Startless
    <3> QED BY <1>1, <1>12, <3>1, SpeedHears DEF StopGuarded
  <2>4. Withdrawn'
    BY <1>12, <2>1, <2>2, <2>3, Lengths
       DEF StopGuarded, Go, Sampled, Decided, Withdrawn
  <2> QED BY <2>4 DEF Stages
<1>13. CASE Approved
  <2>1. Decided
    BY <1>1, <1>3, <1>13, SpeedHears
       DEF Approved, Stages, Fresh, Called, Stopped, Driving, Requested, Sampled, Withdrawn
  <2>2. /\ UNCHANGED <<readyMbox, readyTimeout>> /\ ToCome' = ToCome
        /\ Startless(speedMbox') /\ Len(speedMbox') = Len(speedMbox) - 1
    BY <1>1, <1>13, <2>1, SpeedHears DEF Approved, Decided
  <2>3. Driving'
    BY <1>13, <2>1, <2>2, Lengths DEF Approved, Go, Decided, Driving
  <2> QED BY <2>3 DEF Stages
<1>14. CASE Disregard
  <2> PICK msg \in SpeedMsg \ Handled : Hears(msg)
    BY <1>14 DEF Disregard
  <2>1. /\ msg # "TIMER_EXPIRY"
        /\ motorState = "OFF" => msg \notin Starts
        /\ motorState = "START" => msg \notin {"SPEED_OFF", "SPEED_READY"}
    BY DEF SpeedMsg, Order, Handled, Starts
  <2>2. UNCHANGED <<motorState, readyMbox, motor>>
    BY <1>14 DEF Disregard, speedVars, driveVars
  <2>3. /\ UNCHANGED <<readyTimeout, safeCt, attempt>> /\ ToCome' = ToCome
        /\ Len(speedMbox') = Len(speedMbox) - 1 /\ speedMbox # <<>>
        /\ Startless(speedMbox) => Startless(speedMbox')
        /\ Pending(speedMbox, "SPEED_READY") /\ motorState = "START" =>
               Pending(speedMbox', "SPEED_READY")
        /\ Pending(speedMbox, "SPEED_OFF") /\ motorState = "START" =>
               Pending(speedMbox', "SPEED_OFF")
        /\ speedMbox \in Seq(Order \ Starts) => speedMbox' \in Seq(Order \ Starts)
        /\ speedMbox \in Seq(Order) => speedMbox' \in Seq(Order)
    BY <1>1, <2>1, SpeedHears
  <2>4. ~Called
    BY <1>1, <2>1, SpeedHears DEF Called
  <2>5. Stages'
    BY <1>1, <2>2, <2>3, <2>4, Lengths
       DEF Stages, Fresh, Stopped, Driving, Requested, Sampled, Decided, Withdrawn
  <2> QED BY <2>5
<1> QED BY <1>1, <1>5, <1>6, <1>7, <1>8, <1>9, <1>10, <1>11, <1>12, <1>13, <1>14 DEF SpeedThread

\* A verdict finds room behind the one order that may be underway.
LEMMA SampleStage ==
    ASSUME AppTypeOK, Sampled, RoomForFour, NEW sample \in Samples, ReadySample(sample),
           UNCHANGED <<motorState, triggerOnly>>
    PROVE  /\ Sampled' \/ Decided'
           /\ Startless(speedMbox')
           /\ \A order : Pending(speedMbox, order) => Pending(speedMbox', order)
<1> DEFINE failed == TooHigh(sample) /\ failCt' > FailCount
           safe   == InBand(sample) /\ safeCt' > SafeCount
           told   == IF failed THEN Post(speedMbox, "SPEED_OFF") ELSE speedMbox
<1>1. /\ readyMbox' = <<>> /\ UNCHANGED motor /\ ToCome' = ToCome
      /\ safeCt' <= attempt'.good /\ safeCt' \in Nat /\ attempt'.good \in Nat
      /\ SafeCount \in Nat
  <2>1. readyMbox' = <<>> /\ UNCHANGED motor /\ ToCome' = ToCome
    BY DEF Sampled, ReadySample, TimesOut, driveVars, triggerOnly, ToCome, Spoken
  <2> QED BY <2>1, SampleCounts, SpeedsAssumption DEF Sampled, AppTypeOK
<1>2. /\ speedMbox \in Seq(SpeedMsg) /\ speedMbox \in Seq(Order) /\ Startless(speedMbox)
      /\ Len(speedMbox) + ToCome <= 1
  <2>1. /\ Seq(Order \ Starts) \subseteq Seq(Order)
        /\ Seq(Order \ Starts) \subseteq Seq(SpeedMsg \ Starts)
    BY DEF SpeedMsg
  <2>2. speedMbox \in Seq(Order)
    BY <2>1 DEF Sampled
  <2> QED BY <2>1, <2>2, Lengths DEF Sampled, Startless
<1>3. /\ Len(speedMbox) < QUEUE_SZ /\ Len(speedMbox) + 1 < QUEUE_SZ
      /\ {"SPEED_OFF", "SPEED_READY"} \subseteq SpeedMsg \ Starts /\ "SPEED_OFF" \in Order
  BY <1>2, Lengths DEF RoomForFour, SpeedMsg, Order, Starts
<1>4. /\ told \in Seq(SpeedMsg) /\ Len(told) < QUEUE_SZ /\ Startless(told)
      /\ \A order : Pending(speedMbox, order) => Pending(told, order)
      /\ told \in Seq(Order) /\ (failed => Pending(told, "SPEED_OFF"))
      /\ Len(told) = Len(speedMbox) + (IF failed THEN 1 ELSE 0)
  <2>1. CASE failed
    <3>1. told = Post(speedMbox, "SPEED_OFF") /\ told = Append(speedMbox, "SPEED_OFF")
      BY <1>3, <2>1 DEF Post
    <3>2. told \in Seq(Order)
      BY <1>2, <1>3, <3>1
    <3> QED BY <1>2, <1>3, <2>1, <3>1, <3>2, PostOne
  <2>2. CASE ~failed
    BY <1>2, <1>3, <2>2, Lengths
  <2> QED BY <2>1, <2>2
<1>5. speedMbox' = IF safe THEN Post(told, "SPEED_READY") ELSE told
  BY DEF ReadySample
<1>6. readyTimeout' = IF failed \/ safe THEN INFINITE ELSE readyTimeout
  BY DEF ReadySample
<1>7. safeCt' <= SafeCount \/ safe
  BY <1>1 DEF ReadySample, Count
<1> HIDE DEF told, failed
<1>8. CASE ~safe
  <2>1. speedMbox' = told
    BY <1>5, <1>8
  <2>2. CASE ~failed
    <3>1. speedMbox' = speedMbox /\ readyTimeout' = readyTimeout
      BY <1>6, <1>8, <2>1, <2>2 DEF told
    <3>2. Sampled'
      BY <1>1, <1>7, <1>8, <3>1 DEF Sampled
    <3> QED BY <1>2, <3>1, <3>2
  <2>3. CASE failed
    <3>1. Decided'
      BY <1>1, <1>2, <1>4, <1>6, <2>1, <2>3, Lengths DEF Sampled, Decided
    <3> QED BY <1>4, <2>1, <3>1
  <2> QED BY <2>2, <2>3
<1>9. CASE safe
  <2>1. /\ Startless(speedMbox') /\ Pending(speedMbox', "SPEED_READY")
        /\ Len(speedMbox') = Len(told) + 1
        /\ \A order : Pending(told, order) => Pending(speedMbox', order)
    BY <1>3, <1>4, <1>5, <1>9, PostOne
  <2>2. attempt'.good > SafeCount
    BY <1>1, <1>9
  <2>3. Len(speedMbox') + ToCome <= 3
    BY <1>2, <1>4, <2>1, Lengths
  <2>4. Decided'
    BY <1>1, <1>6, <1>9, <2>1, <2>2, <2>3 DEF Sampled, Decided
  <2> QED BY <1>4, <2>1, <2>4
<1> QED BY <1>8, <1>9

\* Every turn of the ready thread leads from one stage to the next.
LEMMA ReadyStage ==
    ASSUME AppTypeOK, StageInv, RoomForFour, ReadyTurn
    PROVE  StageInv'
<1>1. /\ ReadyThread /\ UNCHANGED triggerOnly /\ Stages /\ Released /\ Running
      /\ UNCHANGED <<motorState, userSpeed, inverted, settings>>
      /\ UNCHANGED <<triggerMbox, trigState, trigTimeout, options>>
      /\ Spoken' = Spoken /\ ToCome' = ToCome
  BY DEF ReadyTurn, ReadyThread, speedVars, worldVars, triggerOnly, StageInv, Spoken, ToCome
<1>2. Len(triggerMbox') <= 1 /\ Apart'
  BY <1>1 DEF StageInv, Apart, NotBoth
<1>3. AtRest'
  <2> SUFFICES ASSUME ~Spoken, trigState \notin T!Running PROVE FALSE
    BY <1>1 DEF AtRest
  <2>1. readyTimeout = INFINITE /\ readyMbox = <<>> /\ readyTimeout # DELAY
    BY DEF StageInv, AtRest, INFINITE, DELAY
  <2> QED BY <1>1, <2>1 DEF ReadyThread, ReadyDelay, ReadyOn, ReadyOff, ReadySample, Fetches,
                            TimesOut
<1>4. /\ <<>> \in Seq(SpeedMsg \ Starts) /\ <<>> \in Seq(Order \ Starts) /\ Len(<<>>) = 0
      /\ DELAY # INFINITE /\ DELAY # RAMPING
  BY DEF DELAY, INFINITE, RAMPING
<1>5. CASE ReadyDelay
  <2>1. Fresh
    BY <1>1, <1>4, <1>5
       DEF ReadyDelay, Stages, Called, Stopped, Driving, Requested, Sampled, Decided, Withdrawn
  <2>2. Stopped'
    BY <1>1, <1>4, <1>5, <2>1 DEF ReadyDelay, Fresh, Stopped, Startless, ToCome
  <2>3. Released' /\ Running' /\ WillStop'
    BY <1>1, <1>4, <1>5, <2>1, AlonePhase
       DEF ReadyDelay, driveVars, Fresh, WillStop, Startless
  <2> QED BY <1>2, <1>3, <2>2, <2>3 DEF StageInv, Stages
<1>6. CASE ReadyOn
  <2>1. Requested
    BY <1>1, <1>6
       DEF ReadyOn, Fetches, Stages, Fresh, Called, Stopped, Driving, Sampled, Decided,
           Withdrawn
  <2>2. safeCt' = 0 /\ attempt'.good = 0 /\ motor'.guarded /\ motor'.amps = GUARD
    BY <1>6 DEF ReadyOn, GuardMotor
  <2>3. readyMbox' = <<>> /\ readyTimeout' = RAMPING /\ speedMbox' = <<>>
    BY <1>6, <2>1 DEF ReadyOn, Fetches, Requested
  <2>4. Sampled'
    BY <1>1, <1>4, <2>1, <2>2, <2>3, Lengths, SpeedsAssumption
       DEF Requested, Sampled, ToCome
  <2>5. Released' /\ Running' /\ WillStop'
    BY <1>1, <2>1 DEF Requested, Released, Running, WillStop
  <2> QED BY <1>2, <1>3, <2>4, <2>5 DEF StageInv, Stages
<1>7. CASE ReadyOff
  <2>1. Withdrawn
    BY <1>1, <1>7
       DEF ReadyOff, Fetches, Stages, Fresh, Called, Stopped, Driving, Requested, Sampled,
           Decided
  <2>2. Stopped'
    BY <1>1, <1>7, <2>1, Lengths DEF ReadyOff, Fetches, Withdrawn, Stopped
  <2>3. Released' /\ Running'
    BY <1>1, <1>7, AlonePhase DEF ReadyOff, driveVars
  <2>4. WillStop'
    BY <1>1, <1>7, <2>1 DEF ReadyOff, Withdrawn, WillStop
  <2> QED BY <1>2, <1>3, <2>2, <2>3, <2>4 DEF StageInv, Stages
<1>8. ASSUME NEW sample \in Samples, ReadySample(sample)
      PROVE  StageInv'
  <2>1. Sampled
    <3>1. readyTimeout \notin {DELAY, INFINITE} /\ readyMbox = <<>>
      BY <1>8 DEF ReadySample, TimesOut
    <3> QED BY <1>1, <3>1
        DEF Stages, Fresh, Called, Stopped, Driving, Requested, Decided, Withdrawn
  <2>2. /\ Sampled' \/ Decided'
        /\ Startless(speedMbox')
        /\ \A order : Pending(speedMbox, order) => Pending(speedMbox', order)
    BY <1>1, <1>8, <2>1, SampleStage
  <2>3. Released' /\ Running'
    BY <1>1, <1>8, AlonePhase DEF ReadySample, driveVars
  <2>4. WillStop'
    BY <1>1, <2>2 DEF StageInv, WillStop
  <2> QED BY <1>2, <1>3, <2>2, <2>3, <2>4 DEF StageInv, Stages
<1> QED BY <1>1, <1>5, <1>6, <1>7, <1>8 DEF ReadyThread

\* The inductive invariant of the application
LEMMA StageStep ==
    ASSUME RoomForFour, AppTypeOK, StageInv, NotBoth', [AppNext]_appVars
    PROVE  StageInv'
<1> USE DEF speedOnly, speedVars, driveVars, readyVars, worldVars, triggerOnly
<1>1. CASE User
  BY <1>1, StageStutter DEF User, T!MoveTrigger, T!triggerVars
<1>2. CASE DisplayTurn
  <2>1. inverted' = inverted
    BY <1>2, DisplayThreadType DEF DisplayTurn, AppTypeOK
  <2> QED BY <1>2, <2>1, StageStutter DEF DisplayTurn
<1>3. CASE BatteryChanges
  BY <1>3, StageStutter DEF BatteryChanges, MeasureBattery
<1>4. CASE UNCHANGED appVars
  BY <1>4, StageStutter DEF appVars
<1> QED
  BY <1>1, <1>2, <1>3, <1>4, TerminalStage, SwitchStage, TriggerStage, SpeedStage, ReadyStage
     DEF AppNext, Threads

\* With room for four messages, and as long as reverse and guarded starts are never
\* both set, the stages are kept in every state of the program.
LEMMA StageInvariant ==
    ASSUME RoomForFour
    PROVE  AppSpec /\ []NotBoth => [](AppTypeOK /\ StageInv)
<1>1. AppInit /\ NotBoth => StageInv
  <2> SUFFICES ASSUME AppInit, NotBoth PROVE StageInv
    OBVIOUS
  <2>1. /\ motorState = "OFF" /\ ~motor.on /\ readyTimeout = DELAY
        /\ speedMbox = <<>> /\ readyMbox = <<>>
        /\ triggerMbox = <<>> /\ trigState = "OFF" /\ trigTimeout = INFINITE
    BY SameMailbox DEF AppInit, Init, T!Init
  <2>2. Len(<<>>) = 0 /\ <<>> \in Seq(SpeedMsg \ Starts)
    OBVIOUS
  <2> QED BY <2>1, <2>2 DEF StageInv, Released, Running, Stages, Fresh, Spoken, AtRest,
                            WillStop, Startless, Apart
<1>2. AppTypeOK /\ StageInv /\ NotBoth' /\ [AppNext]_appVars => StageInv'
  BY StageStep
<1>3. AppInit /\ []NotBoth /\ [][AppNext]_appVars /\ []AppTypeOK => []StageInv
  BY <1>1, <1>2, PTL
<1> QED BY <1>3, AppTypeCorrect, PTL DEF AppSpec

-----------------------------------------------------------------------------
(* What the stages mean *)

\* No report of the switch, no order and no verdict finds its mailbox full, though
\* nobody waits for room, and though the display thread may sleep while its own
\* mailbox overflows.
THEOREM NothingLostAnywhere ==
    ASSUME RoomForFour
    PROVE  AppSpec /\ []NotBoth => []NothingLost
<1>1. AppTypeOK /\ StageInv => NothingLost
  <2> SUFFICES ASSUME AppTypeOK, StageInv PROVE NothingLost
    OBVIOUS
  <2>1. Len(triggerMbox) < QUEUE_SZ
    BY Lengths DEF RoomForFour, StageInv
  <2>2. Len(readyMbox) < QUEUE_SZ
    <3>1. readyMbox \in {<<>>, <<"READY_ON">>, <<"READY_OFF">>}
      BY DEF StageInv, Stages, Fresh, Called, Stopped, Driving, Requested, Sampled, Decided,
             Withdrawn
    <3>2. CASE readyMbox = <<>>
      BY <3>2, Lengths DEF RoomForFour
    <3>3. CASE readyMbox = <<"READY_ON">>
      BY <3>3, Lengths DEF RoomForFour
    <3>4. CASE readyMbox = <<"READY_OFF">>
      BY <3>4, Lengths DEF RoomForFour
    <3> QED BY <3>1, <3>2, <3>3, <3>4
  <2>3. Len(speedMbox) <= 3
    <3>1. CASE Called
      <4>1. Len(speedMbox) = 1
        BY <3>1 DEF Called
      <4> QED BY <4>1
    <3>2. CASE Fresh \/ Stopped \/ Driving \/ Requested
      BY <3>2, Lengths DEF Fresh, Stopped, Driving, Requested
    <3>3. CASE Sampled \/ Decided \/ Withdrawn
      BY <3>3, Lengths DEF Sampled, Decided, Withdrawn
    <3> QED BY <3>1, <3>2, <3>3 DEF StageInv, Stages
  <2> QED BY <2>1, <2>2, <2>3, Lengths DEF NothingLost, RoomForFour
<1> QED BY <1>1, StageInvariant, PTL

\* The threads that drive the motor are never both about to: while a guarded start
\* waits for the ready thread, the speed thread has no message and gets none from a
\* window of the trigger thread.
THEOREM NeverBothInAdjustSpeed ==
    ASSUME RoomForFour
    PROVE  AppSpec /\ []NotBoth => []OneInAdjustSpeed
<1>1. ASSUME StageInv, Pending(readyMbox, "READY_ON")
      PROVE  motorState = "START" /\ speedMbox = <<>> /\ trigTimeout = INFINITE
  <2>1. ~Pending(<<>>, "READY_ON") /\ ~Pending(<<"READY_OFF">>, "READY_ON")
    BY DEF Pending
  <2>2. Requested
    BY <1>1, <2>1
       DEF StageInv, Stages, Fresh, Called, Stopped, Driving, Sampled, Decided, Withdrawn
  <2> QED BY <2>2 DEF Requested, Spoken
<1>2. AppTypeOK /\ StageInv => OneInAdjustSpeed
  BY <1>1 DEF OneInAdjustSpeed
<1> QED BY <1>2, StageInvariant, PTL

\* The motor is driven, by either thread, or about to be only while the trigger
\* thread means it to run, or has already posted the order that stops it.
THEOREM MotorObeysTrigger ==
    ASSUME RoomForFour
    PROVE  AppSpec /\ []NotBoth => []MotorFollowsTrigger
<1>1. StageInv => MotorFollowsTrigger
  BY DEF StageInv, Released, WillStop, MotorFollowsTrigger, StopOrders
<1> QED BY <1>1, StageInvariant, PTL

\* What Speed promises of the orders of a quick user holds for those of the
\* trigger thread: an off motor is released and not about to be begun, a guarded
\* start is watched and only a guarded start is, and the motor does what the
\* state of the speed thread says.
THEOREM SpeedKept ==
    ASSUME RoomForFour
    PROVE  AppSpec /\ []NotBoth => [](OffMeansReleased /\ GuardWatch /\ DriveMatchesState)
<1>1. ASSUME AppTypeOK, StageInv
      PROVE  OffMeansReleased /\ GuardWatch /\ DriveMatchesState
  <2>1. Released /\ Running /\ Stages
    BY <1>1 DEF StageInv
  <2>2. ASSUME NEW msg
        PROVE  Pending(<<msg>>, msg) /\ \A other : Pending(<<msg>>, other) => other = msg
    BY DEF Pending
  <2>3. \A msg : ~Pending(<<>>, msg)
    BY DEF Pending
  <2>4. OffMeansReleased
    BY <2>1, <2>2, <2>3
       DEF Released, OffMeansReleased, Stages, Fresh, Called, Stopped, Driving, Requested,
           Sampled, Decided, Withdrawn
  <2>5. GuardWatch
    BY <2>1, <2>2, <2>3
       DEF GuardWatch, Stages, Fresh, Called, Stopped, Driving, Requested, Sampled, Decided,
           Withdrawn
  <2>6. DriveMatchesState
    BY <2>1
       DEF DriveMatchesState, Running, Stages, Fresh, Called, Stopped, Driving, Requested,
           Sampled, Decided, Withdrawn
  <2> QED BY <2>4, <2>5, <2>6
<1> QED BY <1>1, StageInvariant, PTL

\* Whatever the trigger thread orders meanwhile, a start is approved by the
\* samples taken since it began.
THEOREM ApprovalKept ==
    ASSUME RoomForFour
    PROVE  AppSpec /\ []NotBoth => ApprovedOnEvidence
<1>1. ASSUME AppTypeOK, StageInv, [AppNext]_appVars, motorState = "START", motorState' = "ON"
      PROVE  attempt.good > SafeCount
  <2>1. SpeedTurn
    BY <1>1
       DEF AppNext, Threads, User, SwitchTurn, TriggerTurn, ReadyTurn, ReadyThread, DisplayTurn,
           BatteryChanges, MeasureBattery, Terminal, ChangeSettings, appVars, speedOnly,
           speedVars
  <2>2. Approved
    BY <1>1, <2>1
       DEF SpeedTurn, SpeedThread, StartGuarded, StartUnguarded, JumpStart, TurnAround,
           MigrateSpeed, Stop, ChangeSpeed, KeepRunning, StopGuarded, Disregard, Go, speedVars
  <2>3. speedMbox \notin Seq(Order) /\ speedMbox # <<>>
    BY <1>1, <2>1, <2>2, SpeedHears DEF SpeedTurn, Approved
  <2>4. Seq(Order \ Starts) \subseteq Seq(Order)
    OBVIOUS
  <2> QED
    BY <1>1, <2>3, <2>4
       DEF StageInv, Stages, Fresh, Called, Stopped, Driving, Requested, Sampled, Decided,
           Withdrawn
<1>2. AppTypeOK /\ StageInv /\ [AppNext]_appVars
        => [motorState = "START" /\ motorState' = "ON" => attempt.good > SafeCount]_vars
  BY <1>1
<1> QED BY <1>2, StageInvariant, PTL DEF AppSpec, ApprovedOnEvidence

\* Nor does any of the five threads make the motor lurch.
THEOREM LurchKept ==
    ASSUME RoomForFour
    PROVE  AppSpec /\ []NotBoth => NoLurch
<1>1. ASSUME AppTypeOK, StageInv, [AppNext]_appVars, motor.on, motor'.on
      PROVE  /\ inverted' = inverted
             /\ presentSpeed' - presentSpeed \in -RampDelta .. RampDelta
  <2>1. TypeOK /\ Released
    BY <1>1 DEF AppTypeOK, StageInv
  <2>2. ReadyOn => ~motor.on
    BY <1>1
       DEF ReadyOn, Fetches, StageInv, Stages, Fresh, Called, Stopped, Driving, Requested,
           Sampled, Decided, Withdrawn
  <2>3. CASE SpeedTurn \/ ReadyTurn
    BY <1>1, <2>1, <2>2, <2>3, LurchStep DEF SpeedTurn, ReadyTurn
  <2>4. CASE ~(SpeedTurn \/ ReadyTurn)
    <3>1. presentSpeed' = presentSpeed /\ presentSpeed \in Nat /\ RampDelta \in Nat
      BY <1>1, <2>1, <2>4, SpeedsAssumption
         DEF AppNext, Threads, User, SwitchTurn, TriggerTurn, DisplayTurn, BatteryChanges,
             MeasureBattery, Terminal, ChangeSettings, appVars, speedOnly, driveVars, TypeOK
    <3>2. inverted' = inverted
      BY <1>1, <2>4, DisplayThreadType
         DEF AppTypeOK, AppNext, Threads, User, SwitchTurn, TriggerTurn, DisplayTurn,
             BatteryChanges, MeasureBattery, Terminal, ChangeSettings, appVars
    <3> QED BY <3>1, <3>2
  <2> QED BY <2>3, <2>4
<1>2. AppTypeOK /\ StageInv /\ [AppNext]_appVars
        => [motor.on /\ motor'.on =>
              /\ inverted' = inverted
              /\ presentSpeed' - presentSpeed \in -RampDelta .. RampDelta]_vars
  BY <1>1
<1> QED BY <1>2, StageInvariant, PTL DEF AppSpec, NoLurch

-----------------------------------------------------------------------------
(* What the display shows *)

\* The speed shown, or to be drawn after a sleep, was the last one reported.
ShowsLast ==
    /\ dispState # "SPEED" => drawing = "none" /\ screen \notin D!SpeedMsgs
    /\ dispState = "SPEED" /\ drawing # "none" => drawing = lastSpeed
    /\ dispState = "SPEED" /\ drawing = "none" /\ screen \in D!SpeedMsgs
           => screen = lastSpeed

\* What the display of a running motor was told last is the programmed speed,
\* unless that report was lost.
ToldLast ==
    motorState = "ON" /\ ~missed =>
        IF displayMbox # <<>>
        THEN displayMbox[Len(displayMbox)] = DispSpeed[userSpeed + 1]
        ELSE dispState \in {"TRIG", "SPEED"} =>
                 lastSpeed \in {"none", DispSpeed[userSpeed + 1]}

\* The last report posted is the last in the mailbox while it waits.
LEMMA PostLast ==
    ASSUME NEW q \in Seq(DisplayMsg), NEW msg \in DisplayMsg, Len(q) < QUEUE_SZ
    PROVE  /\ Post(q, msg) \in Seq(DisplayMsg) /\ Len(Post(q, msg)) = Len(q) + 1
           /\ Post(q, msg) # <<>>
           /\ Post(q, msg)[Len(Post(q, msg))] = msg
<1>1. Post(q, msg) = Append(q, msg)
  BY DEF Post
<1>2. /\ Append(q, msg) \in Seq(DisplayMsg) /\ Len(Append(q, msg)) = Len(q) + 1
      /\ Append(q, msg) # <<>> /\ Append(q, msg)[Len(q) + 1] = msg
  OBVIOUS
<1> QED BY <1>1, <1>2

\* Fetching leaves the newest message where it is, unless it is the one fetched.
LEMMA TailLast ==
    ASSUME NEW q \in Seq(DisplayMsg), q # <<>>
    PROVE  /\ Tail(q) # <<>> => Tail(q)[Len(Tail(q))] = q[Len(q)]
           /\ Tail(q) = <<>> => Head(q) = q[Len(q)]
<1>1. /\ Len(q) \in Nat \ {0} /\ Len(Tail(q)) = Len(q) - 1 /\ Head(q) = q[1]
      /\ Tail(q) \in Seq(DisplayMsg)
      /\ \A i \in 1..Len(Tail(q)) : Tail(q)[i] = q[i + 1]
  OBVIOUS
<1>2. \A rest \in Seq(DisplayMsg) : rest = <<>> <=> Len(rest) = 0
  OBVIOUS
<1> DEFINE rest == Tail(q)
<1>3. /\ rest # <<>> => rest[Len(rest)] = q[Len(q)]
      /\ rest = <<>> => Head(q) = q[Len(q)]
  <2>1. /\ Len(rest) = Len(q) - 1 /\ rest \in Seq(DisplayMsg)
        /\ \A i \in 1..Len(rest) : rest[i] = q[i + 1]
    BY <1>1
  <2> HIDE DEF rest
  <2> QED BY <1>1, <1>2, <2>1
<1> QED BY <1>3

\* A thread that starts the motor or changes its speed says so last, if there is
\* room to.
LEMMA SpeedTells ==
    ASSUME AppTypeOK, ToldLast, SpeedTurn
    PROVE  ToldLast'
<1> SUFFICES ASSUME motorState' = "ON", ~missed' PROVE ToldLast'
  BY DEF ToldLast
<1>1. /\ displayMbox \in Seq(DisplayMsg) /\ Len(displayMbox) \in Nat /\ QUEUE_SZ \in Nat
      /\ "DISP_ON_TRIGGER" \in DisplayMsg /\ \A i \in 1..9 : DispSpeed[i] \in DisplayMsg
  BY Lengths DEF DisplayMsg
<1>2. userSpeed' + 1 \in 1..9
  <2>1. TypeOK'
    BY SpeedThreadType DEF SpeedTurn, AppTypeOK
  <2>2. userSpeed' \in 0 .. MAX_SPEED_SETTING - 1
    BY <2>1 DEF TypeOK, MAX_SPEED_SETTING
  <2>3. \A user \in 0 .. MAX_SPEED_SETTING - 1 : user + 1 \in 1..9
    BY TableType
  <2> QED BY <2>2, <2>3
<1>3. ASSUME displayMbox' # <<>>, displayMbox'[Len(displayMbox')] = DispSpeed[userSpeed' + 1]
      PROVE  ToldLast'
  BY <1>3 DEF ToldLast
<1>4. missed' = IF ReportsSpeed THEN NoRoom ELSE missed
  BY DEF SpeedTurn
<1>5. CASE StartUnguarded \/ JumpStart \/ Approved
  <2> DEFINE first == Post(displayMbox, "DISP_ON_TRIGGER")
  <2>1. Len(displayMbox) + 1 < QUEUE_SZ
    <3>1. motorState # "ON"
      BY <1>5 DEF StartUnguarded, JumpStart, Approved
    <3>2. ReportsSpeed
      BY <3>1 DEF ReportsSpeed
    <3>3. ~NoRoom
      BY <1>4, <3>2
    <3> QED BY <1>1, <3>1, <3>3 DEF NoRoom
  <2>2. first \in Seq(DisplayMsg) /\ Len(first) = Len(displayMbox) + 1
    BY <1>1, <2>1, PostLast
  <2>3. displayMbox' = Post(first, DispSpeed[userSpeed' + 1])
    BY <1>5 DEF StartUnguarded, JumpStart, Approved, Go, ShowStart
  <2> HIDE DEF first
  <2> QED BY <1>1, <1>2, <1>3, <2>1, <2>2, <2>3, PostLast
<1>6. CASE ChangeSpeed
  <2>1. Len(displayMbox) < QUEUE_SZ
    <3>1. /\ motorState = "ON" /\ speedMbox # <<>>
          /\ Head(speedMbox) \in {"SPEED_UP", "SPEED_DOWN", "JUMP_SPEED"}
      BY <1>6 DEF ChangeSpeed, Hears, Fetches
    <3>2. ReportsSpeed
      BY <3>1 DEF ReportsSpeed
    <3>3. ~NoRoom
      BY <1>4, <3>2
    <3> QED BY <1>1, <3>1, <3>3 DEF NoRoom
  <2>2. displayMbox' = Post(displayMbox, DispSpeed[userSpeed' + 1])
    BY <1>6 DEF ChangeSpeed, ShowSpeed
  <2> QED BY <1>1, <1>2, <1>3, <2>1, <2>2, PostLast
<1>7. CASE KeepRunning \/ Disregard
  <2>1. UNCHANGED <<motorState, userSpeed, displayMbox, displayOnly>>
    BY <1>7 DEF KeepRunning, Disregard, Go, speedVars, SpeedTurn
  <2>2. ~ReportsSpeed
    BY <1>7, <2>1
       DEF ReportsSpeed, KeepRunning, Disregard, Hears, Fetches, TimesOut, Handled, SpeedMsg,
           Order
  <2>3. missed' = missed
    BY <1>4, <2>2
  <2> QED BY <2>1, <2>3 DEF displayOnly, ToldLast
<1> QED BY <1>5, <1>6, <1>7
    DEF SpeedTurn, SpeedThread, StartGuarded, TurnAround, MigrateSpeed, Stop, StopGuarded, Go

\* The display thread forgets a speed only when it is told to begin again, and what
\* waits behind that is a speed.
LEMMA DisplayRemembers ==
    ASSUME AppTypeOK, ShowsLast, ToldLast, DisplayTurn
    PROVE  ShowsLast' /\ ToldLast'
<1>1. D!DisplayThread /\ UNCHANGED <<motorState, userSpeed, missed>> /\ D!TypeOK
  BY DEF DisplayTurn, speedOnly, speedVars, AppTypeOK
<1>2. /\ displayMbox \in Seq(DisplayMsg) /\ lastSpeed \in D!SpeedMsgs \cup {"none"}
      /\ {"blank", "battery", "dots", "R", "none", "TIMER_EXPIRY"} \cap D!SpeedMsgs = {}
      /\ {"DISP_ON_TRIGGER", "DISP_OFF_TRIGGER"} \cap D!SpeedMsgs = {}
  BY Lengths DEF AppTypeOK, D!TypeOK, D!SpeedMsgs, D!DispSpeed
<1>3. ASSUME NEW event, D!Hears(event)
      PROVE  /\ drawing = "none"
             /\ event = "TIMER_EXPIRY" => displayMbox = <<>> /\ displayMbox' = <<>>
             /\ event # "TIMER_EXPIRY" =>
                    /\ displayMbox # <<>>
                    /\ displayMbox' # <<>> =>
                           displayMbox'[Len(displayMbox')] = displayMbox[Len(displayMbox)]
                    /\ displayMbox' = <<>> => displayMbox[Len(displayMbox)] = event
  BY <1>2, <1>3, TailLast DEF D!Hears, D!TimesOut, D!Fetches
<1>4. ASSUME motorState = "ON", ~missed, displayMbox # <<>>
      PROVE  /\ displayMbox[Len(displayMbox)] = DispSpeed[userSpeed + 1]
             /\ displayMbox[Len(displayMbox)] \in D!SpeedMsgs
  <2>1. userSpeed + 1 \in 1..9
    <3>1. userSpeed \in 0 .. MAX_SPEED_SETTING - 1
      BY DEF AppTypeOK, TypeOK, MAX_SPEED_SETTING
    <3> QED BY <3>1, TableType
  <2> QED BY <1>4, <2>1, SameMessages DEF ToldLast, D!SpeedMsgs
<1>5. ASSUME displayMbox = <<>>, displayMbox' = <<>>,
             dispState' \in {"TRIG", "SPEED"} => dispState \in {"TRIG", "SPEED"},
             UNCHANGED lastSpeed
      PROVE  ToldLast'
  BY <1>1, <1>5 DEF ToldLast
<1>6. ASSUME displayMbox # <<>>, displayMbox' # <<>>,
             displayMbox'[Len(displayMbox')] = displayMbox[Len(displayMbox)]
      PROVE  ToldLast'
  BY <1>1, <1>6 DEF ToldLast
<1>7. ASSUME displayMbox # <<>>, displayMbox' = <<>>,
             displayMbox[Len(displayMbox)] \in D!SpeedMsgs =>
                 \/ dispState' \notin {"TRIG", "SPEED"}
                 \/ lastSpeed' = displayMbox[Len(displayMbox)]
      PROVE  ToldLast'
  BY <1>1, <1>4, <1>7 DEF ToldLast
<1> USE DEF D!Go
<1>8. CASE D!EndSleep
  BY <1>1, <1>2, <1>8 DEF D!EndSleep, ShowsLast, ToldLast
<1>9. CASE D!MotorStarts
  <2>1. ShowsLast'
    BY <1>9 DEF D!MotorStarts, ShowsLast
  <2>2. ToldLast'
    BY <1>2, <1>3, <1>6, <1>7, <1>9 DEF D!MotorStarts
  <2> QED BY <2>1, <2>2
<1>10. CASE D!RedrawBattery
  <2>1. ShowsLast'
    BY <1>2, <1>10 DEF D!RedrawBattery, D!displayVars, ShowsLast
  <2>2. dispState' \notin {"TRIG", "SPEED"}
    BY <1>10 DEF D!RedrawBattery, D!displayVars
  <2>3. PICK msg \in DisplayMsg : D!Hears(msg)
    BY <1>10, SameMessages DEF D!RedrawBattery
  <2>4. msg # "TIMER_EXPIRY"
    BY DEF DisplayMsg, DispSpeed
  <2> QED BY <1>3, <1>6, <1>7, <2>1, <2>2, <2>3, <2>4
<1>11. CASE D!NoteSpeed
  BY <1>2, <1>3, <1>6, <1>7, <1>11 DEF D!NoteSpeed, ShowsLast
<1>12. CASE D!TriggerHeld
  <2>1. ShowsLast'
    BY <1>2, <1>12 DEF D!TriggerHeld, D!ShowSpeed, ShowsLast
  <2>2. ToldLast'
    BY <1>3, <1>5, <1>12 DEF D!TriggerHeld
  <2> QED BY <2>1, <2>2
<1>13. CASE D!ChangeSpeed
  <2>1. ShowsLast'
    BY <1>2, <1>3, <1>13 DEF D!ChangeSpeed, D!ShowSpeed, ShowsLast
  <2>2. ToldLast'
    BY <1>2, <1>3, <1>6, <1>7, <1>13 DEF D!ChangeSpeed
  <2> QED BY <2>1, <2>2
<1>14. CASE D!MotorStops
  BY <1>2, <1>3, <1>6, <1>7, <1>14 DEF D!MotorStops, ShowsLast
<1>15. CASE D!Disregard
  <2>1. ShowsLast'
    BY <1>15 DEF D!Disregard, D!displayVars, ShowsLast
  <2>2. ToldLast'
    <3>1. PICK msg \in DisplayMsg :
              D!Hears(msg) /\ (dispState \notin {"TRIG", "SPEED"} \/ msg \notin D!SpeedMsgs)
      BY <1>2, <1>15, SameMessages DEF D!Disregard, DisplayMsg
    <3>2. msg # "TIMER_EXPIRY"
      BY DEF DisplayMsg, DispSpeed
    <3> QED BY <1>3, <1>6, <1>7, <1>15, <3>1, <3>2 DEF D!Disregard, D!displayVars
  <2> QED BY <2>1, <2>2
<1>16. CASE D!GoIdle
  BY <1>2, <1>3, <1>5, <1>16 DEF D!GoIdle, ShowsLast
<1>17. CASE D!Wait
  BY <1>2, <1>3, <1>5, <1>17 DEF D!Wait, ShowsLast
<1> QED BY <1>1, <1>8, <1>9, <1>10, <1>11, <1>12, <1>13, <1>14, <1>15, <1>16, <1>17
    DEF D!DisplayThread

\* The other threads change neither what is shown nor what was reported, and the
\* speed thread itself draws letters only.
LEMMA ShownStep ==
    ASSUME AppTypeOK, ShowsLast, ToldLast, [AppNext]_appVars
    PROVE  ShowsLast' /\ ToldLast'
<1>1. ASSUME UNCHANGED <<displayOnly, screen>>
      PROVE  ShowsLast'
  BY <1>1 DEF ShowsLast, displayOnly
<1>2. ASSUME UNCHANGED <<displayOnly, displayMbox, motorState, userSpeed, missed>>
      PROVE  ToldLast'
  BY <1>2 DEF ToldLast, displayOnly
<1>3. CASE SpeedTurn
  <2>1. ToldLast'
    BY <1>3, SpeedTells
  <2>2. CASE TurnAround
    <3>1. screen' \notin D!SpeedMsgs
      BY <2>2 DEF TurnAround, D!SpeedMsgs, D!DispSpeed
    <3> QED BY <1>3, <2>1, <3>1 DEF SpeedTurn, displayOnly, ShowsLast
  <2>3. CASE ~TurnAround
    <3>1. UNCHANGED screen
      BY <1>3, <2>3
         DEF SpeedTurn, SpeedThread, StartGuarded, StartUnguarded, JumpStart, MigrateSpeed,
             Stop, ChangeSpeed, KeepRunning, StopGuarded, Approved, Disregard
    <3> QED BY <1>1, <1>3, <2>1, <3>1 DEF SpeedTurn
  <2> QED BY <2>2, <2>3
<1>4. CASE ReadyTurn
  BY <1>1, <1>2, <1>4 DEF ReadyTurn, ReadyThread, speedVars
<1>5. CASE User \/ SwitchTurn \/ TriggerTurn \/ BatteryChanges \/ Terminal \/ UNCHANGED appVars
  <2>1. UNCHANGED <<displayOnly, displayMbox, screen, motorState, userSpeed, missed>>
    BY <1>5
       DEF User, SwitchTurn, TriggerTurn, BatteryChanges, MeasureBattery, Terminal,
           ChangeSettings, appVars, speedOnly, speedVars, displaySide
  <2> QED BY <1>1, <1>2, <2>1
<1> QED BY <1>3, <1>4, <1>5, DisplayRemembers DEF AppNext, Threads

\* A number on the display of a running scooter, whose display thread has neither
\* mail nor sleeps, is the programmed speed, unless its report found the mailbox
\* full: nothing else leaves an old speed standing, however small the mailboxes and
\* whatever the settings.
THEOREM ShownSpeedCorrect == AppSpec => []ShownSpeedIsCurrent
<1>1. AppInit => ShowsLast /\ ToldLast
  BY DEF AppInit, Init, D!Init, ShowsLast, ToldLast, D!SpeedMsgs, D!DispSpeed
<1>2. AppTypeOK /\ ShowsLast /\ ToldLast /\ [AppNext]_appVars => ShowsLast' /\ ToldLast'
  BY ShownStep
<1>3. ShowsLast /\ ToldLast => ShownSpeedIsCurrent
  <2>1. "none" \notin D!SpeedMsgs
    BY DEF D!SpeedMsgs, D!DispSpeed
  <2> QED BY <2>1 DEF ShowsLast, ToldLast, ShownSpeedIsCurrent, ShowsCurrent
<1>4. AppInit /\ []AppTypeOK /\ [][AppNext]_appVars => [](ShowsLast /\ ToldLast)
  BY <1>1, <1>2, PTL
<1> QED BY <1>3, <1>4, AppTypeCorrect, PTL DEF AppSpec
==============================================================================
