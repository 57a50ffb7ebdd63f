---------------------------- MODULE TriggerProofs ----------------------------
(***************************************************************************)
(* What Trigger.cfg checks with a mailbox of two, for mailboxes of any     *)
(* size, any lag of the trigger thread and any set of options.             *)
(***************************************************************************)
EXTENDS Trigger, MailboxProofs

-----------------------------------------------------------------------------
(* Types *)

\* The trigger thread hears a message or its timer.
LEMMA HearsType ==
    ASSUME TypeOK, NEW event, Hears(event)
    PROVE  /\ triggerMbox' \in MailboxOf(SwitchMsg)
           /\ pad' = pad /\ sw' = sw /\ options' = options
<1>1. CASE event = "TIMER_EXPIRY"
  BY <1>1 DEF Hears, TimesOut, TypeOK, switchVars
<1>2. CASE event # "TIMER_EXPIRY"
  <2>1. Fetches(triggerMbox, event, triggerMbox')
    BY <1>2 DEF Hears
  <2> QED BY <2>1, FetchType DEF Hears, TypeOK, switchVars
<1> QED BY <1>1, <1>2

\* The message heard and what the case makes of it keep everything typed.
LEMMA CaseType ==
    ASSUME TypeOK, NEW event, Hears(event), NEW s \in State,
           Count(s) \/ Rest(s) \/ \E order \in Order : Say(s, order)
    PROVE  TypeOK'
<1>1. trigState' \in State /\ trigTimeout' \in Timeout /\ speedMbox' \in MailboxOf(Order)
  BY PostType DEF TypeOK, Count, Rest, Say, Timeout
<1> QED BY <1>1, HearsType DEF TypeOK

\* Each case of the trigger thread is one message and one such move, or none.
LEMMA TriggerThreadType == TypeOK /\ TriggerThread => TypeOK'
<1> SUFFICES ASSUME TypeOK, TriggerThread
             PROVE  TypeOK'
  OBVIOUS
<1> USE CaseType DEF Pressed, Released, Expired, GiveUp, State, Holding, Releasing, Order
<1>1. CASE Off \/ On \/ GoingOn \/ OneOff \/ OneStart
  BY <1>1 DEF Off, On, GoingOn, OneOff, OneStart
<1>2. CASE ThreeStart \/ FourOffStart \/ FourStart \/ FiveOff \/ RevStart
  BY <1>2 DEF ThreeStart, FourOffStart, FourStart, FiveOff, RevStart
<1>3. CASE OneOn \/ GoingOff \/ Clicked \/ ClckdOff \/ TwoOff \/ Three
  BY <1>3 DEF OneOn, GoingOff, Clicked, ClckdOff, TwoOff, Three
<1>4. CASE ThreeOff \/ Four \/ FourOff \/ InCruise \/ Five
  BY <1>4 DEF ThreeOff, Four, FourOff, InCruise, Five
<1>5. CASE Ignored
  <2>1. \E event \in SwitchMsg : Hears(event)
    BY <1>5 DEF Ignored, SwitchMsg
  <2> QED BY <1>5, <2>1, HearsType DEF Ignored, TypeOK, triggerVars
<1> QED BY <1>1, <1>2, <1>3, <1>4, <1>5 DEF TriggerThread, Starting, Adjusting

\* Every variable keeps its type, and no mailbox grows beyond its size.
THEOREM TypeCorrect == Spec => []TypeOK
<1>1. Init => TypeOK
  BY QueueAssumption DEF Init, TypeOK, MailboxOf, State, Holding, Timeout
<1>2. TypeOK /\ [Next]_vars => TypeOK'
  <2> SUFFICES ASSUME TypeOK, [Next]_vars
               PROVE  TypeOK'
    OBVIOUS
  <2>1. CASE MoveTrigger
    BY <2>1 DEF MoveTrigger, TypeOK, triggerVars
  <2>2. CASE SampleSwitch
    BY <2>2, PostType DEF SampleSwitch, TypeOK, triggerVars, SwitchMsg
  <2>3. CASE ChangeOption
    BY <2>3 DEF ChangeOption, TypeOK, triggerVars, switchVars
  <2>4. CASE TriggerThread
    BY <2>4, TriggerThreadType
  <2>5. CASE SpeedFetches
    <3>1. Fetches(speedMbox, Head(speedMbox), speedMbox')
      BY <2>5 DEF SpeedFetches, Fetches
    <3> QED BY <2>5, <3>1, FetchType DEF SpeedFetches, TypeOK, triggerVars, switchVars
  <2>6. CASE UNCHANGED vars
    BY <2>6 DEF vars, TypeOK
  <2> QED BY <2>1, <2>2, <2>3, <2>4, <2>5, <2>6 DEF Next
<1> QED BY <1>1, <1>2, PTL DEF Spec

-----------------------------------------------------------------------------
(* The phase of the trigger *)

\* The reports alternate, and the last one is what the switch thread saw last.
Report(s) == IF s = 1 THEN "SW_PRESSED" ELSE "SW_RELEASED"
Faithful(mbox, s) ==
    /\ \A i \in 1 .. Len(mbox) - 1 : mbox[i] # mbox[i + 1]
    /\ mbox # <<>> => mbox[Len(mbox)] = Report(s)

\* The next report, read from mbox or made when the switch changes, is event.
Awaits(event, mbox, s) ==
    IF mbox = <<>> THEN event = Report(1 - s) ELSE Head(mbox) = event

\* A window is open in all states but these.
Windowless == {"OFF", "ON", "ONE_ON", "CRUISE"}
WindowOpen == trigTimeout = FINITE <=> trigState \notin Windowless

\* Clicks are counted on because a setting has a use for more of them, and
\* settings do not change while a window is open.
UsefulClicks ==
    /\ trigState \in {"ONE_START", "THREE_START"} => Reverse \/ Jump
    /\ trigState \in {"THREE_OFF", "FOUR"} => Reverse \/ Cruise
    /\ trigState \in {"FOUR_OFF_START", "FOUR_START", "FIVE_OFF", "REV_START", "FOUR_OFF", "FIVE"}
           => Reverse

PhaseInv ==
    /\ TypeOK
    /\ Faithful(triggerMbox, sw)
    /\ trigState \in Holding => Awaits("SW_RELEASED", triggerMbox, sw)
    /\ trigState \in Releasing => Awaits("SW_PRESSED", triggerMbox, sw)
    /\ WindowOpen
    /\ UsefulClicks

\* Jump is never the only option of a third or a fourth click.
NoJumpAlone == \A o \in Options : o.jump = 1 => o.reverse = 1 \/ o.cruise = 1

\* Reading a report leaves the mailbox faithful, with the other one next.
LEMMA ReadReport ==
    ASSUME NEW mbox \in MailboxOf(SwitchMsg), NEW s \in 0..1, Faithful(mbox, s),
           NEW msg, NEW rest, Fetches(mbox, msg, rest)
    PROVE  /\ Faithful(rest, s)
           /\ msg = "SW_PRESSED" => Awaits("SW_RELEASED", rest, s)
           /\ msg = "SW_RELEASED" => Awaits("SW_PRESSED", rest, s)
<1>1. mbox \in Seq(SwitchMsg) /\ mbox # <<>> /\ msg = mbox[1] /\ rest = Tail(mbox)
  BY DEF MailboxOf, Fetches
<1>2. /\ Len(rest) = Len(mbox) - 1 /\ Len(mbox) \in Nat \ {0}
      /\ rest \in Seq(SwitchMsg)
      /\ \A i \in 1 .. Len(rest) : rest[i] = mbox[i + 1]
  BY <1>1
<1>3. Faithful(rest, s)
  <2>1. \A i \in 1 .. Len(rest) - 1 : rest[i] # rest[i + 1]
    BY <1>2 DEF Faithful
  <2>2. rest # <<>> => rest[Len(rest)] = Report(s)
    BY <1>1, <1>2 DEF Faithful
  <2> QED BY <2>1, <2>2 DEF Faithful
<1>4. CASE rest = <<>>
  <2>1. Len(mbox) = 1
    BY <1>2, <1>4
  <2>2. msg = Report(s)
    BY <1>1, <2>1 DEF Faithful
  <2> QED BY <1>3, <1>4, <2>2 DEF Awaits, Report
<1>5. CASE rest # <<>>
  <2>1. Len(rest) >= 1 /\ Head(rest) = mbox[2] /\ mbox[2] \in SwitchMsg /\ mbox[1] \in SwitchMsg
    BY <1>1, <1>2, <1>5
  <2>2. mbox[1] # mbox[2]
    BY <1>2, <2>1 DEF Faithful
  <2> QED BY <1>1, <1>3, <1>5, <2>1, <2>2 DEF Awaits, SwitchMsg
<1> QED BY <1>4, <1>5

\* Reporting a change to a mailbox with room leaves it faithful, and what was
\* awaited still is.
LEMMA AddReport ==
    ASSUME NEW mbox \in MailboxOf(SwitchMsg), NEW s \in 0..1, Faithful(mbox, 1 - s),
           Len(mbox) < QUEUE_SZ
    PROVE  /\ Faithful(Post(mbox, Report(s)), s)
           /\ \A event \in SwitchMsg :
                 Awaits(event, mbox, 1 - s) => Awaits(event, Post(mbox, Report(s)), s)
<1> DEFINE more == Append(mbox, Report(s))
<1>1. Post(mbox, Report(s)) = more
  BY DEF Post
<1>2. mbox \in Seq(SwitchMsg) /\ Report(s) \in SwitchMsg /\ Report(s) # Report(1 - s)
  BY DEF MailboxOf, Report, SwitchMsg
<1>3. /\ Len(more) = Len(mbox) + 1 /\ Len(mbox) \in Nat /\ more # <<>>
      /\ more[Len(mbox) + 1] = Report(s)
      /\ \A i \in 1 .. Len(mbox) : more[i] = mbox[i]
  BY <1>2
<1>4. ASSUME NEW i \in 1 .. Len(more) - 1
      PROVE  more[i] # more[i + 1]
  <2>1. CASE i < Len(mbox)
    BY <1>3, <2>1 DEF Faithful
  <2>2. CASE i = Len(mbox)
    <3>1. mbox # <<>> /\ more[i] = Report(1 - s)
      BY <1>3, <2>2 DEF Faithful
    <3> QED BY <1>2, <1>3, <2>2, <3>1
  <2> QED BY <1>3, <2>1, <2>2
<1>5. Faithful(more, s)
  BY <1>3, <1>4 DEF Faithful
<1>6. ASSUME NEW event \in SwitchMsg, Awaits(event, mbox, 1 - s)
      PROVE  Awaits(event, more, s)
  <2>1. CASE mbox = <<>>
    <3>1. Head(more) = Report(s) /\ 1 - (1 - s) = s
      BY <1>2, <1>3, <2>1
    <3> QED BY <1>3, <1>6, <2>1, <3>1 DEF Awaits
  <2>2. CASE mbox # <<>>
    <3>1. Head(more) = Head(mbox)
      BY <1>2, <1>3, <2>2
    <3> QED BY <1>3, <1>6, <2>2, <3>1 DEF Awaits
  <2> QED BY <2>1, <2>2
<1> QED BY <1>1, <1>5, <1>6

\* What a case hears is what is awaited, and afterwards the other is.
LEMMA HearsReport ==
    ASSUME PhaseInv, NEW event, Hears(event)
    PROVE  /\ Faithful(triggerMbox', sw') /\ sw' = sw /\ options' = options
           /\ event = "SW_PRESSED" => /\ trigState \notin Holding
                                      /\ Awaits("SW_RELEASED", triggerMbox', sw')
           /\ event = "SW_RELEASED" => /\ trigState \notin Releasing
                                       /\ Awaits("SW_PRESSED", triggerMbox', sw')
           /\ event = "TIMER_EXPIRY" => triggerMbox' = triggerMbox
<1>1. triggerMbox \in MailboxOf(SwitchMsg) /\ sw \in 0..1 /\ Faithful(triggerMbox, sw)
  BY DEF PhaseInv, TypeOK
<1>2. sw' = sw /\ options' = options
  BY DEF Hears, switchVars
<1>3. CASE event = "TIMER_EXPIRY"
  BY <1>1, <1>2, <1>3 DEF Hears, TimesOut
<1>4. CASE event # "TIMER_EXPIRY"
  <2>1. Fetches(triggerMbox, event, triggerMbox')
    BY <1>4 DEF Hears
  <2>2. triggerMbox # <<>> /\ Head(triggerMbox) = event
    BY <2>1 DEF Fetches
  <2>3. event = "SW_PRESSED" => trigState \notin Holding
    BY <2>2 DEF PhaseInv, Awaits
  <2>4. event = "SW_RELEASED" => trigState \notin Releasing
    BY <2>2 DEF PhaseInv, Awaits
  <2>5. /\ Faithful(triggerMbox', sw)
        /\ event = "SW_PRESSED" => Awaits("SW_RELEASED", triggerMbox', sw)
        /\ event = "SW_RELEASED" => Awaits("SW_PRESSED", triggerMbox', sw)
    BY <1>1, <2>1, ReadReport
  <2> QED BY <1>2, <1>4, <2>3, <2>4, <2>5
<1> QED BY <1>3, <1>4

\* Each case goes on in the phase of the trigger it has heard of.
LEMMA TriggerThreadPhase ==
    ASSUME NoJumpAlone, PhaseInv, TriggerThread
    PROVE  PhaseInv'
<1>1. TypeOK'
  BY TriggerThreadType DEF PhaseInv
<1>2. PICK event \in {"SW_PRESSED", "SW_RELEASED", "TIMER_EXPIRY"} : Hears(event)
  BY DEF TriggerThread, Starting, Adjusting, Ignored, Off, On, GoingOn, OneOff, OneStart,
         ThreeStart, FourOffStart, FourStart, FiveOff, RevStart, OneOn, GoingOff, Clicked,
         ClckdOff, TwoOff, Three, ThreeOff, Four, FourOff, InCruise, Five,
         Pressed, Released, Expired, GiveUp
<1>3. /\ Faithful(triggerMbox', sw')
      /\ Reverse' = Reverse /\ Jump' = Jump /\ Cruise' = Cruise
  BY <1>2, HearsReport DEF Reverse, Jump, Cruise
<1>4. Jump => Reverse \/ Cruise
  BY DEF NoJumpAlone, PhaseInv, TypeOK, Reverse, Jump, Cruise
<1> DEFINE Phase == /\ trigState' \in Holding => Awaits("SW_RELEASED", triggerMbox', sw')
                    /\ trigState' \in Releasing => Awaits("SW_PRESSED", triggerMbox', sw')
                    /\ WindowOpen'
                    /\ UsefulClicks'
<1> USE HearsReport DEF Pressed, Released, Expired, GiveUp, Count, Rest, Say, Holding,
        Releasing, WindowOpen, Windowless, UsefulClicks, FINITE, INFINITE
<1>5. ASSUME Off \/ On \/ GoingOn \/ OneOff \/ OneStart
      PROVE  Phase
  BY <1>3, <1>5 DEF Off, On, GoingOn, OneOff, OneStart, PhaseInv
<1>6. ASSUME ThreeStart \/ FourOffStart \/ FourStart \/ FiveOff \/ RevStart
      PROVE  Phase
  BY <1>3, <1>6 DEF ThreeStart, FourOffStart, FourStart, FiveOff, RevStart, PhaseInv
<1>7. ASSUME OneOn \/ GoingOff \/ Clicked \/ ClckdOff \/ TwoOff
      PROVE  Phase
  BY <1>3, <1>7 DEF OneOn, GoingOff, Clicked, ClckdOff, TwoOff, PhaseInv
<1>8. ASSUME Three \/ ThreeOff \/ Four \/ FourOff \/ InCruise \/ Five
      PROVE  Phase
  BY <1>3, <1>4, <1>8 DEF Three, ThreeOff, Four, FourOff, InCruise, Five, PhaseInv
<1>9. ASSUME Ignored
      PROVE  Phase
  BY <1>3, <1>9 DEF Ignored, PhaseInv, triggerVars
<1> QED
  BY <1>1, <1>3, <1>5, <1>6, <1>7, <1>8, <1>9
     DEF PhaseInv, TriggerThread, Starting, Adjusting

\* Where jump is never the only option, the phases are kept in every state.
LEMMA PhaseInvariant ==
    ASSUME NoJumpAlone
    PROVE  Spec => []PhaseInv
<1>1. Init => PhaseInv
  <2>1. Init => TypeOK
    BY QueueAssumption DEF Init, TypeOK, MailboxOf, State, Holding, Timeout
  <2> QED
    BY <2>1 DEF Init, PhaseInv, Faithful, Holding, Releasing, WindowOpen, Windowless,
                UsefulClicks, FINITE, INFINITE
<1>2. PhaseInv /\ [Next]_vars => PhaseInv'
  <2> SUFFICES ASSUME PhaseInv, [Next]_vars
               PROVE  PhaseInv'
    OBVIOUS
  <2>1. CASE MoveTrigger
    BY <2>1 DEF MoveTrigger, PhaseInv, TypeOK, triggerVars, WindowOpen, UsefulClicks,
                Reverse, Jump, Cruise
  <2>2. CASE SampleSwitch
    <3>1. /\ sw' = pad /\ pad \in 0..1 /\ sw = 1 - sw' /\ Len(triggerMbox) < QUEUE_SZ
          /\ triggerMbox' = Post(triggerMbox, Report(sw'))
      BY <2>2, BacklogAssumption, QueueAssumption
         DEF SampleSwitch, PhaseInv, TypeOK, Report, MailboxOf
    <3>2. /\ triggerMbox \in MailboxOf(SwitchMsg) /\ Faithful(triggerMbox, 1 - sw')
          /\ \A event \in SwitchMsg :
                Awaits(event, triggerMbox, sw) => Awaits(event, triggerMbox, 1 - sw')
      BY <3>1 DEF PhaseInv, TypeOK
    <3>3. /\ Faithful(triggerMbox', sw')
          /\ \A event \in SwitchMsg :
                Awaits(event, triggerMbox, sw) => Awaits(event, triggerMbox', sw')
      BY <3>1, <3>2, AddReport
    <3>4. triggerMbox' \in MailboxOf(SwitchMsg)
      BY <2>2, PostType DEF SampleSwitch, SwitchMsg, PhaseInv, TypeOK
    <3> QED
      BY <2>2, <3>1, <3>3, <3>4
         DEF SampleSwitch, PhaseInv, TypeOK, SwitchMsg, triggerVars, WindowOpen,
             UsefulClicks, Reverse, Jump, Cruise
  <2>3. CASE ChangeOption
    BY <2>3 DEF ChangeOption, PhaseInv, TypeOK, triggerVars, switchVars, WindowOpen,
                Windowless, UsefulClicks, FINITE, INFINITE
  <2>4. CASE TriggerThread
    BY <2>4, TriggerThreadPhase
  <2>5. CASE SpeedFetches
    <3>1. Fetches(speedMbox, Head(speedMbox), speedMbox')
      BY <2>5 DEF SpeedFetches, Fetches
    <3>2. TypeOK'
      BY <2>5, <3>1, FetchType DEF SpeedFetches, PhaseInv, TypeOK, triggerVars, switchVars
    <3> QED BY <2>5, <3>2 DEF SpeedFetches, PhaseInv, triggerVars, switchVars, WindowOpen,
                              UsefulClicks, Reverse, Jump, Cruise
  <2>6. CASE UNCHANGED vars
    BY <2>6 DEF vars, PhaseInv, TypeOK, WindowOpen, UsefulClicks, Reverse, Jump, Cruise
  <2> QED BY <2>1, <2>2, <2>3, <2>4, <2>5, <2>6 DEF Next
<1> QED BY <1>1, <1>2, PTL DEF Spec

\* With jump never enabled on its own, the trigger thread waits for a release
\* exactly while the trigger is held, however far it lags behind the switch.
THEOREM PhaseCorrect ==
    ASSUME NoJumpAlone
    PROVE  Spec => []PhaseAgreement
<1>1. PhaseInv => PhaseAgreement
  BY DEF PhaseInv, TypeOK, PhaseAgreement, Awaits, Report
<1> QED BY <1>1, PhaseInvariant, PTL

\* Then the thread never leaves a motor running on a released trigger without a
\* window at whose end it is stopped.
THEOREM DeadManCorrect ==
    ASSUME NoJumpAlone
    PROVE  Spec => []DeadMan
<1>1. PhaseInv => DeadMan
  <2> SUFFICES ASSUME PhaseInv, trigState \in Running \ {"CRUISE"}, triggerMbox = <<>>, sw = 0
               PROVE  trigTimeout = FINITE
    BY DEF DeadMan
  <2>1. trigState \notin Holding
    BY DEF PhaseInv, Awaits, Report
  <2> QED BY <2>1 DEF PhaseInv, WindowOpen, Windowless, Running, Holding
<1> QED BY <1>1, PhaseInvariant, PTL

-----------------------------------------------------------------------------
(* The two threads implement Gesture. *)

\* The state of the thread decides what the user is told of it.
GestureVars == <<trigState, options, speedMbox>>

\* A step that leaves these alone leaves all of Gesture alone.
LEMMA Stutter ==
    ASSUME UNCHANGED GestureVars
    PROVE  UNCHANGED G!vars
BY DEF GestureVars, G!vars, Clicks

\* Each case of the trigger thread is a step of a gesture.
LEMMA TriggerThreadGesture ==
    ASSUME PhaseInv, TriggerThread
    PROVE  G!Next \/ UNCHANGED G!vars
<1> USE DEF Hears, Pressed, Released, Expired, GiveUp, Count, Rest, Say, Reverse, Jump, Cruise,
            Holding, Running, Clicks, G!Become, G!Tell, G!TellNothing, G!Reverse, G!Jump,
            G!Cruise, G!Post, Post, switchVars, PhaseInv, UsefulClicks
<1>1. Off => G!Pull
  BY DEF Off, G!Pull, G!LastToStart, G!Counted
<1>2. On => G!LetGo
  BY DEF On, G!LetGo
<1>3. GoingOn => G!LetGo \/ G!HoldToStart
  BY DEF GoingOn, G!LetGo, G!HoldToStart
<1>4. OneOff => G!Pull \/ G!PullLast \/ G!Lapse
  BY DEF OneOff, G!Pull, G!PullLast, G!Lapse, G!LastToStart, G!Counted
<1>5. OneStart => G!LetGo \/ G!HoldToStart
  BY DEF OneStart, G!LetGo, G!HoldToStart
<1>6. ThreeStart => G!Pull \/ G!PullLast \/ G!Lapse
  BY DEF ThreeStart, G!Pull, G!PullLast, G!Lapse, G!LastToStart, G!Counted
<1>7. FourOffStart => G!LetGo \/ G!HoldToStart
  BY DEF FourOffStart, G!LetGo, G!HoldToStart
<1>8. FourStart => G!Pull \/ G!Lapse
  BY DEF FourStart, G!Pull, G!Lapse, G!LastToStart, G!Counted
<1>9. FiveOff => G!LetGo \/ G!HoldToStart
  BY DEF FiveOff, G!LetGo, G!HoldToStart
<1>10. RevStart => G!PullLast \/ G!Lapse
  BY DEF RevStart, G!PullLast, G!Lapse, G!LastToStart
<1>11. OneOn => G!LetGo
  BY DEF OneOn, G!LetGo
<1>12. GoingOff => G!Pull \/ G!Lapse
  BY DEF GoingOff, G!Pull, G!Lapse, G!LastWhileRunning, G!Counted
<1>13. Clicked => G!LetGo \/ G!HoldWhileRunning
  BY DEF Clicked, G!LetGo, G!HoldWhileRunning
<1>14. ClckdOff => G!Pull \/ G!Lapse
  BY DEF ClckdOff, G!Pull, G!Lapse, G!LastWhileRunning, G!Counted
<1>15. TwoOff => G!LetGo \/ G!HoldWhileRunning
  BY DEF TwoOff, G!LetGo, G!HoldWhileRunning
<1>16. Three => G!Pull \/ G!Lapse
  BY DEF Three, G!Pull, G!Lapse, G!LastWhileRunning, G!Counted
<1>17. ThreeOff => G!LetGo \/ G!HoldWhileRunning
  BY DEF ThreeOff, G!LetGo, G!HoldWhileRunning
<1>18. Four => G!Pull \/ G!PullLast \/ G!Lapse
  BY DEF Four, G!Pull, G!PullLast, G!Lapse, G!LastWhileRunning, G!Counted
<1>19. FourOff => G!LetGo \/ G!HoldWhileRunning
  BY DEF FourOff, G!LetGo, G!HoldWhileRunning
<1>20. InCruise => G!PullLast
  BY DEF InCruise, G!PullLast, G!LastToStart, G!LastWhileRunning
<1>21. Five => G!PullLast \/ G!Lapse
  BY DEF Five, G!PullLast, G!Lapse, G!LastToStart, G!LastWhileRunning
<1>22. Ignored => UNCHANGED G!vars
  BY Stutter DEF Ignored, GestureVars, triggerVars
<1> QED
  BY <1>1, <1>2, <1>3, <1>4, <1>5, <1>6, <1>7, <1>8, <1>9, <1>10, <1>11, <1>12, <1>13,
     <1>14, <1>15, <1>16, <1>17, <1>18, <1>19, <1>20, <1>21, <1>22
     DEF TriggerThread, Starting, Adjusting, G!Next

\* With jump never enabled on its own, all that the two threads do is what the
\* count of clicks says.
THEOREM GestureImplemented ==
    ASSUME NoJumpAlone
    PROVE  Spec => ImplementsGesture
<1>1. Init => G!Init
  BY DEF Init, G!Init, Holding, Running, Clicks
<1>2. PhaseInv /\ [Next]_vars => [G!Next]_(G!vars)
  <2> SUFFICES ASSUME PhaseInv, [Next]_vars
               PROVE  G!Next \/ UNCHANGED G!vars
    OBVIOUS
  <2>1. CASE MoveTrigger \/ SampleSwitch
    BY <2>1, Stutter DEF MoveTrigger, SampleSwitch, GestureVars, triggerVars
  <2>2. CASE ChangeOption
    <3>1. trigState \in Windowless /\ trigState' = trigState
      BY <2>2 DEF ChangeOption, triggerVars, PhaseInv, TypeOK, Timeout, WindowOpen,
                  FINITE, INFINITE
    <3>2. Clicks = 0 /\ Clicks' = 0
      BY <3>1 DEF Windowless, Clicks
    <3>3. G!ChangeOption
      BY <2>2, <3>1, <3>2 DEF ChangeOption, G!ChangeOption
    <3> QED BY <3>3 DEF G!Next
  <2>3. CASE TriggerThread
    BY <2>3, TriggerThreadGesture
  <2>4. CASE SpeedFetches
    <3>1. G!SpeedFetches
      BY <2>4 DEF SpeedFetches, triggerVars, Clicks, G!SpeedFetches
    <3> QED BY <3>1 DEF G!Next
  <2>5. CASE UNCHANGED vars
    BY <2>5, Stutter DEF vars, GestureVars
  <2> QED BY <2>1, <2>2, <2>3, <2>4, <2>5 DEF Next
<1> QED BY <1>1, <1>2, PhaseInvariant, PTL DEF Spec, ImplementsGesture, G!Spec
==============================================================================
