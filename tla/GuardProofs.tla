----------------------------- MODULE GuardProofs -----------------------------
(***************************************************************************)
(* Who drives the motor, and on whose word: the two threads share it, and  *)
(* what keeps them apart is where each stands in a guarded start.          *)
(***************************************************************************)
EXTENDS SpeedProofs

\* A full mailbox must not swallow the verdict behind one order of the user.
RoomForTwo == QUEUE_SZ >= 2

Verdict == {"SPEED_OFF", "SPEED_READY"}

\* A verdict waits, behind one order at most.
VerdictWaits(mbox) ==
    /\ mbox # <<>> /\ Tail(mbox) \in Seq(Verdict)
    /\ Head(mbox) \in Verdict \/ Tail(mbox) # <<>>

\* Nobody starts, or the motor runs without a watch.  Verdicts of a start the
\* user gave up may be left over.
Idle ==
    /\ motorState \in {"OFF", "ON"} /\ readyMbox = <<>>
    /\ \/ readyTimeout = INFINITE
       \/ readyTimeout = DELAY /\ speedMbox = <<>>
    /\ Len(speedMbox) <= 1 \/ speedMbox \in Seq(Verdict)

\* A guarded start is on its way to the ready thread.
Asked ==
    /\ motorState = "START" /\ readyMbox = <<"READY_ON">> /\ readyTimeout = INFINITE
    /\ speedMbox = <<>> /\ ~motor.on

\* The ready thread samples, and has counted no more than it has seen.
Watched ==
    /\ motorState = "START" /\ readyMbox = <<>> /\ readyTimeout = RAMPING
    /\ Len(speedMbox) <= 1 /\ speedMbox \in Seq(Order)
    /\ safeCt <= SafeCount /\ safeCt <= attempt.good
    /\ motor.guarded /\ motor.amps = GUARD

\* Its verdict is on the way to the speed thread.
Judged ==
    /\ motorState = "START" /\ readyMbox = <<>> /\ readyTimeout = INFINITE
    /\ VerdictWaits(speedMbox)
    /\ speedMbox \in Seq(Order) \/ attempt.good > SafeCount
    /\ motor.guarded /\ motor.amps = GUARD

\* The user gave the start up, which the ready thread has yet to learn.
CalledOff ==
    /\ motorState = "OFF" /\ readyMbox = <<"READY_OFF">>
    /\ readyTimeout \in {RAMPING, INFINITE} /\ speedMbox \in Seq(Verdict)

\* The motor in the states that are no phase of a guarded start
Released == motorState = "OFF" => ~motor.on
Running ==
    motorState = "ON" =>
        motor = [on |-> TRUE, speed |-> Setpoint(presentSpeed),
                 amps |-> userSpeed + 1, guarded |-> FALSE]

Phases == Idle \/ Asked \/ Watched \/ Judged \/ CalledOff

PhaseInv == Released /\ Running /\ Phases

-----------------------------------------------------------------------------

\* What is left in the mailbox of the speed thread after it heard a message
LEMMA HeardRest ==
    ASSUME TypeOK, NEW event, Hears(event)
    PROVE  /\ event # "TIMER_EXPIRY" =>
                  /\ speedMbox # <<>> /\ event = Head(speedMbox) /\ speedMbox' = Tail(speedMbox)
                  /\ speedMbox' \in Seq(SpeedMsg) /\ Len(speedMbox') = Len(speedMbox) - 1
                  /\ Len(speedMbox) <= 1 => speedMbox' = <<>>
                  /\ speedMbox \in Seq(Verdict) =>
                         event \in Verdict /\ speedMbox' \in Seq(Verdict)
                  /\ speedMbox \in Seq(Order) =>
                         event \in Order /\ speedMbox' \in Seq(Order)
           /\ event = "TIMER_EXPIRY" => speedMbox = <<>> /\ speedMbox' = <<>>
           /\ UNCHANGED <<readyTimeout, safeCt, failCt, attempt>>
<1>1. speedMbox \in Seq(SpeedMsg)
  BY DEF TypeOK, MailboxOf
<1>2. CASE event = "TIMER_EXPIRY"
  BY <1>2 DEF Hears, TimesOut, readyVars
<1>3. CASE event # "TIMER_EXPIRY"
  <2>1. speedMbox # <<>> /\ event = Head(speedMbox) /\ speedMbox' = Tail(speedMbox)
    BY <1>3 DEF Hears, Fetches
  <2>2. speedMbox' \in Seq(SpeedMsg) /\ Len(speedMbox') = Len(speedMbox) - 1
    BY <1>1, <2>1
  <2>3. Len(speedMbox) <= 1 => speedMbox' = <<>>
    BY <1>1, <2>1, <2>2
  <2>4. speedMbox \in Seq(Verdict) => event \in Verdict /\ speedMbox' \in Seq(Verdict)
    BY <2>1
  <2>5. speedMbox \in Seq(Order) => event \in Order /\ speedMbox' \in Seq(Order)
    BY <2>1
  <2> QED BY <1>3, <2>1, <2>2, <2>3, <2>4, <2>5 DEF Hears, readyVars
<1> QED BY <1>2, <1>3

\* The ready thread takes the one message it may find.
LEMMA ReadyRest ==
    ASSUME PhaseInv, NEW msg, Fetches(readyMbox, msg, readyMbox')
    PROVE  /\ msg = "READY_ON" => Asked
           /\ msg = "READY_OFF" => CalledOff
           /\ readyMbox' = <<>>
<1>1. Asked \/ CalledOff
  BY DEF PhaseInv, Phases, Idle, Watched, Judged, Fetches
<1>2. CASE Asked
  BY <1>2 DEF Asked, Fetches
<1>3. CASE CalledOff
  BY <1>3 DEF CalledOff, Fetches
<1> QED BY <1>1, <1>2, <1>3

\* Driving the motor as an order says
LEMMA RunPhase ==
    ASSUME NEW user, RunMotor(user), NEW timeout, Go("ON", user, timeout),
           UNCHANGED inverted
    PROVE  Released' /\ Running'
BY DEF RunMotor, Go, Released, Running, Setpoint

\* Leaving it alone
LEMMA AlonePhase ==
    ASSUME Released, Running, UNCHANGED <<motorState, presentSpeed, motor, inverted>>,
           motorState = "ON" => UNCHANGED userSpeed
    PROVE  Released' /\ Running'
BY DEF Released, Running, Setpoint

\* A turn of the speed thread drives the motor as its new state says.
LEMMA SpeedDrives ==
    ASSUME Released, Running, SpeedThread
    PROVE  Released' /\ Running'
<1>1. CASE StartGuarded
  BY <1>1 DEF StartGuarded, Go, Released, Running
<1>2. CASE StartUnguarded
  BY <1>2, RunPhase DEF StartUnguarded
<1>3. CASE JumpStart
  <2>1. userSpeed' = settings.jump_speed - 1
    BY <1>3 DEF JumpStart, Go
  <2> QED BY <1>3, <2>1, RunPhase DEF JumpStart
<1>4. CASE TurnAround \/ Stop \/ StopGuarded
  BY <1>4 DEF TurnAround, Stop, StopGuarded, Go, ReleaseMotor, Released, Running
<1>5. CASE MigrateSpeed
  BY <1>5, AlonePhase DEF MigrateSpeed, Go, driveVars
<1>6. CASE ChangeSpeed
  <2>1. Go("ON", userSpeed', RAMPING)
    BY <1>6 DEF ChangeSpeed, Go
  <2> QED BY <1>6, <2>1, RunPhase DEF ChangeSpeed
<1>7. CASE KeepRunning
  BY <1>7, RunPhase DEF KeepRunning
<1>8. CASE Approved
  BY <1>8, RunPhase DEF Approved
<1>9. CASE Disregard
  BY <1>9, AlonePhase DEF Disregard, speedVars, driveVars
<1> QED BY <1>1, <1>2, <1>3, <1>4, <1>5, <1>6, <1>7, <1>8, <1>9 DEF SpeedThread

\* The speed thread acts on an order only in the phase the order is for.
LEMMA SpeedThreadPhase ==
    ASSUME TypeOK, PhaseInv, SpeedThread
    PROVE  PhaseInv'
<1>0. Released' /\ Running'
  BY SpeedDrives DEF PhaseInv
<1>1. CASE StartGuarded
  <2>1. Idle /\ speedMbox' = <<>> /\ readyTimeout' = INFINITE
    BY <1>1, HeardRest DEF StartGuarded, PhaseInv, Phases, Idle, Asked, Watched, Judged,
                           CalledOff, Verdict
  <2>2. readyMbox' = <<"READY_ON">>
    BY <1>1, <2>1, QueueAssumption DEF StartGuarded, Post, Idle
  <2>3. Asked'
    BY <1>1, <2>1, <2>2 DEF StartGuarded, Go, driveVars, Asked, PhaseInv, Released
  <2> QED BY <1>0, <2>3 DEF PhaseInv, Phases
<1>2. CASE StartUnguarded
  <2>1. Idle /\ speedMbox' = <<>> /\ readyTimeout' = INFINITE
    BY <1>2, HeardRest DEF StartUnguarded, PhaseInv, Phases, Idle, Asked, Watched, Judged,
                           CalledOff, Verdict
  <2> QED BY <1>0, <1>2, <2>1 DEF StartUnguarded, Go, PhaseInv, Phases, Idle
<1>3. CASE JumpStart
  <2>1. Idle /\ speedMbox' = <<>> /\ readyTimeout' = INFINITE
    BY <1>3, HeardRest DEF JumpStart, PhaseInv, Phases, Idle, Asked, Watched, Judged,
                           CalledOff, Verdict
  <2> QED BY <1>0, <1>3, <2>1 DEF JumpStart, Go, PhaseInv, Phases, Idle
<1>4. CASE TurnAround
  <2>1. Idle /\ speedMbox' = <<>> /\ readyTimeout' = INFINITE
    <3>1. PICK order \in Order \ Verdict : Hears(order) /\ motorState # "START"
      BY <1>4 DEF TurnAround, Order, Verdict
    <3>2. Idle
      BY <3>1, HeardRest DEF PhaseInv, Phases, Asked, Watched, Judged, CalledOff, Order, Verdict
    <3> QED BY <3>1, <3>2, HeardRest DEF Idle, Order, Verdict
  <2> QED BY <1>0, <1>4, <2>1 DEF TurnAround, Go, PhaseInv, Phases, Idle
<1>5. CASE MigrateSpeed
  <2>1. speedMbox = <<>> /\ speedMbox' = <<>> /\ readyTimeout' = readyTimeout
    BY <1>5, HeardRest DEF MigrateSpeed
  <2>2. Idle' \/ CalledOff'
    BY <1>5, <2>1 DEF MigrateSpeed, Go, PhaseInv, Phases, Idle, Asked, Watched, Judged,
                      CalledOff
  <2> QED BY <1>0, <2>2 DEF PhaseInv, Phases
<1>6. CASE Stop
  <2>1. Idle /\ (speedMbox' = <<>> \/ speedMbox' \in Seq(Verdict)) /\ readyTimeout' = INFINITE
    BY <1>6, HeardRest DEF Stop, PhaseInv, Phases, Idle, Asked, Watched, Judged, CalledOff
  <2>2. Len(<<>>) = 0
    OBVIOUS
  <2> QED BY <1>0, <1>6, <2>1, <2>2 DEF Stop, Go, PhaseInv, Phases, Idle
<1>7. CASE ChangeSpeed
  <2>1. Idle /\ speedMbox' = <<>> /\ readyTimeout' = INFINITE
    BY <1>7, HeardRest DEF ChangeSpeed, PhaseInv, Phases, Idle, Asked, Watched, Judged,
                           CalledOff, Verdict
  <2> QED BY <1>0, <1>7, <2>1 DEF ChangeSpeed, Go, PhaseInv, Phases, Idle
<1>8. CASE KeepRunning
  <2>1. Idle /\ speedMbox = <<>> /\ speedMbox' = <<>> /\ readyTimeout' = readyTimeout
    BY <1>8, HeardRest DEF KeepRunning, PhaseInv, Phases, Idle, Asked, Watched, Judged,
                           CalledOff
  <2> QED BY <1>0, <1>8, <2>1 DEF KeepRunning, Go, PhaseInv, Phases, Idle
<1>9. CASE StopGuarded
  <2>1. Watched \/ Judged
    BY <1>9, HeardRest DEF StopGuarded, PhaseInv, Phases, Idle, Asked, CalledOff
  <2>2. speedMbox' \in Seq(Verdict) /\ readyTimeout' \in {RAMPING, INFINITE}
    BY <1>9, <2>1, HeardRest DEF StopGuarded, Watched, Judged, VerdictWaits
  <2>3. readyMbox' = <<"READY_OFF">>
    <3>1. readyMbox = <<>>
      BY <2>1 DEF Watched, Judged
    <3> QED BY <1>9, <3>1, QueueAssumption DEF StopGuarded, Post
  <2>4. CalledOff'
    BY <1>9, <2>2, <2>3 DEF StopGuarded, Go, CalledOff
  <2> QED BY <1>0, <2>4 DEF PhaseInv, Phases
<1>10. CASE Approved
  <2>1. Judged /\ speedMbox' \in Seq(Verdict) /\ readyTimeout' = INFINITE
    BY <1>10, HeardRest DEF Approved, PhaseInv, Phases, Idle, Asked, Watched, Judged,
                            CalledOff, VerdictWaits, Order
  <2> QED BY <1>0, <1>10, <2>1 DEF Approved, Go, PhaseInv, Phases, Idle, Judged
<1>11. CASE Disregard
  <2> PICK msg \in SpeedMsg \ Handled : Hears(msg)
    BY <1>11 DEF Disregard
  <2>1. UNCHANGED <<motorState, userSpeed, readyMbox, presentSpeed, motor, inverted>>
    BY <1>11 DEF Disregard, speedVars, driveVars
  <2>2. msg # "TIMER_EXPIRY" /\ (motorState = "START" => msg \notin Verdict)
    BY DEF SpeedMsg, Order, Handled, Verdict
  <2>3. UNCHANGED <<readyTimeout, safeCt, attempt>>
    BY HeardRest
  <2>4. CASE Idle
    BY <1>0, <2>1, <2>2, <2>3, <2>4, HeardRest DEF PhaseInv, Phases, Idle
  <2>5. CASE Asked
    BY <2>2, <2>5, HeardRest DEF Asked
  <2>6. CASE Watched
    BY <1>0, <2>1, <2>2, <2>3, <2>6, HeardRest DEF PhaseInv, Phases, Watched
  <2>7. CASE Judged
    <3>1. speedMbox' \in Seq(Verdict) /\ speedMbox' # <<>>
      BY <2>2, <2>7, HeardRest DEF Judged, VerdictWaits
    <3>2. Head(speedMbox') \in Verdict /\ Tail(speedMbox') \in Seq(Verdict)
      BY <3>1
    <3>3. speedMbox' \in Seq(Order) \/ attempt'.good > SafeCount
      BY <2>2, <2>3, <2>7, HeardRest DEF Judged
    <3> QED
      BY <1>0, <2>1, <2>3, <2>7, <3>1, <3>2, <3>3 DEF PhaseInv, Phases, Judged, VerdictWaits
  <2>8. CASE CalledOff
    BY <1>0, <2>1, <2>2, <2>3, <2>8, HeardRest DEF PhaseInv, Phases, CalledOff
  <2> QED BY <2>4, <2>5, <2>6, <2>7, <2>8 DEF PhaseInv, Phases
<1> QED BY <1>1, <1>2, <1>3, <1>4, <1>5, <1>6, <1>7, <1>8, <1>9, <1>10, <1>11 DEF SpeedThread

\* A verdict posted behind one order, or behind another verdict, waits.
LEMMA PostVerdict ==
    ASSUME NEW mbox \in Seq(SpeedMsg), mbox = <<>> \/ Tail(mbox) \in Seq(Verdict),
           NEW verdict \in Verdict
    PROVE  VerdictWaits(Append(mbox, verdict))
<1>1. CASE mbox = <<>>
  BY <1>1 DEF VerdictWaits
<1>2. CASE mbox # <<>> /\ Tail(mbox) \in Seq(Verdict)
  <2>1. Tail(Append(mbox, verdict)) = Append(Tail(mbox), verdict)
    BY <1>2
  <2>2. \A q \in Seq(Verdict) : Append(q, verdict) \in Seq(Verdict) /\ Append(q, verdict) # <<>>
    OBVIOUS
  <2> QED BY <1>2, <2>1, <2>2 DEF VerdictWaits
<1> QED BY <1>1, <1>2

\* A sample counts at most once towards a verdict: the count that gives one is
\* that of this start.
LEMMA SampleCounts ==
    ASSUME TypeOK, safeCt <= SafeCount, safeCt <= attempt.good,
           NEW sample \in Samples, ReadySample(sample)
    PROVE  safeCt' <= attempt'.good /\ safeCt' \in Nat /\ attempt'.good \in Nat
<1>1. /\ SafeCount \in Nat /\ CounterRange \in Nat \ {0} /\ safeCt \in Nat
      /\ attempt.good \in Nat
  BY SpeedsAssumption DEF TypeOK
<1>2. attempt'.good = Upto(attempt.good, InBand(sample), SafeCount)
  BY DEF ReadySample
<1>3. safeCt' = Count(safeCt, InBand(sample))
  BY DEF ReadySample
<1>4. (safeCt + 1) % CounterRange <= safeCt + 1 /\ (safeCt + 1) % CounterRange \in Nat
  BY <1>1
<1> QED BY <1>1, <1>2, <1>3, <1>4 DEF Count, Upto

\* A sample leaves a watched start watched, or a verdict on its way.
LEMMA SamplePhase ==
    ASSUME RoomForTwo, TypeOK, PhaseInv, NEW sample \in Samples, ReadySample(sample),
           UNCHANGED motorState
    PROVE  Watched' \/ Judged'
<1> DEFINE failed == TooHigh(sample) /\ failCt' > FailCount
           safe   == InBand(sample) /\ safeCt' > SafeCount
<1>1. Watched /\ readyMbox' = <<>>
  BY DEF ReadySample, TimesOut, PhaseInv, Phases, Idle, Asked, Watched, Judged, CalledOff
<1>2. UNCHANGED motor
  BY DEF ReadySample, driveVars
<1>3. /\ SafeCount \in Nat /\ CounterRange \in Nat \ {0} /\ safeCt \in Nat
      /\ attempt.good \in Nat /\ QUEUE_SZ \in Nat
  BY SpeedsAssumption, QueueAssumption DEF TypeOK
<1>4. safeCt' <= attempt'.good /\ safeCt' \in Nat /\ attempt'.good \in Nat
  BY <1>1, SampleCounts DEF Watched
<1>5. CASE ~failed /\ ~safe
  <2>1. UNCHANGED <<speedMbox, readyTimeout>>
    BY <1>5 DEF ReadySample
  <2>2. safeCt' <= SafeCount
    BY <1>3, <1>4, <1>5 DEF ReadySample, Count
  <2> QED BY <1>1, <1>2, <1>4, <2>1, <2>2 DEF Watched
<1>6. CASE failed \/ safe
  <2>1. readyTimeout' = INFINITE
    BY <1>6 DEF ReadySample
  <2>2. safe => attempt'.good > SafeCount
    BY <1>3, <1>4
  <2>3. /\ speedMbox \in Seq(Order) /\ speedMbox \in Seq(SpeedMsg) /\ Len(speedMbox) <= 1
        /\ speedMbox = <<>> \/ Tail(speedMbox) \in Seq(Verdict)
        /\ {"SPEED_OFF", "SPEED_READY"} \subseteq SpeedMsg \cap Verdict
        /\ "SPEED_OFF" \in Order
    <3>1. speedMbox \in Seq(Order) /\ speedMbox \in Seq(SpeedMsg) /\ Len(speedMbox) <= 1
      BY <1>1 DEF Watched, TypeOK, MailboxOf
    <3>2. speedMbox = <<>> \/ Tail(speedMbox) = <<>>
      BY <3>1
    <3>3. <<>> \in Seq(Verdict)
      OBVIOUS
    <3> QED BY <3>1, <3>2, <3>3 DEF SpeedMsg, Order, Verdict
  <2>4. CASE failed /\ ~safe
    <3>1. speedMbox' = Append(speedMbox, "SPEED_OFF")
      BY <1>3, <2>3, <2>4 DEF ReadySample, Post, RoomForTwo
    <3>2. VerdictWaits(speedMbox') /\ speedMbox' \in Seq(Order)
      BY <2>3, <3>1, PostVerdict
    <3> QED BY <1>1, <1>2, <2>1, <3>2 DEF Watched, Judged
  <2>5. CASE safe /\ ~failed
    <3>1. speedMbox' = Append(speedMbox, "SPEED_READY")
      BY <1>3, <2>3, <2>5 DEF ReadySample, Post, RoomForTwo
    <3>2. VerdictWaits(speedMbox')
      BY <2>3, <3>1, PostVerdict
    <3> QED BY <1>1, <1>2, <2>1, <2>2, <2>5, <3>2 DEF Watched, Judged
  <2>6. CASE safe /\ failed
    <3> DEFINE told == Append(speedMbox, "SPEED_OFF")
    <3>1. speedMbox' \in {told, Append(told, "SPEED_READY")}
      BY <1>3, <2>3, <2>6 DEF ReadySample, Post, RoomForTwo
    <3>2. told \in Seq(SpeedMsg) /\ VerdictWaits(told)
      BY <2>3, PostVerdict
    <3>3. VerdictWaits(Append(told, "SPEED_READY"))
      BY <2>3, <3>2, PostVerdict DEF VerdictWaits
    <3> QED BY <1>1, <1>2, <2>1, <2>2, <2>6, <3>1, <3>2, <3>3 DEF Watched, Judged
  <2> QED BY <1>6, <2>4, <2>5, <2>6
<1> QED BY <1>5, <1>6

\* The ready thread begins, ends and judges a start only in its phase.
LEMMA ReadyThreadPhase ==
    ASSUME RoomForTwo, TypeOK, PhaseInv, ReadyThread
    PROVE  PhaseInv'
<1>1. UNCHANGED <<motorState, userSpeed, inverted>>
  BY DEF ReadyThread, speedVars
<1>2. CASE ReadyDelay
  <2>1. Idle'
    BY <1>1, <1>2 DEF ReadyDelay, PhaseInv, Phases, Idle, Asked, Watched, Judged, CalledOff,
                      DELAY, INFINITE, RAMPING
  <2>2. Released' /\ Running'
    BY <1>1, <1>2, AlonePhase DEF PhaseInv, ReadyDelay, driveVars
  <2> QED BY <2>1, <2>2 DEF PhaseInv, Phases
<1>3. CASE ReadyOn
  <2>1. Asked /\ readyMbox' = <<>>
    BY <1>3, ReadyRest DEF ReadyOn
  <2>2. /\ SafeCount \in Nat /\ speedMbox' = <<>> /\ Len(<<>>) = 0 /\ <<>> \in Seq(Order)
    BY <1>3, <2>1, SpeedsAssumption DEF ReadyOn, Asked
  <2>3. safeCt' = 0 /\ attempt'.good = 0 /\ motor'.guarded /\ motor'.amps = GUARD
    BY <1>3 DEF ReadyOn, GuardMotor
  <2>4. Watched'
    BY <1>1, <1>3, <2>1, <2>2, <2>3 DEF ReadyOn, Asked, Watched
  <2>5. Released' /\ Running'
    BY <1>1, <2>1 DEF Asked, Released, Running
  <2> QED BY <2>4, <2>5 DEF PhaseInv, Phases
<1>4. CASE ReadyOff
  <2>1. CalledOff /\ readyMbox' = <<>>
    BY <1>4, ReadyRest DEF ReadyOff
  <2>2. Idle'
    BY <1>1, <1>4, <2>1 DEF ReadyOff, CalledOff, Idle
  <2>3. Released' /\ Running'
    BY <1>1, <1>4, AlonePhase DEF PhaseInv, ReadyOff, driveVars
  <2> QED BY <2>2, <2>3 DEF PhaseInv, Phases
<1>5. ASSUME NEW sample \in Samples, ReadySample(sample)
      PROVE  PhaseInv'
  <2>1. Released' /\ Running'
    BY <1>1, <1>5, AlonePhase DEF PhaseInv, ReadySample, driveVars
  <2> QED BY <1>1, <1>5, <2>1, SamplePhase DEF PhaseInv, Phases
<1> QED BY <1>2, <1>3, <1>4, <1>5 DEF ReadyThread

\* Where the threads stand is not the world's to change; its orders wait for both.
LEMMA WorldPhase ==
    ASSUME TypeOK, PhaseInv, DisplayFetches \/ World \/ UNCHANGED vars
    PROVE  PhaseInv'
<1>1. UNCHANGED <<readyMbox, motorState, userSpeed, presentSpeed, motor, inverted,
                  readyTimeout, safeCt, attempt>>
  BY DEF DisplayFetches, World, UserOrders, MeasureBattery, ChangeSettings, vars,
         speedVars, driveVars, readyVars, worldVars
<1>2. Released' /\ Running'
  BY <1>1, AlonePhase DEF PhaseInv
<1>3. CASE UserOrders
  <2>1. Idle \/ Watched
    BY <1>3 DEF UserOrders, PhaseInv, Phases, Asked, Judged, VerdictWaits, CalledOff
  <2>2. Len(speedMbox') <= 1 /\ speedMbox' \in Seq(Order) /\ readyTimeout # DELAY
    BY <1>3 DEF UserOrders, Post
  <2> QED BY <1>1, <1>2, <2>1, <2>2 DEF PhaseInv, Phases, Idle, Watched
<1>4. CASE UNCHANGED speedMbox
  BY <1>1, <1>2, <1>4 DEF PhaseInv, Phases, Idle, Asked, Watched, Judged, CalledOff
<1> QED BY <1>3, <1>4 DEF DisplayFetches, World, MeasureBattery, ChangeSettings, vars

\* The inductive invariant
LEMMA PhaseInvariant ==
    ASSUME RoomForTwo
    PROVE  Spec => [](TypeOK /\ PhaseInv)
<1>1. Init => PhaseInv
  BY DEF Init, PhaseInv, Phases, Idle, Released, Running
<1>2. TypeOK /\ PhaseInv /\ [Next]_vars => PhaseInv'
  BY SpeedThreadPhase, ReadyThreadPhase, WorldPhase DEF Next
<1>3. Init /\ [][Next]_vars /\ []TypeOK => []PhaseInv
  BY <1>1, <1>2, PTL
<1> QED BY <1>3, TypeCorrect, PTL DEF Spec

\* A motor that is off has been released by the last of the two threads to
\* drive it, and neither is about to start it: no stale READY_ON waits.
THEOREM OffCorrect ==
    ASSUME RoomForTwo
    PROVE  Spec => []OffMeansReleased
<1>1. PhaseInv => OffMeansReleased
  BY DEF PhaseInv, Released, Phases, Idle, Asked, Watched, Judged, CalledOff,
         OffMeansReleased, Pending
<1> QED BY <1>1, PhaseInvariant, PTL

\* A guarded start stays watched until its verdict waits, and no watch outlives it.
THEOREM WatchCorrect ==
    ASSUME RoomForTwo
    PROVE  Spec => []GuardWatch
<1>1. TypeOK /\ PhaseInv => GuardWatch
  <2> SUFFICES ASSUME TypeOK, PhaseInv PROVE GuardWatch
    OBVIOUS
  <2>1. CASE Idle \/ Watched
    BY <2>1 DEF Idle, Watched, GuardWatch
  <2>2. CASE CalledOff
    <3>1. motorState # "START" /\ readyMbox # <<>>
      BY <2>2 DEF CalledOff
    <3> QED BY <3>1 DEF GuardWatch
  <2>3. CASE Asked
    <3>1. motorState = "START" /\ Len(readyMbox) = 1 /\ readyMbox[1] = "READY_ON"
      BY <2>3 DEF Asked
    <3>2. Pending(readyMbox, "READY_ON")
      BY <3>1 DEF Pending
    <3> QED BY <3>1, <3>2 DEF GuardWatch
  <2>4. CASE Judged
    <3>1. /\ speedMbox \in Seq(SpeedMsg) /\ VerdictWaits(speedMbox)
          /\ motorState = "START"
      BY <2>4 DEF Judged, TypeOK, MailboxOf
    <3>2. \E i \in 1..Len(speedMbox) : speedMbox[i] \in Verdict
      <4>1. CASE Head(speedMbox) \in Verdict
        BY <3>1, <4>1 DEF VerdictWaits
      <4>2. CASE Tail(speedMbox) # <<>> /\ Tail(speedMbox) \in Seq(Verdict)
        <5>1. Len(speedMbox) >= 2 /\ Tail(speedMbox)[1] = speedMbox[2]
          BY <3>1, <4>2 DEF VerdictWaits
        <5>2. Tail(speedMbox)[1] \in Verdict
          BY <4>2
        <5> QED BY <3>1, <5>1, <5>2
      <4> QED BY <3>1, <4>1, <4>2 DEF VerdictWaits
    <3> QED BY <3>1, <3>2 DEF GuardWatch, Pending, Verdict
  <2> QED BY <2>1, <2>2, <2>3, <2>4 DEF PhaseInv, Phases
<1> QED BY <1>1, PhaseInvariant, PTL

\* Whichever thread called adjust_speed last, the motor does what the state of
\* the speed thread says.
THEOREM DriveCorrect ==
    ASSUME RoomForTwo
    PROVE  Spec => []DriveMatchesState
<1>1. PhaseInv => DriveMatchesState
  BY DEF PhaseInv, Running, Phases, Idle, Asked, Watched, Judged, CalledOff,
         DriveMatchesState
<1> QED BY <1>1, PhaseInvariant, PTL

\* No verdict of an earlier start, and no count of one, approves this one.
THEOREM ApprovalCorrect ==
    ASSUME RoomForTwo
    PROVE  Spec => ApprovedOnEvidence
<1>1. ASSUME TypeOK, PhaseInv, [Next]_vars, motorState = "START", motorState' = "ON"
      PROVE  attempt.good > SafeCount
  <2>1. Approved
    <3>1. SpeedThread
      BY <1>1 DEF Next, vars, speedVars, DisplayFetches, ReadyThread, World, UserOrders,
                  MeasureBattery, ChangeSettings
    <3> QED BY <1>1, <3>1
        DEF SpeedThread, StartGuarded, StartUnguarded, JumpStart, TurnAround, MigrateSpeed,
            Stop, ChangeSpeed, KeepRunning, StopGuarded, Disregard, Go, speedVars
  <2>2. speedMbox \notin Seq(Order) /\ speedMbox # <<>>
    BY <1>1, <2>1, HeardRest DEF Approved, Order
  <2> QED BY <1>1, <2>2 DEF PhaseInv, Phases, Idle, Asked, Watched, Judged, CalledOff
<1>2. TypeOK /\ PhaseInv /\ [Next]_vars
        => [motorState = "START" /\ motorState' = "ON" => attempt.good > SafeCount]_vars
  BY <1>1
<1> QED BY <1>2, PhaseInvariant, PTL DEF Spec, ApprovedOnEvidence

\* Neither thread makes a motor that turns lurch, as long as the ready thread
\* begins a start only with the motor released.
LEMMA LurchStep ==
    ASSUME TypeOK, Released, ReadyOn => ~motor.on, SpeedThread \/ ReadyThread,
           motor.on, motor'.on
    PROVE  /\ inverted' = inverted
           /\ presentSpeed' - presentSpeed \in -RampDelta .. RampDelta
<1>1. presentSpeed \in Nat /\ battery \in Nat /\ RampDelta \in Nat /\ motorState # "OFF"
  BY SpeedsAssumption DEF TypeOK, Released
<1>2. ASSUME NEW user \in Users, RunMotor(user)
      PROVE  presentSpeed' - presentSpeed \in -RampDelta .. RampDelta
  BY <1>1, <1>2, LimitedType, RampingStep DEF RunMotor
<1>3. ASSUME UNCHANGED presentSpeed
      PROVE  presentSpeed' - presentSpeed \in -RampDelta .. RampDelta
  BY <1>1, <1>3
<1>4. CASE ChangeSpeed
  <2>1. userSpeed' \in Users
    BY <1>4, SpeedThreadType DEF SpeedThread, TypeOK, Users
  <2> QED BY <1>2, <1>4, <2>1 DEF ChangeSpeed
<1>5. CASE KeepRunning \/ Approved
  BY <1>2, <1>5 DEF KeepRunning, Approved, TypeOK, Users
<1>6. CASE TurnAround \/ Stop \/ StopGuarded
  BY <1>6 DEF TurnAround, Stop, StopGuarded, ReleaseMotor
<1>7. CASE Disregard
  BY <1>3, <1>7 DEF Disregard, driveVars
<1>8. CASE ReadyThread
  BY <1>3, <1>8 DEF ReadyThread, ReadyDelay, ReadyOff, ReadySample, driveVars
<1> QED BY <1>1, <1>4, <1>5, <1>6, <1>7, <1>8
    DEF SpeedThread, StartGuarded, StartUnguarded, JumpStart, MigrateSpeed

\* A motor that turns is not reversed under way, and is taken up where it is:
\* a change of the thread that drives it is a step of the same ramp.
THEOREM LurchCorrect ==
    ASSUME RoomForTwo
    PROVE  Spec => NoLurch
<1>1. ASSUME TypeOK, PhaseInv, Next, motor.on, motor'.on
      PROVE  /\ inverted' = inverted
             /\ presentSpeed' - presentSpeed \in -RampDelta .. RampDelta
  <2>1. ReadyOn => ~motor.on
    BY <1>1, ReadyRest DEF ReadyOn, Asked
  <2>2. CASE SpeedThread \/ ReadyThread
    BY <1>1, <2>1, <2>2, LurchStep DEF PhaseInv
  <2>3. CASE DisplayFetches \/ World
    <3>1. presentSpeed \in Nat /\ RampDelta \in Nat
      BY <1>1, SpeedsAssumption DEF TypeOK
    <3>2. presentSpeed' = presentSpeed /\ inverted' = inverted
      BY <2>3 DEF DisplayFetches, World, UserOrders, MeasureBattery, ChangeSettings, driveVars
    <3> QED BY <3>1, <3>2
  <2> QED BY <1>1, <2>2, <2>3 DEF Next
<1>2. TypeOK /\ PhaseInv /\ [Next]_vars
        => [motor.on /\ motor'.on =>
              /\ inverted' = inverted
              /\ presentSpeed' - presentSpeed \in -RampDelta .. RampDelta]_vars
  BY <1>1
<1> QED BY <1>2, PhaseInvariant, PTL DEF Spec, NoLurch
==============================================================================
