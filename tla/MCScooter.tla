------------------------------ MODULE MCScooter ------------------------------
(* Scooter, for TLC *)
EXTENDS Scooter

TwoSpeeds == <<1, 2>>

AnyReverse == {[reverse |-> r, jump |-> 1, cruise |-> 1] : r \in 0..1}
WithReverse == {[reverse |-> 1, jump |-> 1, cruise |-> 1]}

AnySafety ==
    {[speed_default |-> 1, max_speed |-> 2, jump_speed |-> 2, use_safety |-> u,
      low_migrate |-> 0] : u \in 0..1}
WithSafety == {s \in AnySafety : s.use_safety = 1}
NoSafety == AnySafety \ WithSafety

\* One of the two, for fewer states: NotBoth, without the case of neither.
OneOrTheOther == options.reverse + settings.use_safety = 1

\* The display thread sleeps as long as it likes.
FullInit == AppInit /\ OneOrTheOther /\ battery = LowBattery + 1
FullNext == AppNext /\ OneOrTheOther' /\ UNCHANGED battery
FullSpec == FullInit /\ [][FullNext]_appVars

\* Settings change, and the user and the terminal wait while the display thread
\* sleeps: what it has missed is of no concern to the motor.
SettingsInit == AppInit /\ NotBoth /\ battery = LowBattery + 1
SettingsNext ==
    /\ AppNext /\ NotBoth' /\ UNCHANGED battery
    /\ drawing # "none" => UNCHANGED <<pad, sw, options, settings>>
SettingsSpec == SettingsInit /\ [][SettingsNext]_appVars /\ AppFairness
=============================================================================
