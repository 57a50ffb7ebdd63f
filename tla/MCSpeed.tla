------------------------------- MODULE MCSpeed -------------------------------
(* Speed, for TLC *)
EXTENDS Speed

ThreeSpeeds == <<2, 4, 8>>

Setting(default, max, low) ==
    [speed_default |-> default, max_speed |-> max, jump_speed |-> 3, use_safety |-> 1,
     low_migrate |-> low]

\* The terminal checks a default speed against the maximum of the moment, so
\* lowering the maximum leaves it above.
SomeSettings == {Setting(2, 3, 1), Setting(3, 1, 0)}
LowMigrate == {Setting(2, 3, 1)}
==============================================================================
