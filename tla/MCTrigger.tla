------------------------------ MODULE MCTrigger ------------------------------
(* Trigger, for TLC *)
EXTENDS Trigger

AllOptions == [reverse : 0..1, jump : 0..1, cruise : 0..1]

\* All but jump alone
SafeOptions == {o \in AllOptions : o.jump = 1 => o.reverse = 1 \/ o.cruise = 1}
JumpAlone == AllOptions \ SafeOptions
==============================================================================
