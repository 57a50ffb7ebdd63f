------------------------------- MODULE Store -------------------------------
(***************************************************************************)
(* What the emulated EEPROM promises: a map from variables to values that  *)
(* survives a power loss.  While a write runs, and after one that was cut  *)
(* short or failed, its variable may hold the old value or the new one;    *)
(* every other variable keeps its value, and a write that returned         *)
(* FLASH_COMPLETE leaves the value written and nothing else.               *)
(***************************************************************************)
CONSTANTS Vars, Vals, NotFound, NoCall

VARIABLES
    stored,     \* for each variable, the values a read may find
    call,       \* the write in progress
    result      \* how the last write ended

vars == <<stored, call, result>>

Write == [var : Vars, data : Vals]

Init ==
    /\ stored = [v \in Vars |-> {NotFound}]
    /\ call = NoCall
    /\ result = "none"

\* What was undecided may be decided; what was decided stays
Settles ==
    /\ \A v \in Vars : stored'[v] \subseteq stored[v] /\ stored'[v] # {}
    /\ DOMAIN stored' = Vars

Call(w) ==
    /\ call = NoCall
    /\ call' = w
    /\ result' = "none"
    /\ stored' = [v \in Vars |-> IF v = w.var THEN stored[v] \cup {w.data} ELSE stored[v]]

Complete ==
    /\ call # NoCall
    /\ call' = NoCall
    /\ result' = "complete"
    /\ Settles
    /\ stored'[call.var] = {call.data}

Fail ==
    /\ call # NoCall
    /\ call' = NoCall
    /\ result' = "failed"
    /\ Settles

PowerLoss ==
    /\ call' = NoCall
    /\ result' = "none"
    /\ Settles

Settle == Settles /\ UNCHANGED <<call, result>>

Next == (\E w \in Write : Call(w)) \/ Complete \/ Fail \/ PowerLoss \/ Settle

Spec == Init /\ [][Next]_vars
=============================================================================
