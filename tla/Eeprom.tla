------------------------------- MODULE Eeprom -------------------------------
(***************************************************************************)
(* EEPROM emulation in two flash pages (src/eeprom.c).  A page is a status *)
(* and a log of variables; when the page in use is full, the last value of *)
(* every variable is transferred to the other one.  Each step is one flash *)
(* operation, and power may be lost between any two of them.               *)
(***************************************************************************)
EXTENDS Naturals, Sequences, FiniteSets

CONSTANTS
    Table,          \* VirtAddVarTab: the variables of the configuration
    Vals,           \* what a variable may hold
    Blank,          \* the value 0xFFFF: writing it leaves the halfword as erased
    NoVar,          \* the halfword 0xFFFF where a variable's address is due
    NotFound,       \* EE_ReadVariable's answer when a page has no such variable
    NoCall,         \* no write in progress
    Slots,          \* variables a page has room for
    MaxResets,      \* power losses in a row that find a transfer half done
    Misfortunes     \* the accidents the code is known not to survive

ASSUME TableAssumption == IsFiniteSet(Table) /\ NoVar \notin Table
ASSUME ValsAssumption == NotFound \notin Vals /\ NoCall \notin [var : Table, data : Vals]
ASSUME SlotsAssumption == Slots \in Nat \ {0} /\ MaxResets \in Nat
ASSUME MisfortunesAssumption == Misfortunes \subseteq {"power", "flash"}

VARIABLES
    page,       \* flash: [status, log] of PAGE0 and PAGE1
    pc,         \* the flash operation due next
    job,        \* the function under way
    to,         \* its new page
    item,       \* the variable it is writing to a slot
    todo,       \* the variables it has still to transfer
    call,       \* EE_WriteVariable's arguments
    result,     \* how the last EE_WriteVariable ended
    resets      \* power losses since the receiving page was marked

control == <<pc, job, to, item, todo>>
vars == <<page, control, call, result, resets>>

Pages == {0, 1}
Empty == [status |-> "erased", log |-> <<>>]
Entry == [var : Table \cup {NoVar}, data : Vals]
Write == [var : Table, data : Vals]

Init ==
    /\ page = [p \in Pages |-> Empty]
    /\ pc = "off"
    /\ job = "none"
    /\ to = 0
    /\ item = NoCall
    /\ todo = {}
    /\ call = NoCall
    /\ result = "none"
    /\ resets = 0

Marked(p, status) == [page EXCEPT ![p] = [status |-> status, log |-> page[p].log]]
Logged(p, log) == [page EXCEPT ![p] = [status |-> page[p].status, log |-> log]]

Statuses(p, s, t) == page[p].status = s /\ page[1 - p].status = t

(***************************************************************************)
(* EE_FindValidPage and EE_ReadVariable                                    *)
(***************************************************************************)
ReadPage == IF page[0].status = "valid" THEN 0 ELSE 1

WritePage ==
    IF page[1].status = "valid"
    THEN IF page[0].status = "receive" THEN 0 ELSE 1
    ELSE IF page[1].status = "receive" THEN 1 ELSE 0

Places(log, v) == {i \in 1..Len(log) : log[i].var = v}

\* The scan from the end of the page finds the last value
Lookup(log, v) ==
    IF Places(log, v) = {} THEN NotFound
    ELSE log[CHOOSE i \in Places(log, v) : \A j \in Places(log, v) : j <= i].data

ReadVariable(v) == Lookup(page[ReadPage].log, v)

(***************************************************************************)
(* EE_WriteVariable.  Writing the value a variable has is no operation.    *)
(***************************************************************************)
WriteVariable(v, d) ==
    /\ pc = "ready"
    /\ d # ReadVariable(v)
    /\ call' = [var |-> v, data |-> d]
    /\ item' = call'
    /\ result' = "none"
    /\ pc' = "data"
    /\ job' = "append"
    /\ UNCHANGED <<page, to, todo, resets>>

Return(outcome) ==
    /\ call' = NoCall
    /\ result' = outcome
    /\ pc' = "ready"
    /\ job' = "none"

\* The voltage is low, or the flash reports an error.  In the middle of a
\* transfer that is an accident the code does not survive.
ProgramFails ==
    /\ \/ job = "append"
       \/ job = "transfer" /\ "flash" \in Misfortunes
    /\ Return("failed")
    /\ UNCHANGED <<page, to, item, todo, resets>>

(***************************************************************************)
(* EE_VerifyPageFullWriteVariable: the data, then the address.  Power lost *)
(* in between leaves a slot without an address; or an empty one, when the  *)
(* data look like erased flash.                                            *)
(***************************************************************************)
Full == Len(page[WritePage].log) >= Slots

Half(e) == IF e.data = Blank THEN <<>> ELSE <<[var |-> NoVar, data |-> e.data]>>

\* Mutant: writes beyond the end of the page
WriteDataBeyond ==
    /\ pc = "data"
    /\ page' = Logged(WritePage, page[WritePage].log \o Half(item))
    /\ pc' = "addr"
    /\ UNCHANGED <<job, to, item, todo, call, result, resets>>

WriteData ==
    /\ pc = "data"
    /\ ~Full
    /\ page' = Logged(WritePage, page[WritePage].log \o Half(item))
    /\ pc' = "addr"
    /\ UNCHANGED <<job, to, item, todo, call, result, resets>>

WriteAddress ==
    LET log == page[WritePage].log
        before == SubSeq(log, 1, Len(log) - Len(Half(item)))
    IN  /\ pc = "addr"
        /\ page' = Logged(WritePage, Append(before, item))
        /\ IF job = "append" THEN Return("complete")
           ELSE pc' = "copy" /\ UNCHANGED <<job, call, result>>
        /\ UNCHANGED <<to, item, todo, resets>>

\* PAGE_FULL: EE_WriteVariable starts a transfer.  A page that fills during a
\* transfer ends it: the write has failed, or EE_Init gives up.
PageFull ==
    /\ pc = "data"
    /\ Full
    /\ \/ /\ job = "append"
          /\ pc' = "mark_receive"
          /\ job' = "transfer"
          /\ to' = 1 - ReadPage
          /\ todo' = Table \ {call.var}
          /\ UNCHANGED <<call, result>>
       \/ job = "transfer" /\ Return("failed") /\ UNCHANGED <<to, todo>>
       \/ job = "recover" /\ pc' = "ready" /\ job' = "none" /\ UNCHANGED <<to, todo, call, result>>
    /\ UNCHANGED <<page, item, resets>>

(***************************************************************************)
(* EE_PageTransfer, and the transfer EE_Init completes.  They differ in    *)
(* what they leave out and in the order of the last two steps.             *)
(***************************************************************************)
MarkReceive ==
    /\ pc = "mark_receive"
    /\ page' = Marked(to, "receive")
    /\ item' = call
    /\ pc' = "data"
    /\ UNCHANGED <<job, to, todo, call, result, resets>>

\* EE_Init leaves the receiving page's first variable as it is: the write that
\* the power loss cut short
FirstVar(log) == IF Len(log) = 0 THEN NoVar ELSE log[1].var

Skip(v) == (job = "recover" /\ FirstVar(page[to].log) = v) \/ ReadVariable(v) = NotFound

\* Mutant: a variable that was copied is copied again
CopyForgetsDone(v) ==
    /\ pc = "copy"
    /\ v \in todo
    /\ IF Skip(v) THEN todo' = todo \ {v} /\ UNCHANGED <<item, pc>>
       ELSE item' = [var |-> v, data |-> ReadVariable(v)] /\ pc' = "data" /\ UNCHANGED todo
    /\ UNCHANGED <<page, job, to, call, result, resets>>

Copy(v) ==
    /\ pc = "copy"
    /\ v \in todo
    /\ todo' = todo \ {v}
    /\ IF Skip(v) THEN UNCHANGED <<item, pc>>
       ELSE item' = [var |-> v, data |-> ReadVariable(v)] /\ pc' = "data"
    /\ UNCHANGED <<page, job, to, call, result, resets>>

\* Mutant: the old page is erased before every variable is copied
CopiedUnchecked ==
    /\ pc = "copy"
    /\ pc' = IF job = "transfer" THEN "erase" ELSE "mark_valid"
    /\ UNCHANGED <<page, job, to, item, todo, call, result, resets>>

Copied == todo = {} /\ CopiedUnchecked

\* Mutant: EE_Init starts over after erasing the old page
EraseAgain ==
    /\ pc = "erase"
    /\ page' = [page EXCEPT ![1 - to] = Empty]
    /\ pc' = IF page[to].status = "receive" THEN "mark_valid" ELSE "erase"
    /\ job' = job
    /\ UNCHANGED <<to, item, todo, call, result, resets>>

EraseOld ==
    /\ pc = "erase"
    /\ page' = [page EXCEPT ![1 - to] = Empty]
    /\ IF page[to].status = "receive" THEN pc' = "mark_valid" /\ UNCHANGED job
       ELSE pc' = "ready" /\ job' = "none"
    /\ UNCHANGED <<to, item, todo, call, result, resets>>

MarkValid ==
    /\ pc = "mark_valid"
    /\ page' = Marked(to, "valid")
    /\ \/ job = "transfer" /\ Return("complete")
       \/ job = "recover" /\ pc' = "erase" /\ UNCHANGED <<job, call, result>>
       \/ job = "tidy" /\ pc' = "ready" /\ job' = "none" /\ UNCHANGED <<call, result>>
    /\ resets' = 0
    /\ UNCHANGED <<to, item, todo>>

(***************************************************************************)
(* EE_Init: what to do with the pages found at power on                    *)
(***************************************************************************)
Start(what, p, step, vs) ==
    job' = what /\ to' = p /\ pc' = step /\ todo' = vs

EE_Init ==
    /\ pc = "off"
    /\ \/ \E p \in Pages : /\ \/ Statuses(p, "valid", "erased")
                              \/ Statuses(p, "receive", "erased")
                           /\ Start("tidy", p, "erase", {})
       \/ \E p \in Pages : Statuses(p, "receive", "valid") /\ Start("recover", p, "copy", Table)
       \/ /\ page[0].status = page[1].status
          /\ Start("format", 0, "format_erase0", {})
    /\ UNCHANGED <<page, item, call, result, resets>>

\* EE_Format
Format ==
    /\ job = "format"
    /\ \/ /\ pc = "format_erase0"
          /\ page' = [page EXCEPT ![0] = Empty]
          /\ pc' = "format_mark"
          /\ UNCHANGED job
       \/ /\ pc = "format_mark"
          /\ page' = Marked(0, "valid")
          /\ pc' = "format_erase1"
          /\ UNCHANGED job
       \/ /\ pc = "format_erase1"
          /\ page' = [page EXCEPT ![1] = Empty]
          /\ pc' = "ready"
          /\ job' = "none"
    /\ UNCHANGED <<to, item, todo, call, result, resets>>

(***************************************************************************)
(* Power loss.  An erase cut short leaves the page as it was, or erases    *)
(* its status and leaves the rest.                                         *)
(***************************************************************************)
Erasing ==
    {p \in Pages : \/ pc = "erase" /\ p # to
                   \/ pc = "format_erase0" /\ p = 0
                   \/ pc = "format_erase1" /\ p = 1}

HalfErased == {Marked(p, "erased") : p \in Erasing}

PowerLoss ==
    /\ pc # "off"
    /\ page' \in {page} \cup HalfErased
    /\ "power" \in Misfortunes \/ ~(page'[0].status = "valid" /\ page'[1].status = "valid")
    /\ pc' = "off"
    /\ job' = "none"
    /\ to' = 0
    /\ item' = NoCall
    /\ todo' = {}
    /\ call' = NoCall
    /\ result' = "none"
    /\ IF \E p \in Pages : page'[p].status = "receive"
       THEN resets < MaxResets /\ resets' = resets + 1
       ELSE resets' = 0

\* What the program does of itself once it has begun
Step ==
    \/ WriteData \/ WriteAddress \/ PageFull \/ MarkReceive
    \/ (\E v \in Table : Copy(v)) \/ Copied \/ EraseOld \/ MarkValid
    \/ EE_Init \/ Format

Next ==
    \/ \E v \in Table, d \in Vals : WriteVariable(v, d)
    \/ Step \/ ProgramFails \/ PowerLoss

Spec == Init /\ [][Next]_vars /\ WF_vars(Step)

(***************************************************************************)
(* Properties                                                              *)
(***************************************************************************)
Calls == Write \cup {NoCall}

TypeOK ==
    /\ page \in [Pages -> [status : {"erased", "receive", "valid"}, log : Seq(Entry)]]
    /\ \A p \in Pages : Len(page[p].log) <= Slots
    /\ pc \in {"off", "ready", "data", "addr", "mark_receive", "copy", "erase", "mark_valid",
              "format_erase0", "format_mark", "format_erase1"}
    /\ job \in {"none", "append", "transfer", "recover", "tidy", "format"}
    /\ to \in Pages
    /\ item \in Calls /\ call \in Calls
    /\ todo \subseteq Table
    /\ result \in {"none", "complete", "failed"}
    /\ resets \in 0..MaxResets

\* A page that is all there is, or that the recovery has just completed
Sole(p) ==
    \/ Statuses(p, "receive", "erased")
    \/ job = "recover" /\ p = to /\ Statuses(p, "valid", "valid")

\* What the pages hold for a variable, should power be lost now.  In the midst
\* of a transfer the first variable of the new page may go either way: a power
\* loss may have cut its write short.
Held(v) ==
    IF \E p \in Pages : Sole(p) THEN {Lookup(page[p].log, v) : p \in {q \in Pages : Sole(q)}}
    ELSE {ReadVariable(v)}
         \cup {Lookup(page[p].log, v) :
                 p \in {q \in Pages : page[q].status = "receive" /\ FirstVar(page[q].log) = v}}

Kept(v) == Held(v) \cup (IF call # NoCall /\ call.var = v THEN {call.data} ELSE {})

\* The emulation keeps the promise of Store: whenever power is lost, a variable
\* whose write had returned has its last value, and a write that was cut short
\* has happened or has not (EE_PageTransfer, EE_Init).
Promise == INSTANCE Store WITH Vars <- Table, stored <- [v \in Table |-> Kept(v)]
KeepsPromise == Promise!Spec

\* However often the recovery is cut short, the receiving page fills no faster
\* than a table per power loss: EE_Init gives up on a transfer only after more
\* power losses in a row than a page has room for tables.
RoomToRecover ==
    \A p \in Pages :
        page[p].status = "receive" => Len(page[p].log) <= Cardinality(Table) * (resets + 1)

\* While power holds, EE_Init and every write come to an end.
ComesToRest == <>[](pc # "off") => []<>(pc = "ready")
=============================================================================
