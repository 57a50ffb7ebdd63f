-------------------------- MODULE EepromRoomProofs --------------------------
(***************************************************************************)
(* Proofs that the pages of Eeprom never overflow, and how fast a page     *)
(* that receives a transfer can fill while the recovery is cut short again *)
(* and again.  They rest on the invariant of EepromProofs.                 *)
(***************************************************************************)
EXTENDS EepromProofs

Sizes ==
    /\ pc \in {"off", "ready", "data", "addr", "mark_receive", "copy", "erase", "mark_valid",
              "format_erase0", "format_mark", "format_erase1"}
    /\ job \in {"none", "append", "transfer", "recover", "tidy", "format"}
    /\ result \in {"none", "complete", "failed"}
    /\ resets \in 0..MaxResets
    /\ \A p \in Pages : Len(page[p].log) <= Slots

\* The room that the recoveries begun so far may have taken
Taken(n) == Cardinality(Table) * n

\* A receiving page has room for what is still to be transferred
Room ==
    /\ \A p \in Pages : page[p].status = "receive" =>
           Len(page[p].log) <= Taken(resets) + (IF pc = "off" THEN 0 ELSE Cardinality(Table))
    /\ Moving =>
           /\ pc = "copy" =>
                  Len(page[to].log) + Cardinality(todo) <= Taken(resets) + Cardinality(Table)
           /\ pc = "data" /\ Len(page[to].log) < Slots =>
                  Len(page[to].log) + Cardinality(todo) + 1 <= Taken(resets) + Cardinality(Table)
           /\ pc = "addr" =>
                  Len(page[to].log) - Len(Half(item)) + Cardinality(todo) + 1 <= Taken(resets) + Cardinality(Table)

\* One more recovery may take as much room as the table has variables.
LEMMA TakenFacts ==
    ASSUME NEW n \in Nat
    PROVE  /\ Cardinality(Table) \in Nat
           /\ Taken(n) \in Nat
           /\ Taken(n + 1) = Taken(n) + Cardinality(Table)
           /\ Taken(n + 1) = Cardinality(Table) * (n + 1)
<1>1. Cardinality(Table) \in Nat
  BY TableAssumption, FS_CardinalityType
<1> QED
  BY <1>1 DEF Taken

\* A transfer has at most the table to copy, and one less after each variable.
LEMMA TodoFacts ==
    ASSUME todo \subseteq Table
    PROVE  /\ Cardinality(todo) \in Nat /\ Cardinality(todo) <= Cardinality(Table)
           /\ Cardinality({}) = 0
           /\ \A v \in todo : Cardinality(todo \ {v}) = Cardinality(todo) - 1
           /\ \A v \in Table : Cardinality(Table \ {v}) = Cardinality(Table) - 1
BY TableAssumption, FS_Subset, FS_CardinalityType, FS_RemoveElement, FS_EmptySet

\* No entry is written beyond the end of a page.
LEMMA SizesStep == Inv /\ Sizes /\ [Next]_vars => Sizes'
<1> SUFFICES ASSUME Inv, Sizes, [Next]_vars PROVE Sizes'
  OBVIOUS
<1>1. page \in PageType /\ to \in Pages /\ WritePage \in Pages
  BY DEF Inv, Types, PageType, WritePage, Pages
<1>2. \A p \in Pages : 1 - p \in Pages /\ 1 - (1 - p) = p /\ (\A q \in Pages : q = p \/ q = 1 - p)
  BY DEF Pages
<1>3. 0 \in 0..MaxResets /\ Slots \in Nat
  BY SlotsAssumption
<1>4. \A p \in Pages : page[p].log \in Seq(Entry) /\ Len(page[p].log) \in Nat /\ Len(page[p].log) <= Slots
  BY <1>1 DEF PageType, Sizes
<1>5. ASSUME NEW p \in Pages, NEW l \in Seq(Entry), Len(l) <= Slots, page' = Logged(p, l)
      PROVE  \A q \in Pages : Len(page'[q].log) <= Slots
  <2>1. /\ Logged(p, l)[p] = [status |-> page[p].status, log |-> l]
        /\ Logged(p, l)[1 - p] = page[1 - p]
    BY <1>1, <1>5, SetPage
  <2>2. page'[p].log = l /\ page'[1 - p] = page[1 - p]
    BY <1>5, <2>1
  <2> QED
    BY <1>2, <1>4, <1>5, <2>2
<1>6. ASSUME NEW p \in Pages, NEW s \in {"erased", "receive", "valid"}, page' = Marked(p, s)
      PROVE  \A q \in Pages : Len(page'[q].log) <= Slots
  <2>1. /\ Marked(p, s)[p] = [status |-> s, log |-> page[p].log]
        /\ Marked(p, s)[1 - p] = page[1 - p]
    BY <1>1, <1>6, SetPage
  <2>2. page'[p].log = page[p].log /\ page'[1 - p] = page[1 - p]
    BY <1>6, <2>1
  <2> QED
    BY <1>2, <1>4, <2>2
<1>7. ASSUME NEW p \in Pages, page' = [page EXCEPT ![p] = Empty]
      PROVE  \A q \in Pages : Len(page'[q].log) <= Slots
  BY <1>1, <1>2, <1>3, <1>4, <1>7, SetPage, EmptyLog DEF Empty
<1>8. ASSUME NEW v \in Table, NEW d \in Vals, WriteVariable(v, d) PROVE Sizes'
  BY <1>8 DEF WriteVariable, Sizes
<1>9. CASE WriteData
  <2> DEFINE l == page[WritePage].log
  <2>1. item \in Write
    BY <1>9 DEF WriteData, Inv, Shape, Off, Ready, Appending, Transferring, Recovering, Tidying, Formatting
  <2>2. Len(l) \in Nat /\ Len(l) < Slots
    BY <1>1, <1>3, <1>4, <1>9 DEF WriteData, Full
  <2>3. l \o Half(item) \in Seq(Entry) /\ Len(l \o Half(item)) <= Slots
    BY <1>1, <1>3, <1>4, <2>1, <2>2, HalfLog, HalfType
  <2>4. \A q \in Pages : Len(page'[q].log) <= Slots
    BY <1>1, <1>5, <1>9, <2>3 DEF WriteData
  <2> QED
    BY <1>9, <2>4 DEF WriteData, Sizes
<1>10. CASE WriteAddress
  <2> DEFINE l == page[WritePage].log
             k == Append(SubSeq(l, 1, Len(l) - Len(Half(item))), item)
  <2>1. item \in Write /\ pc = "addr"
    BY <1>10 DEF WriteAddress, Inv, Shape, Off, Ready, Appending, Transferring, Recovering, Tidying, Formatting
  <2>2. Len(l) < Slots + Len(Half(item)) /\ (item.data # Blank => Len(l) > 0 /\ l[Len(l)].var = NoVar)
    BY <2>1 DEF Inv, HalfWritten
  <2>3. k \in Seq(Entry) /\ Len(k) = Len(l) - Len(Half(item)) + 1
    BY <1>1, <1>4, <2>1, <2>2, EntryLog
  <2>4. Len(k) <= Slots
    <3>1. Len(l) \in Nat /\ Len(Half(item)) \in Nat
      BY <1>1, <1>4, <2>1, HalfType
    <3> HIDE DEF k
    <3> QED
      BY <1>3, <2>2, <2>3, <3>1
  <2>5. page' = Logged(WritePage, k)
    BY <1>10 DEF WriteAddress
  <2>6. \A q \in Pages : Len(page'[q].log) <= Slots
    BY <1>1, <1>5, <2>3, <2>4, <2>5
  <2> QED
    BY <1>10, <2>6 DEF WriteAddress, Return, Sizes
<1>11. CASE PageFull
  BY <1>11 DEF PageFull, Return, Sizes
<1>12. CASE MarkReceive
  BY <1>1, <1>6, <1>12 DEF MarkReceive, Sizes
<1>13. ASSUME NEW v \in Table, Copy(v) PROVE Sizes'
  BY <1>13 DEF Copy, Sizes
<1>14. CASE Copied
  BY <1>14 DEF Copied, CopiedUnchecked, Sizes
<1>15. CASE EraseOld
  <2>1. \A q \in Pages : Len(page'[q].log) <= Slots
    BY <1>1, <1>2, <1>7, <1>15 DEF EraseOld
  <2> QED
    BY <1>15, <2>1 DEF EraseOld, Sizes
<1>16. CASE MarkValid
  <2>1. \A q \in Pages : Len(page'[q].log) <= Slots
    BY <1>1, <1>6, <1>16 DEF MarkValid
  <2> QED
    BY <1>3, <1>16, <2>1 DEF MarkValid, Return, Sizes
<1>17. CASE EE_Init
  BY <1>17 DEF EE_Init, Start, Sizes
<1>18. CASE Format
  <2>1. \A q \in Pages : Len(page'[q].log) <= Slots
    BY <1>6, <1>7, <1>18 DEF Format, Pages
  <2> QED
    BY <1>18, <2>1 DEF Format, Sizes
<1>19. CASE ProgramFails
  BY <1>19 DEF ProgramFails, Return, Sizes
<1>20. CASE PowerLoss
  <2>1. \A q \in Pages : Len(page'[q].log) <= Slots
    <3>1. CASE page' = page
      BY <1>4, <3>1
    <3>2. CASE page' # page
      <4>1. PICK p \in Erasing : page' = Marked(p, "erased")
        BY <1>20, <3>2 DEF PowerLoss, HalfErased
      <4>2. p \in Pages
        BY DEF Erasing
      <4> QED
        BY <1>6, <4>1, <4>2
    <3> QED
      BY <3>1, <3>2
  <2>2. resets' \in 0..MaxResets
    BY <1>3, <1>20, SlotsAssumption DEF PowerLoss, Sizes
  <2> QED
    BY <1>20, <2>1, <2>2 DEF PowerLoss, Sizes
<1>21. CASE UNCHANGED vars
  BY <1>21 DEF vars, control, Sizes
<1> QED
  BY <1>8, <1>9, <1>10, <1>11, <1>12, <1>13, <1>14, <1>15, <1>16, <1>17, <1>18, <1>19, <1>20, <1>21 DEF Next, Step

\* The erased pages are within their size.
LEMMA InitSizes == Init => Sizes
BY EmptyLog, SlotsAssumption DEF Init, Sizes, Pages, Empty

\* The pages, the functions and their arguments stay what they are meant to be;
\* no page holds more than it has room for (EE_VerifyPageFullWriteVariable).
THEOREM TypeOKHolds == Lucky => (Spec => []TypeOK)
<1> SUFFICES ASSUME Lucky PROVE Spec => []TypeOK
  OBVIOUS
<1>1. Inv /\ Sizes /\ [Next]_vars => (Inv /\ Sizes)'
  BY NextStep, SizesStep
<1>2. Inv /\ Sizes => TypeOK
  BY DEF Inv, Types, Sizes, TypeOK
<1> QED
  BY InitInv, InitSizes, <1>1, <1>2, PTL DEF Spec

(***************************************************************************)
(* The room for recoveries                                                 *)
(***************************************************************************)
LEMMA InitRoom == Init => Room
<1> SUFFICES ASSUME Init PROVE Room
  OBVIOUS
<1>1. \A p \in Pages : page[p].status = "erased"
  BY DEF Init, Empty
<1>2. ~Moving
  BY DEF Init, Moving
<1> QED
  BY <1>1, <1>2 DEF Room

\* Every copy that a transfer has still to make has its room.
LEMMA RoomStep == Lucky /\ Inv /\ Sizes /\ Room /\ [Next]_vars => Room'
<1> SUFFICES ASSUME Lucky, Inv, Sizes, Room, [Next]_vars PROVE Room'
  OBVIOUS
<1> DEFINE N == Cardinality(Table)
           R == Taken(resets) + N
<1>1. page \in PageType /\ to \in Pages /\ todo \subseteq Table
  BY DEF Inv, Types, PageType
<1>2. \A p \in Pages : 1 - p \in Pages /\ 1 - (1 - p) = p /\ (\A q \in Pages : q = p \/ q = 1 - p)
  BY DEF Pages
<1>3. resets \in Nat /\ 0 \in Nat
  BY SlotsAssumption DEF Sizes
<1>4. N \in Nat /\ Taken(resets) \in Nat /\ Taken(resets + 1) = R /\ Taken(0) = 0
  <2>1. N \in Nat /\ Taken(resets) \in Nat /\ Taken(resets + 1) = R
    BY <1>3, TakenFacts
  <2> QED
    BY <2>1 DEF Taken
<1>5. \A p \in Pages : page[p].log \in Seq(Entry) /\ Len(page[p].log) \in Nat
  BY <1>1 DEF PageType
<1>6. \A p \in Pages : page[p].status = "receive" => Len(page[p].log) <= R
  BY <1>4, <1>5 DEF Room
<1>7. /\ Cardinality(todo) \in Nat /\ Cardinality(todo) <= N /\ Cardinality({}) = 0
      /\ \A v \in todo : Cardinality(todo \ {v}) = Cardinality(todo) - 1
      /\ \A v \in Table : Cardinality(Table \ {v}) = N - 1
  BY <1>1, TodoFacts
<1> HIDE DEF N
\* Steps that neither move nor lose power only have to leave the pages smaller
<1>8. ASSUME pc' # "off", resets' = resets, ~Moving' \/ pc' \notin {"data", "addr", "copy"},
             \A p \in Pages : page'[p].status = "receive" => Len(page'[p].log) <= R
      PROVE  Room'
  BY <1>8 DEF Room, N
<1>9. ASSUME NEW v \in Table, NEW d \in Vals, WriteVariable(v, d) PROVE Room'
  <2>1. UNCHANGED <<page, resets>> /\ pc' # "off" /\ ~Moving'
    BY <1>9 DEF WriteVariable, Moving
  <2> QED
    BY <1>6, <1>8, <2>1
<1>10. CASE WriteData
  <2> DEFINE p == WritePage
             l == page[p].log
             k == l \o Half(item)
  <2>1. pc = "data" /\ pc' = "addr" /\ ~(Len(l) >= Slots) /\ page' = Logged(p, k)
        /\ UNCHANGED <<job, to, item, todo, resets>>
    BY <1>10 DEF WriteData, Full
  <2>2. item \in Write
    BY <2>1 DEF Inv, Shape, Off, Ready, Appending, Transferring, Recovering, Tidying, Formatting
  <2>3. p \in Pages
    BY DEF WritePage, Pages
  <2>4. k \in Seq(Entry) /\ Len(k) = Len(l) + Len(Half(item)) /\ Len(Half(item)) \in {0, 1}
    BY <1>5, <2>2, <2>3, HalfLog, HalfType
  <2>5. page'[p] = [status |-> page[p].status, log |-> k] /\ page'[1 - p] = page[1 - p]
    BY <1>1, <2>1, <2>3, <2>4, SetPage
  <2>6. Len(l) \in Nat /\ Len(l) < Slots /\ Slots \in Nat
    BY <1>5, <2>1, <2>3, SlotsAssumption
  <2> HIDE DEF k
  <2>7. CASE job \in {"transfer", "recover"} /\ Filling
    <3>1. p = to
      BY <1>1, <2>7, PageCasesHold DEF Inv, PageCases, Filling
    <3>2. Moving
      BY <2>1, <2>7 DEF Moving
    <3>3. Len(l) + Cardinality(todo) + 1 <= R
      BY <2>1, <2>6, <3>1, <3>2 DEF Room, N
    <3>4. Len(page'[p].log) = Len(l) + Len(Half(item))
      BY <2>4, <2>5
    <3>5. page'[to].log = page'[p].log
      BY <3>1
    <3> HIDE DEF p, l
    <3>6. Len(page'[to].log) - Len(Half(item)) + Cardinality(todo) + 1 <= R
      <4>1. \A a, c, most \in Nat : \A h \in {0, 1} :
                a + c + 1 <= most => (a + h) - h + c + 1 <= most
        OBVIOUS
      <4>2. Len(page'[to].log) = Len(l) + Len(Half(item)) /\ R \in Nat
        BY <1>4, <3>4, <3>5
      <4> QED BY <1>7, <2>4, <2>6, <3>3, <4>1, <4>2
    <3>7. PICK h \in {0, 1} : Len(Half(item)) = h
      BY <2>4
    <3>8. Len(page'[to].log) <= R
      BY <1>4, <1>7, <2>6, <3>3, <3>4, <3>5, <3>7
    <3>9. \A q \in Pages : page'[q].status = "receive" => Len(page'[q].log) <= R
      BY <1>2, <1>6, <2>3, <2>5, <3>1, <3>8
    <3>10. Moving' => Len(page'[to].log) - Len(Half(item')) + Cardinality(todo') + 1 <= R
      BY <2>1, <3>6
    <3> QED
      BY <2>1, <3>9, <3>10 DEF Room, N
  <2>8. CASE job = "append" /\ \E q \in Pages : Serves(q)
    <3>1. ~Moving'
      BY <2>1, <2>8 DEF Moving
    <3>2. PICK q \in Pages : Serves(q)
      BY <2>8
    <3>3. page[p].status = "receive" => Len(l) >= Slots
      <4>1. CASE p = q
        BY <3>2, <4>1 DEF Serves
      <4>2. CASE p = 1 - q
        BY <3>2, <4>2 DEF Serves, Empty
      <4> QED
        BY <1>2, <2>3, <3>2, <4>1, <4>2
    <3>4. page'[p].status # "receive"
      BY <2>5, <2>6, <3>3
    <3>5. \A r \in Pages : page'[r].status = "receive" => Len(page'[r].log) <= R
      BY <1>2, <1>6, <2>3, <2>5, <3>4
    <3> QED
      BY <1>8, <2>1, <3>1, <3>5
  <2> QED
    BY <2>1, <2>7, <2>8 DEF Inv, Shape, Off, Ready, Appending, Transferring, Recovering, Tidying, Formatting
<1>11. CASE WriteAddress
  <2> DEFINE p == WritePage
             l == page[p].log
             k == Append(SubSeq(l, 1, Len(l) - Len(Half(item))), item)
  <2>1. pc = "addr" /\ page' = Logged(p, k) /\ UNCHANGED <<to, item, todo, resets>>
    BY <1>11 DEF WriteAddress
  <2>2. item \in Write
    BY <2>1 DEF Inv, Shape, Off, Ready, Appending, Transferring, Recovering, Tidying, Formatting
  <2>3. p \in Pages
    BY DEF WritePage, Pages
  <2>4. k \in Seq(Entry) /\ Len(k) = Len(l) - Len(Half(item)) + 1
    BY <1>5, <2>1, <2>2, <2>3, EntryLog DEF Inv, HalfWritten
  <2>5. page'[p] = [status |-> page[p].status, log |-> k] /\ page'[1 - p] = page[1 - p]
    BY <1>1, <2>1, <2>3, <2>4, SetPage
  <2>6. Len(l) \in Nat /\ Len(Half(item)) \in {0, 1}
    BY <1>5, <2>2, <2>3, HalfType
  <2> HIDE DEF k
  <2>7. CASE job \in {"transfer", "recover"} /\ Filling
    <3>1. p = to
      BY <1>1, <2>7, PageCasesHold DEF Inv, PageCases, Filling
    <3>2. Moving
      BY <2>1, <2>7 DEF Moving
    <3>3. Len(l) - Len(Half(item)) + Cardinality(todo) + 1 <= R
      BY <2>1, <3>1, <3>2 DEF Room, N
    <3>4. pc' = "copy" /\ UNCHANGED job
      BY <1>11, <2>7 DEF WriteAddress
    <3>5. Len(page'[p].log) = Len(l) - Len(Half(item)) + 1
      BY <2>4, <2>5
    <3>6. page'[to].log = page'[p].log
      BY <3>1
    <3> HIDE DEF p, l
    <3>7. Len(page'[to].log) + Cardinality(todo) <= R /\ Len(page'[to].log) <= R
      <4>1. \A a, c, most \in Nat : \A h \in {0, 1} :
                a - h + c + 1 <= most => (a - h + 1) + c <= most /\ a - h + 1 <= most
        OBVIOUS
      <4>2. Len(page'[to].log) = Len(l) - Len(Half(item)) + 1 /\ R \in Nat
        BY <1>4, <3>5, <3>6
      <4> QED BY <1>7, <2>6, <3>3, <4>1, <4>2
    <3>8. \A q \in Pages : page'[q].status = "receive" => Len(page'[q].log) <= R
      BY <1>2, <1>6, <2>3, <2>5, <3>1, <3>7
    <3> QED
      BY <2>1, <3>4, <3>7, <3>8 DEF Room, N
  <2>8. CASE job = "append" /\ \E q \in Pages : page[q].status = "valid" /\ page[1 - q] = Empty
    <3>1. pc' = "ready" /\ job' = "none"
      BY <1>11, <2>8 DEF WriteAddress, Return
    <3>2. \A q \in Pages : page[q].status # "receive"
      BY <1>2, <2>8 DEF Empty
    <3>3. \A r \in Pages : page'[r].status # "receive"
      BY <1>2, <2>3, <2>5, <3>2
    <3> QED
      BY <1>8, <2>1, <3>1, <3>3 DEF Moving
  <2> QED
    BY <2>1, <2>7, <2>8 DEF Inv, Shape, Off, Ready, Appending, Transferring, Recovering, Tidying, Formatting
<1>12. CASE PageFull
  <2>1. UNCHANGED <<page, resets>> /\ pc' # "off" /\ ~Moving'
    BY <1>12 DEF PageFull, Return, Moving
  <2> QED
    BY <1>6, <1>8, <2>1
<1>13. CASE MarkReceive
  <2>1. pc = "mark_receive" /\ pc' = "data" /\ page' = Marked(to, "receive") /\ UNCHANGED <<job, to, todo, resets>>
    BY <1>13 DEF MarkReceive
  <2>2. call \in Write /\ Serves(1 - to) /\ todo = Table \ {call.var}
    BY <2>1 DEF Inv, Shape, Off, Ready, Appending, Transferring, Recovering, Tidying, Formatting
  <2>3. page'[to] = [status |-> "receive", log |-> page[to].log] /\ page'[1 - to] = page[1 - to]
    BY <1>1, <2>1, SetPage
  <2>4. page[to] = Empty \/ (page[to].status = "receive" /\ Len(page[to].log) >= Slots)
    BY <1>1, <1>2, <2>2 DEF Serves
  <2>5. Cardinality(todo) = N - 1
    BY <1>7, <2>2 DEF Write
  <2>6. Len(page[to].log) <= R
    BY <1>1, <1>4, <1>6, <2>4, EmptyLog DEF Empty
  <2>7. Len(page[to].log) < Slots => Len(page[to].log) + Cardinality(todo) + 1 <= R
    BY <1>1, <1>4, <1>5, <2>4, <2>5, SlotsAssumption, EmptyLog DEF Empty
  <2>8. \A q \in Pages : page'[q].status = "receive" => Len(page'[q].log) <= R
    BY <1>1, <1>2, <1>6, <2>3, <2>6
  <2> QED
    BY <2>1, <2>3, <2>7, <2>8 DEF Room, N
<1>14. ASSUME NEW v \in Table, Copy(v) PROVE Room'
  <2>1. pc = "copy" /\ v \in todo /\ todo' = todo \ {v} /\ pc' \in {"copy", "data"} /\ UNCHANGED <<page, job, to, resets>>
    BY <1>14 DEF Copy
  <2>2. Moving /\ Moving'
    BY <2>1 DEF Inv, Shape, Off, Ready, Appending, Transferring, Recovering, Tidying, Formatting, Moving,
                Filling, Statuses
  <2>3. Len(page[to].log) + Cardinality(todo) <= R /\ Cardinality(todo') = Cardinality(todo) - 1
    BY <1>7, <2>1, <2>2 DEF Room, N
  <2>4. Len(page[to].log) + Cardinality(todo') + 1 <= R /\ Len(page[to].log) + Cardinality(todo') <= R
    BY <1>1, <1>4, <1>5, <1>7, <2>3
  <2> QED
    BY <1>6, <2>1, <2>4 DEF Room, N
<1>15. CASE Copied
  <2>1. UNCHANGED <<page, resets>> /\ pc' \in {"erase", "mark_valid"}
    BY <1>15 DEF Copied, CopiedUnchecked
  <2> QED
    BY <1>6, <1>8, <2>1
<1>16. CASE EraseOld
  <2>1. pc' \in {"mark_valid", "ready"} /\ page' = [page EXCEPT ![1 - to] = Empty] /\ UNCHANGED <<to, resets>>
    BY <1>16 DEF EraseOld
  <2>2. page'[1 - to] = Empty /\ page'[to] = page[to]
    BY <1>1, <1>2, <2>1 DEF PageType, Pages
  <2>3. \A q \in Pages : page'[q].status = "receive" => Len(page'[q].log) <= R
    BY <1>1, <1>2, <1>6, <2>2 DEF Empty
  <2> QED
    BY <1>8, <2>1, <2>3
<1>17. CASE MarkValid
  <2>1. pc = "mark_valid" /\ pc' \in {"ready", "erase"} /\ page' = Marked(to, "valid") /\ resets' = 0
    BY <1>17 DEF MarkValid, Return
  <2>2. page[1 - to].status # "receive"
    BY <2>1 DEF Inv, Shape, Off, Ready, Appending, Transferring, Recovering, Tidying, Formatting, Alone, Filling,
                Statuses, Empty
  <2>3. page'[to] = [status |-> "valid", log |-> page[to].log] /\ page'[1 - to] = page[1 - to]
    BY <1>1, <2>1, SetPage
  <2>4. \A q \in Pages : page'[q].status # "receive"
    BY <1>1, <1>2, <2>2, <2>3
  <2> QED
    BY <2>1, <2>4 DEF Room
<1>18. CASE EE_Init
  <2>1. pc = "off" /\ UNCHANGED <<page, resets>> /\ pc' \in {"erase", "copy", "format_erase0"}
        /\ (pc' = "copy" => todo' = Table /\ to' \in Pages /\ page[to'].status = "receive")
    BY <1>18 DEF EE_Init, Start, Statuses
  <2>2. \A q \in Pages : page[q].status = "receive" => Len(page[q].log) <= Taken(resets)
    BY <1>4, <1>5, <2>1 DEF Room
  <2>3. pc' = "copy" => Len(page'[to'].log) + Cardinality(todo') <= R
    BY <1>4, <1>5, <2>1, <2>2 DEF N
  <2> QED
    BY <1>6, <2>1, <2>3 DEF Room, N
<1>19. CASE Format
  <2>1. job = "format" /\ pc' # "off" /\ resets' = resets /\ job' \in {"format", "none"}
    BY <1>19 DEF Format
  <2>2. Formatting
    BY <2>1 DEF Inv, Shape, Off, Ready
  <2>3. \A q \in Pages : page[q].status # "receive"
    BY <2>2 DEF Formatting, Pages, Empty
  <2>4. \E q \in Pages : page' = [page EXCEPT ![q] = Empty] \/ page' = Marked(q, "valid")
    BY <1>19 DEF Format, Pages
  <2>5. \A q \in Pages : page'[q].status # "receive"
    <3>1. PICK q \in Pages : page' = [page EXCEPT ![q] = Empty] \/ page' = Marked(q, "valid")
      BY <2>4
    <3>2. CASE page' = [page EXCEPT ![q] = Empty]
      <4>1. page'[q] = Empty /\ page'[1 - q] = page[1 - q]
        BY <1>1, <3>1, <3>2, SetPage
      <4> QED
        BY <1>2, <2>3, <3>1, <4>1 DEF Empty
    <3>3. CASE page' = Marked(q, "valid")
      <4>1. page'[q] = [status |-> "valid", log |-> page[q].log] /\ page'[1 - q] = page[1 - q]
        BY <1>1, <3>1, <3>3, SetPage
      <4> QED
        BY <1>2, <2>3, <3>1, <4>1
    <3> QED
      BY <3>1, <3>2, <3>3
  <2> QED
    BY <1>8, <2>1, <2>5 DEF Moving
<1>20. CASE ProgramFails
  <2>1. UNCHANGED <<page, resets>> /\ pc' # "off" /\ ~Moving'
    BY <1>20 DEF ProgramFails, Return, Moving
  <2> QED
    BY <1>6, <1>8, <2>1
<1>21. CASE PowerLoss
  <2>1. pc' = "off" /\ job' = "none"
        /\ ((\E p \in Pages : page'[p].status = "receive") => resets' = resets + 1)
    BY <1>21 DEF PowerLoss
  <2>2. \A q \in Pages : page'[q].status = "receive" => page'[q] = page[q]
    <3>1. CASE page' = page
      BY <3>1
    <3>2. CASE page' # page
      <4>1. PICK p \in Erasing : page' = Marked(p, "erased")
        BY <1>21, <3>2 DEF PowerLoss, HalfErased
      <4>2. p \in Pages
        BY DEF Erasing
      <4>3. page'[p] = [status |-> "erased", log |-> page[p].log] /\ page'[1 - p] = page[1 - p]
        BY <1>1, <4>1, <4>2, SetPage
      <4> QED
        BY <1>2, <4>2, <4>3
    <3> QED
      BY <3>1, <3>2
  <2>3. ~Moving'
    BY <2>1 DEF Moving
  <2>4. ASSUME NEW q \in Pages, page'[q].status = "receive" PROVE Len(page'[q].log) <= Taken(resets')
    BY <1>4, <1>6, <2>1, <2>2, <2>4
  <2>5. CASE \E p \in Pages : page'[p].status = "receive"
    <3>1. Taken(resets') \in Nat
      BY <1>4, <2>1, <2>5
    <3> QED
      BY <2>1, <2>3, <2>4, <3>1 DEF Room
  <2>6. CASE ~ \E p \in Pages : page'[p].status = "receive"
    BY <2>3, <2>6 DEF Room
  <2> QED
    BY <2>5, <2>6
<1>22. CASE UNCHANGED vars
  <2>1. UNCHANGED <<page, pc, job, to, item, todo, resets>>
    BY <1>22 DEF vars, control
  <2> QED
    BY <2>1 DEF Room, Moving, Filling, Statuses
<1> QED
  BY <1>9, <1>10, <1>11, <1>12, <1>13, <1>14, <1>15, <1>16, <1>17, <1>18, <1>19, <1>20, <1>21, <1>22 DEF Next, Step

\* A page that receives a transfer holds no more than a table for it and one for
\* every power loss since: EE_Init runs out of room only after more of them in a
\* row than a page has room for tables (EE_Init).
THEOREM RoomToRecoverHolds == Lucky => (Spec => []RoomToRecover)
<1> SUFFICES ASSUME Lucky PROVE Spec => []RoomToRecover
  OBVIOUS
<1>1. Inv /\ Sizes /\ Room /\ [Next]_vars => (Inv /\ Sizes /\ Room)'
  BY NextStep, SizesStep, RoomStep
<1>2. Inv /\ Sizes /\ Room => RoomToRecover
  <2> SUFFICES ASSUME Inv, Sizes, Room, NEW p \in Pages, page[p].status = "receive"
               PROVE  Len(page[p].log) <= Cardinality(Table) * (resets + 1)
    BY DEF RoomToRecover
  <2>1. resets \in Nat
    BY SlotsAssumption DEF Sizes
  <2>2. Len(page[p].log) \in Nat
    BY DEF Inv, Types
  <2>3. Len(page[p].log) <= Taken(resets) + Cardinality(Table)
    BY <2>1, <2>2, TakenFacts DEF Room
  <2> QED
    BY <2>1, <2>3, TakenFacts
<1> QED
  BY InitInv, InitSizes, InitRoom, <1>1, <1>2, PTL DEF Spec
=============================================================================
