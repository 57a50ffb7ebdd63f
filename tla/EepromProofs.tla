---------------------------- MODULE EepromProofs ----------------------------
(***************************************************************************)
(* Proof that the emulated EEPROM keeps the promise of Store, for every    *)
(* table of variables and every size of the pages, when neither power is   *)
(* lost in the one step of the recovery that leaves two valid pages nor a  *)
(* flash operation fails in the middle of a transfer.                      *)
(***************************************************************************)
EXTENDS Eeprom, SequenceTheorems, FiniteSetTheorems, TLAPS

(***************************************************************************)
(* The inductive invariant                                                 *)
(***************************************************************************)
Types ==
    /\ page \in [Pages -> [status : {"erased", "receive", "valid"}, log : Seq(Entry)]]
    /\ to \in Pages
    /\ call \in Calls
    /\ item \in Calls
    /\ todo \subseteq Table

\* The page p serves: the other one is erased, or no write fits into it
Serves(p) ==
    /\ page[p].status = "valid"
    /\ \/ page[1 - p] = Empty
       \/ page[1 - p].status = "receive" /\ Len(page[1 - p].log) >= Slots

Filling == Statuses(to, "receive", "valid")
Alone(p) == page[p].status = "receive" /\ page[1 - p] = Empty

\* What the pages are in each function
Off ==
    /\ job = "none" /\ call = NoCall
    /\ \/ page[0] = Empty /\ page[1] = Empty
       \/ \E p \in Pages : \/ Statuses(p, "valid", "erased")
                           \/ Statuses(p, "receive", "erased")
                           \/ Statuses(p, "receive", "valid")
Ready == job = "none" /\ call = NoCall /\ \E p \in Pages : Serves(p)
Appending ==
    /\ call \in Write /\ item = call
    /\ \/ pc = "data" /\ \E p \in Pages : Serves(p)
       \/ pc = "addr" /\ \E p \in Pages : page[p].status = "valid" /\ page[1 - p] = Empty
Transferring ==
    /\ call \in Write
    /\ \/ pc = "mark_receive" /\ Serves(1 - to) /\ todo = Table \ {call.var}
       \/ pc \in {"data", "addr"} /\ Filling /\ item \in Write
       \/ pc \in {"copy", "erase"} /\ Filling
       \/ pc = "mark_valid" /\ Alone(to)
Recovering ==
    /\ call = NoCall
    /\ \/ pc \in {"data", "addr"} /\ Filling /\ item \in Write
       \/ pc \in {"copy", "mark_valid"} /\ Filling
       \/ pc = "erase" /\ Statuses(to, "valid", "valid")
Tidying ==
    /\ call = NoCall
    /\ \/ pc = "erase" /\ (Statuses(to, "valid", "erased") \/ Statuses(to, "receive", "erased"))
       \/ pc = "mark_valid" /\ Alone(to)
Formatting ==
    /\ call = NoCall
    /\ \/ pc \in {"format_erase0", "format_mark"} /\ page[0] = Empty /\ page[1] = Empty
       \/ pc = "format_erase1" /\ page[0].status = "valid" /\ page[1] = Empty

Shape ==
    \/ pc = "off" /\ Off
    \/ pc = "ready" /\ Ready
    \/ job = "append" /\ Appending
    \/ job = "transfer" /\ Transferring
    \/ job = "recover" /\ Recovering
    \/ job = "tidy" /\ Tidying
    \/ job = "format" /\ Formatting

\* Between the data and the address, the last slot is the half written one
HalfWritten ==
    pc = "addr" => LET log == page[WritePage].log
                   IN  /\ Len(log) < Slots + Len(Half(item))
                       /\ item.data # Blank => Len(log) > 0 /\ log[Len(log)].var = NoVar

\* A receiving page holds copies, but for the first variable
Copies ==
    \A p \in Pages : Statuses(p, "receive", "valid") =>
        \A v \in Table :
            v # FirstVar(page[p].log) => Lookup(page[p].log, v) \in {NotFound, Lookup(page[1 - p].log, v)}

Writing == pc \in {"data", "addr"}
Moving == job \in {"transfer", "recover"} /\ Filling /\ pc # "mark_receive"

\* What has been transferred is there
Transferred ==
    Moving =>
        \A v \in Table \ todo :
            v # FirstVar(page[to].log) /\ ~(Writing /\ item.var = v)
                => Lookup(page[to].log, v) = Lookup(page[1 - to].log, v)

\* What is being transferred is a copy, and not of the first variable
Copying ==
    Moving /\ Writing /\ (job = "transfer" => item.var # call.var) =>
        /\ item.data = Lookup(page[1 - to].log, item.var)
        /\ item.var # FirstVar(page[to].log)
        /\ item.var \notin todo

\* The variable of the write comes first
First ==
    job = "transfer" /\ pc # "mark_receive" =>
        /\ call.var \notin todo
        /\ IF Writing /\ item.var = call.var
           THEN /\ item = call
                /\ pc = "data" => Len(page[to].log) = 0 \/ Len(page[to].log) >= Slots
                /\ pc = "addr" => Len(page[to].log) = Len(Half(item))
           ELSE FirstVar(page[to].log) = call.var /\ Lookup(page[to].log, call.var) = call.data

Done == pc \in {"erase", "mark_valid"} => todo = {}

Inv == Types /\ Shape /\ HalfWritten /\ Copies /\ Transferred /\ Copying /\ First /\ Done

(***************************************************************************)
(* Logs                                                                    *)
(***************************************************************************)
PageType == [Pages -> [status : {"erased", "receive", "valid"}, log : Seq(Entry)]]

\* A page that changes leaves the other one alone.
LEMMA SetPage ==
    ASSUME page \in PageType, NEW p \in Pages
    PROVE  /\ \A l \in Seq(Entry) : /\ Logged(p, l) \in PageType
                                   /\ Logged(p, l)[p] = [status |-> page[p].status, log |-> l]
                                   /\ Logged(p, l)[1 - p] = page[1 - p]
           /\ \A s \in {"erased", "receive", "valid"} :
                  /\ Marked(p, s) \in PageType
                  /\ Marked(p, s)[p] = [status |-> s, log |-> page[p].log]
                  /\ Marked(p, s)[1 - p] = page[1 - p]
           /\ [page EXCEPT ![p] = Empty] \in PageType
           /\ [page EXCEPT ![p] = Empty][p] = Empty
           /\ [page EXCEPT ![p] = Empty][1 - p] = page[1 - p]
BY DEF PageType, Pages, Empty, Logged, Marked

\* An empty log has nothing.
LEMMA EmptyLog ==
    /\ <<>> \in Seq(Entry)
    /\ Len(<<>>) = 0
    /\ FirstVar(<<>>) = NoVar
    /\ \A v \in Table : Lookup(<<>>, v) = NotFound
BY DEF FirstVar, Lookup, Places

\* A variable that has a place has a last one.
LEMMA LastPlace ==
    ASSUME NEW v \in Table, NEW l \in Seq(Entry), Places(l, v) # {}
    PROVE  (CHOOSE i \in Places(l, v) : \A j \in Places(l, v) : j <= i) \in Places(l, v)
<1> DEFINE P == Places(l, v)
           R == OpToRel(<, Nat)
           T == {n \in Nat : n <= Len(l) /\ Len(l) - n \in P}
<1>1. P \subseteq 1..Len(l) /\ Len(l) \in Nat
  BY DEF Places
<1>2. T \subseteq Nat /\ T # {}
  <2>1. PICK i \in P : TRUE
    OBVIOUS
  <2>2. Len(l) - i \in T
    BY <1>1, <2>1
  <2> QED
    BY <2>2
<1>3. PICK x \in T : \A y \in T : <<y, x>> \notin R
  <2> HIDE DEF T, R
  <2> QED
    BY <1>2, NatLessThanWellFounded, WFMin DEF R
<1>4. \A y \in T : ~(y < x)
  BY <1>2, <1>3 DEF OpToRel
<1>5. x \in Nat /\ Len(l) - x \in P
  BY <1>3
<1>6. ASSUME NEW j \in P PROVE j <= Len(l) - x
  <2>1. j \in Nat /\ j <= Len(l)
    BY <1>1
  <2>2. Len(l) - j \in T
    BY <1>1, <2>1
  <2>3. ~(Len(l) - j < x)
    BY <1>4, <2>2
  <2> QED
    BY <1>1, <1>5, <2>1, <2>3
<1> QED
  BY <1>5, <1>6

\* Logs that have a variable at the same places, with the same data, give a
\* reader the same value.
LEMMA SameLookup ==
    ASSUME NEW v \in Table, NEW k \in Seq(Entry), NEW l \in Seq(Entry),
           Places(k, v) = Places(l, v),
           \A i \in Places(k, v) : k[i] = l[i]
    PROVE  Lookup(k, v) = Lookup(l, v)
<1>1. CASE Places(k, v) = {}
  BY <1>1 DEF Lookup
<1>2. CASE Places(k, v) # {}
  BY <1>2, LastPlace DEF Lookup
<1> QED
  BY <1>1, <1>2

\* The last entry is the one a reader finds.
LEMMA LastLookup ==
    ASSUME NEW v \in Table, NEW l \in Seq(Entry), Len(l) > 0, l[Len(l)].var = v
    PROVE  Lookup(l, v) = l[Len(l)].data
<1>1. Len(l) \in Places(l, v) /\ \A j \in Places(l, v) : j \in Nat /\ j <= Len(l)
  BY DEF Places
<1>2. (CHOOSE i \in Places(l, v) : \A j \in Places(l, v) : j <= i) = Len(l)
  BY <1>1
<1> QED
  BY <1>1, <1>2 DEF Lookup

\* What is found is a value.
LEMMA LookupType ==
    ASSUME NEW v \in Table, NEW l \in Seq(Entry), Lookup(l, v) # NotFound
    PROVE  Lookup(l, v) \in Vals
<1> DEFINE c == CHOOSE i \in Places(l, v) : \A j \in Places(l, v) : j <= i
<1>1. Places(l, v) # {} /\ Lookup(l, v) = l[c].data
  BY DEF Lookup
<1>2. c \in 1..Len(l)
  BY <1>1, LastPlace DEF Places
<1> HIDE DEF c
<1>3. l[c] \in Entry
  BY <1>2
<1> QED
  BY <1>1, <1>3 DEF Entry

\* The half of an entry.
LEMMA HalfType ==
    ASSUME NEW e \in Write
    PROVE  /\ Half(e) \in Seq(Entry)
           /\ e.data = Blank => Len(Half(e)) = 0
           /\ e.data # Blank => Len(Half(e)) = 1 /\ Half(e)[1].var = NoVar
<1> DEFINE h == [var |-> NoVar, data |-> e.data]
<1>1. h \in Entry /\ h.var = NoVar
  BY DEF Write, Entry
<1> HIDE DEF h
<1>2. <<h>> \in Seq(Entry) /\ Len(<<h>>) = 1 /\ <<h>>[1] = h /\ Len(<<>>) = 0 /\ <<>> \in Seq(Entry)
  BY <1>1
<1>3. Half(e) = IF e.data = Blank THEN <<>> ELSE <<h>>
  BY DEF Half, h
<1> QED
  BY <1>1, <1>2, <1>3

\* A half written entry is not read.
LEMMA HalfLog ==
    ASSUME NEW l \in Seq(Entry), NEW e \in Write
    PROVE  /\ l \o Half(e) \in Seq(Entry)
           /\ Len(l \o Half(e)) = Len(l) + Len(Half(e))
           /\ e.data # Blank => (l \o Half(e))[Len(l \o Half(e))].var = NoVar
           /\ FirstVar(l \o Half(e)) = FirstVar(l)
           /\ \A v \in Table : Lookup(l \o Half(e), v) = Lookup(l, v)
<1> DEFINE k == l \o Half(e)
<1>1. k \in Seq(Entry) /\ Len(k) = Len(l) + Len(Half(e))
  BY HalfType
<1>2. e.data # Blank => k[Len(k)].var = NoVar
  BY <1>1, HalfType
<1>3. \A i \in 1..Len(l) : k[i] = l[i]
  BY HalfType
<1>4. FirstVar(k) = FirstVar(l)
  <2>1. CASE Len(l) = 0
    BY <1>1, <1>2, <2>1, HalfType DEF FirstVar
  <2>2. CASE Len(l) # 0
    BY <1>1, <1>3, <2>2, HalfType DEF FirstVar
  <2> QED
    BY <2>1, <2>2
<1>5. ASSUME NEW v \in Table PROVE Lookup(k, v) = Lookup(l, v)
  <2>1. Len(k) = Len(l) \/ (Len(k) = Len(l) + 1 /\ k[Len(k)].var = NoVar)
    BY <1>1, <1>2, HalfType
  <2>2. Places(k, v) = Places(l, v)
    BY <1>1, <1>3, <2>1, TableAssumption DEF Places
  <2>3. \A i \in Places(k, v) : k[i] = l[i]
    BY <1>3, <2>2 DEF Places
  <2> QED
    BY <1>1, <2>2, <2>3, SameLookup
<1> QED
  BY <1>1, <1>2, <1>4, <1>5

\* With its address written, it is.
LEMMA EntryLog ==
    ASSUME NEW l \in Seq(Entry), NEW e \in Write,
           e.data # Blank => Len(l) > 0 /\ l[Len(l)].var = NoVar
    PROVE  LET k == Append(SubSeq(l, 1, Len(l) - Len(Half(e))), e)
           IN  /\ k \in Seq(Entry)
               /\ Len(k) = Len(l) - Len(Half(e)) + 1
               /\ FirstVar(k) = IF Len(l) = Len(Half(e)) THEN e.var ELSE FirstVar(l)
               /\ \A v \in Table : Lookup(k, v) = IF v = e.var THEN e.data ELSE Lookup(l, v)
<1> DEFINE n == Len(l) - Len(Half(e))
           m == SubSeq(l, 1, n)
           k == Append(m, e)
<1>1. n \in 0..Len(l) /\ (n = Len(l) \/ (n = Len(l) - 1 /\ l[Len(l)].var = NoVar))
  <2>1. Len(l) \in Nat
    OBVIOUS
  <2>2. CASE e.data = Blank
    BY <2>1, <2>2, HalfType
  <2>3. CASE e.data # Blank
    <3>1. Len(Half(e)) = 1 /\ Len(l) > 0 /\ l[Len(l)].var = NoVar
      BY <2>3, HalfType
    <3> QED
      BY <2>1, <3>1
  <2> QED
    BY <2>2, <2>3
<1>2. m \in Seq(Entry) /\ Len(m) = n /\ \A i \in 1..n : m[i] = l[i]
  BY <1>1
<1>3. e \in Entry
  BY DEF Write, Entry
<1>4. k \in Seq(Entry) /\ Len(k) = n + 1 /\ k[n + 1] = e /\ \A i \in 1..n : k[i] = l[i]
  BY <1>1, <1>2, <1>3
<1>5. FirstVar(k) = IF Len(l) = Len(Half(e)) THEN e.var ELSE FirstVar(l)
  BY <1>1, <1>4, HalfType DEF FirstVar
<1>6. ASSUME NEW v \in Table PROVE Lookup(k, v) = IF v = e.var THEN e.data ELSE Lookup(l, v)
  <2>1. CASE v = e.var
    <3>1. Len(k) > 0 /\ k[Len(k)] = e
      BY <1>1, <1>4
    <3> HIDE DEF k
    <3> QED
      BY <1>4, <2>1, <3>1, LastLookup
  <2>2. CASE v # e.var
    <3>1. Places(k, v) = Places(l, v)
      <4>1. v # NoVar
        BY TableAssumption
      <4> HIDE DEF n, k
      <4>2. \A i \in 1..Len(l) : i \notin 1..n => l[i].var # v
        BY <1>1, <4>1
      <4>3. \A i \in 1..Len(k) : i \notin 1..n => k[i].var # v
        BY <1>1, <1>4, <2>2
      <4> QED BY <1>1, <1>4, <4>2, <4>3 DEF Places
    <3>2. \A i \in Places(k, v) : k[i] = l[i]
      BY <1>1, <1>4, <2>2 DEF Places
    <3> QED
      BY <1>4, <2>2, <3>1, <3>2, SameLookup
  <2> QED
    BY <2>1, <2>2
<1> QED
  BY <1>4, <1>5, <1>6

(***************************************************************************)
(* Pages                                                                   *)
(***************************************************************************)
\* Where the functions read and write, and what the pages hold, by their statuses
PageCases ==
    \A p \in Pages :
        /\ Statuses(p, "valid", "erased") => ReadPage = p /\ WritePage = p
        /\ Statuses(p, "receive", "valid") => ReadPage = 1 - p /\ WritePage = p

HeldCases ==
    \A p \in Pages : \A v \in Table :
        /\ Statuses(p, "valid", "erased") => Held(v) = {Lookup(page[p].log, v)}
        /\ Statuses(p, "receive", "erased") => Held(v) = {Lookup(page[p].log, v)}
        /\ job = "recover" /\ p = to /\ Statuses(p, "valid", "valid") => Held(v) = {Lookup(page[p].log, v)}
        /\ Statuses(p, "receive", "valid") =>
               Held(v) = {Lookup(page[1 - p].log, v)}
                         \cup (IF FirstVar(page[p].log) = v THEN {Lookup(page[p].log, v)} ELSE {})
        /\ page[0] = Empty /\ page[1] = Empty => Held(v) = {NotFound}

\* The statuses decide the page that is read and the page that is written.
LEMMA PageCasesHold == Types => PageCases
BY DEF Types, PageCases, Statuses, ReadPage, WritePage, Pages

\* The statuses decide which log a reader may take a variable's value from.
LEMMA HeldCasesHold == Types => HeldCases
<1> SUFFICES ASSUME Types, NEW p \in Pages, NEW v \in Table
             PROVE  /\ Statuses(p, "valid", "erased") => Held(v) = {Lookup(page[p].log, v)}
                    /\ Statuses(p, "receive", "erased") => Held(v) = {Lookup(page[p].log, v)}
                    /\ job = "recover" /\ p = to /\ Statuses(p, "valid", "valid")
                           => Held(v) = {Lookup(page[p].log, v)}
                    /\ Statuses(p, "receive", "valid") =>
                           Held(v) = {Lookup(page[1 - p].log, v)}
                                     \cup (IF FirstVar(page[p].log) = v THEN {Lookup(page[p].log, v)} ELSE {})
                    /\ page[0] = Empty /\ page[1] = Empty => Held(v) = {NotFound}
  BY DEF HeldCases
<1> USE DEF Types, Pages, Statuses
<1>1. CASE Statuses(p, "valid", "erased")
  <2>1. ReadPage = p /\ \A q \in Pages : ~Sole(q) /\ page[q].status # "receive"
    BY <1>1 DEF Sole, ReadPage
  <2> QED
    BY <1>1, <2>1, <1>1 DEF Held, ReadVariable, Empty
<1>2. CASE Statuses(p, "receive", "erased")
  <2>1. \A q \in Pages : Sole(q) <=> q = p
    BY <1>2 DEF Sole
  <2> QED
    BY <1>2, <2>1 DEF Held, Empty
<1>3. CASE job = "recover" /\ p = to /\ Statuses(p, "valid", "valid")
  <2>1. \A q \in Pages : Sole(q) <=> q = p
    BY <1>3 DEF Sole
  <2> QED
    BY <1>3, <2>1 DEF Held, Empty
<1>4. CASE Statuses(p, "receive", "valid")
  <2>1. ReadPage = 1 - p /\ \A q \in Pages : ~Sole(q) /\ (page[q].status = "receive" <=> q = p)
    BY <1>4 DEF Sole, ReadPage
  <2> QED
    BY <1>4, <2>1 DEF Held, ReadVariable, Empty
<1>5. CASE page[0] = Empty /\ page[1] = Empty
  <2>1. ReadPage = 1 /\ \A q \in Pages : ~Sole(q) /\ page[q].status # "receive"
    BY <1>5 DEF Sole, ReadPage, Empty
  <2> QED
    BY <1>5, <2>1, EmptyLog DEF Held, ReadVariable, Empty
<1> QED
  BY <1>1, <1>2, <1>3, <1>4, <1>5

\* In the next state too.
LEMMA NextCases == Types' => PageCases' /\ HeldCases'
BY PageCasesHold, HeldCasesHold, PTL

\* Every variable keeps what is held
Same == \A v \in Table : Kept(v)' = Kept(v)

\* What is undecided may be decided
Decides == \A v \in Table : Kept(v)' \subseteq Kept(v) /\ Kept(v)' # {}

Completes ==
    /\ call # NoCall /\ call' = NoCall /\ result' = "complete"
    /\ Decides
    /\ \A v \in Table : v = call.var => Kept(v)' = {call.data}

\* Writing the data of an entry changes nothing a reader finds.
LEMMA WriteDataStep == Inv /\ WriteData => Inv' /\ Same
<1> SUFFICES ASSUME Inv, WriteData PROVE Inv' /\ Same
  OBVIOUS
<1> DEFINE p == WritePage
           l == page[p].log
           k == l \o Half(item)
<1>0. p \in Pages /\ l \in Seq(Entry) /\ page \in PageType /\ to \in Pages
  BY DEF WritePage, Pages, Inv, Types, PageType
<1>1. item \in Write /\ UNCHANGED <<job, to, item, todo, call>> /\ pc = "data" /\ pc' = "addr" /\ Len(l) < Slots
  <2>1. UNCHANGED <<job, to, item, todo, call>> /\ pc = "data" /\ pc' = "addr" /\ ~(Len(l) >= Slots)
    BY DEF WriteData, Full
  <2>2. item \in Write
    BY <2>1 DEF Inv, Shape, Off, Ready, Appending, Transferring, Recovering, Tidying, Formatting
  <2>3. Len(l) \in Nat
    BY <1>0
  <2> QED
    BY <2>1, <2>2, <2>3, SlotsAssumption
<1>2. \/ job = "append" /\ call \in Write /\ item = call /\ \E q \in Pages : Serves(q)
      \/ job \in {"transfer", "recover"} /\ Filling
  BY <1>1 DEF Inv, Shape, Off, Ready, Appending, Transferring, Recovering, Tidying, Formatting
<1>3. p \in Pages /\ 1 - p \in Pages /\ 1 - (1 - p) = p /\ l \in Seq(Entry) /\ page \in PageType
  BY <1>0 DEF Pages
<1>4. k \in Seq(Entry) /\ Len(k) = Len(l) + Len(Half(item)) /\ (item.data # Blank => k[Len(k)].var = NoVar)
      /\ FirstVar(k) = FirstVar(l) /\ \A v \in Table : Lookup(k, v) = Lookup(l, v)
  BY <1>1, <1>3, HalfLog
<1>5. page' \in PageType /\ page'[p] = [status |-> page[p].status, log |-> k] /\ page'[1 - p] = page[1 - p]
  BY <1>3, <1>4, SetPage DEF WriteData
<1>6. Types'
  BY <1>1, <1>5 DEF Inv, Types, PageType
<1>7. PageCases /\ HeldCases /\ PageCases' /\ HeldCases'
  BY <1>6, PageCasesHold, HeldCasesHold, NextCases DEF Inv
<1> HIDE DEF p, k
<1>8. CASE job = "append" /\ call \in Write /\ item = call /\ \E q \in Pages : Serves(q)
  <2>0. PICK q \in Pages : Serves(q)
    BY <1>8
  <2>1. page[p].status = "valid" /\ page[1 - p] = Empty
    <3>1. q \in Pages /\ 1 - q \in Pages /\ 1 - (1 - q) = q
      BY <2>0 DEF Pages
    <3>2. CASE page[1 - q] = Empty
      <4>1. p = q
        BY <1>7, <2>0, <3>2 DEF Serves, PageCases, Statuses, Empty, p
      <4> QED
        BY <2>0, <3>2, <4>1 DEF Serves
    <3>3. CASE page[1 - q].status = "receive" /\ Len(page[1 - q].log) >= Slots
      <4>1. p = 1 - q
        BY <1>7, <2>0, <3>1, <3>3 DEF Serves, PageCases, Statuses, p
      <4> QED
        BY <1>1, <1>3, <3>3, <4>1, SlotsAssumption
    <3> QED
      BY <2>0, <3>2, <3>3 DEF Serves
  <2>2. page'[p].status = "valid" /\ page'[1 - p] = Empty /\ page'[p].log = k
    BY <1>5, <2>1
  <2>3. p' = p
    BY <1>3, <1>7, <2>2 DEF PageCases, Statuses, Empty, p
  <2>4. Shape'
    BY <1>1, <1>3, <1>8, <2>2 DEF Shape, Appending
  <2>9. HalfWritten'
    <3>1. WritePage' = p
      BY <2>3 DEF p
    <3> QED
      BY <1>1, <1>3, <1>4, <2>2, <3>1, HalfType, SlotsAssumption DEF HalfWritten
  <2>5. (Copies /\ Transferred /\ Copying /\ First /\ Done)'
    BY <1>1, <1>3, <1>8, <2>2 DEF Copies, Transferred, Copying, First, Done, Moving, Statuses, Empty, Pages
  <2>6. Same
    <3> SUFFICES ASSUME NEW v \in Table PROVE Held(v)' = Held(v)
      BY <1>1 DEF Same, Kept
    <3>1. Statuses(p, "valid", "erased") /\ page'[p].status = "valid" /\ page'[1 - p].status = "erased"
      BY <2>1, <2>2 DEF Statuses, Empty
    <3>2. Held(v) = {Lookup(l, v)}
      BY <1>3, <1>7, <3>1 DEF HeldCases
    <3>3. Held(v)' = {Lookup(k, v)}
      BY <1>3, <1>7, <2>2, <3>1 DEF HeldCases, Statuses
    <3> QED
      BY <1>4, <3>2, <3>3
  <2> QED
    BY <1>6, <2>4, <2>5, <2>6, <2>9 DEF Inv
<1>9. CASE job \in {"transfer", "recover"} /\ Filling
  <2>1. p = to /\ page[to].status = "receive" /\ page[1 - to].status = "valid"
    BY <1>0, <1>7, <1>9 DEF Filling, PageCases, Statuses, p
  <2>2. page'[to].status = "receive" /\ page'[1 - to] = page[1 - to] /\ page'[to].log = k /\ Filling'
    BY <1>1, <1>5, <2>1 DEF Filling, Statuses
  <2>3. p' = to
    BY <1>3, <1>7, <2>1, <2>2 DEF PageCases, Statuses, p
  <2>4. Shape'
    BY <1>1, <1>9, <2>2
       DEF Inv, Shape, Off, Ready, Appending, Transferring, Recovering, Tidying, Formatting
  <2>9. HalfWritten'
    <3>1. WritePage' = to
      BY <2>3 DEF p
    <3> QED
      BY <1>1, <1>3, <1>4, <2>1, <2>2, <3>1, HalfType, SlotsAssumption DEF HalfWritten
  <2>5. Copies'
    <3>1. ASSUME NEW q \in Pages, Statuses(q, "receive", "valid")' PROVE q = to
      BY <1>0, <2>1, <2>2, <3>1 DEF Statuses, Pages
    <3>2. \A v \in Table : v # FirstVar(l) => Lookup(l, v) \in {NotFound, Lookup(page[1 - to].log, v)}
      BY <1>0, <1>9, <2>1 DEF Inv, Copies, Filling
    <3> QED
      BY <1>4, <2>2, <3>1, <3>2 DEF Copies
  <2>6. Transferred' /\ Copying'
    BY <1>1, <1>4, <1>9, <2>1, <2>2 DEF Inv, Transferred, Copying, Moving, Writing
  <2>7. First' /\ Done'
    <3>1. Len(l) \in Nat /\ Len(Half(item)) \in Nat
      BY <1>1, <1>3, HalfType
    <3>2. Done'
      BY <1>1 DEF Done
    <3>3. CASE job = "transfer" /\ item.var = call.var
      <4>1. item = call /\ call.var \notin todo /\ Len(l) = 0
        BY <1>1, <2>1, <3>1, <3>3, SlotsAssumption DEF Inv, First, Writing
      <4> QED
        BY <1>1, <1>4, <2>2, <3>1, <3>2, <3>3, <4>1 DEF First, Writing
    <3>4. CASE job = "transfer" /\ item.var # call.var
      <4>1. call.var \notin todo /\ FirstVar(l) = call.var /\ Lookup(l, call.var) = call.data
        BY <1>1, <2>1, <3>4 DEF Inv, First, Writing
      <4>2. call.var \in Table
        BY <1>1, <3>4 DEF Inv, Shape, Off, Ready, Appending, Transferring, Recovering, Tidying, Formatting, Write
      <4> QED
        BY <1>1, <1>4, <2>2, <3>2, <3>4, <4>1, <4>2 DEF First, Writing
    <3>5. CASE job = "recover"
      BY <1>1, <3>2, <3>5 DEF First
    <3> QED
      BY <1>9, <3>3, <3>4, <3>5
  <2>8. Same
    <3> SUFFICES ASSUME NEW v \in Table PROVE Held(v)' = Held(v)
      BY <1>1 DEF Same, Kept
    <3>1. Held(v) = {Lookup(page[1 - to].log, v)} \cup (IF FirstVar(l) = v THEN {Lookup(l, v)} ELSE {})
      BY <1>0, <1>7, <1>9, <2>1 DEF HeldCases, Filling
    <3>2. Held(v)' = {Lookup(page[1 - to].log, v)} \cup (IF FirstVar(k) = v THEN {Lookup(k, v)} ELSE {})
      BY <1>0, <1>7, <2>1, <2>2 DEF HeldCases, Statuses
    <3> QED
      BY <1>4, <3>1, <3>2
  <2> QED
    BY <1>6, <2>4, <2>5, <2>6, <2>7, <2>8, <2>9 DEF Inv
<1> QED
  BY <1>2, <1>8, <1>9

\* Writing its address makes an entry of its own the value of its variable;
\* a copied one adds nothing to what is held.
LEMMA WriteAddressStep ==
    Inv /\ WriteAddress => Inv' /\ (Completes \/ (Same /\ UNCHANGED <<call, result>>))
<1> SUFFICES ASSUME Inv, WriteAddress PROVE Inv' /\ (Completes \/ (Same /\ UNCHANGED <<call, result>>))
  OBVIOUS
<1> DEFINE p == WritePage
           l == page[p].log
           k == Append(SubSeq(l, 1, Len(l) - Len(Half(item))), item)
<1>1. item \in Write /\ UNCHANGED <<to, item, todo>> /\ pc = "addr"
  BY DEF Inv, Types, Shape, Off, Ready, Appending, Transferring, Recovering, Tidying, Formatting, WriteAddress
<1>2. \/ job = "append" /\ call \in Write /\ item = call /\ \E q \in Pages : page[q].status = "valid" /\ page[1 - q] = Empty
      \/ job \in {"transfer", "recover"} /\ Filling
  BY <1>1 DEF Inv, Shape, Off, Ready, Appending, Transferring, Recovering, Tidying, Formatting
<1>3. p \in Pages /\ l \in Seq(Entry) /\ page \in PageType
  BY DEF WritePage, Pages, Inv, Types, PageType
<1>4. /\ k \in Seq(Entry)
      /\ Len(k) = Len(l) - Len(Half(item)) + 1
      /\ FirstVar(k) = IF Len(l) = Len(Half(item)) THEN item.var ELSE FirstVar(l)
      /\ \A v \in Table : Lookup(k, v) = IF v = item.var THEN item.data ELSE Lookup(l, v)
  BY <1>1, <1>3, EntryLog DEF Inv, HalfWritten
<1>5. page' \in PageType /\ page'[p] = [status |-> page[p].status, log |-> k] /\ page'[1 - p] = page[1 - p]
  BY <1>3, <1>4, SetPage DEF WriteAddress
<1>6. call' \in Calls /\ Types'
  BY <1>1, <1>5 DEF Inv, Types, PageType, WriteAddress, Return, Calls
<1>7. PageCases /\ HeldCases /\ PageCases' /\ HeldCases'
  BY <1>6, PageCasesHold, HeldCasesHold, NextCases DEF Inv
<1>8. CASE job = "append" /\ call \in Write /\ item = call
           /\ \E q \in Pages : page[q].status = "valid" /\ page[1 - q] = Empty
  <2>1. page[p].status = "valid" /\ page[1 - p] = Empty
    BY <1>3, <1>7, <1>8 DEF PageCases, Statuses, Pages, Empty
  <2>2. page'[p].status = "valid" /\ page'[1 - p] = Empty /\ page'[p].log = k
    BY <1>5, <2>1
  <2>3. call' = NoCall /\ result' = "complete" /\ pc' = "ready" /\ job' = "none"
    BY <1>8 DEF WriteAddress, Return
  <2>4. Shape' /\ HalfWritten'
    BY <1>3, <2>2, <2>3 DEF Shape, Ready, Serves, HalfWritten
  <2>5. (Copies /\ Transferred /\ Copying /\ First /\ Done)'
    BY <1>3, <2>2, <2>3 DEF Copies, Transferred, Copying, First, Done, Moving, Statuses, Empty, Pages
  <2>6. call # NoCall
    BY <1>8, ValsAssumption DEF Write
  <2>7. ASSUME NEW v \in Table
        PROVE  /\ Kept(v) = {Lookup(l, v)} \cup (IF call.var = v THEN {call.data} ELSE {})
               /\ Kept(v)' = {IF v = call.var THEN call.data ELSE Lookup(l, v)}
    <3> HIDE DEF p, k
    <3>1. Statuses(p, "valid", "erased") /\ page'[p].status = "valid" /\ page'[1 - p].status = "erased"
      BY <2>1, <2>2 DEF Statuses, Empty
    <3>2. Held(v) = {Lookup(l, v)}
      BY <1>3, <1>7, <3>1 DEF HeldCases
    <3>3. Held(v)' = {Lookup(k, v)}
      BY <1>3, <1>7, <2>2, <3>1 DEF HeldCases, Statuses
    <3> QED
      BY <1>4, <1>8, <2>3, <2>6, <3>2, <3>3 DEF Kept
  <2>8. Completes
    <3>1. Decides
      BY <2>7 DEF Decides
    <3>2. \A v \in Table : v = call.var => Kept(v)' = {call.data}
      BY <2>7
    <3> QED
      BY <2>3, <2>6, <3>1, <3>2 DEF Completes
  <2> QED
    BY <1>6, <2>4, <2>5, <2>8 DEF Inv
<1>9. CASE job \in {"transfer", "recover"} /\ Filling
  <2>1. p = to /\ page[to].status = "receive" /\ page[1 - to].status = "valid" /\ to \in Pages
    BY <1>3, <1>7, <1>9 DEF Filling, PageCases, Statuses, Inv, Types
  <2>2. page'[to].status = "receive" /\ page'[1 - to] = page[1 - to] /\ page'[to].log = k /\ Filling'
    BY <1>1, <1>5, <2>1 DEF Filling, Statuses
  <2>3. pc' = "copy" /\ UNCHANGED <<job, call, result>>
    BY <1>9 DEF WriteAddress
  <2>4. Shape' /\ HalfWritten'
    BY <1>1, <1>9, <2>2, <2>3
       DEF Inv, Shape, Off, Ready, Appending, Transferring, Recovering, Tidying, Formatting, HalfWritten
  <2>5. \/ job = "transfer" /\ item = call /\ Len(l) = Len(Half(item))
        \/ item.data = Lookup(page[1 - to].log, item.var) /\ item.var # FirstVar(l) /\ item.var \notin todo
    BY <1>1, <1>9, <2>1 DEF Inv, First, Copying, Moving, Writing
  <2>6. job = "transfer" => call.var \in Table /\ call.var \notin todo /\ FirstVar(k) = call.var
                            /\ Lookup(k, call.var) = call.data
    <3>1. ASSUME job = "transfer" PROVE call \in Write /\ call.var \in Table /\ call.var \notin todo
      BY <1>1, <3>1 DEF Inv, First, Shape, Off, Ready, Appending, Transferring, Recovering, Tidying, Formatting, Write
    <3>2. CASE item.var = call.var
      BY <1>1, <1>4, <2>1, <3>1, <3>2 DEF Inv, First, Writing
    <3>3. CASE item.var # call.var
      <4>1. ASSUME job = "transfer" PROVE FirstVar(l) = call.var /\ Lookup(l, call.var) = call.data
        BY <1>1, <2>1, <3>3, <4>1 DEF Inv, First, Writing
      <4>2. ASSUME job = "transfer" PROVE FirstVar(k) = call.var
        <5>1. Len(l) # Len(Half(item))
          BY <1>1, <1>3, <3>1, <4>1, <4>2, TableAssumption, HalfType DEF Inv, HalfWritten, FirstVar
        <5> QED
          BY <1>4, <4>1, <4>2, <5>1
      <4> QED
        BY <1>4, <3>1, <3>3, <4>1, <4>2
    <3> QED
      BY <3>2, <3>3
  <2>7. First' /\ Done'
    BY <1>1, <2>2, <2>3, <2>6 DEF First, Done, Writing
  <2>11. Len(l) = Len(Half(item)) => FirstVar(l) = NoVar
    BY <1>1, <1>3, HalfType DEF Inv, HalfWritten, FirstVar
  <2>12. \A v \in Table : v # NoVar
    BY TableAssumption
  <2>13. ASSUME NEW v \in Table, v # FirstVar(l) PROVE Lookup(l, v) \in {NotFound, Lookup(page[1 - to].log, v)}
    BY <2>1, <2>13 DEF Inv, Copies, Statuses
  <2>14. ASSUME NEW v \in Table, v # FirstVar(k) PROVE Lookup(k, v) \in {NotFound, Lookup(page[1 - to].log, v)}
    BY <1>4, <2>5, <2>11, <2>12, <2>13, <2>14
  <2>8. Copies'
    <3>1. ASSUME NEW q \in Pages, Statuses(q, "receive", "valid")' PROVE q = to
      BY <2>1, <2>2, <3>1 DEF Statuses, Pages
    <3> QED
      BY <2>2, <2>14, <3>1 DEF Copies
  <2>15. ASSUME NEW v \in Table, v \notin todo, v # FirstVar(l), v # item.var
         PROVE  Lookup(l, v) = Lookup(page[1 - to].log, v)
    BY <1>1, <1>9, <2>1, <2>15 DEF Inv, Transferred, Moving
  <2>16. ASSUME NEW v \in Table, v \notin todo, v # FirstVar(k)
         PROVE  Lookup(k, v) = Lookup(page[1 - to].log, v)
    BY <1>4, <2>5, <2>11, <2>12, <2>15, <2>16
  <2>9. Transferred' /\ Copying'
    BY <1>1, <2>2, <2>3, <2>16 DEF Transferred, Copying, Moving, Writing
  <2>10. Same
    <3> SUFFICES ASSUME NEW v \in Table PROVE Kept(v)' = Kept(v)
      BY DEF Same
    <3>1. Held(v) = {Lookup(page[1 - to].log, v)} \cup (IF FirstVar(l) = v THEN {Lookup(l, v)} ELSE {})
      BY <1>7, <2>1 DEF HeldCases, Statuses
    <3>2. Held(v)' = {Lookup(page[1 - to].log, v)} \cup (IF FirstVar(k) = v THEN {Lookup(k, v)} ELSE {})
      <4> HIDE DEF k
      <4> QED
        BY <1>7, <2>1, <2>2 DEF HeldCases, Statuses
    <3>3. CASE job = "transfer" /\ item = call /\ Len(l) = Len(Half(item))
      <4>1. FirstVar(l) # v /\ FirstVar(k) = call.var /\ Lookup(k, call.var) = call.data /\ call # NoCall
        BY <1>1, <1>4, <2>6, <2>11, <2>12, <3>3, ValsAssumption DEF Write
      <4> QED
        BY <2>3, <3>1, <3>2, <4>1 DEF Kept
    <3>4. CASE item.data = Lookup(page[1 - to].log, item.var) /\ item.var # FirstVar(l) /\ item.var \notin todo
      <4>1. Held(v)' = Held(v)
        BY <1>4, <2>11, <2>12, <3>1, <3>2, <3>4
      <4> QED
        BY <2>3, <4>1 DEF Kept
    <3> QED
      BY <2>5, <3>3, <3>4
  <2> QED
    BY <1>6, <2>3, <2>4, <2>7, <2>8, <2>9, <2>10 DEF Inv
<1> QED
  BY <1>2, <1>8, <1>9

\* A reader always finds something, if only that there is nothing.
LEMMA HeldSome == \A v \in Table : Held(v) # {}
<1> SUFFICES ASSUME NEW v \in Table PROVE Held(v) # {}
  OBVIOUS
<1>1. CASE \E p \in Pages : Sole(p)
  <2>1. PICK p \in Pages : Sole(p)
    BY <1>1
  <2>2. Lookup(page[p].log, v) \in Held(v)
    BY <1>1, <2>1 DEF Held
  <2> QED
    BY <2>2
<1>2. CASE ~ \E p \in Pages : Sole(p)
  <2>1. ReadVariable(v) \in Held(v)
    BY <1>2 DEF Held
  <2> QED
    BY <2>1
<1> QED
  BY <1>1, <1>2

NotBoth == ~(page[0].status = "valid" /\ page[1].status = "valid")

\* Where the pages stay, and one is not valid, so does what they hold.
LEMMA HeldSame == NotBoth /\ page' = page => \A v \in Table : Held(v)' = Held(v)
<1> SUFFICES ASSUME NotBoth, page' = page, NEW v \in Table PROVE Held(v)' = Held(v)
  OBVIOUS
<1>1. \A p \in Pages : Sole(p)' <=> Sole(p)
  BY DEF NotBoth, Sole, Statuses, Pages
<1>2. ReadVariable(v)' = ReadVariable(v)
  BY DEF ReadVariable, ReadPage
<1> QED
  BY <1>1, <1>2 DEF Held

Fails ==
    /\ call # NoCall /\ call' = NoCall /\ result' = "failed"
    /\ Decides

\* A new write may have happened or not.
LEMMA WriteVariableStep ==
    ASSUME NEW v \in Table, NEW d \in Vals
    PROVE  Inv /\ WriteVariable(v, d) =>
               /\ Inv' /\ call = NoCall
               /\ \A u \in Table : Kept(u)' = Kept(u) \cup (IF u = v THEN {d} ELSE {})
<1> SUFFICES ASSUME Inv, WriteVariable(v, d)
             PROVE  /\ Inv' /\ call = NoCall
                    /\ \A u \in Table : Kept(u)' = Kept(u) \cup (IF u = v THEN {d} ELSE {})
  OBVIOUS
<1>1. pc = "ready" /\ Ready
  BY DEF WriteVariable, Inv, Shape, Appending, Transferring, Recovering, Tidying, Formatting
<1>2. /\ call' = [var |-> v, data |-> d] /\ call' \in Write /\ item' = call'
      /\ pc' = "data" /\ job' = "append" /\ UNCHANGED <<page, to, todo>>
  BY DEF WriteVariable, Write
<1>3. Types'
  BY <1>2 DEF Inv, Types, Calls
<1>4. Shape' /\ HalfWritten' /\ Copies'
  BY <1>1, <1>2 DEF Inv, Shape, Ready, Serves, Appending, HalfWritten, Copies, Statuses
<1>5. (Transferred /\ Copying /\ First /\ Done)'
  BY <1>2 DEF Transferred, Copying, First, Done, Moving
<1>6. NotBoth
  BY <1>1 DEF Ready, Serves, NotBoth, Empty, Pages
<1>7. call = NoCall /\ call' # NoCall
  BY <1>1, <1>2, ValsAssumption DEF Ready, Write
<1>8. \A u \in Table : Kept(u)' = Kept(u) \cup (IF u = v THEN {d} ELSE {})
  BY <1>2, <1>6, <1>7, HeldSame DEF Kept
<1> QED
  BY <1>3, <1>4, <1>5, <1>7, <1>8 DEF Inv

\* A write whose flash operation fails may have happened or not.
LEMMA ProgramFailsStep == "flash" \notin Misfortunes /\ Inv /\ ProgramFails => Inv' /\ Fails
<1> SUFFICES ASSUME "flash" \notin Misfortunes, Inv, ProgramFails PROVE Inv' /\ Fails
  OBVIOUS
<1>1. job = "append" /\ Appending
  BY DEF ProgramFails, Inv, Shape, Off, Ready
<1>2. call' = NoCall /\ result' = "failed" /\ pc' = "ready" /\ job' = "none" /\ UNCHANGED <<page, to, item, todo>>
  BY <1>1 DEF ProgramFails, Return
<1>3. Types'
  BY <1>2 DEF Inv, Types, Calls
<1>4. Shape'
  BY <1>1, <1>2 DEF Shape, Appending, Ready, Serves
<1>5. (HalfWritten /\ Copies /\ Transferred /\ Copying /\ First /\ Done)'
  BY <1>2 DEF Inv, HalfWritten, Copies, Statuses, Transferred, Copying, First, Done, Moving
<1>6. NotBoth
  BY <1>1 DEF Appending, Serves, NotBoth, Empty, Pages
<1>7. \A v \in Table : Kept(v)' = Held(v) /\ Held(v) \subseteq Kept(v) /\ Held(v) # {}
  BY <1>2, <1>6, HeldSame, HeldSome DEF Kept
<1>8. call # NoCall
  BY <1>1, ValsAssumption DEF Appending, Write
<1> QED
  BY <1>2, <1>3, <1>4, <1>5, <1>7, <1>8 DEF Inv, Fails, Decides

\* A full page starts a transfer, or ends one that has not begun.
LEMMA PageFullStep == Inv /\ PageFull => Inv' /\ ((Fails \/ (Same /\ UNCHANGED <<call, result>>)))
<1> SUFFICES ASSUME Inv, PageFull PROVE Inv' /\ (Fails \/ (Same /\ UNCHANGED <<call, result>>))
  OBVIOUS
<1>1. pc = "data" /\ UNCHANGED <<page, item>> /\ Len(page[WritePage].log) >= Slots
  BY DEF PageFull, Full
<1>2. PageCases
  BY PageCasesHold DEF Inv
<1>3. HalfWritten' /\ Copies'
  BY <1>1 DEF PageFull, Return, Inv, HalfWritten, Copies, Statuses
<1>4. CASE job = "append"
  <2>1. call \in Write /\ item = call /\ PageFull /\ \E q \in Pages : Serves(q)
    BY <1>1, <1>4 DEF Inv, Shape, Off, Ready, Appending
  <2>2. pc' = "mark_receive" /\ job' = "transfer" /\ to' = 1 - ReadPage /\ todo' = Table \ {call.var}
        /\ UNCHANGED <<call, result>>
    BY <1>4 DEF PageFull
  <2>3. PICK q \in Pages : Serves(q)
    BY <2>1
  <2>4. ReadPage = q
    BY <1>2, <2>3 DEF PageCases, Serves, Statuses, Empty, Pages
  <2>5. to' \in Pages /\ 1 - to' = q
    BY <2>2, <2>4 DEF Pages
  <2>6. Types'
    BY <1>1, <2>2, <2>5 DEF Inv, Types
  <2>7. Shape'
    BY <1>1, <2>1, <2>2, <2>3, <2>5 DEF Shape, Transferring, Serves
  <2>8. (Transferred /\ Copying /\ First /\ Done)'
    BY <2>2 DEF Transferred, Copying, First, Done, Moving
  <2>9. Same
    <3>1. NotBoth
      BY <2>3 DEF Serves, NotBoth, Empty, Pages
    <3> QED
      BY <1>1, <2>2, <3>1, HeldSame DEF Same, Kept
  <2> QED
    BY <1>3, <2>2, <2>6, <2>7, <2>8, <2>9 DEF Inv
<1>5. CASE job \in {"transfer", "recover"}
  <2>1. Filling /\ (job = "transfer" => call \in Write) /\ (job = "recover" => call = NoCall)
    BY <1>1, <1>5 DEF Inv, Shape, Off, Ready, Transferring, Recovering
  <2>2. pc' = "ready" /\ job' = "none" /\ call' = NoCall /\ UNCHANGED <<to, todo>>
        /\ (job = "transfer" => result' = "failed") /\ (job = "recover" => UNCHANGED <<call, result>>)
    BY <1>5, <2>1 DEF PageFull, Return
  <2>3. to \in Pages /\ WritePage = to
    BY <1>2, <2>1 DEF PageCases, Filling, Inv, Types
  <2>4. Types'
    BY <1>1, <2>2 DEF Inv, Types, Calls
  <2>5. Shape'
    <3>1. 1 - to \in Pages /\ 1 - (1 - to) = to
      BY <2>3 DEF Pages
    <3>2. Serves(1 - to)'
      BY <1>1, <2>1, <2>2, <2>3, <3>1 DEF Serves, Filling, Statuses
    <3> QED
      BY <2>2, <3>1, <3>2 DEF Shape, Ready
  <2>6. (Transferred /\ Copying /\ First /\ Done)'
    BY <2>2 DEF Transferred, Copying, First, Done, Moving
  <2>7. NotBoth
    BY <2>1, <2>3 DEF Filling, Statuses, NotBoth, Pages
  <2>8. \A v \in Table : Kept(v)' = Held(v) /\ Held(v) \subseteq Kept(v) /\ Held(v) # {}
    BY <1>1, <2>2, <2>7, HeldSame, HeldSome DEF Kept
  <2>9. CASE job = "transfer"
    <3>1. call # NoCall
      BY <2>1, <2>9, ValsAssumption DEF Write
    <3> QED
      BY <1>3, <2>2, <2>4, <2>5, <2>6, <2>8, <2>9, <3>1 DEF Inv, Fails, Decides
  <2>10. CASE job = "recover"
    <3>1. Same
      BY <2>1, <2>8, <2>10 DEF Same, Kept
    <3> QED
      BY <1>3, <2>2, <2>4, <2>5, <2>6, <2>10, <3>1 DEF Inv
  <2> QED
    BY <1>5, <2>9, <2>10
<1> QED
  BY <1>4, <1>5 DEF PageFull

\* A reader finds something after a step, too.
LEMMA HeldSomeNext == (\A v \in Table : Held(v) # {})'
BY HeldSome, PTL

\* Keeping all that is held decides nothing, which a deciding step may do.
LEMMA SameDecides == Same => Decides
BY HeldSome DEF Same, Decides, Kept

\* Marking the receiving page changes nothing a reader finds.
LEMMA MarkReceiveStep == Inv /\ MarkReceive => Inv' /\ Same
<1> SUFFICES ASSUME Inv, MarkReceive PROVE Inv' /\ Same
  OBVIOUS
<1>1. pc = "mark_receive" /\ job = "transfer" /\ call \in Write /\ Serves(1 - to) /\ todo = Table \ {call.var}
  BY DEF MarkReceive, Inv, Shape, Off, Ready, Appending, Transferring, Recovering, Tidying, Formatting
<1>2. item' = call /\ pc' = "data" /\ UNCHANGED <<job, to, todo, call>>
  BY DEF MarkReceive
<1>3. to \in Pages /\ 1 - to \in Pages /\ 1 - (1 - to) = to /\ page \in PageType
  BY DEF Inv, Types, Pages, PageType
<1>4. page' \in PageType /\ page'[to] = [status |-> "receive", log |-> page[to].log] /\ page'[1 - to] = page[1 - to]
  BY <1>3, SetPage DEF MarkReceive
<1>5. Types'
  BY <1>1, <1>2, <1>4 DEF Inv, Types, PageType, Calls
<1>6. HeldCases /\ HeldCases'
  BY <1>5, HeldCasesHold, NextCases DEF Inv
<1>7. Filling'
  BY <1>1, <1>2, <1>4 DEF Filling, Statuses, Serves
<1>8. page[to] = Empty \/ (Statuses(to, "receive", "valid") /\ Len(page[to].log) >= Slots)
  BY <1>1, <1>3 DEF Serves, Statuses
<1>9. Shape' /\ HalfWritten'
  BY <1>1, <1>2, <1>7 DEF Shape, Transferring, HalfWritten
<1>10. Copies'
  <2>1. ASSUME NEW p \in Pages, Statuses(p, "receive", "valid")' PROVE p = to
    BY <1>1, <1>3, <1>4, <2>1 DEF Statuses, Serves, Pages
  <2>2. \A v \in Table : v # FirstVar(page[to].log) =>
            Lookup(page[to].log, v) \in {NotFound, Lookup(page[1 - to].log, v)}
    BY <1>3, <1>8, EmptyLog DEF Inv, Copies, Empty
  <2> QED
    BY <1>4, <2>1, <2>2 DEF Copies
<1>11. Transferred' /\ Copying'
  BY <1>1, <1>2 DEF Transferred, Copying, Writing
<1>12. First' /\ Done'
  BY <1>1, <1>2, <1>4, <1>8, EmptyLog DEF First, Done, Writing, Empty
<1>13. Same
  <2> SUFFICES ASSUME NEW v \in Table PROVE Held(v)' = Held(v)
    BY <1>2 DEF Same, Kept
  <2>1. Held(v)' = {Lookup(page[1 - to].log, v)}
                   \cup (IF FirstVar(page[to].log) = v THEN {Lookup(page[to].log, v)} ELSE {})
    BY <1>2, <1>3, <1>4, <1>6, <1>7 DEF HeldCases, Filling, Statuses
  <2>2. CASE page[to] = Empty
    <3>1. Held(v) = {Lookup(page[1 - to].log, v)}
      BY <1>1, <1>3, <1>6, <2>2 DEF HeldCases, Statuses, Serves, Empty
    <3>2. FirstVar(page[to].log) # v
      BY <2>2, EmptyLog, TableAssumption DEF Empty
    <3> QED
      BY <2>1, <3>1, <3>2
  <2>3. CASE Statuses(to, "receive", "valid")
    BY <1>3, <1>6, <2>1, <2>3 DEF HeldCases
  <2> QED
    BY <1>8, <2>2, <2>3
<1> QED
  BY <1>5, <1>9, <1>10, <1>11, <1>12, <1>13 DEF Inv

\* Choosing what to copy next changes nothing a reader finds.
LEMMA CopyStep == ASSUME NEW v \in Table PROVE Inv /\ Copy(v) => Inv' /\ Same
<1> SUFFICES ASSUME Inv, Copy(v) PROVE Inv' /\ Same
  OBVIOUS
<1>1. pc = "copy" /\ job \in {"transfer", "recover"} /\ Filling /\ v \in todo
      /\ (job = "transfer" => call \in Write) /\ (job = "recover" => call = NoCall)
  BY DEF Copy, Inv, Shape, Off, Ready, Appending, Transferring, Recovering, Tidying, Formatting
<1>2. todo' = todo \ {v} /\ UNCHANGED <<page, job, to, call, result, resets>>
  BY DEF Copy
<1>3. to \in Pages /\ page[1 - to].log \in Seq(Entry) /\ page[to].log \in Seq(Entry) /\ todo \subseteq Table
  BY DEF Inv, Types, Pages
<1>4. ReadVariable(v) = Lookup(page[1 - to].log, v)
  BY <1>1, <1>3, PageCasesHold DEF Inv, PageCases, Filling, ReadVariable
<1>5. Copies' /\ Filling'
  BY <1>1, <1>2 DEF Inv, Copies, Statuses, Filling
<1>6. \A u \in Table \ todo : u # FirstVar(page[to].log) => Lookup(page[to].log, u) = Lookup(page[1 - to].log, u)
  BY <1>1 DEF Inv, Transferred, Moving, Writing
<1>7. job = "transfer" => /\ call.var \notin todo /\ FirstVar(page[to].log) = call.var
                          /\ Lookup(page[to].log, call.var) = call.data
  BY <1>1 DEF Inv, First, Writing
<1>8. Same
  <2>1. NotBoth
    BY <1>1, <1>3 DEF Filling, Statuses, NotBoth, Pages
  <2> QED
    BY <1>2, <2>1, HeldSame DEF Same, Kept
<1>9. CASE Skip(v)
  <2>1. UNCHANGED <<item, pc>>
    BY <1>9 DEF Copy
  <2>2. Types' /\ Shape' /\ HalfWritten' /\ Done'
    BY <1>1, <1>2, <1>3, <1>5, <2>1 DEF Inv, Types, Shape, Transferring, Recovering, HalfWritten, Done
  <2>3. v # FirstVar(page[to].log) => Lookup(page[to].log, v) = Lookup(page[1 - to].log, v)
    BY <1>1, <1>3, <1>4, <1>9 DEF Skip, Inv, Copies, Filling
  <2>4. Transferred' /\ Copying' /\ First'
    BY <1>1, <1>2, <1>6, <1>7, <2>1, <2>3 DEF Transferred, Copying, First, Writing
  <2> QED
    BY <1>5, <1>8, <2>2, <2>4 DEF Inv
<1>10. CASE ~Skip(v)
  <2>1. item' = [var |-> v, data |-> Lookup(page[1 - to].log, v)] /\ pc' = "data"
    BY <1>4, <1>10 DEF Copy
  <2>2. Lookup(page[1 - to].log, v) \in Vals
    BY <1>3, <1>4, <1>10, LookupType DEF Skip
  <2>3. item' \in Write
    BY <2>1, <2>2 DEF Write
  <2>4. Types' /\ Shape' /\ HalfWritten' /\ Done'
    BY <1>1, <1>2, <1>3, <1>5, <2>1, <2>3
       DEF Inv, Types, Shape, Transferring, Recovering, HalfWritten, Done, Calls
  <2>5. v # FirstVar(page[to].log)
    BY <1>1, <1>7, <1>10 DEF Skip
  <2>6. Transferred' /\ Copying'
    BY <1>1, <1>2, <1>6, <2>1, <2>5 DEF Transferred, Copying, Writing
  <2>7. First'
    BY <1>1, <1>2, <1>7, <2>1 DEF First, Writing
  <2> QED
    BY <1>5, <1>8, <2>4, <2>6, <2>7 DEF Inv
<1> QED
  BY <1>9, <1>10

\* The end of the copying changes nothing either.
LEMMA CopiedStep == Inv /\ Copied => Inv' /\ Same
<1> SUFFICES ASSUME Inv, Copied PROVE Inv' /\ Same
  OBVIOUS
<1>1. pc = "copy" /\ job \in {"transfer", "recover"} /\ Filling /\ todo = {}
      /\ (job = "transfer" => call \in Write) /\ (job = "recover" => call = NoCall)
  BY DEF Copied, CopiedUnchecked, Inv, Shape, Off, Ready, Appending, Transferring, Recovering, Tidying, Formatting
<1>2. pc' = (IF job = "transfer" THEN "erase" ELSE "mark_valid")
      /\ UNCHANGED <<page, job, to, item, todo, call, result, resets>>
  BY DEF Copied, CopiedUnchecked
<1>3. Types' /\ Copies' /\ Filling' /\ to \in Pages
  BY <1>1, <1>2 DEF Inv, Types, Copies, Statuses, Filling
<1>4. Shape' /\ HalfWritten' /\ Done'
  BY <1>1, <1>2, <1>3 DEF Shape, Transferring, Recovering, HalfWritten, Done
<1>5. Transferred' /\ Copying' /\ First'
  BY <1>1, <1>2 DEF Inv, Transferred, Copying, First, Moving, Writing
<1>6. Same
  <2>1. NotBoth
    BY <1>1, <1>3 DEF Filling, Statuses, NotBoth, Pages
  <2> QED
    BY <1>2, <2>1, HeldSame DEF Same, Kept
<1> QED
  BY <1>3, <1>4, <1>5, <1>6 DEF Inv

\* What was transferred may be all there is.
LEMMA NewHolds ==
    Inv /\ Filling /\ pc \in {"erase", "mark_valid"} /\ job \in {"transfer", "recover"} =>
        \A v \in Table : Lookup(page[to].log, v) \in Kept(v)
<1> SUFFICES ASSUME Inv, Filling, pc \in {"erase", "mark_valid"}, job \in {"transfer", "recover"}, NEW v \in Table
             PROVE  Lookup(page[to].log, v) \in Held(v)
  BY DEF Kept
<1>1. to \in Pages /\ todo = {}
  BY DEF Inv, Types, Done
<1>2. Held(v) = {Lookup(page[1 - to].log, v)}
                \cup (IF FirstVar(page[to].log) = v THEN {Lookup(page[to].log, v)} ELSE {})
  BY <1>1, HeldCasesHold DEF Inv, HeldCases, Filling
<1>3. v # FirstVar(page[to].log) => Lookup(page[to].log, v) = Lookup(page[1 - to].log, v)
  BY <1>1 DEF Inv, Transferred, Moving, Writing
<1> QED
  BY <1>2, <1>3

\* Erasing the old page decides what the transfer left open.
LEMMA EraseOldStep == Inv /\ EraseOld => Inv' /\ Decides
<1> SUFFICES ASSUME Inv, EraseOld PROVE Inv' /\ Decides
  OBVIOUS
<1>1. pc = "erase" /\ UNCHANGED <<to, item, todo, call>>
  BY DEF EraseOld
<1>2. \/ job = "transfer" /\ call \in Write /\ Filling
      \/ job = "recover" /\ call = NoCall /\ Statuses(to, "valid", "valid")
      \/ job = "tidy" /\ call = NoCall /\ (Statuses(to, "valid", "erased") \/ Statuses(to, "receive", "erased"))
  BY <1>1 DEF Inv, Shape, Off, Ready, Appending, Transferring, Recovering, Tidying, Formatting
<1>3. to \in Pages /\ 1 - to \in Pages /\ 1 - (1 - to) = to /\ page \in PageType
  BY DEF Inv, Types, Pages, PageType
<1>4. page' \in PageType /\ page'[1 - to] = Empty /\ page'[to] = page[to]
  BY <1>3, SetPage DEF EraseOld
<1>5. Types'
  BY <1>1, <1>4 DEF Inv, Types, PageType
<1>6. HeldCases /\ HeldCases'
  BY <1>5, HeldCasesHold, NextCases DEF Inv
<1>7. page[to].status \in {"receive", "valid"}
      /\ (page[to].status = "receive" => pc' = "mark_valid" /\ UNCHANGED job)
      /\ (page[to].status # "receive" => pc' = "ready" /\ job' = "none")
  BY <1>2 DEF EraseOld, Filling, Statuses
<1>8. Shape' /\ HalfWritten'
  BY <1>1, <1>2, <1>3, <1>4, <1>7
     DEF Shape, Ready, Serves, Transferring, Tidying, Alone, HalfWritten, Filling, Statuses
<1>9. (Copies /\ Transferred /\ Copying)'
  <2>1. ~Filling' /\ \A p \in Pages : ~Statuses(p, "receive", "valid")'
    BY <1>1, <1>3, <1>4 DEF Filling, Statuses, Pages, Empty
  <2> QED
    BY <2>1 DEF Copies, Transferred, Copying, Moving
<1>10. First' /\ Done'
  BY <1>1, <1>4, <1>7 DEF Inv, First, Done, Writing
<1>11. ASSUME NEW v \in Table PROVE Kept(v)' \subseteq Kept(v)
  <2>1. Held(v)' = {Lookup(page[to].log, v)}
    BY <1>3, <1>4, <1>6, <1>7, <1>1 DEF HeldCases, Statuses, Empty
  <2>2. Lookup(page[to].log, v) \in Kept(v)
    <3>1. CASE job = "transfer" /\ Filling
      BY <1>1, <3>1, NewHolds
    <3>2. CASE ~Filling
      <4>1. Held(v) = {Lookup(page[to].log, v)}
        BY <1>2, <1>3, <1>6, <3>2 DEF HeldCases
      <4> QED
        BY <4>1 DEF Kept
    <3> QED
      BY <1>2, <3>1, <3>2 DEF Filling, Statuses
  <2> QED
    BY <1>1, <2>1, <2>2 DEF Kept
<1>12. \A v \in Table : Kept(v)' # {}
  <2>1. \A v \in Table : Held(v)' # {}
    BY HeldSomeNext
  <2> QED
    BY <2>1 DEF Kept
<1> QED
  BY <1>5, <1>8, <1>9, <1>10, <1>11, <1>12 DEF Inv, Decides

\* Marking the new page valid completes the write that the transfer is for.
LEMMA MarkValidStep == Inv /\ MarkValid => Inv' /\ (Completes \/ (Decides /\ UNCHANGED <<call, result>>))
<1> SUFFICES ASSUME Inv, MarkValid PROVE Inv' /\ (Completes \/ (Decides /\ UNCHANGED <<call, result>>))
  OBVIOUS
<1>1. pc = "mark_valid" /\ UNCHANGED <<to, item, todo>>
  BY DEF MarkValid
<1>2. \/ job = "transfer" /\ call \in Write /\ Alone(to)
      \/ job = "recover" /\ call = NoCall /\ Filling
      \/ job = "tidy" /\ call = NoCall /\ Alone(to)
  BY <1>1 DEF Inv, Shape, Off, Ready, Appending, Transferring, Recovering, Tidying, Formatting
<1>3. to \in Pages /\ page \in PageType /\ todo = {}
  BY <1>1 DEF Inv, Types, PageType, Done
<1>4. page' \in PageType /\ page'[to] = [status |-> "valid", log |-> page[to].log] /\ page'[1 - to] = page[1 - to]
  BY <1>3, SetPage DEF MarkValid
<1>5. call' \in Calls
  BY DEF MarkValid, Return, Inv, Types, Calls
<1>6. Types'
  BY <1>1, <1>4, <1>5 DEF Inv, Types, PageType
<1>7. HeldCases /\ HeldCases'
  BY <1>6, HeldCasesHold, NextCases DEF Inv
<1>8. (Copies /\ Transferred /\ Copying)'
  <2>1. ~Filling' /\ \A p \in Pages : ~Statuses(p, "receive", "valid")'
    BY <1>1, <1>2, <1>3, <1>4 DEF Filling, Alone, Statuses, Pages, Empty
  <2> QED
    BY <2>1 DEF Copies, Transferred, Copying, Moving
<1>9. \A v \in Table : Held(v)' # {}
  BY HeldSomeNext
<1>10. CASE job = "transfer" /\ call \in Write /\ Alone(to)
  <2>1. pc' = "ready" /\ job' = "none" /\ call' = NoCall /\ result' = "complete"
    BY <1>10 DEF MarkValid, Return
  <2>2. Shape' /\ HalfWritten' /\ First' /\ Done'
    BY <1>3, <1>4, <1>10, <2>1 DEF Shape, Ready, Serves, Alone, HalfWritten, First, Done
  <2>3. call # NoCall /\ call.var \in Table
    BY <1>10, ValsAssumption DEF Write
  <2>4. Lookup(page[to].log, call.var) = call.data
    BY <1>1, <1>10 DEF Inv, First, Writing
  <2>5. ASSUME NEW v \in Table PROVE Held(v) = {Lookup(page[to].log, v)} /\ Kept(v)' = {Lookup(page[to].log, v)}
    BY <1>1, <1>3, <1>4, <1>7, <1>10, <2>1 DEF HeldCases, Statuses, Alone, Empty, Kept
  <2>6. Completes
    <3>1. Decides
      BY <2>5 DEF Decides, Kept
    <3>2. \A v \in Table : v = call.var => Kept(v)' = {call.data}
      BY <2>4, <2>5
    <3> QED
      BY <2>1, <2>3, <3>1, <3>2 DEF Completes
  <2> QED
    BY <1>6, <1>8, <2>2, <2>6 DEF Inv
<1>11. CASE job = "recover" /\ call = NoCall /\ Filling
  <2>1. pc' = "erase" /\ UNCHANGED <<job, call, result>>
    BY <1>11 DEF MarkValid
  <2>2. Shape' /\ HalfWritten' /\ First' /\ Done'
    BY <1>1, <1>3, <1>4, <1>11, <2>1 DEF Shape, Recovering, Statuses, Filling, HalfWritten, First, Done
  <2>3. ASSUME NEW v \in Table PROVE Held(v)' = {Lookup(page[to].log, v)} /\ Lookup(page[to].log, v) \in Kept(v)
    BY <1>1, <1>3, <1>4, <1>7, <1>11, <2>1, NewHolds DEF HeldCases, Statuses, Filling
  <2>4. Decides
    BY <1>11, <2>1, <2>3 DEF Decides, Kept
  <2> QED
    BY <1>6, <1>8, <2>1, <2>2, <2>4 DEF Inv
<1>12. CASE job = "tidy" /\ call = NoCall /\ Alone(to)
  <2>1. pc' = "ready" /\ job' = "none" /\ UNCHANGED <<call, result>>
    BY <1>12 DEF MarkValid
  <2>2. Shape' /\ HalfWritten' /\ First' /\ Done'
    BY <1>3, <1>4, <1>12, <2>1 DEF Shape, Ready, Serves, Alone, HalfWritten, First, Done
  <2>3. ASSUME NEW v \in Table PROVE Held(v) = {Lookup(page[to].log, v)} /\ Held(v)' = {Lookup(page[to].log, v)}
    BY <1>1, <1>3, <1>4, <1>7, <1>12, <2>1 DEF HeldCases, Statuses, Alone, Empty
  <2>4. Decides
    BY <2>1, <2>3 DEF Decides, Kept
  <2> QED
    BY <1>6, <1>8, <2>1, <2>2, <2>4 DEF Inv
<1> QED
  BY <1>2, <1>10, <1>11, <1>12

\* Looking at the pages at power on changes nothing.
LEMMA EE_InitStep == Inv /\ EE_Init => Inv' /\ Same
<1> SUFFICES ASSUME Inv, EE_Init PROVE Inv' /\ Same
  OBVIOUS
<1>1. pc = "off" /\ Off /\ UNCHANGED <<page, item, call, result, resets>>
  BY DEF EE_Init, Inv, Shape, Appending, Transferring, Recovering, Tidying, Formatting
<1>2. \/ \E p \in Pages : /\ (Statuses(p, "valid", "erased") \/ Statuses(p, "receive", "erased"))
                           /\ Start("tidy", p, "erase", {})
      \/ \E p \in Pages : Statuses(p, "receive", "valid") /\ Start("recover", p, "copy", Table)
      \/ page[0] = Empty /\ page[1] = Empty /\ Start("format", 0, "format_erase0", {})
  BY <1>1 DEF EE_Init, Off, Statuses, Pages, Empty
<1>3. Types' /\ Copies' /\ HalfWritten'
  BY <1>1, <1>2 DEF Inv, Types, Copies, Statuses, Start, HalfWritten, Pages
<1>4. Shape' /\ Done'
  BY <1>1, <1>2 DEF Shape, Off, Tidying, Recovering, Formatting, Start, Filling, Statuses, Done
<1>5. Transferred' /\ Copying' /\ First'
  BY <1>2 DEF Start, Transferred, Copying, First, Moving, Writing
<1>6. Same
  <2>1. NotBoth
    BY <1>2 DEF NotBoth, Statuses, Pages, Empty
  <2> QED
    BY <1>1, <2>1, HeldSame DEF Same, Kept
<1> QED
  BY <1>3, <1>4, <1>5, <1>6 DEF Inv

\* Formatting an empty store leaves it empty.
LEMMA FormatStep == Inv /\ Format => Inv' /\ Same
<1> SUFFICES ASSUME Inv, Format PROVE Inv' /\ Same
  OBVIOUS
<1>1. job = "format" /\ Formatting /\ UNCHANGED <<to, item, todo, call>>
  BY DEF Format, Inv, Shape, Off, Ready
<1>2. 0 \in Pages /\ 1 \in Pages /\ 1 - 0 = 1 /\ 1 - 1 = 0 /\ page \in PageType /\ <<>> \in Seq(Entry)
  BY DEF Inv, Types, Pages, PageType
<1>3. CASE pc = "format_erase0"
  <2>0. page' = [page EXCEPT ![0] = Empty] /\ pc' = "format_mark" /\ UNCHANGED job /\ page[1] = Empty
    BY <1>1, <1>3 DEF Format, Formatting
  <2>1. page' \in PageType /\ page'[0] = Empty /\ page'[1] = Empty /\ pc' = "format_mark" /\ UNCHANGED job
    BY <1>2, <2>0, SetPage
  <2>2. Types'
    BY <1>1, <2>1 DEF Inv, Types, PageType
  <2>3. Shape' /\ (HalfWritten /\ Copies /\ Transferred /\ Copying /\ First /\ Done)'
    BY <1>1, <2>1 DEF Shape, Formatting, HalfWritten, Copies, Transferred, Copying, First, Done, Moving,
                      Statuses, Empty, Pages
  <2>4. HeldCases /\ HeldCases'
    BY <2>2, HeldCasesHold, NextCases DEF Inv
  <2>5. \A v \in Table : Held(v) = {NotFound} /\ Held(v)' = {NotFound}
    BY <1>1, <1>2, <1>3, <2>1, <2>4 DEF HeldCases, Formatting
  <2> QED
    BY <1>1, <2>2, <2>3, <2>5 DEF Inv, Same, Kept
<1>4. CASE pc = "format_mark"
  <2>1. /\ page' \in PageType /\ page'[0] = [status |-> "valid", log |-> <<>>] /\ page'[1] = Empty
        /\ pc' = "format_erase1" /\ UNCHANGED job
    <3>1. page' = Marked(0, "valid") /\ pc' = "format_erase1" /\ UNCHANGED job /\ page[0] = Empty /\ page[1] = Empty
      BY <1>1, <1>4 DEF Format, Formatting
    <3>2. /\ Marked(0, "valid") \in PageType
          /\ Marked(0, "valid")[0] = [status |-> "valid", log |-> page[0].log]
          /\ Marked(0, "valid")[1 - 0] = page[1 - 0]
      BY <1>2, SetPage
    <3>3. page[0].log = <<>>
      BY <3>1 DEF Empty
    <3> QED
      BY <1>2, <3>1, <3>2, <3>3
  <2>2. Types'
    BY <1>1, <2>1 DEF Inv, Types, PageType
  <2>3. Shape' /\ (HalfWritten /\ Copies /\ Transferred /\ Copying /\ First /\ Done)'
    BY <1>1, <2>1 DEF Shape, Formatting, HalfWritten, Copies, Transferred, Copying, First, Done, Moving,
                      Statuses, Empty, Pages
  <2>4. HeldCases /\ HeldCases'
    BY <2>2, HeldCasesHold, NextCases DEF Inv
  <2>5. ASSUME NEW v \in Table PROVE Held(v) = {NotFound} /\ Held(v)' = {NotFound}
    <3>1. Held(v) = {NotFound}
      BY <1>1, <1>2, <1>4, <2>4 DEF HeldCases, Formatting
    <3>2. Statuses(0, "valid", "erased")' /\ page'[0].log = <<>>
      BY <1>2, <2>1 DEF Statuses, Empty
    <3>3. Held(v)' = {Lookup(<<>>, v)}
      BY <1>2, <2>4, <3>2 DEF HeldCases
    <3> QED
      BY <3>1, <3>3, EmptyLog
  <2> QED
    BY <1>1, <2>2, <2>3, <2>5 DEF Inv, Same, Kept
<1>5. CASE pc = "format_erase1"
  <2>1. page' \in PageType /\ page'[0] = page[0] /\ page'[1] = Empty /\ pc' = "ready" /\ job' = "none"
    <3>1. page' = [page EXCEPT ![1] = Empty] /\ pc' = "ready" /\ job' = "none"
      BY <1>1, <1>5 DEF Format
    <3> QED
      BY <1>2, <3>1, SetPage
  <2>2. Types'
    BY <1>1, <2>1 DEF Inv, Types, PageType
  <2>3. page[0].status = "valid" /\ page[1] = Empty /\ call' = NoCall
    BY <1>1, <1>5 DEF Formatting
  <2>4. Shape' /\ (HalfWritten /\ Copies /\ Transferred /\ Copying /\ First /\ Done)'
    BY <1>2, <2>1, <2>3 DEF Shape, Ready, Serves, HalfWritten, Copies, Transferred, Copying, First, Done, Moving,
                      Statuses, Empty, Pages
  <2>5. HeldCases /\ HeldCases'
    BY <2>2, HeldCasesHold, NextCases DEF Inv
  <2>6. ASSUME NEW v \in Table PROVE Held(v)' = Held(v)
    <3>1. Statuses(0, "valid", "erased") /\ Statuses(0, "valid", "erased")'
      BY <1>2, <2>1, <2>3 DEF Statuses, Empty
    <3>2. Held(v) = {Lookup(page[0].log, v)}
      BY <1>2, <2>5, <3>1 DEF HeldCases
    <3>3. Held(v)' = {Lookup(page'[0].log, v)}
      BY <1>2, <2>5, <3>1 DEF HeldCases
    <3> QED
      BY <2>1, <3>2, <3>3
  <2> QED
    BY <1>1, <2>2, <2>4, <2>6 DEF Inv, Same, Kept
<1> QED
  BY <1>1, <1>3, <1>4, <1>5 DEF Formatting

\* Power lost between two flash operations, or in the middle of an erase, loses
\* nothing but what is being written.
LEMMA PowerLossStep == "power" \notin Misfortunes /\ Inv /\ PowerLoss => Inv' /\ Decides
<1> SUFFICES ASSUME "power" \notin Misfortunes, Inv, PowerLoss PROVE Inv' /\ Decides
  OBVIOUS
<1>1. pc' = "off" /\ job' = "none" /\ to' = 0 /\ item' = NoCall /\ todo' = {} /\ call' = NoCall /\ NotBoth' /\ pc # "off"
  BY DEF PowerLoss, NotBoth
<1>2. page \in PageType /\ to \in Pages
  BY DEF Inv, Types, PageType
<1>3. ASSUME page' \in PageType PROVE Types'
  BY <1>1, <1>3 DEF Inv, Types, PageType, Pages, Calls
<1>4. (HalfWritten /\ Transferred /\ Copying /\ First /\ Done)'
  BY <1>1 DEF HalfWritten, Transferred, Copying, First, Done, Moving
<1>5. \A v \in Table : Held(v)' # {}
  BY HeldSomeNext
<1>6. CASE page' = page
  <2>1. Types' /\ Copies'
    BY <1>2, <1>3, <1>6 DEF Inv, Copies, Statuses
  <2>2. Off'
    <3>1. \/ page[0] = Empty /\ page[1] = Empty
          \/ \E p \in Pages : \/ Statuses(p, "valid", "erased")
                              \/ Statuses(p, "receive", "erased")
                              \/ Statuses(p, "receive", "valid")
      <4>1. ASSUME NEW p \in Pages, Serves(p)
            PROVE  Statuses(p, "valid", "erased") \/ (1 - p \in Pages /\ Statuses(1 - p, "receive", "valid"))
        BY <4>1 DEF Serves, Statuses, Pages, Empty
      <4>2. ASSUME Alone(to) PROVE Statuses(to, "receive", "erased")
        BY <4>2 DEF Alone, Statuses, Empty
      <4>3. CASE pc = "ready" /\ Ready
        BY <4>1, <4>3 DEF Ready
      <4>4. CASE job = "append" /\ Appending
        BY <4>1, <4>4 DEF Appending, Statuses, Empty
      <4>5. CASE job = "transfer" /\ Transferring
        BY <1>2, <4>1, <4>2, <4>5 DEF Transferring, Filling, Pages
      <4>6. CASE job = "recover" /\ Recovering
        BY <1>1, <1>2, <1>6, <4>6 DEF Recovering, Filling, NotBoth, Statuses, Pages
      <4>7. CASE job = "tidy" /\ Tidying
        BY <1>2, <4>2, <4>7 DEF Tidying
      <4>8. CASE job = "format" /\ Formatting
        BY <4>8 DEF Formatting, Statuses, Empty, Pages
      <4> QED
        BY <1>1, <4>3, <4>4, <4>5, <4>6, <4>7, <4>8 DEF Inv, Shape
    <3> QED
      BY <1>1, <1>6, <3>1 DEF Off, Statuses
  <2>3. NotBoth
    BY <1>1, <1>6 DEF NotBoth
  <2>4. Decides
    BY <1>1, <1>5, <1>6, <2>3, HeldSame DEF Decides, Kept
  <2> QED
    BY <1>1, <1>4, <2>1, <2>2, <2>4 DEF Inv, Shape
<1>7. CASE page' # page
  <2>1. PICK p \in Erasing : page' = Marked(p, "erased")
    BY <1>7 DEF PowerLoss, HalfErased
  <2>2. p \in Pages /\ 1 - p \in Pages
    BY DEF Erasing, Pages
  <2>3. page' \in PageType /\ page'[p] = [status |-> "erased", log |-> page[p].log] /\ page'[1 - p] = page[1 - p]
    BY <1>2, <2>1, <2>2, SetPage
  <2>4. Types'
    BY <1>3, <2>3
  <2>5. HeldCases /\ HeldCases'
    BY <2>4, HeldCasesHold, NextCases DEF Inv
  <2>6. Copies'
    <3>1. \A q \in Pages : ~Statuses(q, "receive", "valid")'
      BY <2>2, <2>3 DEF Statuses, Pages
    <3> QED
      BY <3>1 DEF Copies
  <2>7. CASE pc = "erase" /\ p # to
    <3>1. p = 1 - to /\ 1 - p = to
      BY <1>2, <2>2, <2>7 DEF Pages
    <3>2. \/ job = "transfer" /\ Filling
          \/ job = "recover" /\ call = NoCall /\ Statuses(to, "valid", "valid")
          \/ job = "tidy" /\ call = NoCall /\ (Statuses(to, "valid", "erased") \/ Statuses(to, "receive", "erased"))
      BY <2>7 DEF Inv, Shape, Off, Ready, Appending, Transferring, Recovering, Tidying, Formatting
    <3>3. page'[to] = page[to] /\ page'[1 - to].status = "erased" /\ page[to].status \in {"receive", "valid"}
      BY <2>3, <3>1, <3>2 DEF Filling, Statuses
    <3>4. Off'
      <4>1. \E q \in Pages : \/ page'[q].status = "valid" /\ page'[1 - q].status = "erased"
                             \/ page'[q].status = "receive" /\ page'[1 - q].status = "erased"
        BY <1>2, <3>3
      <4> QED
        BY <1>1, <4>1 DEF Off, Statuses
    <3>5. ASSUME NEW v \in Table PROVE Lookup(page[to].log, v) \in Kept(v) /\ Kept(v)' = {Lookup(page[to].log, v)}
      <4>1. Held(v)' = {Lookup(page[to].log, v)}
        BY <1>2, <2>5, <3>3 DEF HeldCases, Statuses
      <4>2. CASE job = "transfer" /\ Filling
        BY <1>1, <2>7, <4>1, <4>2, NewHolds DEF Kept
      <4>3. CASE ~Filling
        <5>1. Held(v) = {Lookup(page[to].log, v)}
          BY <1>2, <2>5, <3>2, <4>3 DEF HeldCases
        <5> QED
          BY <1>1, <4>1, <5>1 DEF Kept
      <4> QED
        BY <3>2, <4>2, <4>3 DEF Filling, Statuses
    <3>6. Decides
      BY <3>5 DEF Decides
    <3> QED
      BY <1>1, <1>4, <2>4, <2>6, <3>4, <3>6 DEF Inv, Shape
  <2>8. CASE (pc = "format_erase0" /\ p = 0) \/ (pc = "format_erase1" /\ p = 1)
    <3>1. job = "format" /\ Formatting
      BY <2>8 DEF Inv, Shape, Off, Ready, Appending, Transferring, Recovering, Tidying, Formatting
    <3>2. page[p] = Empty /\ (page[1 - p] = Empty \/ page[1 - p].status = "valid")
      BY <2>8, <3>1 DEF Formatting
    <3>3. page' = page
      <4>1. [status |-> "erased", log |-> page[p].log] = page[p]
        BY <3>2 DEF Empty
      <4> QED
        BY <1>2, <2>1, <2>2, <4>1 DEF PageType, Marked
    <3> QED
      BY <1>7, <3>3
  <2> QED
    BY <2>1, <2>7, <2>8 DEF Erasing
<1> QED
  BY <1>6, <1>7

(***************************************************************************)
(* The invariant, and the refinement                                       *)
(***************************************************************************)
Lucky == "power" \notin Misfortunes /\ "flash" \notin Misfortunes

\* The erased pages EE_Init formats satisfy the invariant.
LEMMA InitInv == Init => Inv
<1> SUFFICES ASSUME Init PROVE Inv
  OBVIOUS
<1>1. Types
  BY DEF Init, Types, Pages, Empty, Calls
<1>2. Shape
  BY DEF Init, Shape, Off, Pages
<1>3. HalfWritten /\ Copies /\ Transferred /\ Copying /\ First /\ Done
  BY DEF Init, HalfWritten, Copies, Transferred, Copying, First, Done, Moving, Statuses, Empty, Pages
<1> QED
  BY <1>1, <1>2, <1>3 DEF Inv

\* Nothing happens.
LEMMA StutterStep == Inv /\ UNCHANGED vars => Inv' /\ Same
<1> SUFFICES ASSUME Inv, UNCHANGED vars PROVE Inv' /\ Same
  OBVIOUS
<1>1. UNCHANGED <<page, pc, job, to, item, todo, call, result, resets>>
  BY DEF vars, control
<1>2. Types' /\ Shape' /\ HalfWritten'
  BY <1>1 DEF Inv, Types, Shape, Off, Ready, Appending, Transferring, Recovering, Tidying, Formatting,
              Serves, Alone, Filling, Statuses, HalfWritten, WritePage
<1>3. (Copies /\ Transferred /\ Copying /\ First /\ Done)'
  BY <1>1 DEF Inv, Copies, Transferred, Copying, First, Done, Moving, Filling, Writing, Statuses
<1>4. Same
  BY <1>1 DEF Same, Kept, Held, Sole, Statuses, ReadVariable, ReadPage
<1> QED
  BY <1>2, <1>3, <1>4 DEF Inv

\* Every step is one of the promise.
Promised ==
    \/ \E v \in Table, d \in Vals : /\ call = NoCall /\ call' = [var |-> v, data |-> d] /\ result' = "none"
                                    /\ \A u \in Table : Kept(u)' = Kept(u) \cup (IF u = v THEN {d} ELSE {})
    \/ Completes
    \/ Fails
    \/ Decides /\ call' = NoCall /\ result' = "none"
    \/ Decides /\ UNCHANGED <<call, result>>

\* Every step keeps the invariant, and is one of the steps the promise allows.
LEMMA NextStep == Lucky /\ Inv /\ [Next]_vars => Inv' /\ Promised
<1> SUFFICES ASSUME Lucky, Inv, [Next]_vars PROVE Inv' /\ Promised
  OBVIOUS
<1>1. ASSUME NEW v \in Table, NEW d \in Vals, WriteVariable(v, d) PROVE Inv' /\ Promised
  <2>1. call' = [var |-> v, data |-> d] /\ result' = "none"
    BY <1>1 DEF WriteVariable
  <2> QED
    BY <1>1, <2>1, WriteVariableStep DEF Promised
<1>2. CASE WriteData
  BY <1>2, WriteDataStep, SameDecides DEF Promised, WriteData
<1>3. CASE WriteAddress
  BY <1>3, WriteAddressStep, SameDecides DEF Promised
<1>4. CASE PageFull
  BY <1>4, PageFullStep, SameDecides DEF Promised
<1>5. CASE MarkReceive
  BY <1>5, MarkReceiveStep, SameDecides DEF Promised, MarkReceive
<1>6. ASSUME NEW v \in Table, Copy(v) PROVE Inv' /\ Promised
  BY <1>6, CopyStep, SameDecides DEF Promised, Copy
<1>7. CASE Copied
  BY <1>7, CopiedStep, SameDecides DEF Promised, Copied, CopiedUnchecked
<1>8. CASE EraseOld
  BY <1>8, EraseOldStep DEF Promised, EraseOld
<1>9. CASE MarkValid
  BY <1>9, MarkValidStep DEF Promised
<1>10. CASE EE_Init
  BY <1>10, EE_InitStep, SameDecides DEF Promised, EE_Init
<1>11. CASE Format
  BY <1>11, FormatStep, SameDecides DEF Promised, Format
<1>12. CASE ProgramFails
  BY <1>12, ProgramFailsStep DEF Promised, Lucky
<1>13. CASE PowerLoss
  BY <1>13, PowerLossStep DEF Promised, PowerLoss, Lucky
<1>14. CASE UNCHANGED vars
  BY <1>14, StutterStep, SameDecides DEF Promised, vars
<1> QED
  BY <1>1, <1>2, <1>3, <1>4, <1>5, <1>6, <1>7, <1>8, <1>9, <1>10, <1>11, <1>12, <1>13, <1>14 DEF Next, Step

\* Where a step narrows what may be read, the abstract store settles.
LEMMA DecidesSettles == Decides => Promise!Settles
BY DEF Decides, Promise!Settles

\* The steps the promise allows are the steps of Store.
LEMMA PromisedNext == Inv /\ Promised => [Promise!Next]_(Promise!vars)
<1> SUFFICES ASSUME Inv, Promised PROVE Promise!Next
  OBVIOUS
<1>1. ASSUME NEW v \in Table, NEW d \in Vals, call = NoCall, call' = [var |-> v, data |-> d], result' = "none",
             \A u \in Table : Kept(u)' = Kept(u) \cup (IF u = v THEN {d} ELSE {})
      PROVE  Promise!Next
  <2> DEFINE w == [var |-> v, data |-> d]
  <2>1. w \in Promise!Write /\ w.var = v /\ w.data = d
    BY DEF Promise!Write
  <2>2. [u \in Table |-> Kept(u)'] = [u \in Table |-> IF u = v THEN [x \in Table |-> Kept(x)][u] \cup {d}
                                                  ELSE [x \in Table |-> Kept(x)][u]]
    BY <1>1
  <2>3. Promise!Call(w)
    BY <1>1, <2>1, <2>2 DEF Promise!Call
  <2> QED
    BY <2>1, <2>3 DEF Promise!Next
<1>2. CASE Completes
  <2>1. call.var \in Table
    BY <1>2 DEF Inv, Types, Calls, Write, Completes
  <2>2. [v \in Table |-> Kept(v)'][call.var] = {call.data}
    BY <1>2, <2>1 DEF Completes
  <2>3. Promise!Complete
    BY <1>2, <2>2, DecidesSettles DEF Completes, Promise!Complete
  <2> QED
    BY <2>3 DEF Promise!Next
<1>3. CASE Fails
  BY <1>3, DecidesSettles DEF Fails, Promise!Fail, Promise!Next
<1>4. CASE Decides /\ call' = NoCall /\ result' = "none"
  BY <1>4, DecidesSettles DEF Promise!PowerLoss, Promise!Next
<1>5. CASE Decides /\ UNCHANGED <<call, result>>
  BY <1>5, DecidesSettles DEF Promise!Settle, Promise!Next
<1> QED
  BY <1>1, <1>2, <1>3, <1>4, <1>5 DEF Promised

\* On erased pages every variable reads as not found, as Store begins.
LEMMA InitPromised == Init => Promise!Init
<1> SUFFICES ASSUME Init PROVE Promise!Init
  OBVIOUS
<1>1. Types
  BY InitInv DEF Inv
<1>2. \A v \in Table : Kept(v) = {NotFound}
  BY <1>1, HeldCasesHold DEF Init, Pages, HeldCases, Kept
<1> QED
  BY <1>2 DEF Init, Promise!Init

\* With neither misfortune the invariant holds in every state.
LEMMA InvHolds == Lucky => (Spec => []Inv)
<1> SUFFICES ASSUME Lucky PROVE Spec => []Inv
  OBVIOUS
<1>1. Inv /\ [Next]_vars => Inv'
  BY NextStep
<1> QED
  BY InitInv, <1>1, PTL DEF Spec

\* For every table of variables, every size of the pages and any number of power
\* losses: power lost at any moment but the one left out loses nothing that a
\* completed write had stored (EE_Init, EE_PageTransfer, EE_WriteVariable).
THEOREM KeepsPromiseHolds == Lucky => (Spec => KeepsPromise)
<1> SUFFICES ASSUME Lucky PROVE Spec => KeepsPromise
  OBVIOUS
<1>1. Inv /\ [Next]_vars => [Promise!Next]_(Promise!vars)
  BY NextStep, PromisedNext
<1>2. Lucky => (Spec => []Inv)
  BY InvHolds
<1> QED
  BY InitPromised, <1>1, <1>2, PTL DEF Spec, KeepsPromise, Promise!Spec
=============================================================================
