------------------------------- MODULE Mailbox -------------------------------
(***************************************************************************)
(* The mailboxes of the DPV application: ChibiOS circular queues of        *)
(* QUEUE_SZ words.  A writer posts with TIME_IMMEDIATE and throws the      *)
(* result away, so a message that finds the queue full is lost.  The one   *)
(* reader of a mailbox fetches with a timeout: it gets the oldest message  *)
(* if there is one, and MSG_TIMEOUT only when the queue stayed empty.      *)
(***************************************************************************)
EXTENDS Naturals, Sequences

CONSTANT QUEUE_SZ    \* slots of a mailbox

ASSUME QueueAssumption == QUEUE_SZ \in Nat \ {0}

\* A period given to chMBFetch.  Periods are not told apart: whether a reader
\* may time out at all is what its behaviour depends on.
INFINITE == "TIME_INFINITE"
FINITE == "FINITE"
Timeout == {INFINITE, FINITE}

\* Mutant: no test for room
PostUnchecked(mbox, msg) == Append(mbox, msg)

\* chMBPost(.., TIME_IMMEDIATE): append, or drop when there is no room
Post(mbox, msg) == IF Len(mbox) < QUEUE_SZ THEN Append(mbox, msg) ELSE mbox

\* chMBFetch finds msg waiting and leaves rest behind
Fetches(mbox, msg, rest) == mbox # <<>> /\ msg = Head(mbox) /\ rest = Tail(mbox)

\* chMBFetch gives up: nothing waits and the period was finite
TimesOut(mbox, timeout, rest) == mbox = <<>> /\ timeout # INFINITE /\ rest = mbox

\* The contents a mailbox for these messages can have
MailboxOf(Msg) == {q \in Seq(Msg) : Len(q) <= QUEUE_SZ}
==============================================================================
