---------------------------- MODULE MailboxProofs ----------------------------
(* What a post and a fetch do to any mailbox. *)
EXTENDS Mailbox, TLAPS

\* A post leaves a mailbox a mailbox, full or not.
LEMMA PostType ==
    ASSUME NEW Msg, NEW mbox \in MailboxOf(Msg), NEW msg \in Msg
    PROVE  Post(mbox, msg) \in MailboxOf(Msg)
BY QueueAssumption DEF Post, MailboxOf

\* A fetch takes a message of the mailbox and leaves one shorter by it.
LEMMA FetchType ==
    ASSUME NEW Msg, NEW mbox \in MailboxOf(Msg), NEW msg, NEW rest,
           Fetches(mbox, msg, rest)
    PROVE  msg \in Msg /\ rest \in MailboxOf(Msg)
<1>1. mbox \in Seq(Msg) /\ mbox # <<>> /\ Len(mbox) <= QUEUE_SZ
  BY DEF MailboxOf, Fetches
<1>2. Tail(mbox) \in Seq(Msg) /\ Len(Tail(mbox)) = Len(mbox) - 1 /\ Head(mbox) \in Msg
  BY <1>1
<1> QED BY <1>1, <1>2, QueueAssumption DEF MailboxOf, Fetches
=============================================================================
