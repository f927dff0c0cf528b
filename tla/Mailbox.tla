------------------------------ MODULE Mailbox ------------------------------
(***************************************************************************)
(* The IPC mailbox array of the kernel (kernel/src/ipc/mailbox.rs, re-     *)
(* exported by kernel/src/ipc.rs as kernel_send/kernel_recv/kernel_peek).  *)
(*                                                                         *)
(* MAILBOXES : [Option<Mailbox>; MAX_CHANNELS] -> mbox                     *)
(* A slot that is None behaves for recv and peek exactly like an empty     *)
(* mailbox, and send creates it before enqueuing, so the model keeps only  *)
(* the queue and starts every slot empty.  A message keeps its sender id   *)
(* and the length of its payload: the kernel only ever compares that       *)
(* length with the receiver's capacity and returns it.                     *)
(*                                                                         *)
(* send calls task::unblock_task_on_channel(channel_id), whose parameter   *)
(* is a task id: the channel id itself is used as the id of the task to    *)
(* wake (mailbox.rs:58, task.rs:43).                                        *)
(***************************************************************************)
EXTENDS Scheduler

CONSTANTS
    NumChannels,   \* MAX_CHANNELS (32 in the code)
    PayloadLens,   \* payload lengths senders use
    MaxMsgs        \* model bound on the length of one mailbox queue

ASSUME MailboxAssumption ==
    /\ NumChannels \in Nat \ {0}
    /\ PayloadLens \subseteq Nat
    /\ MaxMsgs \in Nat \ {0}

Channels == 0..(NumChannels - 1)

\* Channel arguments a caller can pass: every valid id and the first invalid one.
ChannelArgs == 0..NumChannels

Message == [sender : TaskIds, len : Nat]

VARIABLE mbox

MailboxInit == mbox = [c \in Channels |-> <<>>]

\* The range check every mailbox function starts with.
InRange(c) == c < NumChannels

\* mailbox::peek: the channel is in range and its queue is non-empty.
Peek(c) == InRange(c) /\ mbox[c] # <<>>

(***************************************************************************)
(* mailbox::send(c, sender, data) when c is in range: append the message,  *)
(* then unblock the task whose id equals c.  Out of range it changes       *)
(* nothing and returns Err (the caller decides what that means).           *)
(***************************************************************************)
Send(c, sender, len) ==
    IF InRange(c)
    THEN /\ Len(mbox[c]) < MaxMsgs
         /\ mbox' = [mbox EXCEPT ![c] = Append(@, [sender |-> sender, len |-> len])]
         /\ UnblockTask(c)
    ELSE UNCHANGED <<mbox, schedVars>>

(***************************************************************************)
(* mailbox::recv(c) when Peek(c): the head message is removed.  The        *)
(* caller reads it as Head(mbox[c]) in the same step.                      *)
(***************************************************************************)
\* Mutant: the receive removes the newest message instead of the oldest.
MutRecvTail(c) == mbox' = [mbox EXCEPT ![c] = SubSeq(@, 1, Len(@) - 1)]

RecvHead(c) == mbox' = [mbox EXCEPT ![c] = Tail(@)]

MailboxTypeOK == mbox \in [Channels -> Seq(Message)]

=============================================================================
