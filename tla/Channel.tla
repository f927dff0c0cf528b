------------------------------ MODULE Channel ------------------------------
(***************************************************************************)
(* What the mailbox layer promises its users, stated without the kernel:   *)
(* a set of channels, each a first-in first-out queue of messages.  A send *)
(* appends one message to the tail of one channel; a receive removes the   *)
(* head of one non-empty channel.  Nothing else ever changes a queue, so   *)
(* for one sender and one receiver the receiver observes the sender's      *)
(* messages in program order (spec section 7, "Ordering guarantees").      *)
(*                                                                         *)
(* The kernel's mailbox array (Mailbox, driven by Kernel) implements this  *)
(* specification under the identity mapping chan <- mbox; the service      *)
(* models use it as their transport.                                       *)
(***************************************************************************)
EXTENDS Sequences

CONSTANTS
    ChanIds,   \* the channel ids
    Msgs       \* the messages a send may carry

VARIABLE chan

ChanInit == chan = [c \in ChanIds |-> <<>>]

\* kernel_send(c, ..): the message joins the tail of channel c.
ChanSend(c, m) == chan' = [chan EXCEPT ![c] = Append(@, m)]

\* kernel_recv(c) on a non-empty channel: its head leaves the queue.
ChanRecv(c) ==
    /\ chan[c] # <<>>
    /\ chan' = [chan EXCEPT ![c] = Tail(@)]

ChanNext ==
    \E c \in ChanIds :
        \/ \E m \in Msgs : ChanSend(c, m)
        \/ ChanRecv(c)

ChanSpec == ChanInit /\ [][ChanNext]_chan

ChanTypeOK == chan \in [ChanIds -> Seq(Msgs)]

=============================================================================
