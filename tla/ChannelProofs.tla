--------------------------- MODULE ChannelProofs ---------------------------
(***************************************************************************)
(* The kernel's mailbox array implements the FIFO channel specification   *)
(* (Channel.tla) under the mapping chan <- mbox, for every value of the    *)
(* constants: each kernel step appends one message to the tail of one      *)
(* channel, removes the head of one non-empty channel, or leaves every     *)
(* mailbox alone.  The type invariant of KernelProofs supplies the facts   *)
(* the mapping needs: a sender is a task id, and an IRQ is bound to a      *)
(* channel argument.                                                       *)
(***************************************************************************)
EXTENDS KernelProofs

(* A step of the abstract channels, or one that leaves them alone.        *)
ChanStep == [ChanAbs!ChanNext]_mbox

(* mailbox::send from sender s: in range it is an abstract send of the     *)
(* message {s, len}; out of range it changes no mailbox.                  *)
LEMMA SendRefines ==
    ASSUME NEW c \in ChannelArgs, NEW s \in TaskIds, NEW len \in PayloadLens \cup {1},
           Send(c, s, len)
    PROVE  ChanStep
<1>1. CASE InRange(c)
    <2>1. c \in Channels
        BY <1>1, MailboxAssumption DEF InRange, ChannelArgs, Channels
    <2>2. [sender |-> s, len |-> len] \in Sendable  BY DEF Sendable
    <2>3. ChanAbs!ChanSend(c, [sender |-> s, len |-> len])
        BY <1>1 DEF Send, ChanAbs!ChanSend
    <2>. QED  BY <2>1, <2>2, <2>3 DEF ChanStep, ChanAbs!ChanNext
<1>2. CASE ~InRange(c)  BY <1>2 DEF Send, ChanStep
<1>. QED  BY <1>1, <1>2

(* mailbox::recv after a successful peek: an abstract receive.            *)
LEMMA RecvRefines ==
    ASSUME NEW c \in ChannelArgs, Peek(c), RecvHead(c)
    PROVE  ChanStep
<1>1. c \in Channels /\ mbox[c] # <<>>
    BY MailboxAssumption DEF Peek, InRange, ChannelArgs, Channels
<1>2. ChanAbs!ChanRecv(c)  BY <1>1 DEF RecvHead, ChanAbs!ChanRecv
<1>. QED  BY <1>1, <1>2 DEF ChanStep, ChanAbs!ChanNext

(* SYS_IPC_SEND sends with the caller's id, or is refused.                *)
LEMMA SysIpcSendRefines ==
    ASSUME NEW t \in VNodeIds, NEW c \in ChannelArgs, NEW len \in PayloadLens,
           SysIpcSend(t, c, len)
    PROVE  ChanStep
<1>1. CASE CapsOf(t) \cap {IpcManage} = {}
    BY <1>1 DEF SysIpcSend, Gated, state, ChanStep
<1>2. CASE CapsOf(t) \cap {IpcManage} # {}
    <2>1. Send(c, t, len)  BY <1>2 DEF SysIpcSend, Gated
    <2>2. t \in TaskIds  BY DEF VNodeIds
    <2>. QED  BY <2>1, <2>2, SendRefines
<1>. QED  BY <1>1, <1>2

(* The two receives take the head when they peek a message, and otherwise *)
(* block or return SUCCESS without touching a mailbox.                    *)
LEMMA SysIpcRecvRefines ==
    ASSUME NEW t \in VNodeIds, NEW c \in ChannelArgs, NEW cap \in OutCaps,
           SysIpcRecv(t, c, cap) \/ SysIpcRecvNB(t, c, cap)
    PROVE  ChanStep
<1>1. CASE CapsOf(t) \cap {IpcManage} # {} /\ Peek(c)
    <2>1. RecvHead(c)  BY <1>1 DEF SysIpcRecv, SysIpcRecvNB, Gated, Deliver
    <2>. QED  BY <1>1, <2>1, RecvRefines
<1>2. CASE ~(CapsOf(t) \cap {IpcManage} # {} /\ Peek(c))
    BY <1>2 DEF SysIpcRecv, SysIpcRecvNB, Gated, BlockOn, state, ChanStep
<1>. QED  BY <1>1, <1>2

(* handle_irq sends {0, 1 byte} to a bound channel, which the type        *)
(* invariant places among the channel arguments.                          *)
LEMMA HandleIrqRefines ==
    ASSUME IInv, NEW n \in Irqs, HandleIrq(n)
    PROVE  ChanStep
<1>1. CASE Bound(n)
    <2>1. irqMap[n] \in ChannelArgs  BY <1>1 DEF Bound, IInv, StateOK, IrqTypeOK
    <2>2. Send(irqMap[n], KernelTask, 1)  BY <1>1 DEF HandleIrq
    <2>3. KernelTask \in TaskIds  BY SchedAssumption
    <2>. QED  BY <2>1, <2>2, <2>3, SendRefines
<1>2. CASE ~Bound(n)  BY <1>2 DEF HandleIrq, ChanStep
<1>. QED  BY <1>1, <1>2

(* Every other syscall leaves the mailboxes alone, allowed or refused.     *)
LEMMA OtherSyscallsKeepMailboxes ==
    ASSUME NEW t \in VNodeIds,
           \/ SysLog(t)
           \/ \E c \in ChannelArgs : SysBlockOnChan(t, c)
           \/ SysTime(t)
           \/ \E n \in Irqs, c \in ChannelArgs : SysIrqRegister(t, n, c)
           \/ \E h \in HandleArgs, cap \in OutCaps : SysNetRxPoll(t, h, cap)
           \/ \E size \in AllocSizes : SysNetAllocBuf(t, size)
           \/ \E h \in HandleArgs : SysNetFreeBuf(t, h)
           \/ \E h \in HandleArgs : SysNetTx(t, h)
           \/ \E n \in Irqs : SysIrqAck(t, n)
           \/ \E h \in HandleArgs : SysGetDmaBufPtr(t, h)
           \/ \E h \in HandleArgs, n \in SetLenArgs : SysSetDmaBufLen(t, h, n)
           \/ SysUnknown(t)
    PROVE  ChanStep
    BY DEF SysLog, SysBlockOnChan, SysTime, SysIrqRegister, SysNetRxPoll,
           SysNetAllocBuf, SysNetFreeBuf, SysNetTx, SysIrqAck, SysGetDmaBufPtr,
           SysSetDmaBufLen, SysUnknown, Gated, BlockOn, state, ChanStep

(* Every kernel step is a channel step or leaves the channels alone.      *)
LEMMA NextRefines == IInv /\ [Next]_vars => ChanStep
<1>. SUFFICES ASSUME IInv, [Next]_vars PROVE ChanStep  OBVIOUS
<1>1. CASE \E t \in VNodeIds : Load(t)  BY <1>1 DEF Load, ChanStep
<1>2. CASE Yield  BY <1>2 DEF Yield, ChanStep
<1>3. CASE \E n \in Irqs : HandleIrq(n)  BY <1>3, HandleIrqRefines
<1>4. CASE \E t \in VNodeIds : Syscall(t)
    <2>. PICK t \in VNodeIds : Syscall(t)  BY <1>4
    <2>1. CASE \E c \in ChannelArgs, len \in PayloadLens : SysIpcSend(t, c, len)
        BY <2>1, SysIpcSendRefines
    <2>2. CASE \E c \in ChannelArgs, cap \in OutCaps :
                   SysIpcRecv(t, c, cap) \/ SysIpcRecvNB(t, c, cap)
        BY <2>2, SysIpcRecvRefines
    <2>3. CASE ~(\/ \E c \in ChannelArgs, len \in PayloadLens : SysIpcSend(t, c, len)
                 \/ \E c \in ChannelArgs, cap \in OutCaps :
                        SysIpcRecv(t, c, cap) \/ SysIpcRecvNB(t, c, cap))
        BY <2>3, OtherSyscallsKeepMailboxes DEF Syscall
    <2>. QED  BY <2>1, <2>2, <2>3
<1>5. CASE UNCHANGED vars  BY <1>5 DEF vars, ChanStep
<1>. QED  BY <1>1, <1>2, <1>3, <1>4, <1>5 DEF Next

(***************************************************************************)
(* The mailbox array refines the FIFO channels: in every behaviour of the  *)
(* kernel, a receiver of channel c gets c's messages in the order the      *)
(* sends -- IPC_SEND from V-Nodes and handle_irq's one-byte notices --     *)
(* appended them, and no kernel path reorders, duplicates or drops a       *)
(* queued message.                                                         *)
(***************************************************************************)
THEOREM MailboxRefinement == Spec => MailboxIsFifo
<1>1. Init => ChanAbs!ChanInit  BY DEF Init, MailboxInit, ChanAbs!ChanInit
<1>2. IInv /\ [Next]_vars => [ChanAbs!ChanNext]_mbox  BY NextRefines DEF ChanStep
<1>3. Spec => []IInv  BY InitOK, NextOK, PTL DEF Spec
<1>. QED  BY <1>1, <1>2, <1>3, PTL DEF Spec, MailboxIsFifo, ChanAbs!ChanSpec

=============================================================================
