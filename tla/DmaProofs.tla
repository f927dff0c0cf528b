----------------------------- MODULE DmaProofs -----------------------------
(***************************************************************************)
(* Proofs about the DMA registry inside the whole kernel: no live buffer's *)
(* length exceeds its capacity, and handles are never reissued, for every  *)
(* value of the constants.  Only four syscalls touch the registry; every   *)
(* other step leaves NEXT_HANDLE and DMA_BUFFERS as they were.             *)
(***************************************************************************)
EXTENDS KernelProofs

(* The two DMA invariants the MCKernel run checks.                         *)
DmaOK == LenWithinCapacity /\ HandlesFresh

(* A step that leaves the registry alone keeps both invariants.          *)
LEMMA DmaFrame ==
    ASSUME DmaOK, UNCHANGED dmaVars
    PROVE  DmaOK'
    BY DEF DmaOK, LenWithinCapacity, HandlesFresh, Live, dmaVars

(* alloc_dma_buffer: the handle taken is the first never-issued one; it   *)
(* becomes live and empty, and NEXT_HANDLE moves past it.                *)
LEMMA AllocDma ==
    ASSUME DmaTypeOK, DmaOK, NEW size \in AllocSizes, AllocBuf(size)
    PROVE  DmaOK'
<1>. USE DmaAssumption
<1>1. nextHandle \in Handles  BY DEF AllocBuf, DmaTypeOK, Handles
<1>2. LenWithinCapacity'
    BY <1>1 DEF AllocBuf, DmaTypeOK, Buffer, DmaOK, LenWithinCapacity, Live
<1>3. HandlesFresh'
    BY <1>1 DEF AllocBuf, DmaTypeOK, Handles, DmaOK, HandlesFresh
<1>. QED  BY <1>2, <1>3 DEF DmaOK

(* free_dma_buffer: a live entry becomes removed, never "never" again.    *)
LEMMA FreeDma ==
    ASSUME DmaTypeOK, DmaOK, NEW h, FreeBuf(h)
    PROVE  DmaOK'
    BY DEF FreeBuf, FreedBuf, DmaTypeOK, DmaOK, LenWithinCapacity, HandlesFresh, Live

(* set_dma_buffer_len writes n only when n is within the capacity.        *)
LEMMA SetLenDma ==
    ASSUME DmaTypeOK, DmaOK, NEW h, NEW n \in Nat, SetLen(h, n)
    PROVE  DmaOK'
    BY DEF SetLen, SetLenOk, DmaTypeOK, Buffer, DmaOK, LenWithinCapacity,
           HandlesFresh, Live

(* A syscall refused or taken on the quiet path leaves the registry.      *)
LEMMA SysNetAllocBufDma ==
    ASSUME IInv, DmaOK, NEW t \in VNodeIds, NEW size \in AllocSizes,
           SysNetAllocBuf(t, size)
    PROVE  DmaOK'
<1>1. DmaTypeOK  BY DEF IInv, StateOK
<1>. QED  BY <1>1, AllocDma, DmaFrame DEF SysNetAllocBuf, Gated, state, dmaVars

(* SYS_NET_FREE_BUF frees through free_dma_buffer.                         *)
LEMMA SysNetFreeBufDma ==
    ASSUME IInv, DmaOK, NEW t \in VNodeIds, NEW h \in HandleArgs, SysNetFreeBuf(t, h)
    PROVE  DmaOK'
<1>1. DmaTypeOK  BY DEF IInv, StateOK
<1>. QED  BY <1>1, FreeDma, DmaFrame DEF SysNetFreeBuf, Gated, state, dmaVars

(* SYS_SET_DMA_BUF_LEN sets the length through set_dma_buffer_len.       *)
LEMMA SysSetDmaBufLenDma ==
    ASSUME IInv, DmaOK, NEW t \in VNodeIds, NEW h \in HandleArgs, NEW n \in SetLenArgs,
           SysSetDmaBufLen(t, h, n)
    PROVE  DmaOK'
<1>1. DmaTypeOK /\ n \in Nat  BY KernelAssumption DEF IInv, StateOK
<1>. QED  BY <1>1, SetLenDma, DmaFrame DEF SysSetDmaBufLen, Gated, state, dmaVars

(* NET_RX_POLL: the copy changes only "filled", and the length becomes 98 *)
(* only when set_len finds 98 within the capacity.                        *)
LEMMA SysNetRxPollDma ==
    ASSUME IInv, DmaOK, NEW t \in VNodeIds, NEW h \in HandleArgs, NEW cap \in OutCaps,
           SysNetRxPoll(t, h, cap)
    PROVE  DmaOK'
<1>1. CASE CapsOf(t) \cap {NetworkAccess} # {} /\ PacketLen <= cap /\ Live(h)
    <2>. DEFINE copied == [dbuf EXCEPT ![h].filled = PacketLen]
    <2>1. h \in Handles /\ dbuf \in [Handles -> Buffer]
        BY <1>1 DEF Live, IInv, StateOK, DmaTypeOK
    <2>2. UNCHANGED nextHandle  BY <1>1 DEF SysNetRxPoll, Gated
    <2>3. CASE SetLenOk(h, PacketLen)
        <3>1. dbuf' = [copied EXCEPT ![h].len = PacketLen]
            BY <1>1, <2>3 DEF SysNetRxPoll, Gated
        <3>2. PacketLen <= dbuf[h].cap  BY <2>3 DEF SetLenOk
        <3>. QED  BY <2>1, <2>2, <3>1, <3>2
                  DEF DmaOK, LenWithinCapacity, HandlesFresh, Live, Buffer
    <2>4. CASE ~SetLenOk(h, PacketLen)
        <3>1. dbuf' = copied  BY <1>1, <2>4 DEF SysNetRxPoll, Gated, SetLenOk, Live
        <3>. QED  BY <2>1, <2>2, <3>1
                  DEF DmaOK, LenWithinCapacity, HandlesFresh, Live, Buffer
    <2>. QED  BY <2>3, <2>4
<1>2. CASE ~(CapsOf(t) \cap {NetworkAccess} # {} /\ PacketLen <= cap /\ Live(h))
    BY <1>2, DmaFrame DEF SysNetRxPoll, Gated, state, dmaVars
<1>. QED  BY <1>1, <1>2

(* Every other syscall leaves NEXT_HANDLE and DMA_BUFFERS unchanged: it is *)
(* refused, or changes only the scheduler, the mailboxes or the IRQ map.  *)
LEMMA OtherSyscallsQuiet ==
    ASSUME NEW t \in VNodeIds,
           \/ SysLog(t)
           \/ \E c \in ChannelArgs, len \in PayloadLens : SysIpcSend(t, c, len)
           \/ \E c \in ChannelArgs, cap \in OutCaps : SysIpcRecv(t, c, cap)
           \/ \E c \in ChannelArgs, cap \in OutCaps : SysIpcRecvNB(t, c, cap)
           \/ \E c \in ChannelArgs : SysBlockOnChan(t, c)
           \/ SysTime(t)
           \/ \E n \in Irqs, c \in ChannelArgs : SysIrqRegister(t, n, c)
           \/ \E h \in HandleArgs : SysNetTx(t, h)
           \/ \E n \in Irqs : SysIrqAck(t, n)
           \/ \E h \in HandleArgs : SysGetDmaBufPtr(t, h)
           \/ SysUnknown(t)
    PROVE  UNCHANGED dmaVars
    BY DEF SysLog, SysIpcSend, SysIpcRecv, SysIpcRecvNB, SysBlockOnChan, SysTime,
           SysIrqRegister, SysNetTx, SysIrqAck, SysGetDmaBufPtr, SysUnknown,
           Gated, BlockOn, Deliver, state, dmaVars

(* The inductive invariant of the DMA theorems: the kernel invariant,     *)
(* which types the registry, and the two DMA invariants.                  *)
DInv == IInv /\ DmaOK

(* The registry starts with NEXT_HANDLE = 1 and no buffer issued.         *)
LEMMA DmaInitOK == Init => DInv
<1>. SUFFICES ASSUME Init PROVE DInv  OBVIOUS
<1>1. IInv  BY InitOK
<1>2. DmaOK
    BY DmaAssumption DEF Init, DmaInit, NeverBuf, Handles, DmaOK, LenWithinCapacity,
                         HandlesFresh, Live
<1>. QED  BY <1>1, <1>2 DEF DInv

(* Every kernel step keeps the DMA invariants: one case for each of the   *)
(* four syscalls that reach dma.rs, and a frame case for all the rest.    *)
LEMMA DmaNextOK == DInv /\ [Next]_vars => DInv'
<1>. SUFFICES ASSUME DInv, [Next]_vars PROVE DInv'  OBVIOUS
<1>1. IInv'  BY NextOK DEF DInv
<1>2. DmaOK'
    <2>1. CASE \E t \in VNodeIds : Load(t)  BY <2>1, DmaFrame DEF Load, DInv, dmaVars
    <2>2. CASE Yield  BY <2>2, DmaFrame DEF Yield, DInv, dmaVars
    <2>3. CASE \E n \in Irqs : HandleIrq(n)
        BY <2>3, DmaFrame DEF HandleIrq, DInv, dmaVars
    <2>4. CASE \E t \in VNodeIds : Syscall(t)
        <3>. PICK t \in VNodeIds : Syscall(t)  BY <2>4
        <3>1. CASE \E size \in AllocSizes : SysNetAllocBuf(t, size)
            BY <3>1, SysNetAllocBufDma DEF DInv
        <3>2. CASE \E h \in HandleArgs : SysNetFreeBuf(t, h)
            BY <3>2, SysNetFreeBufDma DEF DInv
        <3>3. CASE \E h \in HandleArgs, n \in SetLenArgs : SysSetDmaBufLen(t, h, n)
            BY <3>3, SysSetDmaBufLenDma DEF DInv
        <3>4. CASE \E h \in HandleArgs, cap \in OutCaps : SysNetRxPoll(t, h, cap)
            BY <3>4, SysNetRxPollDma DEF DInv
        <3>5. CASE ~(\/ \E size \in AllocSizes : SysNetAllocBuf(t, size)
                     \/ \E h \in HandleArgs : SysNetFreeBuf(t, h)
                     \/ \E h \in HandleArgs, n \in SetLenArgs : SysSetDmaBufLen(t, h, n)
                     \/ \E h \in HandleArgs, cap \in OutCaps : SysNetRxPoll(t, h, cap))
            <4>1. UNCHANGED dmaVars  BY <3>5, OtherSyscallsQuiet DEF Syscall
            <4>. QED  BY <4>1, DmaFrame DEF DInv
        <3>. QED  BY <3>1, <3>2, <3>3, <3>4, <3>5
    <2>5. CASE UNCHANGED vars  BY <2>5, DmaFrame DEF DInv, vars, dmaVars
    <2>. QED  BY <2>1, <2>2, <2>3, <2>4, <2>5 DEF Next
<1>. QED  BY <1>1, <1>2 DEF DInv

(***************************************************************************)
(* No live DMA buffer's length ever exceeds its capacity: SET_DMA_BUF_LEN  *)
(* and NET_RX_POLL both go through set_dma_buffer_len's capacity check,    *)
(* and alloc starts every buffer empty.                                    *)
(***************************************************************************)
THEOREM LengthBounded == Spec => []LenWithinCapacity
<1>1. Init => DInv  BY DmaInitOK
<1>2. DInv /\ [Next]_vars => DInv'  BY DmaNextOK
<1>3. DInv => LenWithinCapacity  BY DEF DInv, DmaOK
<1>. QED  BY <1>1, <1>2, <1>3, PTL DEF Spec

(***************************************************************************)
(* DMA handles are never reissued: exactly the handles below NEXT_HANDLE   *)
(* have been handed out, because alloc_dma_buffer takes its handle with a  *)
(* fetch_add and free_dma_buffer never lowers the counter.                 *)
(***************************************************************************)
THEOREM HandlesNeverReused == Spec => []HandlesFresh
<1>1. Init => DInv  BY DmaInitOK
<1>2. DInv /\ [Next]_vars => DInv'  BY DmaNextOK
<1>3. DInv => HandlesFresh  BY DEF DInv, DmaOK
<1>. QED  BY <1>1, <1>2, <1>3, PTL DEF Spec

=============================================================================
