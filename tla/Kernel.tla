------------------------------ MODULE Kernel ------------------------------
(***************************************************************************)
(* The AetherOS microkernel core: the scheduler, the mailbox array, the    *)
(* DMA registry and the IRQ dispatcher, driven by the syscall dispatcher   *)
(* (kernel/syscall.rs), by hardware interrupts (irq::handle_irq), by the   *)
(* V-Node loader (vnode_loader::load_vnode) and by the kernel's idle loop  *)
(* (main.rs: loop { task::schedule(); hlt }).                              *)
(*                                                                         *)
(* One CPU, no preemption: each syscall, interrupt, load and schedule is   *)
(* one atomic step.  The task that executes syscalls is the current task,  *)
(* unless it is Blocked (then the CPU idles until schedule picks a task).  *)
(*                                                                         *)
(* Syscall return values are u64; they are written here modulo 2^64 as     *)
(* integers, so E_ACC_DENIED (2^64 - 2) is -2 and E_UNKNOWN_SYSCALL        *)
(* (2^64 - 1) is -1.                                                       *)
(***************************************************************************)
EXTENDS Integers, Mailbox, Dma, Irq

CONSTANTS
    VNodeCaps,     \* capability list the loader gives each V-Node id
    OutCaps,       \* out_cap arguments of IPC_RECV and NET_RX_POLL
    SetLenArgs     \* len arguments of SET_DMA_BUF_LEN

(* Capability of caps.rs: <<tag, irq>>; irq is -1 for the value-less tags. *)
Cap(tag) == <<tag, -1>>
LogWrite == Cap("LogWrite")
TimeRead == Cap("TimeRead")
NetworkAccess == Cap("NetworkAccess")
StorageAccess == Cap("StorageAccess")
DmaAlloc == Cap("DmaAlloc")
DmaAccess == Cap("DmaAccess")
IpcManage == Cap("IpcManage")
IrqRegister(n) == <<"IrqRegister", n>>
IrqAck(n) == <<"IrqAck", n>>

Capability ==
    {LogWrite, TimeRead, NetworkAccess, StorageAccess, DmaAlloc, DmaAccess,
     IpcManage} \cup {IrqRegister(n) : n \in 0..255} \cup {IrqAck(n) : n \in 0..255}

\* The list scheduler::init gives the kernel task.
KernelCaps ==
    {LogWrite, TimeRead, NetworkAccess, IrqRegister(0), DmaAlloc, DmaAccess,
     IrqAck(0), IpcManage, StorageAccess}

ASSUME KernelAssumption ==
    /\ VNodeCaps \in [VNodeIds -> SUBSET Capability]
    /\ OutCaps \subseteq Nat
    /\ SetLenArgs \subseteq Nat

\* Syscall return sentinels (syscall.rs:13-16), modulo 2^64.
SUCCESS == 0
E_ERROR == 1
E_ACC_DENIED == -2
E_UNKNOWN_SYSCALL == -1

\* Length of the simulated ICMP frame NET_RX_POLL copies (syscall.rs:136).
PacketLen == 98

\* timer::TICKS: timer::tick is never called, so the counter stays 0.
Ticks == 0

VARIABLES
    blockedOn,     \* auxiliary: channel an IPC_RECV last blocked each task on
    last           \* the last kernel entry: caller, call, a1, result

state == <<tstate, runq, current, mbox, nextHandle, dbuf, irqMap, blockedOn>>
vars == <<tstate, runq, current, mbox, nextHandle, dbuf, irqMap, blockedOn, last>>

(***************************************************************************)
(* task::get_current_task: the current TCB, or when the id is not in TASKS *)
(* a dummy TCB holding only LogWrite.                                      *)
(***************************************************************************)
CapsOf(t) ==
    IF ~Present(t) THEN {LogWrite}
    ELSE IF t = KernelTask THEN KernelCaps ELSE VNodeCaps[t]

(* The task that executes syscalls: a V-Node that is current and not     *)
(* Blocked.  The kernel task runs only main.rs's idle loop and never       *)
(* enters syscall_dispatch.                                                *)
Executing(t) == t \in VNodeIds /\ t = current /\ tstate[t] # "Blocked"

Record(t, s, a, code, ok) ==
    last' = [task |-> t, sys |-> s, arg |-> a, code |-> code, ok |-> ok]

(* syscall_dispatch runs for the executing task; every branch checks      *)
(* `caps.iter().any(...)` against a set of accepted capabilities first and *)
(* returns E_ACC_DENIED without effect.                                    *)
Gated(t, s, a, accepted, Body) ==
    /\ Executing(t)
    /\ IF CapsOf(t) \cap accepted = {}
       THEN Record(t, s, a, E_ACC_DENIED, FALSE) /\ UNCHANGED state
       ELSE Body

-----------------------------------------------------------------------------
(* SYS_LOG: the bytes are printed if they are UTF-8; which they are is the *)
(* caller's choice.                                                        *)
SysLog(t) ==
    Gated(t, "LOG", 0, {LogWrite},
        \E utf8 \in BOOLEAN :
            Record(t, "LOG", 0, IF utf8 THEN SUCCESS ELSE E_ERROR, FALSE)
            /\ UNCHANGED state)

(* SYS_IPC_SEND: kernel_send with the caller's id as sender.               *)
SysIpcSend(t, c, len) ==
    Gated(t, "IPC_SEND", c, {IpcManage},
        /\ Send(c, t, len)
        /\ Record(t, "IPC_SEND", c, IF InRange(c) THEN SUCCESS ELSE E_ERROR, FALSE)
        /\ UNCHANGED <<dmaVars, irqMap, blockedOn>>)

(* The head message leaves channel c; it is copied out if it fits in cap,  *)
(* and dropped with E_ERROR if it does not.                                *)
Deliver(t, s, c, cap) ==
    LET m == Head(mbox[c]) IN
    /\ RecvHead(c)
    /\ Record(t, s, c, IF m.len <= cap THEN m.len ELSE E_ERROR, m.len <= cap)
    /\ UNCHANGED <<schedVars, dmaVars, irqMap, blockedOn>>

(* block_current_on_channel: blockedOn notes w, the channel a blocking     *)
(* receive found empty (NoChannel for a raw BLOCK_ON_CHAN).                *)
BlockOn(t, w) ==
    /\ BlockCurrent
    /\ blockedOn' = [blockedOn EXCEPT ![t] = w]
    /\ UNCHANGED <<mbox, dmaVars, irqMap>>

(* SYS_IPC_RECV: peek; on an empty (or invalid) channel block and return   *)
(* SUCCESS, else receive the head message.                                 *)
SysIpcRecv(t, c, cap) ==
    Gated(t, "IPC_RECV", c, {IpcManage},
        IF ~Peek(c)
        THEN BlockOn(t, c) /\ Record(t, "IPC_RECV", c, SUCCESS, FALSE)
        ELSE Deliver(t, "IPC_RECV", c, cap))

(* SYS_IPC_RECV_NONBLOCKING: kernel_recv; None gives SUCCESS.              *)
SysIpcRecvNB(t, c, cap) ==
    Gated(t, "IPC_RECV_NB", c, {IpcManage},
        IF Peek(c)
        THEN Deliver(t, "IPC_RECV_NB", c, cap)
        ELSE Record(t, "IPC_RECV_NB", c, SUCCESS, FALSE) /\ UNCHANGED state)

(* SYS_BLOCK_ON_CHAN: no capability check, no peek.                         *)
SysBlockOnChan(t, c) ==
    Executing(t) /\ BlockOn(t, NoChannel) /\ Record(t, "BLOCK_ON_CHAN", c, SUCCESS, FALSE)

SysTime(t) ==
    Gated(t, "TIME", 0, {TimeRead},
        Record(t, "TIME", 0, Ticks, TRUE) /\ UNCHANGED state)

(* SYS_IRQ_REGISTER: the channel is not range-checked.                      *)
SysIrqRegister(t, n, c) ==
    Gated(t, "IRQ_REGISTER", n, {IrqRegister(n), NetworkAccess},
        /\ RegisterIrq(n, c)
        /\ Record(t, "IRQ_REGISTER", n, SUCCESS, FALSE)
        /\ UNCHANGED <<schedVars, mbox, dmaVars, blockedOn>>)

(***************************************************************************)
(* SYS_NET_RX_POLL(iface, h, out_cap): if the 98-byte frame fits out_cap   *)
(* and h is live, the frame is copied to the buffer's pointer, then        *)
(* set_dma_buffer_len(h, 98) decides between 98 and E_ERROR.  The copy is  *)
(* done before, and whatever, set_len finds.                               *)
(***************************************************************************)
SysNetRxPoll(t, h, cap) ==
    Gated(t, "NET_RX_POLL", h, {NetworkAccess},
        IF PacketLen <= cap /\ Live(h)
        THEN LET copied == [dbuf EXCEPT ![h].filled = PacketLen] IN
             /\ dbuf' = IF SetLenOk(h, PacketLen)
                        THEN [copied EXCEPT ![h].len = PacketLen] ELSE copied
             /\ Record(t, "NET_RX_POLL", h,
                       IF SetLenOk(h, PacketLen) THEN PacketLen ELSE E_ERROR,
                       SetLenOk(h, PacketLen))
             /\ UNCHANGED <<schedVars, mbox, nextHandle, irqMap, blockedOn>>
        ELSE Record(t, "NET_RX_POLL", h, E_ERROR, FALSE) /\ UNCHANGED state)

(* SYS_NET_ALLOC_BUF: the new handle is the return value.                   *)
SysNetAllocBuf(t, size) ==
    Gated(t, "NET_ALLOC_BUF", size, {DmaAlloc, NetworkAccess},
        /\ AllocBuf(size)
        /\ Record(t, "NET_ALLOC_BUF", size, nextHandle, TRUE)
        /\ UNCHANGED <<schedVars, mbox, irqMap, blockedOn>>)

SysNetFreeBuf(t, h) ==
    Gated(t, "NET_FREE_BUF", h, {DmaAlloc, NetworkAccess},
        /\ FreeBuf(h)
        /\ Record(t, "NET_FREE_BUF", h, SUCCESS, FALSE)
        /\ UNCHANGED <<schedVars, mbox, irqMap, blockedOn>>)

(* SYS_NET_TX only logs.                                                    *)
SysNetTx(t, h) ==
    Gated(t, "NET_TX", h, {NetworkAccess},
        Record(t, "NET_TX", h, SUCCESS, FALSE) /\ UNCHANGED state)

(* SYS_IRQ_ACK: acknowledge_irq only logs.                                  *)
SysIrqAck(t, n) ==
    Gated(t, "IRQ_ACK", n, {IrqAck(n), NetworkAccess},
        Record(t, "IRQ_ACK", n, SUCCESS, FALSE) /\ UNCHANGED state)

SysGetDmaBufPtr(t, h) ==
    Gated(t, "GET_DMA_BUF_PTR", h, {DmaAccess, NetworkAccess},
        /\ IF Live(h) THEN Record(t, "GET_DMA_BUF_PTR", h, BufPtr(h), TRUE)
                      ELSE Record(t, "GET_DMA_BUF_PTR", h, E_ERROR, FALSE)
        /\ UNCHANGED state)

SysSetDmaBufLen(t, h, n) ==
    Gated(t, "SET_DMA_BUF_LEN", h, {DmaAccess, NetworkAccess},
        /\ SetLen(h, n)
        /\ Record(t, "SET_DMA_BUF_LEN", h, IF SetLenOk(h, n) THEN SUCCESS ELSE E_ERROR, FALSE)
        /\ UNCHANGED <<schedVars, mbox, irqMap, blockedOn>>)

(* Any other syscall number.                                                *)
SysUnknown(t) ==
    Executing(t) /\ Record(t, "UNKNOWN", 0, E_UNKNOWN_SYSCALL, FALSE) /\ UNCHANGED state

(* syscall_dispatch(n, a1, a2, a3) entered by task t.                      *)
Syscall(t) ==
    \/ SysLog(t)
    \/ \E c \in ChannelArgs, len \in PayloadLens : SysIpcSend(t, c, len)
    \/ \E c \in ChannelArgs, cap \in OutCaps : SysIpcRecv(t, c, cap)
    \/ \E c \in ChannelArgs, cap \in OutCaps : SysIpcRecvNB(t, c, cap)
    \/ \E c \in ChannelArgs : SysBlockOnChan(t, c)
    \/ SysTime(t)
    \/ \E n \in Irqs, c \in ChannelArgs : SysIrqRegister(t, n, c)
    \/ \E h \in HandleArgs, cap \in OutCaps : SysNetRxPoll(t, h, cap)
    \/ \E size \in AllocSizes : SysNetAllocBuf(t, size)
    \/ \E h \in HandleArgs : SysNetFreeBuf(t, h)
    \/ \E h \in HandleArgs : SysNetTx(t, h)
    \/ \E n \in Irqs : SysIrqAck(t, n)
    \/ \E h \in HandleArgs : SysGetDmaBufPtr(t, h)
    \/ \E h \in HandleArgs, n \in SetLenArgs : SysSetDmaBufLen(t, h, n)
    \/ SysUnknown(t)

-----------------------------------------------------------------------------
(***************************************************************************)
(* irq::handle_irq(n): if n is bound, kernel_send(channel, 0, [n]) (its    *)
(* result is ignored); then acknowledge_irq(n), which only logs.           *)
(***************************************************************************)
HandleIrq(n) ==
    /\ IF Bound(n) THEN Send(irqMap[n], KernelTask, 1)
                   ELSE UNCHANGED <<mbox, schedVars>>
    /\ Record(KernelTask, "IRQ", n, SUCCESS, FALSE)
    /\ UNCHANGED <<dmaVars, irqMap, blockedOn>>

(* vnode_loader::load_vnode: task::create_task with the V-Node's caps.      *)
Load(t) ==
    /\ AddTask(t)
    /\ Record(t, "LOAD", 0, SUCCESS, FALSE)
    /\ UNCHANGED <<mbox, dmaVars, irqMap, blockedOn>>

(* The idle loop of main.rs calls task::schedule.                           *)
Yield ==
    /\ ScheduleStep
    /\ Record(current, "SCHEDULE", 0, SUCCESS, FALSE)
    /\ UNCHANGED <<mbox, dmaVars, irqMap, blockedOn>>

(* lib.rs init: timer, task (scheduler::init), ipc; DMA and IRQ statics.   *)
Init ==
    /\ SchedInit
    /\ MailboxInit
    /\ DmaInit
    /\ IrqInit
    /\ blockedOn = [t \in TaskIds |-> NoChannel]
    /\ last = [task |-> KernelTask, sys |-> "BOOT", arg |-> 0, code |-> SUCCESS, ok |-> FALSE]

Next ==
    \/ \E t \in VNodeIds : Load(t)
    \/ Yield
    \/ \E n \in Irqs : HandleIrq(n)
    \/ \E t \in VNodeIds : Syscall(t)

Spec == Init /\ [][Next]_vars

(* The messages the kernel ever enqueues: a V-Node's IPC_SEND payload, or  *)
(* the one-byte [n] of handle_irq, each with the sender's id.             *)
Sendable == [sender : TaskIds, len : PayloadLens \cup {1}]

(* The mailbox array seen through the channel abstraction: channel c of    *)
(* the abstract specification is MAILBOXES[c].                             *)
ChanAbs == INSTANCE Channel WITH ChanIds <- Channels, Msgs <- Sendable, chan <- mbox

-----------------------------------------------------------------------------
SysNames ==
    {"LOG", "IPC_SEND", "IPC_RECV", "IPC_RECV_NB", "BLOCK_ON_CHAN", "TIME",
     "IRQ_REGISTER", "NET_RX_POLL", "NET_ALLOC_BUF", "NET_FREE_BUF", "NET_TX",
     "IRQ_ACK", "GET_DMA_BUF_PTR", "SET_DMA_BUF_LEN", "UNKNOWN"}

KernelEntries == SysNames \cup {"BOOT", "IRQ", "LOAD", "SCHEDULE"}

TypeOK ==
    /\ SchedTypeOK
    /\ MailboxTypeOK
    /\ DmaTypeOK
    /\ IrqTypeOK(ChannelArgs)
    /\ blockedOn \in [TaskIds -> {NoChannel} \cup ChannelArgs]
    /\ last.task \in TaskIds /\ last.sys \in KernelEntries
    /\ last.arg \in Int /\ last.code \in Int /\ last.ok \in BOOLEAN

(***************************************************************************)
(* A live DMA buffer's length never exceeds its capacity, whichever task   *)
(* set it and whether through SET_DMA_BUF_LEN or NET_RX_POLL (spec 4.4).   *)
(***************************************************************************)
LenWithinCapacity ==
    \A h \in Handles : Live(h) => dbuf[h].len <= dbuf[h].cap

(***************************************************************************)
(* Handles are never reused: exactly the handles below NEXT_HANDLE have    *)
(* been issued, so an allocation never lands on a live or freed buffer and *)
(* a stale handle kept by a V-Node after free can never name a new buffer. *)
(***************************************************************************)
HandlesFresh ==
    \A h \in Handles : dbuf[h].st = "never" <=> h >= nextHandle

(***************************************************************************)
(* No lost wakeup: a task that IPC_RECV blocked on channel c (it peeked   *)
(* and found c empty) is never left Blocked while c holds a message; send *)
(* must wake the tasks blocked on the channel it fills (spec 4.3, 9).     *)
(***************************************************************************)
NoLostWakeup ==
    \A t \in TaskIds :
        (tstate[t] = "Blocked" /\ blockedOn[t] \in Channels)
            => mbox[blockedOn[t]] = <<>>

(***************************************************************************)
(* The kernel writes into a DMA buffer only within its capacity: the bytes *)
(* NET_RX_POLL copies to the buffer's pointer never exceed what            *)
(* Vec::with_capacity reserved (spec 4.4: callers must not write past      *)
(* capacity).                                                              *)
(***************************************************************************)
FilledWithinCapacity ==
    \A h \in Handles : Live(h) => dbuf[h].filled <= dbuf[h].cap

(***************************************************************************)
(* The capability each syscall requires by the spec's table (section 6).   *)
(***************************************************************************)
SpecRequired(s, a) ==
    CASE s \in {"IPC_SEND", "IPC_RECV", "IPC_RECV_NB", "BLOCK_ON_CHAN"} -> {IpcManage}
      [] s = "LOG" -> {LogWrite}
      [] s = "TIME" -> {TimeRead}
      [] s = "IRQ_REGISTER" -> {IrqRegister(a), NetworkAccess}
      [] s = "IRQ_ACK" -> {IrqAck(a), NetworkAccess}
      [] s \in {"NET_RX_POLL", "NET_TX"} -> {NetworkAccess}
      [] s \in {"NET_ALLOC_BUF", "NET_FREE_BUF"} -> {DmaAlloc, NetworkAccess}
      [] s \in {"GET_DMA_BUF_PTR", "SET_DMA_BUF_LEN"} -> {DmaAccess, NetworkAccess}
      [] OTHER -> {}

(***************************************************************************)
(* A syscall from a task that holds none of the capabilities the spec's    *)
(* table requires returns E_ACC_DENIED and changes nothing (section 8).    *)
(***************************************************************************)
NoEffectWithoutCapability ==
    [][(last'.sys \in SysNames \ {"UNKNOWN"}
        /\ CapsOf(last'.task) \cap SpecRequired(last'.sys, last'.arg) = {})
          => (last'.code = E_ACC_DENIED /\ UNCHANGED state)]_vars

(***************************************************************************)
(* The mailboxes are FIFO channels (spec section 7): every kernel step --   *)
(* a send from IPC_SEND or from an interrupt, a receive by IPC_RECV or     *)
(* IPC_RECV_NONBLOCKING, and everything else -- either appends one message *)
(* to the tail of one channel, removes the head of one channel, or leaves  *)
(* all queues alone.                                                       *)
(***************************************************************************)
MailboxIsFifo == ChanAbs!ChanSpec

=============================================================================
