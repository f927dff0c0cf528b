---------------------------- MODULE KernelProofs ----------------------------
(***************************************************************************)
(* Proofs about the kernel model (Kernel.tla): the type invariant, and     *)
(* that the only Running task is the current one, for every value of the  *)
(* constants.                                                             *)
(***************************************************************************)
EXTENDS Kernel, SequenceTheorems, WellFoundedInduction, TLAPS

(* A non-empty set of naturals has a least element: the position of the  *)
(* first live id that schedule pops exists.                               *)
LEMMA NatSetHasMin ==
    ASSUME NEW S \in SUBSET Nat, S # {}
    PROVE  \E i \in S : \A j \in S : i <= j
<1>1. \E x \in S : \A y \in S : ~(<<y, x>> \in OpToRel(<, Nat))
    BY NatLessThanWellFounded, WFMin
<1>2. PICK x \in S : \A y \in S : ~(<<y, x>> \in OpToRel(<, Nat))
    BY <1>1
<1>3. ASSUME NEW y \in S PROVE x <= y
    <2>1. ~(<<y, x>> \in OpToRel(<, Nat))  BY <1>2
    <2>2. y \in Nat /\ x \in Nat  OBVIOUS
    <2>3. ~(y < x)  BY <2>1, <2>2 DEF OpToRel
    <2>. QED  BY <2>2, <2>3
<1>. QED  BY <1>3

(* The rest of a queue after popping its first i entries is a queue of   *)
(* the same ids.                                                          *)
LEMMA RestOfQueue ==
    ASSUME NEW S, NEW s \in Seq(S), NEW i \in 1..Len(s)
    PROVE  SubSeq(s, i + 1, Len(s)) \in Seq(S)
<1>1. \A k \in (i + 1)..Len(s) : s[k] \in S  BY ElementOfSeq
<1>2. i + 1 \in Int /\ Len(s) \in Int  BY LenProperties
<1>. QED  BY <1>1, <1>2, SubSeqProperties

(* The scheduler state is well typed (SchedTypeOK for given values).       *)
SchedTyped(ts, q, cur) ==
    /\ ts \in [TaskIds -> TaskStates \cup {Absent}]
    /\ q \in Seq(TaskIds)
    /\ cur \in TaskIds

(* RunningIsCurrent for given values.                                      *)
OnlyCurRunning(ts, cur) == \A t \in TaskIds : ts[t] = "Running" => t = cur

(* scheduler::schedule keeps the state well typed, and the only Running   *)
(* task after it is the current one: the old task is demoted before the   *)
(* first live id is promoted, and that id becomes CURRENT_TASK_ID.        *)
LEMMA ScheduleSafe ==
    ASSUME NEW ts, NEW q, NEW cur, SchedTyped(ts, q, cur), OnlyCurRunning(ts, cur)
    PROVE  /\ SchedTyped(Schedule(ts, q, cur).ts, Schedule(ts, q, cur).q,
                         Schedule(ts, q, cur).cur)
           /\ OnlyCurRunning(Schedule(ts, q, cur).ts, Schedule(ts, q, cur).cur)
<1>. DEFINE ts1   == Demote(ts, cur)
            q1    == Requeue(ts, q, cur)
            live  == LiveSlots(ts1, q1)
            first == FirstSlot(live)
            r     == Schedule(ts, q, cur)
<1>. USE SchedAssumption
<1>0. SUFFICES SchedTyped(r.ts, r.q, r.cur) /\ OnlyCurRunning(r.ts, r.cur)
    OBVIOUS
<1>1. ts1 \in [TaskIds -> TaskStates \cup {Absent}]
    BY DEF SchedTyped, TaskStates, Demote
<1>2. \A t \in TaskIds : ts1[t] # "Running"
    BY DEF SchedTyped, OnlyCurRunning, Demote
<1>3. q1 \in Seq(TaskIds)
    BY DEF SchedTyped, Requeue
<1>4. CASE live = {}
    <2>1. r = [ts |-> ts1, q |-> <<>>, cur |-> cur]  BY <1>4 DEF Schedule
    <2>. QED  BY <1>1, <1>2, <2>1, EmptySeq DEF SchedTyped, OnlyCurRunning
<1>5. CASE live # {}
    <2>1. r = [ts |-> [ts1 EXCEPT ![q1[first]] = "Running"],
               q  |-> SubSeq(q1, first + 1, Len(q1)),
               cur |-> q1[first]]
        BY <1>5 DEF Schedule
    <2>2. live \in SUBSET (1..Len(q1))  BY DEF LiveSlots
    <2>3. first \in 1..Len(q1)
        <3>1. live \in SUBSET Nat  BY <1>3, <2>2, LenProperties
        <3>2. \E i \in live : \A j \in live : i <= j  BY <1>5, <3>1, NatSetHasMin
        <3>. QED  BY <2>2, <3>2 DEF FirstSlot
    <2>4. q1[first] \in TaskIds  BY <1>3, <2>3, ElementOfSeq
    <2>5. SubSeq(q1, first + 1, Len(q1)) \in Seq(TaskIds)
        BY <1>3, <2>3, RestOfQueue
    <2>6. [ts1 EXCEPT ![q1[first]] = "Running"] \in [TaskIds -> TaskStates \cup {Absent}]
        BY <1>1, <2>4 DEF TaskStates
    <2>7. OnlyCurRunning([ts1 EXCEPT ![q1[first]] = "Running"], q1[first])
        BY <1>1, <1>2, <2>4 DEF OnlyCurRunning
    <2>. QED  BY <2>1, <2>4, <2>5, <2>6, <2>7 DEF SchedTyped
<1>. QED  BY <1>4, <1>5

(* The scheduler's own invariant: typed, and only the current task runs. *)
SchedInv == SchedTypeOK /\ RunningIsCurrent

(* schedule (a yield) keeps the scheduler invariant.                     *)
LEMMA ScheduleStepOK ==
    ASSUME SchedInv, ScheduleStep
    PROVE  SchedInv'
<1>1. SchedTyped(tstate, runq, current) /\ OnlyCurRunning(tstate, current)
    BY DEF SchedInv, SchedTypeOK, RunningIsCurrent, SchedTyped, OnlyCurRunning
<1>. QED  BY <1>1, ScheduleSafe
          DEF ScheduleStep, SetSched, SchedInv, SchedTypeOK, RunningIsCurrent,
              SchedTyped, OnlyCurRunning

(* block_current_task: the current task leaves Running before schedule.   *)
LEMMA BlockCurrentOK ==
    ASSUME SchedInv, BlockCurrent
    PROVE  SchedInv'
<1>1. SchedTyped(BlockedTable, runq, current)
    BY DEF SchedInv, SchedTypeOK, SchedTyped, BlockedTable, TaskStates
<1>2. OnlyCurRunning(BlockedTable, current)
    BY DEF SchedInv, SchedTypeOK, RunningIsCurrent, OnlyCurRunning, BlockedTable
<1>. QED  BY <1>1, <1>2, ScheduleSafe
          DEF BlockCurrent, SetSched, SchedInv, SchedTypeOK, RunningIsCurrent,
              SchedTyped, OnlyCurRunning

(* add_task inserts a Ready TCB and queues its id.                         *)
LEMMA AddTaskOK ==
    ASSUME SchedInv, NEW t \in TaskIds, AddTask(t)
    PROVE  SchedInv'
    BY DEF SchedInv, AddTask, SchedTypeOK, RunningIsCurrent, TaskStates

(* unblock_task makes a Blocked task Ready and queues it, or does nothing. *)
LEMMA UnblockOK ==
    ASSUME SchedInv, NEW t, UnblockTask(t)
    PROVE  SchedInv'
    BY DEF SchedInv, UnblockTask, SchedTypeOK, RunningIsCurrent, TaskStates,
           Absent, schedVars

(* mailbox::send appends a well-typed message and may unblock a task.      *)
LEMMA SendOK ==
    ASSUME SchedInv, MailboxTypeOK, NEW c \in ChannelArgs, NEW snd \in TaskIds,
           NEW len \in Nat, Send(c, snd, len)
    PROVE  SchedInv' /\ MailboxTypeOK'
<1>. USE MailboxAssumption
<1>1. CASE InRange(c)
    <2>1. [sender |-> snd, len |-> len] \in Message  BY DEF Message
    <2>2. MailboxTypeOK'
        <3>1. c \in Channels  BY <1>1 DEF InRange, Channels, ChannelArgs
        <3>2. Append(mbox[c], [sender |-> snd, len |-> len]) \in Seq(Message)
            BY <2>1, <3>1, AppendProperties DEF MailboxTypeOK
        <3>3. mbox' = [mbox EXCEPT ![c] = Append(mbox[c], [sender |-> snd, len |-> len])]
            BY <1>1 DEF Send
        <3>. QED  BY <3>1, <3>2, <3>3 DEF MailboxTypeOK
    <2>3. UnblockTask(c)  BY <1>1 DEF Send
    <2>4. SchedInv'  BY <2>3, UnblockOK
    <2>. QED  BY <2>2, <2>4
<1>2. CASE ~InRange(c)
    BY <1>2 DEF Send, SchedInv, SchedTypeOK, RunningIsCurrent, MailboxTypeOK, schedVars
<1>. QED  BY <1>1, <1>2

-----------------------------------------------------------------------------
(* The parts of the invariant: the state proper, and the record of the    *)
(* last kernel entry.                                                     *)
LastOK(l) ==
    /\ l.task \in TaskIds /\ l.sys \in KernelEntries
    /\ l.arg \in Int /\ l.code \in Int /\ l.ok \in BOOLEAN

StateOK ==
    /\ SchedTypeOK
    /\ RunningIsCurrent
    /\ MailboxTypeOK
    /\ DmaTypeOK
    /\ IrqTypeOK(ChannelArgs)
    /\ blockedOn \in [TaskIds -> {NoChannel} \cup ChannelArgs]

(* The inductive invariant: TypeOK and RunningIsCurrent together.         *)
IInv == StateOK /\ LastOK(last)

(* The inductive invariant is exactly TypeOK and RunningIsCurrent.      *)
LEMMA IInvMeaning == IInv <=> TypeOK /\ RunningIsCurrent
    BY DEF IInv, StateOK, LastOK, TypeOK

(* A step that changes no state variable keeps the state invariant.       *)
LEMMA FrameOK ==
    ASSUME StateOK, UNCHANGED state
    PROVE  StateOK'
    BY DEF StateOK, state, SchedTypeOK, RunningIsCurrent, MailboxTypeOK,
           DmaTypeOK, IrqTypeOK

(* scheduler::init and the static initialisers establish the invariant. *)
LEMMA InitOK == Init => IInv
<1>. SUFFICES ASSUME Init PROVE IInv  OBVIOUS
<1>. USE SchedAssumption, MailboxAssumption, DmaAssumption
<1>1. SchedTypeOK /\ RunningIsCurrent
    BY DEF Init, SchedInit, SchedTypeOK, RunningIsCurrent, TaskStates, KernelTask
<1>2. MailboxTypeOK  BY EmptySeq DEF Init, MailboxInit, MailboxTypeOK
<1>3. DmaTypeOK
    BY DEF Init, DmaInit, DmaTypeOK, Buffer, BufStatus, NeverBuf, Handles
<1>4. IrqTypeOK(ChannelArgs)  BY DEF Init, IrqInit, IrqTypeOK
<1>5. blockedOn \in [TaskIds -> {NoChannel} \cup ChannelArgs]  BY DEF Init
<1>6. LastOK(last)
    BY DEF Init, LastOK, KernelEntries, SysNames, SUCCESS, KernelTask
<1>. QED  BY <1>1, <1>2, <1>3, <1>4, <1>5, <1>6 DEF IInv, StateOK

(* A step that only records its entry keeps the invariant.               *)
LEMMA QuietOK ==
    ASSUME IInv, UNCHANGED state, LastOK(last')
    PROVE  IInv'
    BY FrameOK DEF IInv

(* A refused syscall records E_ACC_DENIED and changes nothing.             *)
LEMMA DeniedOK ==
    ASSUME IInv, NEW t \in TaskIds, NEW s \in KernelEntries, NEW a \in Int,
           Record(t, s, a, E_ACC_DENIED, FALSE) /\ UNCHANGED state
    PROVE  IInv'
<1>1. LastOK(last')  BY DEF Record, LastOK, E_ACC_DENIED
<1>2. StateOK'  BY FrameOK DEF IInv
<1>. QED  BY <1>1, <1>2 DEF IInv

(* The calls that change no state, in either branch of the gate.        *)
(* SYS_LOG prints or not and changes nothing.                             *)
LEMMA SysLogOK ==
    ASSUME IInv, NEW t \in VNodeIds, SysLog(t)
    PROVE  IInv'
<1>1. UNCHANGED state  BY DEF SysLog, Gated
<1>2. t \in TaskIds /\ "LOG" \in KernelEntries /\ 0 \in Int
    BY DEF VNodeIds, KernelEntries, SysNames
<1>3. LastOK(last')
    <2>1. CASE CapsOf(t) \cap {LogWrite} = {}
        <3>1. last' = [task |-> t, sys |-> "LOG", arg |-> 0, code |-> E_ACC_DENIED, ok |-> FALSE]
            BY <2>1 DEF SysLog, Gated, Record
        <3>. QED  BY <1>2, <3>1  DEF LastOK, E_ACC_DENIED
    <2>2. CASE CapsOf(t) \cap {LogWrite} # {}
        <3>1. \E code \in {SUCCESS, E_ERROR} :
                  last' = [task |-> t, sys |-> "LOG", arg |-> 0, code |-> code, ok |-> FALSE]
            BY <2>2 DEF SysLog, Gated, Record
        <3>. QED  BY <1>2, <3>1  DEF LastOK, SUCCESS, E_ERROR
    <2>. QED  BY <2>1, <2>2
<1>. QED  BY <1>1, <1>3, QuietOK

(* SYS_TIME returns TICKS and changes nothing.                            *)
LEMMA SysTimeOK ==
    ASSUME IInv, NEW t \in VNodeIds, SysTime(t)
    PROVE  IInv'
<1>1. UNCHANGED state  BY DEF SysTime, Gated
<1>2. t \in TaskIds /\ "TIME" \in KernelEntries /\ 0 \in Int
    BY DEF VNodeIds, KernelEntries, SysNames
<1>3. LastOK(last')
    <2>1. CASE CapsOf(t) \cap {TimeRead} = {}
        <3>1. last' = [task |-> t, sys |-> "TIME", arg |-> 0, code |-> E_ACC_DENIED, ok |-> FALSE]
            BY <2>1 DEF SysTime, Gated, Record
        <3>. QED  BY <1>2, <3>1  DEF LastOK, E_ACC_DENIED
    <2>2. CASE CapsOf(t) \cap {TimeRead} # {}
        <3>1. last' = [task |-> t, sys |-> "TIME", arg |-> 0, code |-> Ticks, ok |-> TRUE]
            BY <2>2 DEF SysTime, Gated, Record
        <3>. QED  BY <1>2, <3>1  DEF LastOK, Ticks
    <2>. QED  BY <2>1, <2>2
<1>. QED  BY <1>1, <1>3, QuietOK

(* SYS_NET_TX only logs.                                                  *)
LEMMA SysNetTxOK ==
    ASSUME IInv, NEW t \in VNodeIds, NEW h \in HandleArgs, SysNetTx(t, h)
    PROVE  IInv'
<1>1. UNCHANGED state  BY DEF SysNetTx, Gated
<1>2. t \in TaskIds /\ "NET_TX" \in KernelEntries /\ h \in Int
    BY DmaAssumption DEF HandleArgs, VNodeIds, KernelEntries, SysNames
<1>3. LastOK(last')
    <2>1. CASE CapsOf(t) \cap {NetworkAccess} = {}
        <3>1. last' = [task |-> t, sys |-> "NET_TX", arg |-> h, code |-> E_ACC_DENIED, ok |-> FALSE]
            BY <2>1 DEF SysNetTx, Gated, Record
        <3>. QED  BY <1>2, <3>1  DEF LastOK, E_ACC_DENIED
    <2>2. CASE CapsOf(t) \cap {NetworkAccess} # {}
        <3>1. last' = [task |-> t, sys |-> "NET_TX", arg |-> h, code |-> SUCCESS, ok |-> FALSE]
            BY <2>2 DEF SysNetTx, Gated, Record
        <3>. QED  BY <1>2, <3>1  DEF LastOK, SUCCESS
    <2>. QED  BY <2>1, <2>2
<1>. QED  BY <1>1, <1>3, QuietOK

(* SYS_IRQ_ACK only logs.                                                 *)
LEMMA SysIrqAckOK ==
    ASSUME IInv, NEW t \in VNodeIds, NEW n \in Irqs, SysIrqAck(t, n)
    PROVE  IInv'
<1>1. UNCHANGED state  BY DEF SysIrqAck, Gated
<1>2. t \in TaskIds /\ "IRQ_ACK" \in KernelEntries /\ n \in Int
    BY IrqAssumption DEF VNodeIds, KernelEntries, SysNames
<1>3. LastOK(last')
    <2>1. CASE CapsOf(t) \cap {IrqAck(n), NetworkAccess} = {}
        <3>1. last' = [task |-> t, sys |-> "IRQ_ACK", arg |-> n, code |-> E_ACC_DENIED, ok |-> FALSE]
            BY <2>1 DEF SysIrqAck, Gated, Record
        <3>. QED  BY <1>2, <3>1  DEF LastOK, E_ACC_DENIED
    <2>2. CASE CapsOf(t) \cap {IrqAck(n), NetworkAccess} # {}
        <3>1. last' = [task |-> t, sys |-> "IRQ_ACK", arg |-> n, code |-> SUCCESS, ok |-> FALSE]
            BY <2>2 DEF SysIrqAck, Gated, Record
        <3>. QED  BY <1>2, <3>1  DEF LastOK, SUCCESS
    <2>. QED  BY <2>1, <2>2
<1>. QED  BY <1>1, <1>3, QuietOK

(* An unknown syscall number returns E_UNKNOWN_SYSCALL, nothing else.    *)
LEMMA SysUnknownOK ==
    ASSUME IInv, NEW t \in VNodeIds, SysUnknown(t)
    PROVE  IInv'
<1>1. UNCHANGED state  BY DEF SysUnknown
<1>2. t \in TaskIds /\ "UNKNOWN" \in KernelEntries
    BY DEF VNodeIds, KernelEntries, SysNames
<1>3. last' = [task |-> t, sys |-> "UNKNOWN", arg |-> 0, code |-> E_UNKNOWN_SYSCALL, ok |-> FALSE]
    BY DEF SysUnknown, Record
<1>4. LastOK(last')  BY <1>2, <1>3  DEF LastOK, E_UNKNOWN_SYSCALL
<1>. QED  BY <1>1, <1>4, QuietOK

(* The state invariant, part by part: a step that keeps the parts it     *)
(* does not touch and re-establishes the ones it writes keeps StateOK.    *)
LEMMA StateOKParts ==
    ASSUME StateOK,
           SchedInv' \/ UNCHANGED schedVars,
           MailboxTypeOK' \/ UNCHANGED mbox,
           DmaTypeOK' \/ UNCHANGED dmaVars,
           IrqTypeOK(ChannelArgs)' \/ UNCHANGED irqMap,
           blockedOn' \in [TaskIds -> {NoChannel} \cup ChannelArgs] \/ UNCHANGED blockedOn
    PROVE  StateOK'
<1>1. SchedInv'  BY DEF StateOK, SchedInv, SchedTypeOK, RunningIsCurrent, schedVars
<1>2. MailboxTypeOK'  BY DEF StateOK, MailboxTypeOK
<1>3. DmaTypeOK'  BY DEF StateOK, DmaTypeOK, dmaVars
<1>4. IrqTypeOK(ChannelArgs)'  BY DEF StateOK, IrqTypeOK
<1>. QED  BY <1>1, <1>2, <1>3, <1>4 DEF StateOK, SchedInv

(* SYS_GET_DMA_BUF_PTR reads the registry and changes nothing.            *)
LEMMA SysGetDmaBufPtrOK ==
    ASSUME IInv, NEW t \in VNodeIds, NEW h \in HandleArgs, SysGetDmaBufPtr(t, h)
    PROVE  IInv'
<1>1. UNCHANGED state  BY DEF SysGetDmaBufPtr, Gated
<1>2. t \in TaskIds /\ "GET_DMA_BUF_PTR" \in KernelEntries /\ h \in Int
    BY DmaAssumption DEF VNodeIds, KernelEntries, SysNames, HandleArgs
<1>3. BufPtr(h) \in Int  BY <1>2 DEF BufPtr
<1>4. LastOK(last')
    <2>1. \E code \in {E_ACC_DENIED, BufPtr(h), E_ERROR}, ok \in BOOLEAN :
              last' = [task |-> t, sys |-> "GET_DMA_BUF_PTR", arg |-> h, code |-> code, ok |-> ok]
        BY DEF SysGetDmaBufPtr, Gated, Record
    <2>. QED  BY <1>2, <1>3, <2>1 DEF LastOK, E_ACC_DENIED, E_ERROR
<1>. QED  BY <1>1, <1>4, QuietOK

(* SYS_IPC_SEND: the mailbox gains a message and a task may be woken.     *)
LEMMA SysIpcSendOK ==
    ASSUME IInv, NEW t \in VNodeIds, NEW c \in ChannelArgs, NEW len \in PayloadLens,
           SysIpcSend(t, c, len)
    PROVE  IInv'
<1>1. t \in TaskIds /\ "IPC_SEND" \in KernelEntries /\ c \in Int /\ len \in Nat
    BY MailboxAssumption DEF VNodeIds, KernelEntries, SysNames, ChannelArgs
<1>2. LastOK(last')
    <2>1. \E code \in {E_ACC_DENIED, SUCCESS, E_ERROR} :
              last' = [task |-> t, sys |-> "IPC_SEND", arg |-> c, code |-> code, ok |-> FALSE]
        BY DEF SysIpcSend, Gated, Record
    <2>. QED  BY <1>1, <2>1 DEF LastOK, E_ACC_DENIED, SUCCESS, E_ERROR
<1>3. CASE CapsOf(t) \cap {IpcManage} = {}
    <2>1. UNCHANGED state  BY <1>3 DEF SysIpcSend, Gated
    <2>. QED  BY <1>2, <2>1, QuietOK
<1>4. CASE CapsOf(t) \cap {IpcManage} # {}
    <2>1. Send(c, t, len) /\ UNCHANGED <<dmaVars, irqMap, blockedOn>>
        BY <1>4 DEF SysIpcSend, Gated
    <2>2. SchedInv /\ MailboxTypeOK  BY DEF IInv, StateOK, SchedInv
    <2>3. SchedInv' /\ MailboxTypeOK'  BY <1>1, <2>1, <2>2, SendOK
    <2>4. StateOK'  BY <2>1, <2>3, StateOKParts DEF IInv
    <2>. QED  BY <1>2, <2>4 DEF IInv
<1>. QED  BY <1>3, <1>4

(* block_current_on_channel blocks and reschedules; blockedOn notes w.   *)
LEMMA BlockOnOK ==
    ASSUME StateOK, NEW t \in TaskIds, NEW w \in {NoChannel} \cup ChannelArgs,
           BlockOn(t, w)
    PROVE  StateOK'
<1>1. SchedInv'  BY BlockCurrentOK DEF BlockOn, StateOK, SchedInv
<1>2. blockedOn' \in [TaskIds -> {NoChannel} \cup ChannelArgs]  BY DEF BlockOn, StateOK
<1>. QED  BY <1>1, <1>2, StateOKParts DEF BlockOn

(* Taking the head of a non-empty mailbox keeps it a queue of messages,   *)
(* and the length returned is a number.                                   *)
LEMMA DeliverOK ==
    ASSUME IInv, NEW t \in TaskIds, NEW s \in KernelEntries, NEW c \in ChannelArgs,
           NEW cap \in Nat, Peek(c), Deliver(t, s, c, cap)
    PROVE  IInv'
<1>. USE MailboxAssumption
<1>1. c \in Channels /\ mbox[c] \in Seq(Message) /\ mbox[c] # <<>>
    BY DEF Peek, InRange, Channels, ChannelArgs, IInv, StateOK, MailboxTypeOK
<1>2. Head(mbox[c]) \in Message /\ Tail(mbox[c]) \in Seq(Message)
    BY <1>1, HeadTailProperties
<1>3. MailboxTypeOK'
    BY <1>1, <1>2 DEF Deliver, RecvHead, IInv, StateOK, MailboxTypeOK
<1>4. StateOK'  BY <1>3, StateOKParts DEF Deliver, IInv
<1>5. Head(mbox[c]).len \in Nat  BY <1>2 DEF Message
<1>6. LastOK(last')
    BY <1>5 DEF Deliver, Record, LastOK, E_ERROR, ChannelArgs
<1>. QED  BY <1>4, <1>6 DEF IInv

(* SYS_IPC_RECV: block on an empty channel, or receive its head.          *)
LEMMA SysIpcRecvOK ==
    ASSUME IInv, NEW t \in VNodeIds, NEW c \in ChannelArgs, NEW cap \in OutCaps,
           SysIpcRecv(t, c, cap)
    PROVE  IInv'
<1>1. t \in TaskIds /\ "IPC_RECV" \in KernelEntries /\ c \in Int /\ cap \in Nat
    BY KernelAssumption, MailboxAssumption DEF VNodeIds, KernelEntries, SysNames, ChannelArgs
<1>2. CASE CapsOf(t) \cap {IpcManage} = {}
    <2>1. UNCHANGED state /\ Record(t, "IPC_RECV", c, E_ACC_DENIED, FALSE)
        BY <1>2 DEF SysIpcRecv, Gated
    <2>2. LastOK(last')  BY <1>1, <2>1 DEF Record, LastOK, E_ACC_DENIED
    <2>. QED  BY <2>1, <2>2, QuietOK
<1>3. CASE CapsOf(t) \cap {IpcManage} # {} /\ ~Peek(c)
    <2>1. BlockOn(t, c) /\ Record(t, "IPC_RECV", c, SUCCESS, FALSE)
        BY <1>3 DEF SysIpcRecv, Gated
    <2>2. StateOK'  BY <1>1, <2>1, BlockOnOK DEF IInv
    <2>3. LastOK(last')  BY <1>1, <2>1 DEF Record, LastOK, SUCCESS
    <2>. QED  BY <2>2, <2>3 DEF IInv
<1>4. CASE CapsOf(t) \cap {IpcManage} # {} /\ Peek(c)
    <2>1. Deliver(t, "IPC_RECV", c, cap)  BY <1>4 DEF SysIpcRecv, Gated
    <2>. QED  BY <1>1, <1>4, <2>1, DeliverOK
<1>. QED  BY <1>2, <1>3, <1>4

(* SYS_IPC_RECV_NONBLOCKING: receive the head if there is one.            *)
LEMMA SysIpcRecvNBOK ==
    ASSUME IInv, NEW t \in VNodeIds, NEW c \in ChannelArgs, NEW cap \in OutCaps,
           SysIpcRecvNB(t, c, cap)
    PROVE  IInv'
<1>1. t \in TaskIds /\ "IPC_RECV_NB" \in KernelEntries /\ c \in Int /\ cap \in Nat
    BY KernelAssumption, MailboxAssumption DEF VNodeIds, KernelEntries, SysNames, ChannelArgs
<1>2. CASE CapsOf(t) \cap {IpcManage} # {} /\ Peek(c)
    <2>1. Deliver(t, "IPC_RECV_NB", c, cap)  BY <1>2 DEF SysIpcRecvNB, Gated
    <2>. QED  BY <1>1, <1>2, <2>1, DeliverOK
<1>3. CASE ~(CapsOf(t) \cap {IpcManage} # {} /\ Peek(c))
    <2>1. UNCHANGED state  BY <1>3 DEF SysIpcRecvNB, Gated
    <2>2. \E code \in {E_ACC_DENIED, SUCCESS} :
              last' = [task |-> t, sys |-> "IPC_RECV_NB", arg |-> c, code |-> code, ok |-> FALSE]
        BY <1>3 DEF SysIpcRecvNB, Gated, Record
    <2>3. LastOK(last')  BY <1>1, <2>2 DEF LastOK, E_ACC_DENIED, SUCCESS
    <2>. QED  BY <2>1, <2>3, QuietOK
<1>. QED  BY <1>2, <1>3

(* SYS_BLOCK_ON_CHAN: no gate, the caller blocks.                         *)
LEMMA SysBlockOnChanOK ==
    ASSUME IInv, NEW t \in VNodeIds, NEW c \in ChannelArgs, SysBlockOnChan(t, c)
    PROVE  IInv'
<1>1. t \in TaskIds /\ "BLOCK_ON_CHAN" \in KernelEntries /\ c \in Int
    BY MailboxAssumption DEF VNodeIds, KernelEntries, SysNames, ChannelArgs
<1>2. StateOK'  BY <1>1, BlockOnOK DEF SysBlockOnChan, IInv
<1>3. LastOK(last')  BY <1>1 DEF SysBlockOnChan, Record, LastOK, SUCCESS
<1>. QED  BY <1>2, <1>3 DEF IInv

(* SYS_IRQ_REGISTER binds n to any channel argument.                      *)
LEMMA SysIrqRegisterOK ==
    ASSUME IInv, NEW t \in VNodeIds, NEW n \in Irqs, NEW c \in ChannelArgs,
           SysIrqRegister(t, n, c)
    PROVE  IInv'
<1>1. t \in TaskIds /\ "IRQ_REGISTER" \in KernelEntries /\ n \in Int
    BY IrqAssumption DEF VNodeIds, KernelEntries, SysNames
<1>2. LastOK(last')
    <2>1. \E code \in {E_ACC_DENIED, SUCCESS} :
              last' = [task |-> t, sys |-> "IRQ_REGISTER", arg |-> n, code |-> code, ok |-> FALSE]
        BY DEF SysIrqRegister, Gated, Record
    <2>. QED  BY <1>1, <2>1 DEF LastOK, E_ACC_DENIED, SUCCESS
<1>3. IrqTypeOK(ChannelArgs)' \/ UNCHANGED irqMap
    BY DEF SysIrqRegister, Gated, RegisterIrq, IInv, StateOK, IrqTypeOK, state
<1>4. StateOK'
    BY <1>3, StateOKParts DEF SysIrqRegister, Gated, IInv, state, schedVars, dmaVars
<1>. QED  BY <1>2, <1>4 DEF IInv

(* The DMA registry stays typed under alloc, free, set_len and the copy   *)
(* of NET_RX_POLL.                                                        *)
LEMMA AllocBufOK ==
    ASSUME DmaTypeOK, NEW size \in AllocSizes, AllocBuf(size)
    PROVE  DmaTypeOK'
    BY DmaAssumption DEF AllocBuf, DmaTypeOK, Buffer, BufStatus, Handles

(* free_dma_buffer replaces a live entry by the removed record.           *)
LEMMA FreeBufOK ==
    ASSUME DmaTypeOK, NEW h, FreeBuf(h)
    PROVE  DmaTypeOK'
    BY DEF FreeBuf, DmaTypeOK, Buffer, BufStatus, FreedBuf, Live

(* set_dma_buffer_len writes a natural length into a live buffer.        *)
LEMMA SetLenBufOK ==
    ASSUME DmaTypeOK, NEW h, NEW n \in Nat, SetLen(h, n)
    PROVE  DmaTypeOK'
    BY DEF SetLen, SetLenOk, DmaTypeOK, Buffer, Live

(* SYS_NET_ALLOC_BUF returns the new handle, a number.                    *)
LEMMA SysNetAllocBufOK ==
    ASSUME IInv, NEW t \in VNodeIds, NEW size \in AllocSizes, SysNetAllocBuf(t, size)
    PROVE  IInv'
<1>1. t \in TaskIds /\ "NET_ALLOC_BUF" \in KernelEntries /\ size \in Int
      /\ nextHandle \in Int
    BY DmaAssumption DEF VNodeIds, KernelEntries, SysNames, IInv, StateOK, DmaTypeOK
<1>2. LastOK(last')
    <2>1. \E code \in {E_ACC_DENIED, nextHandle}, ok \in BOOLEAN :
              last' = [task |-> t, sys |-> "NET_ALLOC_BUF", arg |-> size, code |-> code, ok |-> ok]
        BY DEF SysNetAllocBuf, Gated, Record
    <2>. QED  BY <1>1, <2>1 DEF LastOK, E_ACC_DENIED
<1>3. DmaTypeOK' \/ UNCHANGED dmaVars
    BY AllocBufOK DEF SysNetAllocBuf, Gated, IInv, StateOK, state, dmaVars
<1>4. StateOK'
    BY <1>3, StateOKParts DEF SysNetAllocBuf, Gated, IInv, state, schedVars
<1>. QED  BY <1>2, <1>4 DEF IInv

(* SYS_NET_FREE_BUF frees through free_dma_buffer.                         *)
LEMMA SysNetFreeBufOK ==
    ASSUME IInv, NEW t \in VNodeIds, NEW h \in HandleArgs, SysNetFreeBuf(t, h)
    PROVE  IInv'
<1>1. t \in TaskIds /\ "NET_FREE_BUF" \in KernelEntries /\ h \in Int
    BY DmaAssumption DEF VNodeIds, KernelEntries, SysNames, HandleArgs
<1>2. LastOK(last')
    <2>1. \E code \in {E_ACC_DENIED, SUCCESS} :
              last' = [task |-> t, sys |-> "NET_FREE_BUF", arg |-> h, code |-> code, ok |-> FALSE]
        BY DEF SysNetFreeBuf, Gated, Record
    <2>. QED  BY <1>1, <2>1 DEF LastOK, E_ACC_DENIED, SUCCESS
<1>3. DmaTypeOK' \/ UNCHANGED dmaVars
    BY FreeBufOK DEF SysNetFreeBuf, Gated, IInv, StateOK, state, dmaVars
<1>4. StateOK'
    BY <1>3, StateOKParts DEF SysNetFreeBuf, Gated, IInv, state, schedVars
<1>. QED  BY <1>2, <1>4 DEF IInv

(* SYS_SET_DMA_BUF_LEN sets the length through set_dma_buffer_len.       *)
LEMMA SysSetDmaBufLenOK ==
    ASSUME IInv, NEW t \in VNodeIds, NEW h \in HandleArgs, NEW n \in SetLenArgs,
           SysSetDmaBufLen(t, h, n)
    PROVE  IInv'
<1>1. t \in TaskIds /\ "SET_DMA_BUF_LEN" \in KernelEntries /\ h \in Int /\ n \in Nat
    BY DmaAssumption, KernelAssumption DEF VNodeIds, KernelEntries, SysNames, HandleArgs
<1>2. LastOK(last')
    <2>1. \E code \in {E_ACC_DENIED, SUCCESS, E_ERROR} :
              last' = [task |-> t, sys |-> "SET_DMA_BUF_LEN", arg |-> h, code |-> code, ok |-> FALSE]
        BY DEF SysSetDmaBufLen, Gated, Record
    <2>. QED  BY <1>1, <2>1 DEF LastOK, E_ACC_DENIED, SUCCESS, E_ERROR
<1>3. DmaTypeOK' \/ UNCHANGED dmaVars
    BY <1>1, SetLenBufOK DEF SysSetDmaBufLen, Gated, IInv, StateOK, state, dmaVars
<1>4. StateOK'
    BY <1>3, StateOKParts DEF SysSetDmaBufLen, Gated, IInv, state, schedVars
<1>. QED  BY <1>2, <1>4 DEF IInv

(* NET_RX_POLL marks the frame copied and, if set_len accepts, sets the    *)
(* length: both are numbers in a live buffer's record.                    *)
LEMMA SysNetRxPollOK ==
    ASSUME IInv, NEW t \in VNodeIds, NEW h \in HandleArgs, NEW cap \in OutCaps,
           SysNetRxPoll(t, h, cap)
    PROVE  IInv'
<1>1. t \in TaskIds /\ "NET_RX_POLL" \in KernelEntries /\ h \in Int
    BY DmaAssumption DEF VNodeIds, KernelEntries, SysNames, HandleArgs
<1>2. LastOK(last')
    <2>1. \E code \in {E_ACC_DENIED, PacketLen, E_ERROR}, ok \in BOOLEAN :
              last' = [task |-> t, sys |-> "NET_RX_POLL", arg |-> h, code |-> code, ok |-> ok]
        <3>1. CASE CapsOf(t) \cap {NetworkAccess} = {}
            BY <3>1 DEF SysNetRxPoll, Gated, Record
        <3>2. CASE CapsOf(t) \cap {NetworkAccess} # {} /\ ~(PacketLen <= cap /\ Live(h))
            BY <3>2 DEF SysNetRxPoll, Gated, Record
        <3>3. CASE CapsOf(t) \cap {NetworkAccess} # {} /\ PacketLen <= cap /\ Live(h)
            <4>1. Record(t, "NET_RX_POLL", h,
                         IF SetLenOk(h, PacketLen) THEN PacketLen ELSE E_ERROR,
                         SetLenOk(h, PacketLen))
                BY <3>3 DEF SysNetRxPoll, Gated
            <4>2. CASE SetLenOk(h, PacketLen)
                <5>1. last' = [task |-> t, sys |-> "NET_RX_POLL", arg |-> h,
                               code |-> PacketLen, ok |-> TRUE]
                    BY <4>1, <4>2 DEF Record
                <5>. QED  BY <5>1
            <4>3. CASE ~SetLenOk(h, PacketLen)
                <5>1. last' = [task |-> t, sys |-> "NET_RX_POLL", arg |-> h,
                               code |-> E_ERROR, ok |-> FALSE]
                    BY <4>1, <4>3 DEF Record, SetLenOk, Live
                <5>. QED  BY <5>1
            <4>. QED  BY <4>2, <4>3
        <3>. QED  BY <3>1, <3>2, <3>3
    <2>. QED  BY <1>1, <2>1 DEF LastOK, E_ACC_DENIED, PacketLen, E_ERROR
<1>3. CASE CapsOf(t) \cap {NetworkAccess} # {} /\ PacketLen <= cap /\ Live(h)
    <2>. DEFINE copied == [dbuf EXCEPT ![h].filled = PacketLen]
    <2>1. h \in Handles /\ dbuf \in [Handles -> Buffer]
        BY <1>3 DEF Live, IInv, StateOK, DmaTypeOK
    <2>2. copied \in [Handles -> Buffer]  BY <2>1 DEF Buffer, PacketLen
    <2>3. [copied EXCEPT ![h].len = PacketLen] \in [Handles -> Buffer]
        <3>1. copied[h] \in Buffer  BY <2>1, <2>2
        <3>2. [copied[h] EXCEPT !.len = PacketLen] \in Buffer  BY <3>1 DEF Buffer, PacketLen
        <3>. QED  BY <2>1, <2>2, <3>2
    <2>4. dbuf' \in {copied, [copied EXCEPT ![h].len = PacketLen]}
        BY <1>3 DEF SysNetRxPoll, Gated
    <2>5. DmaTypeOK'
        BY <2>2, <2>3, <2>4, <1>3 DEF SysNetRxPoll, Gated, IInv, StateOK, DmaTypeOK
    <2>6. StateOK'
        BY <1>3, <2>5, StateOKParts DEF SysNetRxPoll, Gated, IInv, schedVars
    <2>. QED  BY <1>2, <2>6 DEF IInv
<1>4. CASE ~(CapsOf(t) \cap {NetworkAccess} # {} /\ PacketLen <= cap /\ Live(h))
    <2>1. UNCHANGED state  BY <1>4 DEF SysNetRxPoll, Gated
    <2>. QED  BY <1>2, <2>1, QuietOK
<1>. QED  BY <1>3, <1>4

(* handle_irq: a bound IRQ sends one byte from the kernel task.           *)
LEMMA HandleIrqOK ==
    ASSUME IInv, NEW n \in Irqs, HandleIrq(n)
    PROVE  IInv'
<1>1. KernelTask \in TaskIds /\ "IRQ" \in KernelEntries /\ n \in Int
    BY SchedAssumption, IrqAssumption DEF KernelEntries
<1>2. LastOK(last')  BY <1>1 DEF HandleIrq, Record, LastOK, SUCCESS
<1>3. CASE Bound(n)
    <2>1. irqMap[n] \in ChannelArgs
        BY <1>3 DEF Bound, IInv, StateOK, IrqTypeOK
    <2>2. Send(irqMap[n], KernelTask, 1)  BY <1>3 DEF HandleIrq
    <2>3. SchedInv /\ MailboxTypeOK  BY DEF IInv, StateOK, SchedInv
    <2>4. SchedInv' /\ MailboxTypeOK'  BY <1>1, <2>1, <2>2, <2>3, SendOK
    <2>5. StateOK'  BY <2>4, StateOKParts DEF HandleIrq, IInv
    <2>. QED  BY <1>2, <2>5 DEF IInv
<1>4. CASE ~Bound(n)
    <2>1. UNCHANGED state  BY <1>4 DEF HandleIrq, state, schedVars, dmaVars
    <2>. QED  BY <1>2, <2>1, QuietOK
<1>. QED  BY <1>3, <1>4

(* load_vnode adds a Ready task.                                          *)
LEMMA LoadOK ==
    ASSUME IInv, NEW t \in VNodeIds, Load(t)
    PROVE  IInv'
<1>1. t \in TaskIds /\ "LOAD" \in KernelEntries  BY DEF VNodeIds, KernelEntries
<1>2. SchedInv'  BY <1>1, AddTaskOK DEF Load, IInv, StateOK, SchedInv
<1>3. StateOK'  BY <1>2, StateOKParts DEF Load, IInv
<1>4. LastOK(last')  BY <1>1 DEF Load, Record, LastOK, SUCCESS
<1>. QED  BY <1>3, <1>4 DEF IInv

(* The idle loop's schedule.                                              *)
LEMMA YieldOK ==
    ASSUME IInv, Yield
    PROVE  IInv'
<1>1. current \in TaskIds /\ "SCHEDULE" \in KernelEntries
    BY DEF IInv, StateOK, SchedTypeOK, KernelEntries
<1>2. SchedInv'  BY ScheduleStepOK DEF Yield, IInv, StateOK, SchedInv
<1>3. StateOK'  BY <1>2, StateOKParts DEF Yield, IInv
<1>4. LastOK(last')  BY <1>1 DEF Yield, Record, LastOK, SUCCESS
<1>. QED  BY <1>3, <1>4 DEF IInv

-----------------------------------------------------------------------------
(* Every step of the kernel keeps the inductive invariant: one case per    *)
(* action, and under the syscalls one per call of syscall_dispatch.        *)
LEMMA NextOK == IInv /\ [Next]_vars => IInv'
<1>. SUFFICES ASSUME IInv, [Next]_vars PROVE IInv'  OBVIOUS
<1>1. CASE \E t \in VNodeIds : Load(t)  BY <1>1, LoadOK
<1>2. CASE Yield  BY <1>2, YieldOK
<1>3. CASE \E n \in Irqs : HandleIrq(n)  BY <1>3, HandleIrqOK
<1>4. CASE \E t \in VNodeIds : Syscall(t)
    <2>. PICK t \in VNodeIds : Syscall(t)  BY <1>4
    <2>1. CASE SysLog(t)  BY <2>1, SysLogOK
    <2>2. CASE \E c \in ChannelArgs, len \in PayloadLens : SysIpcSend(t, c, len)
        BY <2>2, SysIpcSendOK
    <2>3. CASE \E c \in ChannelArgs, cap \in OutCaps : SysIpcRecv(t, c, cap)
        BY <2>3, SysIpcRecvOK
    <2>4. CASE \E c \in ChannelArgs, cap \in OutCaps : SysIpcRecvNB(t, c, cap)
        BY <2>4, SysIpcRecvNBOK
    <2>5. CASE \E c \in ChannelArgs : SysBlockOnChan(t, c)  BY <2>5, SysBlockOnChanOK
    <2>6. CASE SysTime(t)  BY <2>6, SysTimeOK
    <2>7. CASE \E n \in Irqs, c \in ChannelArgs : SysIrqRegister(t, n, c)
        BY <2>7, SysIrqRegisterOK
    <2>8. CASE \E h \in HandleArgs, cap \in OutCaps : SysNetRxPoll(t, h, cap)
        BY <2>8, SysNetRxPollOK
    <2>9. CASE \E size \in AllocSizes : SysNetAllocBuf(t, size)  BY <2>9, SysNetAllocBufOK
    <2>10. CASE \E h \in HandleArgs : SysNetFreeBuf(t, h)  BY <2>10, SysNetFreeBufOK
    <2>11. CASE \E h \in HandleArgs : SysNetTx(t, h)  BY <2>11, SysNetTxOK
    <2>12. CASE \E n \in Irqs : SysIrqAck(t, n)  BY <2>12, SysIrqAckOK
    <2>13. CASE \E h \in HandleArgs : SysGetDmaBufPtr(t, h)  BY <2>13, SysGetDmaBufPtrOK
    <2>14. CASE \E h \in HandleArgs, n \in SetLenArgs : SysSetDmaBufLen(t, h, n)
        BY <2>14, SysSetDmaBufLenOK
    <2>15. CASE SysUnknown(t)  BY <2>15, SysUnknownOK
    <2>. QED  BY <2>1, <2>2, <2>3, <2>4, <2>5, <2>6, <2>7, <2>8, <2>9, <2>10,
                 <2>11, <2>12, <2>13, <2>14, <2>15 DEF Syscall
<1>5. CASE UNCHANGED vars
    BY <1>5, FrameOK DEF IInv, vars, state
<1>. QED  BY <1>1, <1>2, <1>3, <1>4, <1>5 DEF Next

(***************************************************************************)
(* The kernel state stays well typed in every reachable state, for every   *)
(* number of tasks, channels, handles and IRQs: in particular the run      *)
(* queue holds only task ids, CURRENT_TASK_ID is a task id, and each DMA   *)
(* handle and IRQ binding stays within its range.                          *)
(***************************************************************************)
THEOREM TypeCorrect == Spec => []TypeOK
<1>1. Init => IInv  BY InitOK
<1>2. IInv /\ [Next]_vars => IInv'  BY NextOK
<1>3. IInv => TypeOK  BY IInvMeaning
<1>. QED  BY <1>1, <1>2, <1>3, PTL DEF Spec

(***************************************************************************)
(* Only the current task is ever Running: schedule demotes the old task    *)
(* before it promotes the next, block_current_task blocks it, and neither  *)
(* add_task, unblock_task nor a mailbox send makes a task Running.          *)
(***************************************************************************)
THEOREM OnlyCurrentRuns == Spec => []RunningIsCurrent
<1>1. Init => IInv  BY InitOK
<1>2. IInv /\ [Next]_vars => IInv'  BY NextOK
<1>3. IInv => RunningIsCurrent  BY IInvMeaning
<1>. QED  BY <1>1, <1>2, <1>3, PTL DEF Spec

=============================================================================
