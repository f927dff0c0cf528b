---------------------------- MODULE QueueProofs ----------------------------
(***************************************************************************)
(* Proof that a Ready V-Node is never lost by the round-robin scheduler:   *)
(* in every reachable state of the kernel, a V-Node task in state Ready   *)
(* has an entry in RUN_QUEUE.  add_task and unblock_task append the id     *)
(* they make Ready, schedule appends the task it demotes, and the entries *)
(* schedule pops before the one it promotes name no task of TASKS.         *)
(***************************************************************************)
EXTENDS KernelProofs

(* Every Ready V-Node of the table ts has an entry in the queue q.        *)
Queued(ts, q) == \A t \in VNodeIds : ts[t] = "Ready" => t \in ToSet(q)

(* The entry of the queue at position i is in its set of ids.             *)
LEMMA InToSet ==
    ASSUME NEW S, NEW q \in Seq(S), NEW i \in 1..Len(q)
    PROVE  q[i] \in ToSet(q)
    BY LenProperties DEF ToSet

(* An id in the set of a queue is the entry at some position.             *)
LEMMA FromToSet ==
    ASSUME NEW S, NEW q \in Seq(S), NEW t \in ToSet(q)
    PROVE  \E i \in 1..Len(q) : q[i] = t
    BY LenProperties DEF ToSet

(* FirstSlot picks the least live position of the queue.                  *)
LEMMA FirstSlotLeast ==
    ASSUME NEW ts, NEW q \in Seq(TaskIds), LiveSlots(ts, q) # {}
    PROVE  /\ FirstSlot(LiveSlots(ts, q)) \in LiveSlots(ts, q)
           /\ \A j \in LiveSlots(ts, q) : FirstSlot(LiveSlots(ts, q)) <= j
<1>1. LiveSlots(ts, q) \in SUBSET Nat  BY LenProperties DEF LiveSlots
<1>2. \E i \in LiveSlots(ts, q) : \A j \in LiveSlots(ts, q) : i <= j
    BY <1>1, NatSetHasMin
<1>. QED  BY <1>2 DEF FirstSlot

(* The demotion and requeue at the start of schedule keep every Ready     *)
(* V-Node queued: the demoted task is the one appended.                   *)
LEMMA RequeueQueued ==
    ASSUME NEW ts, NEW q, NEW cur, SchedTyped(ts, q, cur), Queued(ts, q)
    PROVE  Queued(Demote(ts, cur), Requeue(ts, q, cur))
<1>. SUFFICES ASSUME NEW t \in VNodeIds, Demote(ts, cur)[t] = "Ready"
              PROVE  t \in ToSet(Requeue(ts, q, cur))
    BY DEF Queued
<1>1. q \in Seq(TaskIds) /\ cur \in TaskIds  BY DEF SchedTyped
<1>2. CASE ts[cur] = "Running"
    <2>1. Requeue(ts, q, cur) = Append(q, cur)  BY <1>2 DEF Requeue
    <2>2. CASE t = cur
        <3>1. Append(q, cur) \in Seq(TaskIds) /\ Append(q, cur)[Len(q) + 1] = cur
            BY <1>1, AppendProperties
        <3>2. Len(q) + 1 \in 1..Len(Append(q, cur))
            BY <1>1, AppendProperties, LenProperties
        <3>3. Append(q, cur)[Len(q) + 1] \in ToSet(Append(q, cur))
            BY <3>1, <3>2, InToSet
        <3>. QED  BY <2>1, <2>2, <3>1, <3>3
    <2>3. CASE t # cur
        <3>1. ts[t] = "Ready"  BY <1>2, <2>3 DEF Demote, SchedTyped, VNodeIds
        <3>2. PICK i \in 1..Len(q) : q[i] = t
            BY <1>1, <3>1, FromToSet DEF Queued
        <3>3. Append(q, cur)[i] = t /\ i \in 1..Len(Append(q, cur))
            BY <1>1, <3>2, AppendProperties
        <3>4. Append(q, cur) \in Seq(TaskIds)  BY <1>1, AppendProperties
        <3>5. Append(q, cur)[i] \in ToSet(Append(q, cur))  BY <3>3, <3>4, InToSet
        <3>. QED  BY <2>1, <3>3, <3>5
    <2>. QED  BY <2>2, <2>3
<1>3. CASE ts[cur] # "Running"
    BY <1>3 DEF Demote, Requeue, Queued
<1>. QED  BY <1>2, <1>3

(***************************************************************************)
(* scheduler::schedule keeps every Ready V-Node queued: a Ready id in the  *)
(* queue names a task of TASKS, so its position is live and not before     *)
(* the first live one; it is that one only if it is the id promoted to     *)
(* Running, and otherwise it lies in the rest of the queue.               *)
(***************************************************************************)
LEMMA ScheduleQueued ==
    ASSUME NEW ts, NEW q, NEW cur, SchedTyped(ts, q, cur), Queued(ts, q)
    PROVE  Queued(Schedule(ts, q, cur).ts, Schedule(ts, q, cur).q)
<1>. DEFINE ts1   == Demote(ts, cur)
            q1    == Requeue(ts, q, cur)
            live  == LiveSlots(ts1, q1)
            first == FirstSlot(live)
            r     == Schedule(ts, q, cur)
<1>1. Queued(ts1, q1)  BY RequeueQueued
<1>2. ts1 \in [TaskIds -> TaskStates \cup {Absent}] /\ q1 \in Seq(TaskIds)
    BY DEF SchedTyped, TaskStates, Demote, Requeue
<1>3. ASSUME NEW t \in VNodeIds, ts1[t] = "Ready"
      PROVE  \E i \in live : q1[i] = t
    <2>1. PICK i \in 1..Len(q1) : q1[i] = t  BY <1>1, <1>2, <1>3, FromToSet DEF Queued
    <2>2. ts1[q1[i]] # Absent  BY <1>3, <2>1 DEF Absent
    <2>. QED  BY <2>1, <2>2 DEF LiveSlots
<1>4. CASE live = {}
    <2>1. r.ts = ts1 /\ r.q = <<>>  BY <1>4 DEF Schedule
    <2>. QED  BY <1>3, <1>4, <2>1 DEF Queued
<1>5. CASE live # {}
    <2>1. r.ts = [ts1 EXCEPT ![q1[first]] = "Running"]
          /\ r.q = SubSeq(q1, first + 1, Len(q1))
        BY <1>5 DEF Schedule
    <2>2. first \in live /\ \A j \in live : first <= j  BY <1>2, <1>5, FirstSlotLeast
    <2>3. first \in 1..Len(q1)  BY <2>2 DEF LiveSlots
    <2>4. SUFFICES ASSUME NEW t \in VNodeIds, r.ts[t] = "Ready"
                   PROVE  t \in ToSet(r.q)
        BY DEF Queued
    <2>5. t # q1[first] /\ ts1[t] = "Ready"
        BY <1>2, <2>1, <2>3, <2>4, ElementOfSeq DEF VNodeIds
    <2>6. PICK i \in live : q1[i] = t  BY <1>3, <2>5
    <2>7. i \in 1..Len(q1) /\ first < i  BY <2>2, <2>5, <2>6 DEF LiveSlots
    <2>. DEFINE rest == SubSeq(q1, first + 1, Len(q1))
    <2>8. \A k \in (first + 1)..Len(q1) : q1[k] \in TaskIds
        BY <1>2, <2>3, ElementOfSeq
    <2>9. /\ rest \in Seq(TaskIds)
          /\ Len(rest) = Len(q1) - first
          /\ \A k \in 1..Len(q1) - first : rest[k] = q1[first + k]
        <3>1. first + 1 \in Int /\ Len(q1) \in Int  BY <1>2, <2>3, LenProperties
        <3>2. /\ rest \in Seq(TaskIds)
              /\ Len(rest) = IF first + 1 <= Len(q1) THEN Len(q1) - (first + 1) + 1 ELSE 0
              /\ \A k \in 1..Len(q1) - (first + 1) + 1 : rest[k] = q1[(first + 1) + k - 1]
            BY <2>8, <3>1, SubSeqProperties
        <3>. QED  BY <2>3, <3>2
    <2>10. i - first \in 1..Len(rest) /\ rest[i - first] = t
        BY <2>3, <2>6, <2>7, <2>9
    <2>11. rest[i - first] \in ToSet(rest)  BY <2>9, <2>10, InToSet
    <2>. QED  BY <2>1, <2>10, <2>11
<1>. QED  BY <1>4, <1>5


(* The ids of a queue after an append are the old ids and the new one.    *)
LEMMA AppendToSet ==
    ASSUME NEW S, NEW q \in Seq(S), NEW e \in S
    PROVE  ToSet(Append(q, e)) = ToSet(q) \cup {e}
<1>1. /\ Len(Append(q, e)) = Len(q) + 1
      /\ \A i \in 1..Len(q) : Append(q, e)[i] = q[i]
      /\ Append(q, e)[Len(q) + 1] = e
      /\ Len(q) \in Nat
    BY AppendProperties, LenProperties
<1>2. DOMAIN Append(q, e) = 1..Len(q) + 1 /\ DOMAIN q = 1..Len(q)
    BY AppendProperties, LenProperties
<1>. QED  BY <1>1, <1>2 DEF ToSet

(* A step that leaves TASKS and RUN_QUEUE alone keeps every Ready V-Node  *)
(* queued.                                                                *)
LEMMA SchedFrameQueued ==
    ASSUME Queued(tstate, runq), UNCHANGED <<tstate, runq>>
    PROVE  Queued(tstate', runq')
    BY DEF Queued

(* schedule, called from the idle loop.                                   *)
LEMMA ScheduleStepQueued ==
    ASSUME IInv, Queued(tstate, runq), ScheduleStep
    PROVE  Queued(tstate', runq')
<1>1. SchedTyped(tstate, runq, current)
    BY DEF IInv, StateOK, SchedTypeOK, SchedTyped
<1>. QED  BY <1>1, ScheduleQueued DEF ScheduleStep, SetSched

(* block_current_task: the table it hands to schedule has no new Ready    *)
(* task.                                                                  *)
LEMMA BlockCurrentQueued ==
    ASSUME IInv, Queued(tstate, runq), BlockCurrent
    PROVE  Queued(tstate', runq')
<1>1. SchedTyped(BlockedTable, runq, current)
    BY DEF IInv, StateOK, SchedTypeOK, SchedTyped, BlockedTable, TaskStates
<1>2. Queued(BlockedTable, runq)
    BY DEF IInv, StateOK, SchedTypeOK, Queued, BlockedTable, VNodeIds
<1>. QED  BY <1>1, <1>2, ScheduleQueued DEF BlockCurrent, SetSched

(* unblock_task appends the id it makes Ready.                            *)
LEMMA UnblockQueued ==
    ASSUME IInv, Queued(tstate, runq), NEW c, UnblockTask(c)
    PROVE  Queued(tstate', runq')
<1>1. runq \in Seq(TaskIds) /\ tstate \in [TaskIds -> TaskStates \cup {Absent}]
    BY DEF IInv, StateOK, SchedTypeOK
<1>2. CASE c \in TaskIds /\ tstate[c] = "Blocked"
    <2>1. tstate' = [tstate EXCEPT ![c] = "Ready"] /\ runq' = Append(runq, c)
        BY <1>2 DEF UnblockTask
    <2>2. ToSet(runq') = ToSet(runq) \cup {c}  BY <1>1, <1>2, <2>1, AppendToSet
    <2>. QED  BY <1>1, <2>1, <2>2 DEF Queued, VNodeIds
<1>3. CASE ~(c \in TaskIds /\ tstate[c] = "Blocked")
    BY <1>3, SchedFrameQueued DEF UnblockTask, schedVars
<1>. QED  BY <1>2, <1>3

(* add_task inserts a Ready TCB and appends its id.                        *)
LEMMA AddTaskQueued ==
    ASSUME IInv, Queued(tstate, runq), NEW t \in VNodeIds, AddTask(t)
    PROVE  Queued(tstate', runq')
<1>1. runq \in Seq(TaskIds) /\ tstate \in [TaskIds -> TaskStates \cup {Absent}]
    BY DEF IInv, StateOK, SchedTypeOK
<1>2. ToSet(runq') = ToSet(runq) \cup {t}  BY <1>1, AppendToSet DEF AddTask, VNodeIds
<1>. QED  BY <1>1, <1>2 DEF AddTask, Queued, VNodeIds

(* mailbox::send unblocks through unblock_task, or changes nothing.        *)
LEMMA SendQueued ==
    ASSUME IInv, Queued(tstate, runq), NEW c, NEW snd, NEW len, Send(c, snd, len)
    PROVE  Queued(tstate', runq')
<1>1. CASE InRange(c)  BY <1>1, UnblockQueued DEF Send
<1>2. CASE ~InRange(c)  BY <1>2, SchedFrameQueued DEF Send, schedVars
<1>. QED  BY <1>1, <1>2


-----------------------------------------------------------------------------
(* The syscalls that neither block, unblock nor schedule leave TASKS and  *)
(* RUN_QUEUE as they are, whether or not their capability check passes.   *)
LEMMA QuietSyscallsQueued ==
    ASSUME NEW t \in VNodeIds,
           \/ SysLog(t)
           \/ \E c \in ChannelArgs, cap \in OutCaps : SysIpcRecvNB(t, c, cap)
           \/ SysTime(t)
           \/ \E n \in Irqs, c \in ChannelArgs : SysIrqRegister(t, n, c)
           \/ \E h \in HandleArgs, cap \in OutCaps : SysNetRxPoll(t, h, cap)
           \/ \E size \in AllocSizes : SysNetAllocBuf(t, size)
           \/ \E h \in HandleArgs : SysNetFreeBuf(t, h)
           \/ \E h \in HandleArgs : SysNetTx(t, h)
           \/ \E n \in Irqs : SysIrqAck(t, n)
           \/ \E h \in HandleArgs : SysGetDmaBufPtr(t, h)
           \/ \E h \in HandleArgs, n \in SetLenArgs : SysSetDmaBufLen(t, h, n)
           \/ SysUnknown(t)
    PROVE  UNCHANGED <<tstate, runq>>
    BY DEF SysLog, SysIpcRecvNB, SysTime, SysIrqRegister, SysNetRxPoll, SysNetAllocBuf,
           SysNetFreeBuf, SysNetTx, SysIrqAck, SysGetDmaBufPtr, SysSetDmaBufLen,
           SysUnknown, Gated, Deliver, state, schedVars

(* SYS_IPC_SEND: denied, nothing changes; otherwise kernel_send.           *)
LEMMA SysIpcSendQueued ==
    ASSUME IInv, Queued(tstate, runq), NEW t \in VNodeIds, NEW c, NEW len,
           SysIpcSend(t, c, len)
    PROVE  Queued(tstate', runq')
<1>1. CASE CapsOf(t) \cap {IpcManage} = {}
    BY <1>1, SchedFrameQueued DEF SysIpcSend, Gated, state
<1>2. CASE CapsOf(t) \cap {IpcManage} # {}
    <2>1. Send(c, t, len)  BY <1>2 DEF SysIpcSend, Gated
    <2>. QED  BY <2>1, SendQueued
<1>. QED  BY <1>1, <1>2

(* SYS_IPC_RECV: an empty channel blocks the caller, a message is taken   *)
(* without touching the scheduler.                                         *)
LEMMA SysIpcRecvQueued ==
    ASSUME IInv, Queued(tstate, runq), NEW t \in VNodeIds, NEW c, NEW cap,
           SysIpcRecv(t, c, cap)
    PROVE  Queued(tstate', runq')
<1>1. CASE CapsOf(t) \cap {IpcManage} = {}
    BY <1>1, SchedFrameQueued DEF SysIpcRecv, Gated, state
<1>2. CASE CapsOf(t) \cap {IpcManage} # {} /\ ~Peek(c)
    <2>1. BlockCurrent  BY <1>2 DEF SysIpcRecv, Gated, BlockOn
    <2>. QED  BY <2>1, BlockCurrentQueued
<1>3. CASE CapsOf(t) \cap {IpcManage} # {} /\ Peek(c)
    BY <1>3, SchedFrameQueued DEF SysIpcRecv, Gated, Deliver, schedVars
<1>. QED  BY <1>1, <1>2, <1>3

(* SYS_BLOCK_ON_CHAN blocks the caller unconditionally.                   *)
LEMMA SysBlockOnChanQueued ==
    ASSUME IInv, Queued(tstate, runq), NEW t \in VNodeIds, NEW c,
           SysBlockOnChan(t, c)
    PROVE  Queued(tstate', runq')
    BY BlockCurrentQueued DEF SysBlockOnChan, BlockOn

(* The invariant of this proof: the kernel invariant, which types TASKS   *)
(* and RUN_QUEUE, and every Ready V-Node queued.                          *)
QInv == IInv /\ Queued(tstate, runq)

(* At boot no V-Node is in TASKS.                                         *)
LEMMA QueueInitOK == Init => QInv
<1>. SUFFICES ASSUME Init PROVE QInv  OBVIOUS
<1>1. IInv  BY InitOK
<1>2. Queued(tstate, runq)
    BY DEF Init, SchedInit, Queued, VNodeIds, Absent
<1>. QED  BY <1>1, <1>2 DEF QInv

(* Every step of the kernel keeps every Ready V-Node queued.               *)
LEMMA QueueNextOK == QInv /\ [Next]_vars => QInv'
<1>. SUFFICES ASSUME QInv, [Next]_vars PROVE QInv'  OBVIOUS
<1>0. IInv /\ Queued(tstate, runq)  BY DEF QInv
<1>1. IInv'  BY NextOK DEF QInv
<1>2. Queued(tstate', runq')
    <2>1. CASE \E t \in VNodeIds : Load(t)  BY <1>0, <2>1, AddTaskQueued DEF Load
    <2>2. CASE Yield  BY <1>0, <2>2, ScheduleStepQueued DEF Yield
    <2>3. CASE \E n \in Irqs : HandleIrq(n)
        <3>. PICK n \in Irqs : HandleIrq(n)  BY <2>3
        <3>1. CASE Bound(n)  BY <1>0, <3>1, SendQueued DEF HandleIrq
        <3>2. CASE ~Bound(n)  BY <1>0, <3>2, SchedFrameQueued DEF HandleIrq, schedVars
        <3>. QED  BY <3>1, <3>2
    <2>4. CASE \E t \in VNodeIds : Syscall(t)
        <3>. PICK t \in VNodeIds : Syscall(t)  BY <2>4
        <3>1. CASE \E c \in ChannelArgs, len \in PayloadLens : SysIpcSend(t, c, len)
            BY <1>0, <3>1, SysIpcSendQueued
        <3>2. CASE \E c \in ChannelArgs, cap \in OutCaps : SysIpcRecv(t, c, cap)
            BY <1>0, <3>2, SysIpcRecvQueued
        <3>3. CASE \E c \in ChannelArgs : SysBlockOnChan(t, c)
            BY <1>0, <3>3, SysBlockOnChanQueued
        <3>4. CASE ~(\/ \E c \in ChannelArgs, len \in PayloadLens : SysIpcSend(t, c, len)
                     \/ \E c \in ChannelArgs, cap \in OutCaps : SysIpcRecv(t, c, cap)
                     \/ \E c \in ChannelArgs : SysBlockOnChan(t, c))
            <4>1. UNCHANGED <<tstate, runq>>  BY <3>4, QuietSyscallsQueued DEF Syscall
            <4>. QED  BY <1>0, <4>1, SchedFrameQueued
        <3>. QED  BY <3>1, <3>2, <3>3, <3>4
    <2>5. CASE UNCHANGED vars  BY <1>0, <2>5, SchedFrameQueued DEF vars
    <2>. QED  BY <2>1, <2>2, <2>3, <2>4, <2>5 DEF Next
<1>. QED  BY <1>1, <1>2 DEF QInv

(* The invariant gives the property: a queued V-Node is in RUN_QUEUE.     *)
LEMMA QInvMeaning == QInv => VNodeReadyQueued
    BY DEF QInv, Queued, VNodeReadyQueued

(***************************************************************************)
(* No Ready V-Node is ever lost by the scheduler: whatever the number of  *)
(* tasks and channels, in every reachable state of the kernel a V-Node    *)
(* whose TCB is Ready is either the current task or has an entry in       *)
(* RUN_QUEUE, so schedule (scheduler.rs) will reach it.  add_task,        *)
(* unblock_task and the demotion in schedule append the id they make     *)
(* Ready; block_current_task makes no task Ready.                          *)
(***************************************************************************)
THEOREM ReadyVNodesQueued == Spec => []VNodeReadyQueued
<1>1. Init => QInv  BY QueueInitOK
<1>2. QInv /\ [Next]_vars => QInv'  BY QueueNextOK
<1>3. QInv => VNodeReadyQueued  BY QInvMeaning
<1>. QED  BY <1>1, <1>2, <1>3, PTL DEF Spec

=============================================================================
