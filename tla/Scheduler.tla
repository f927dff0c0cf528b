----------------------------- MODULE Scheduler -----------------------------
(***************************************************************************)
(* The task table and the round-robin scheduler of the AetherOS kernel     *)
(* (kernel/src/task/scheduler.rs, kernel/src/task/tcb.rs, kernel/src/     *)
(* task.rs).                                                               *)
(*                                                                         *)
(* The code keeps three spin-locked statics:                               *)
(*   TASKS           : BTreeMap<u64, TaskControlBlock>   -> tstate         *)
(*   RUN_QUEUE       : VecDeque<u64>                     -> runq           *)
(*   CURRENT_TASK_ID : u64                               -> current        *)
(* A task id that is not a key of TASKS has tstate "Absent".  The name and *)
(* the capability list of a TCB never change after insertion except by a   *)
(* whole-TCB replacement, so they are not state here (see Kernel.tla for   *)
(* the capability lists).                                                  *)
(*                                                                         *)
(* Every operation runs with the locks it takes held for its whole body    *)
(* and the kernel runs on one CPU with no preemption, so each operation is *)
(* one atomic step.  The operations are written as operators so that the   *)
(* kernel model (Kernel.tla) can call them inside its syscall actions.     *)
(***************************************************************************)
EXTENDS Naturals, Sequences, SequencesExt

CONSTANTS
    TaskIds,       \* the task ids that can ever exist (u64 ids)
    MaxRunQueue    \* model bound on the length of RUN_QUEUE (the code has none)

\* The kernel pseudo-task created by scheduler::init (id 0).
KernelTask == 0

\* Ids given to V-Nodes by vnode_loader::load_vnode (1000 + first byte).
VNodeIds == TaskIds \ {KernelTask}

ASSUME SchedAssumption ==
    /\ TaskIds \subseteq Nat
    /\ KernelTask \in TaskIds
    /\ MaxRunQueue \in Nat \ {0}

\* TaskState of tcb.rs, plus "Absent" for an id that is not a key of TASKS.
TaskStates == {"Running", "Ready", "Blocked", "Exited"}
Absent == "Absent"

VARIABLES tstate, runq, current

schedVars == <<tstate, runq, current>>

Present(t) == tstate[t] # Absent

(***************************************************************************)
(* scheduler::schedule, as a function of the state it reads: the record of *)
(* the new task table, run queue and current id.  If the old task is still *)
(* Running it is demoted to Ready and appended to the queue; then ids are  *)
(* popped from the front, skipping ids that are not in TASKS, and the      *)
(* first id found is made Running and current (whatever its state was).   *)
(* If none is found the queue is left empty and current is unchanged.      *)
(***************************************************************************)
\* The old task, if still Running, is demoted to Ready ...
Demote(ts, cur) == IF ts[cur] = "Running" THEN [ts EXCEPT ![cur] = "Ready"] ELSE ts

\* ... and pushed to the back of the run queue.
Requeue(ts, q, cur) == IF ts[cur] = "Running" THEN Append(q, cur) ELSE q

\* Positions of the queue that hold an id present in TASKS.
LiveSlots(ts, q) == {i \in 1..Len(q) : ts[q[i]] # Absent}

\* The first of them: pop_front skips the positions before it.
FirstSlot(live) == CHOOSE i \in live : \A j \in live : i <= j

\* Mutant: the demotion of the old Running task is forgotten.
MutScheduleNoDemote(ts, q, cur) ==
    LET live == LiveSlots(ts, q)
    IN  IF live = {}
        THEN [ts |-> ts, q |-> <<>>, cur |-> cur]
        ELSE [ts |-> [ts EXCEPT ![q[FirstSlot(live)]] = "Running"],
              q  |-> SubSeq(q, FirstSlot(live) + 1, Len(q)),
              cur |-> q[FirstSlot(live)]]

\* Mutant: the queue position is stored as the current id.
MutScheduleIndex(ts, q, cur) ==
    LET ts1 == Demote(ts, cur)
        q1  == Requeue(ts, q, cur)
        live == LiveSlots(ts1, q1)
    IN  IF live = {}
        THEN [ts |-> ts1, q |-> <<>>, cur |-> cur]
        ELSE [ts |-> [ts1 EXCEPT ![q1[FirstSlot(live)]] = "Running"],
              q  |-> SubSeq(q1, FirstSlot(live) + 1, Len(q1)),
              cur |-> FirstSlot(live)]

Schedule(ts, q, cur) ==
    LET ts1   == Demote(ts, cur)
        q1    == Requeue(ts, q, cur)
        first == FirstSlot(LiveSlots(ts1, q1))
    IN  IF LiveSlots(ts1, q1) = {}
        THEN [ts |-> ts1, q |-> <<>>, cur |-> cur]
        ELSE [ts |-> [ts1 EXCEPT ![q1[first]] = "Running"],
              q  |-> SubSeq(q1, first + 1, Len(q1)),
              cur |-> q1[first]]

\* Take the scheduler state to the record r computed by Schedule.
SetSched(r) ==
    /\ tstate' = r.ts
    /\ runq' = r.q
    /\ current' = r.cur

\* scheduler::schedule (task::schedule): a yield.
ScheduleStep == SetSched(Schedule(tstate, runq, current))

(***************************************************************************)
(* scheduler::block_current_task (task::block_current_on_channel ignores   *)
(* its channel argument and calls it): the current task, if it is in       *)
(* TASKS, becomes Blocked whatever its state, then schedule runs.          *)
(***************************************************************************)
BlockedTable ==
    IF Present(current) THEN [tstate EXCEPT ![current] = "Blocked"] ELSE tstate

BlockCurrent == SetSched(Schedule(BlockedTable, runq, current))

(***************************************************************************)
(* scheduler::unblock_task(t): a Blocked task becomes Ready and is         *)
(* appended to the run queue; anything else is a no-op.                    *)
(***************************************************************************)
UnblockTask(t) ==
    IF t \in TaskIds /\ tstate[t] = "Blocked"
    THEN /\ tstate' = [tstate EXCEPT ![t] = "Ready"]
         /\ runq' = Append(runq, t)
         /\ UNCHANGED current
    ELSE UNCHANGED schedVars

(***************************************************************************)
(* scheduler::add_task via task::create_task: the TCB built by             *)
(* TaskControlBlock::new (state Ready) is inserted into TASKS, replacing   *)
(* any TCB with the same id, and the id is appended to the run queue.      *)
(***************************************************************************)
\* Mutant: the new TCB is inserted but its id is not queued.
MutAddTaskNoQueue(t) ==
    /\ Len(runq) < MaxRunQueue
    /\ tstate' = [tstate EXCEPT ![t] = "Ready"]
    /\ UNCHANGED <<runq, current>>

AddTask(t) ==
    /\ Len(runq) < MaxRunQueue
    /\ tstate' = [tstate EXCEPT ![t] = "Ready"]
    /\ runq' = Append(runq, t)
    /\ UNCHANGED current

(***************************************************************************)
(* scheduler::remove_task: the id leaves TASKS and every occurrence of it  *)
(* leaves the run queue (VecDeque::retain).  CURRENT_TASK_ID is untouched. *)
(***************************************************************************)
RemoveTask(t) ==
    /\ tstate' = [tstate EXCEPT ![t] = Absent]
    /\ runq' = Remove(runq, t)
    /\ UNCHANGED current

(***************************************************************************)
(* scheduler::init: TASKS holds only the kernel task, built by             *)
(* TaskControlBlock::new and so in state Ready; it is the current task;    *)
(* the run queue is empty.                                                 *)
(***************************************************************************)
SchedInit ==
    /\ tstate = [t \in TaskIds |-> IF t = KernelTask THEN "Ready" ELSE Absent]
    /\ runq = <<>>
    /\ current = KernelTask

-----------------------------------------------------------------------------
(* The scheduler on its own: the loader adds V-Nodes, tasks are removed,  *)
(* the current task yields or blocks, and blocked tasks are unblocked.    *)

SchedNext ==
    \/ \E t \in VNodeIds : AddTask(t)
    \/ \E t \in VNodeIds : RemoveTask(t)
    \/ ScheduleStep
    \/ BlockCurrent
    \/ \E t \in TaskIds : tstate[t] = "Blocked" /\ UnblockTask(t)

SchedSpec == SchedInit /\ [][SchedNext]_schedVars

-----------------------------------------------------------------------------
SchedTypeOK ==
    /\ tstate \in [TaskIds -> TaskStates \cup {Absent}]
    /\ runq \in Seq(TaskIds)
    /\ current \in TaskIds

(***************************************************************************)
(* At most one task is Running, and it is the current task: schedule must  *)
(* demote the old task before promoting the next, and no other path may    *)
(* make a task Running (spec section 8, first invariant).                  *)
(***************************************************************************)
RunningIsCurrent ==
    \A t \in TaskIds : tstate[t] = "Running" => t = current

(***************************************************************************)
(* A V-Node task that is Ready is in the run queue or is the current task, *)
(* so round-robin will reach it: add_task, unblock_task and the demotion   *)
(* in schedule must each append the id they make Ready.                    *)
(***************************************************************************)
VNodeReadyQueued ==
    \A t \in VNodeIds :
        tstate[t] = "Ready" => t \in ToSet(runq) \/ t = current

=============================================================================
