# TLA+ models of AetherOS

This directory holds TLA+ specifications of the AetherOS microkernel and of the V-Nodes (user-space services) that talk to each other over its IPC channels. It contains:
- the TLC configurations that model-check them on small instances;
- TLAPS proofs of the kernel's main invariants, and a proof that the kernel's mailboxes implement an abstract FIFO-channel specification.

`PROJECT.json` is the machine-readable index: components, runs, mutants, the map from every definition to the source lines it models, findings, hazards and theorems.

## The system

**The kernel** (`src/current/aetheros/kernel`, `src/AetherOS/kernel`) runs on one CPU. It has four pieces of shared state, each behind a spin lock.
- **Task table and scheduler** (`task/scheduler.rs`, `tcb.rs`):
  - `TASKS` maps an id to a TCB (state Running/Ready/Blocked/Exited, and capabilities); `RUN_QUEUE`; `CURRENT_TASK_ID`.
  - `schedule` demotes a still-Running current task and requeues it. It then pops ids, skipping those not in `TASKS`, and makes the first one Running.
  - Also: `block_current_task`, `unblock_task`, `add_task`, `remove_task`.
- **Mailboxes** (`ipc/mailbox.rs`): 32 FIFO queues. `send` appends and then calls `task::unblock_task_on_channel(channel_id)`; `recv` pops.
- **DMA registry** (`arch/x86_64/dma.rs`): `NEXT_HANDLE` (from 1) and handle ↦ `Vec<u8>`, with alloc, free, pointer and `set_len` (checked against the capacity).
- **IRQ dispatcher** (`irq.rs`): IRQ ↦ channel. `handle_irq` sends a one-byte message from task 0.
- **Syscall dispatcher** (`syscall.rs`): each branch checks a capability, calls the layers above, and returns a u64 that is a result or a sentinel (`SUCCESS` 0, `E_ERROR` 1, `E_ACC_DENIED`, `E_UNKNOWN_SYSCALL`).

**The user side.**
- Every V-Node talks through `VNodeChannel` (`common/src/ipc/vnode.rs`): `send`, `recv_non_blocking`, `recv_blocking`, and `send_and_recv`, which is a send followed by a blocking receive *on the same channel*.
- Every service below answers on the channel it polls. Requests and responses therefore share one FIFO queue: a reader takes whatever is at the head, and postcard decodes a message of the other enum as whatever its bytes spell.

**The services.**
- **VFS** (`vnode/vfs`, channel 7): `open_files` and `next_fd`.
- **init-service** (`vnode/init-service`, channel 6): `running_vnodes` (name ↦ pid) and `next_pid`. The shell's `start` command calls it.
- **The network path** (`vnode/net-bridge`, `vnode/net-stack` with its smoltcp device `aethernet_device.rs`, `vnode/socket-api`):
  - net-bridge owns the NIC. It allocates an RX DMA buffer, binds IRQ 11 to channel 2, frees TX buffers named by `TxPacket`, polls the NIC on every event, and sends `RxPacket` and `TxPacketAck` to channel 3.
  - AetherNet (net-stack) reads `NetPacketMsg` on channel 2 and `NetStackRequest` on channel 3. It keeps a socket table and transmits through DMA buffers it allocates.
  - socket-api serves POSIX-like requests on channel 4 by calling AetherNet on channel 3 with `send_and_recv`.

## Modules

| module | models | state ↔ code |
|---|---|---|
| `Scheduler` | scheduler.rs, tcb.rs, task.rs | `tstate` = TASKS (`"Absent"` when not a key), `runq` = RUN_QUEUE, `current` = CURRENT_TASK_ID |
| `Mailbox` (EXTENDS Scheduler) | mailbox.rs | `mbox[c]` = queue of channel c; a message is `[sender, len]` |
| `Dma` | dma.rs | `nextHandle`; `dbuf[h]` = status (never/live/freed), capacity, length, and the bytes the kernel wrote |
| `Irq` | irq.rs | `irqMap[n]` = bound channel or `NoChannel` |
| `Kernel` | syscall.rs, caps.rs, vnode_loader.rs, main.rs | one action per syscall branch, `HandleIrq`, `Load`, `Yield`; `blockedOn` and `last` are auxiliary |
| `Channel` | mailbox.rs (its contract) | abstract FIFO channels `chan` |
| `VNodeChannel` | common/src/ipc/vnode.rs | operators on one queue: `SendRaw`, `Taken`, `Delivered` (the kernel's 4096-byte length check), `SendAndRecvReply`/`SendAndRecvRest` |
| `Vfs` | vnode/vfs, ipc/vfs_ipc.rs | `chan7`, `openFiles`, `nextFd`; clients' `reply` |
| `InitService` | vnode/init-service, shell's `start` | `chan6`, `running`, `nextPid`; the shell's last decoded answer |
| `NetStack` | net-stack's request handler | pure operators: the socket table as a record, `ServeRequest` |
| `NetPath` (EXTENDS Dma, VNodeChannel, NetStack) | net-bridge, net-stack main loop, aethernet_device.rs | `chan2`, `chan3`, bridge `bridgePc`/`rxHandle`/`irqBound`, the service's `stackPc`, `rxq`, `table`, `txBufs` |
| `SocketApi` (EXTENDS NetPath) | vnode/socket-api | `chan4`, `sockets` (fd ↦ net handle, type, listening), `nextFd` |
| `KernelProofs`, `DmaProofs`, `QueueProofs`, `ChannelProofs` | — | theorems about the kernel |
| `SeqLemmas` | — | `TypedSeq` (a queue whose messages have a type in a set) and the lemmas that `Append` and `Tail` keep it |
| `InitServiceProofs`, `NetworkProofs`, `VfsProofs` | — | theorems about init-service, the network path with socket-api, and the VFS |
| `MCKernel`, `MCVfs`, `MCInitService`, `MCNetPath`, `MCSocketApi` | — | constants for TLC |

**How the models correspond to the code.**
- **Kernel.** Each scheduler function is an operator. `Schedule` is split into `Demote`, `Requeue`, `LiveSlots` and `FirstSlot` (the pop loop). Each `syscall_dispatch` branch is one action `Sys…`, and it includes every call the branch makes: `Send` with its wakeup, `BlockCurrent` with its `schedule`, `AllocBuf`, `SetLen`. `Gated` is the capability test with its `E_ACC_DENIED` early return. `SysNetRxPoll` copies the frame before `set_dma_buffer_len` decides, as the code does.
- **Service loops.** One iteration of a service loop is one action: receive, decode, handle, and answer on the same channel.
  - `VfsServe`, `VfsDrop` and `VfsIdle` cover VFS's Open, Read, Write, List, Stat and Close.
  - `InitServe`, `InitDrop` and `InitIdle` cover init-service, with `StartOn` shared by Start and Restart.
  - `ApiServe` covers socket-api, with `ApiSocket`, `ApiBind`, `ApiListen`, `ApiConnect`, `ApiSend`, `ApiRecv`, `ApiClose` and the error arms.
- **Clients.** A client's `send_and_recv` is one action: the caller gets the head of the queue after its own append.
- **Decoding across enums** is modelled by what postcard produces (`AsInitRequest`, `AsVfsRequest`, `AsNetStackRequest`, `AsSocketRequest`, `AsNetStackResponse`). For example, an init `Status{name,..}` reads as `ServiceStatus{name}`, and a `RxPacket{h,len}` reads as `OpenSocket(h,len)`.
- **NetPath.**
  - `BridgeBoot`, `BridgeFirst` and `BridgeSecond` are net-bridge's boot and its two receives per loop.
  - `StackBridgeRecv` and `StackPoll` (`ReceiveAll` or `Transmit`) are AetherNet's loop over its device.
  - `StackApiRecv` serves one `NetStackRequest`.
  - `Interrupt` is the NIC raising IRQ 11.
- **Abstractions.**
  - Payloads are lengths.
  - Texts the services format keep only their length.
  - What smoltcp decides (`can_send`, when to transmit) is a nondeterministic input, because smoltcp is not part of this tree.
  - Every operation is one atomic step: one CPU, locks held for each function's body, interrupts between kernel entries.
- **Queue bounds.** `MaxQueue`, `MaxMsgs`, `MaxRunQueue` and `MaxReqs` bound the state space. The code's queues are unbounded, so a send blocked by `CanSend` stands for a state the model does not explore. It is never a drop.

## Runs

| run | expect | what it shows |
|---|---|---|
| MCKernel | pass | The whole kernel with the kernel task and two V-Nodes. It has one channel of up to two messages (plus the first out-of-range channel id), IRQ 11, buffers of 64 and 1536 bytes, and two handles. It checks `TypeOK`, `RunningIsCurrent`, `VNodeReadyQueued` (a Ready V-Node is queued or current), `LenWithinCapacity`, `HandlesFresh` (no handle is reissued), and `MailboxIsFifo` (the kernel implements `Channel` under `chan <- mbox`). 340k states, about 40 s. |
| MCVfs | pass | `OpenNeverReplaces`: an open fd keeps its path and opener until Close, with two clients sending and calling through `send_and_recv`. |
| MCInitService | pass | `RunningPidsDistinct` under start/status/restart/stop from a client and the shell, including the responses the service reads back as requests. |
| MCSocketApi | pass | socket-api, AetherNet and net-bridge together, with one interrupt: `TxPacketNamesLiveBuffer` (a TxPacket in flight names a live buffer of the announced length). 2.7M states, about 30 s. |
| MCKernel_NoLostWakeup | violation | `send` wakes the task whose *id* is the channel number. A V-Node blocked in IPC_RECV stays Blocked with a message waiting. |
| MCKernel_FilledWithinCapacity | violation | NET_RX_POLL writes 98 bytes into a 64-byte DMA buffer before `set_len` refuses. |
| MCKernel_NoEffectWithoutCapability | violation | SYS_BLOCK_ON_CHAN needs no capability. |
| MCVfs_ReplyFromVfs | violation | A client's `send_and_recv` returns its own request, or an earlier answer, instead of VFS's reply. |
| MCInitService_InitEventuallyIdle | violation | Under weak fairness of the service loop, init-service answers its own responses forever: Status ↦ ServiceStatus ↦ Status. |
| MCNetPath_TxBuffersAccounted | violation | TX DMA buffers leak. Handle 1 equals `E_ERROR`, and TxPackets are taken by the wrong reader of channel 2. |
| MCNetPath_RxHandleOwnedOnce | violation | Two interrupts before AetherNet reads channel 3 make net-bridge announce its one RX buffer twice; the second RX_POLL has overwritten the first frame. |
| MCNetPath_RxPacketReachesDevice | violation | Under weak fairness of both loops, a received frame never reaches AetherNet's device: `RxPacket` goes to channel 3, where it decodes as `OpenSocket`. |

The findings in `PROJECT.json` explain each violation against the source line.

**Mutants.** Each property of a passing run is killed by a mutant of the code it is about:
- a `schedule` that forgets to demote, or stores the queue position as the id;
- an `add_task` that does not queue;
- `set_len` without its capacity check;
- `alloc` without incrementing `NEXT_HANDLE`;
- an IRQ message from the interrupted task;
- a receive from the tail;
- a VFS Open or init Start that does not increment its counter;
- a transmit that frees its buffer before sending the TxPacket;
- a Listen that ignores the socket type.

**Bounds.**
- Three task ids are the fewest for which one task blocks while another sends and a third is current. They make a wrong wakeup target observable.
- One channel of two messages is enough to observe an order: three senders can fill it, so a receive from the tail or a send to the front breaks `MailboxIsFifo`. `NumChannels` also adds the first out-of-range id to the arguments.
- Queues of two messages cover empty, non-empty and full.
- The DMA sizes lie on either side of the 98-byte frame.
- The services get two or three requests. That is enough for a response to be read back as a request, and for an fd or pid counter to move past an open entry.
- Two interrupts in the NetPath violation runs let a second event arrive before the first RxPacket is read.
- In MCSocketApi, `MaxHandle = 3` lets net-bridge's RX buffer and two TX buffers of AetherNet be live at once.
- `VIEW MCView` drops the auxiliary `last` from state identity. No action reads it.

**Fairness.** The two liveness runs assume weak fairness of a service's loop action (`WF_vars(InitLoop)` in `InitService`; the bridge loop and the AetherNet loop in `NetPath`). Each of those loops never blocks: it polls with `recv_non_blocking`, or it reads an event, and each iteration is enabled whenever the task runs. There is no preemption in the kernel (`timer::tick` is never called), so the models assume the scheduling the V-Nodes are designed for, in which every service loop keeps getting the CPU. Under that assumption the violations are real: the loops run forever without reaching their goal.

## Proofs (checked by tlapm)

| theorem | module | statement |
|---|---|---|
| `TypeCorrect` | KernelProofs | `Spec => []TypeOK` |
| `OnlyCurrentRuns` | KernelProofs | `Spec => []RunningIsCurrent` |
| `LengthBounded` | DmaProofs | `Spec => []LenWithinCapacity` |
| `HandlesNeverReused` | DmaProofs | `Spec => []HandlesFresh` |
| `ReadyVNodesQueued` | QueueProofs | `Spec => []VNodeReadyQueued` |
| `MailboxRefinement` | ChannelProofs | `Spec => MailboxIsFifo`, i.e. the kernel implements `Channel` under `chan <- mbox` |
| `PidsNeverShared` | InitServiceProofs | `Spec => []RunningPidsDistinct` |
| `TxBuffersLive` | NetworkProofs | `Spec => []TxPacketNamesLiveBuffer` (NetPath alone) |
| `TxBuffersLiveWithApi` | NetworkProofs | `SocketSpec => []TxPacketNamesLiveBuffer` (with socket-api) |
| `OpenNeverReplacesHolds` | VfsProofs | `Spec => OpenNeverReplaces` (an action property) |

They hold for all constants satisfying the modules' `ASSUME`s: task ids are naturals including 0, bounds are positive, and capability lists are sets of capabilities.

**Kernel invariants.** Neither invariant is inductive alone:
- `schedule` keeps the type only because it promotes an id that is in `TASKS`;
- it keeps "only the current task runs" only because no other task is Running before it.

So the proof uses `IInv == StateOK /\ LastOK(last)`, and `IInvMeaning` shows that `IInv` is exactly `TypeOK /\ RunningIsCurrent`.
- `InitOK` proves `Init => IInv`.
- `NextOK` proves `IInv /\ [Next]_vars => IInv'`, with one lemma per action, resting on `ScheduleSafe`, `BlockCurrentOK`, `UnblockOK`, `AddTaskOK` and `SendOK`.
- `ScheduleSafe` is the heart. The least live queue position exists (`NatSetHasMin`, by well-foundedness of `<` on Nat) and lies in the queue. After demotion no task is Running, so promoting one leaves exactly the current task Running.

**DMA invariants.** The inductive invariant is `DInv == IInv /\ LenWithinCapacity /\ HandlesFresh`.
- `OtherSyscallsQuiet` shows the other syscalls, loads, yields and interrupts leave the registry alone.
- Alloc needs `HandlesFresh` itself: `nextHandle` is the first never-issued slot.
- NET_RX_POLL changes only `filled`, and its length write is guarded by `SetLenOk`.

**Ready V-Nodes queued.** `VNodeReadyQueued` is not inductive either: `schedule` pops entries before the one it promotes, and that is harmless only because every popped entry names no task of `TASKS`. `QueueProofs` uses `QInv == IInv /\ Queued(tstate, runq)`, which says every Ready V-Node has an entry in `RUN_QUEUE`.  `Queued` is stronger than the property, which also allows the current task; `QInvMeaning` drops that case.
- `FirstSlotLeast` and `RequeueQueued`: every entry before the first live slot names an absent task, so dropping those entries loses no Ready V-Node. `ScheduleQueued` adds the demoted task at the tail.
- `AppendToSet`, `UnblockQueued` and `AddTaskQueued`: appending keeps the old entries and adds the new Ready id.
- `BlockCurrentQueued`: `block_current_task` makes no task Ready before it calls `schedule`.
- `QuietSyscallsQueued`: every other syscall leaves `TASKS` and `RUN_QUEUE` alone, denied or not.
- `QueueNextOK` splits `Next` over these lemmas.

**Refinement.** `ChannelProofs` shows that every kernel step maps to a `Channel` step or a stutter of `mbox`:
- `SendRefines`: an in-range send is `ChanSend` of `{sender, len}`; an out-of-range send changes nothing.
- `RecvRefines`: a receive takes the head of a non-empty channel.
- `SysIpcSendRefines`, `SysIpcRecvRefines` and `HandleIrqRefines` cover the syscalls and interrupts.
- `OtherSyscallsKeepMailboxes` covers everything else.

`NextRefines` combines these under `IInv`, which supplies that senders are task ids and bound IRQs name channel arguments. Together with `Init` mapping to `ChanInit`, this gives the theorem by `PTL`.

**Service proofs and typed queues.** The service loops decode whatever is at the head of their channel, and `HandleRequest`/`ApiHandle` are `CASE`s with no `OTHER`. So a proof about a service must know which variants can be on its channel. `SeqLemmas.TypedSeq(q, T)` says every message of `q` has a type in `T`; `AppendTyped` and `TailTyped` show that a send and a receive keep it.
- **init-service pids.** `PInv` says `nextPid` is a natural above every pid in `running`, the pids are distinct, and channel 6 holds only InitRequests and InitResponses. The bound is what makes distinctness inductive: `ServiceStart` gives the new entry `nextPid`, which no entry can hold. `DecodedIsRequest` shows postcard reads every message of channel 6 as some request, so exactly one arm of `HandleRequest` runs.
- **TX buffers.** `TxPacketNamesLiveBuffer` is not inductive: a step that frees or allocates a buffer could hit one a TxPacket names. `NInv` adds:
  - the DMA type invariant;
  - `rxHandle < nextHandle`;
  - an empty device receive queue, since channel 2 never carries an RxPacket (only TxPackets and IRQ events, `TypedSeq(chan2, Chan2Types)`);
  - every TxPacket names a handle below `nextHandle`, other than `rxHandle`, that is live with the packet's length (`TxGood`);
  - no two TxPackets name the same handle (`TxUnique`).

  With these conjuncts, each step can be checked against the buffers that TxPackets name:
  - transmit allocates `nextHandle`, above every named handle (`TxAppendFresh`);
  - net-bridge frees the handle of the packet it dequeues, and no other packet names that handle (`TxTail`);
  - the RX poll writes only `rxHandle`, which no packet names (`RxPollKeeps`);
  - boot allocates the RX buffer above every named handle;
  - every other step moves nothing a TxPacket names (`TxFrame`).

  `NInvSocketNext` adds socket-api's steps, which leave channel 2 and the registry alone.
- **VFS.** `VInv` says `nextFd` is a natural above every open fd, and every entry of `openFiles` is an `OpenFile` record. Open lands on a fresh fd. Read and Write change only `cursor` and `movedBy` of an open record (`MovedOK`), and Close only removes an entry. `DecodedRequest` shows a message that decodes is one of the six requests.

**Proof-friendly forms.** Two forms in the models exist so that tlapm can read them:
- `Insert(f, k, v)` stands where TLC's `k :> v @@ f` would (InitService, SocketApi, Vfs). tlapm cannot expand `:>` and `@@`. `NetStack` still uses them, since no theorem is about it.
- `Vfs!Created` names the VfsMetadata timestamp, so that Zenon never sees the 10-digit literal.

**TLC before TLAPS.** Every inductive invariant was checked by TLC as an invariant of the run before it was proved:
  - `PInv` on MCInitService;
  - `NInv` on MCSocketApi;
  - `VInv` on MCVfs.

**Only model-checked.**
- Liveness and ENABLED, which are out of TLAPS's reach.
- The properties of the violation runs, which TLC shows false.

## Not modelled

- **Memory, heap, paging, GDT/IDT, serial, console, ELF, AetherFS:** hardware set-up and I/O stubs.
- **Lock-level interleavings:** the lock-order inversion between `schedule` (RUN_QUEUE → CURRENT → TASKS) and `unblock_task` (TASKS → RUN_QUEUE), and an interrupt taken while a syscall holds a lock. Every operation is atomic in these models. That is faithful here: `handle_irq` is never called from an interrupt handler in this tree, and the kernel runs one V-Node at a time, so the locks are never contended.
- **`load_vnode`** is called nowhere, so its ids (`1000 + first byte`) never collide in this tree.
- **VFS Delete, CreateDirectory and Move, and file-manager's calls to them:** they name variants that `VfsRequest` does not have, so that code does not build.
- **smoltcp:** it is not part of the tree. Its answers are inputs of `ServeRequest` and `StackPoll`.
- **socket-api does not build as written:** `_start() -> !` holds `return SocketResponse::Error(..)` (main.rs:69, 101, 196), and `data` is used at main.rs:201-202 after it was moved at 189/192. `SocketApi` follows the evident intent: each such `return` answers the client with that Error and the loop goes on.
- **socket-api's Data decoding:** `AsSocketRequest` reads every `SockData` response read back from channel 4 as undecodable. That matches postcard only for payloads of at most one byte, which is all MCSocketApi's `DataLens = {0}` produces; under the module's `ASSUME` (lengths up to 4), a longer payload would decode as a request, e.g. 5 bytes as `Bind{fd 5}`. No property depends on it.
- **Two hazards without a run.** An interrupt on an IRQ bound to an out-of-range channel (IRQ_REGISTER does not range-check, syscall.rs:120) is lost: `kernel_send` fails and `handle_irq` drops the error. And socket-api's echoed `Error(-1)` decodes as `Listen{fd 1}`, which can mark a stream socket listening without its client asking. Both are recorded as hazards; no run states them.
- **dns-resolver** does not build: the `_` arm of its Recv match (main.rs:155) ends in `DnsResponse::Error {..};`, so that arm is `()` where the others are `DnsResponse`.
- **registry, file-manager, mail, model-runtime, Nexus, and the shell's other commands:** not modelled yet. They follow the same shared-channel pattern as VFS and init-service.
- **The 1-byte IPC message read as `E_ERROR`** by `recv_blocking`. The model's payload lengths exclude 1; the handle-1 case is covered through `TxBuffersAccounted`.
