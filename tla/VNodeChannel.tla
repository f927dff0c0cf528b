---------------------------- MODULE VNodeChannel ----------------------------
(***************************************************************************)
(* The user-side channel wrapper every V-Node links (common/src/ipc/       *)
(* vnode.rs, VNodeChannel), over the FIFO channels of Channel.tla that the *)
(* kernel's mailboxes implement (ChannelProofs!MailboxRefinement).         *)
(*                                                                         *)
(* The operators below take the queue of one channel and compute what a    *)
(* wrapper call returns and the queue it leaves.                           *)
(* Messages are records whose field "from" is the sending V-Node (the      *)
(* kernel's sender_task_id) and whose field "bytes" is the length of the   *)
(* postcard encoding the kernel copies.                                    *)
(*                                                                         *)
(* Cooperative scheduling makes a wrapper call atomic with respect to      *)
(* other V-Nodes: no syscall on these paths switches tasks (IPC_SEND and   *)
(* IPC_RECV_NONBLOCKING never block, and IPC_RECV right after a send to    *)
(* the same channel finds that channel non-empty).                         *)
(***************************************************************************)
EXTENDS Naturals, Sequences

CONSTANT MaxQueue   \* model bound on the length of one channel's queue

ASSUME VNodeChannelAssumption == MaxQueue \in Nat \ {0}

\* The receive buffer: VNodeChannel { buffer: [u8; 4096] }, passed as out_cap.
RecvCap == 4096

(* send_raw / send: IPC_SEND(id, bytes); the kernel appends {sender, copy} *)
(* to the channel's queue q and returns SUCCESS for an in-range id.        *)
CanSend(q) == Len(q) < MaxQueue

SendRaw(q, m) == Append(q, m)

(* recv_non_blocking: IPC_RECV_NONBLOCKING(id, buffer, 4096).  On a        *)
(* non-empty queue the kernel dequeues the head; it copies it only when it *)
(* fits the buffer (the wrapper then returns Ok(Some(bytes))), and drops   *)
(* it otherwise (the wrapper returns Err).  On an empty queue the result   *)
(* is SUCCESS and the wrapper returns Ok(None).                            *)
Taken(q) == Tail(q)

Delivered(m) == m.bytes <= RecvCap

(* send_and_recv(request): send_raw(request), then recv_blocking on the    *)
(* same channel.  The IPC_RECV that follows finds the queue non-empty --   *)
(* the request itself is there -- and dequeues its head: the reply is the  *)
(* oldest message of the channel, whoever sent it.                         *)
SendAndRecvReply(q, m) == Head(SendRaw(q, m))

SendAndRecvRest(q, m) == Taken(SendRaw(q, m))

(* Number of decimal digits format!("{}", n) prints for a natural n.       *)
Digits[n \in Nat] == IF n < 10 THEN 1 ELSE 1 + Digits[n \div 10]

(* Bytes postcard uses for the varint length prefix of a string or vector *)
(* of n elements: 7 bits per byte.                                         *)
VarintLen(n) == IF n < 128 THEN 1 ELSE IF n < 16384 THEN 2 ELSE 3

=============================================================================
