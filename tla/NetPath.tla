------------------------------ MODULE NetPath ------------------------------
(***************************************************************************)
(* The network data path: the net-bridge driver V-Node (vnode/net-bridge), *)
(* the AetherNet service's main loop (vnode/net-stack/main.rs) and its     *)
(* smoltcp device (aethernet_device.rs), over the kernel's DMA registry    *)
(* (Dma), IRQ 11 and channels 2 and 3.                                     *)
(*                                                                         *)
(*   net-bridge: own_chan 2 (IRQ events and TxPacket), sends RxPacket and  *)
(*               TxPacketAck to channel 3;                                 *)
(*   net-stack:  reads NetPacketMsg from channel 2 ("bridge_data_chan"),   *)
(*               socket requests from channel 3, where it also answers;   *)
(*               its device sends TxPacket to channel 2.                   *)
(*                                                                         *)
(* A message is [from, ty, h, len]: sender, variant, DMA handle (or socket *)
(* handle or error code) and length.  smoltcp is abstracted to the calls   *)
(* it makes on the device: iface.poll takes the next queued RX packet      *)
(* (receive, then the RxToken's consume), and may ask for one TX token     *)
(* (transmit, then the TxToken's consume) whenever it has a frame to send. *)
(***************************************************************************)
EXTENDS Naturals, Sequences, Dma, VNodeChannel, NetStack

CONSTANTS
    BridgeId,   \* task id of net-bridge
    StackId,    \* task id of the AetherNet service (net-stack)
    IrqWired,   \* whether a hardware interrupt handler calls handle_irq
    MaxIrqs     \* model bound: number of interrupts

ASSUME NetPathAssumption ==
    /\ BridgeId # StackId /\ 0 \notin {BridgeId, StackId}
    /\ IrqWired \in BOOLEAN /\ MaxIrqs \in Nat

VARIABLES
    chan2, chan3,  \* queues of channels 2 and 3
    bridgePc,      \* "boot", "first" / "second" recv of the loop, "panicked"
    rxHandle,      \* net-bridge's rx_dma_handle (0 before it is allocated)
    irqBound,      \* IRQ_TO_CHANNEL_MAP[11] = 2
    irqs,          \* interrupts taken so far (bound only)
    stackPc,       \* net-stack loop position: "bridge", "poll", "api"
    rxq,           \* AetherNetDevice.rx_packet_queue: <<handle, len>> pairs
    table,         \* net-stack's socket table (NetStack)
    txBufs         \* handles the device allocated for TX (auxiliary)

netVars == <<chan2, chan3, bridgePc, rxHandle, irqBound, irqs, stackPc, rxq,
              table, txBufs>>
vars == <<nextHandle, dbuf, netVars>>

Msg(from, ty, h, len) == [from |-> from, ty |-> ty, h |-> h, len |-> len]

\* Syscall results the wrappers compare with (syscall.rs).
SUCCESS == 0
E_ERROR == 1

\* RX_BUFFER_SIZE and TX_BUFFER_SIZE: a maximal Ethernet frame plus headroom.
RxBufferSize == 1536
TxBufferSize == 1536

\* The simulated ICMP echo request SYS_NET_RX_POLL copies (98 bytes).
SimulatedPacketLen == 98

-----------------------------------------------------------------------------
(* The kernel side, as the syscalls the two V-Nodes make compute it.       *)

(* SYS_NET_RX_POLL(0, h, cap): copy the packet into h's buffer when it     *)
(* fits cap and h is live, then set_dma_buffer_len(h, 98); the result is   *)
(* 98, or E_ERROR.  The copy happens before set_len decides.              *)
RxPollResult(h, cap) ==
    IF SimulatedPacketLen <= cap /\ Live(h) /\ SetLenOk(h, SimulatedPacketLen)
    THEN SimulatedPacketLen ELSE E_ERROR

RxPollBuffers(h, cap) ==
    IF SimulatedPacketLen <= cap /\ Live(h)
    THEN [dbuf EXCEPT ![h].filled = SimulatedPacketLen,
                      ![h].len = IF SetLenOk(h, SimulatedPacketLen) THEN SimulatedPacketLen ELSE @]
    ELSE dbuf

(* handle_irq(11): a one-byte message [11] from task 0 to the channel     *)
(* IRQ 11 is registered to; nothing when it is not registered.             *)
Interrupt ==
    /\ IrqWired /\ irqs < MaxIrqs
    /\ irqs' = irqs + 1
    /\ IF irqBound
       THEN /\ CanSend(chan2)
            /\ chan2' = SendRaw(chan2, Msg(0, "Irq", 11, 0))
       ELSE UNCHANGED chan2
    /\ UNCHANGED <<nextHandle, dbuf, chan3, bridgePc, rxHandle, irqBound, stackPc,
                   rxq, table, txBufs>>

-----------------------------------------------------------------------------
(* net-bridge (net-bridge/src/main.rs).                                    *)

(* _start: net_alloc_buf(1536); a handle equal to E_ERROR (1) is taken for *)
(* an error and the bridge panics.  Then IRQ_REGISTER(11, 2).              *)
BridgeBoot ==
    /\ bridgePc = "boot"
    /\ AllocBuf(RxBufferSize)
    /\ IF nextHandle = E_ERROR
       THEN /\ bridgePc' = "panicked"
            /\ UNCHANGED <<rxHandle, irqBound>>
       ELSE /\ bridgePc' = "first"
            /\ rxHandle' = nextHandle
            /\ irqBound' = TRUE
    /\ UNCHANGED <<chan2, chan3, irqs, stackPc, rxq, table, txBufs>>

(* First recv of the loop: a TxPacket is transmitted (NET_TX), its buffer  *)
(* freed and a TxPacketAck sent to channel 3; any other message, decoded   *)
(* or not, is logged and dropped.  An empty channel does nothing.          *)
BridgeFirst ==
    /\ bridgePc = "first"
    /\ bridgePc' = "second"
    /\ IF chan2 = <<>>
       THEN UNCHANGED <<chan2, chan3, nextHandle, dbuf>>
       ELSE /\ chan2' = Taken(chan2)
            /\ IF Head(chan2).ty = "TxPacket"
               THEN /\ FreeBuf(Head(chan2).h)
                    /\ CanSend(chan3)
                    /\ chan3' = SendRaw(chan3, Msg(BridgeId, "TxPacketAck", 0, 0))
               ELSE UNCHANGED <<chan3, nextHandle, dbuf>>
    /\ UNCHANGED <<rxHandle, irqBound, irqs, stackPc, rxq, table, txBufs>>

(* Second recv: ANY message is taken for an IRQ event.  IRQ_ACK, then      *)
(* SYS_NET_RX_POLL into rx_dma_handle with cap RX_BUFFER_SIZE; a result    *)
(* "> SUCCESS" -- E_ERROR included -- is a packet of that length: set_len, *)
(* and on Ok an RxPacket{rx_dma_handle, len} to channel 3.  The same       *)
(* buffer is used for the next poll.                                       *)
BridgeSecond ==
    /\ bridgePc = "second"
    /\ bridgePc' = "first"
    /\ IF chan2 = <<>>
       THEN UNCHANGED <<chan2, chan3, dbuf>>
       ELSE LET n == RxPollResult(rxHandle, RxBufferSize)
                after == RxPollBuffers(rxHandle, RxBufferSize)
                ok == n > SUCCESS /\ SetLenOk(rxHandle, n)
            IN  /\ chan2' = Taken(chan2)
                /\ dbuf' = IF ok THEN [after EXCEPT ![rxHandle].len = n] ELSE after
                /\ IF ok
                   THEN /\ CanSend(chan3)
                        /\ chan3' = SendRaw(chan3, Msg(BridgeId, "RxPacket", rxHandle, n))
                   ELSE UNCHANGED chan3
    /\ UNCHANGED <<nextHandle, rxHandle, irqBound, irqs, stackPc, rxq, table, txBufs>>

-----------------------------------------------------------------------------
(* The AetherNet service (net-stack/src/main.rs) and its device            *)
(* (aethernet_device.rs).                                                  *)

(* postcard::from_bytes::<NetStackRequest> of a message on channel 3.  A   *)
(* request decodes as itself (fields a, b are the message's h, len).  An   *)
(* RxPacket{dma_handle, len} (variant 0, two varints) reads as             *)
(* OpenSocket(sock_type = dma_handle, local_port = len).  TxPacketAck and  *)
(* the service's own responses are too short for the variant their first  *)
(* byte names and fail.                                                    *)
AsNetStackRequest(m) ==
    CASE m.ty \in NetRequestTypes -> Req(m.ty, m.h, m.len)
      [] m.ty = "RxPacket"         -> Req("OpenSocket", m.h, m.len)
      [] OTHER                     -> Req("Fail", 0, 0)

(* Step 1 of the loop: recv_non_blocking on channel 2.  An RxPacket is     *)
(* enqueued to the device, a TxPacketAck ignored; any other NetPacketMsg   *)
(* (a TxPacket) is "unexpected", and a message that does not decode (an    *)
(* IRQ event) is logged: both are dropped.                                 *)
StackBridgeRecv ==
    /\ stackPc = "bridge"
    /\ stackPc' = "poll"
    /\ IF chan2 = <<>>
       THEN UNCHANGED <<chan2, rxq>>
       ELSE /\ chan2' = Taken(chan2)
            /\ rxq' = IF Head(chan2).ty = "RxPacket"
                      THEN Append(rxq, [h |-> Head(chan2).h, len |-> Head(chan2).len])
                      ELSE rxq
    /\ UNCHANGED <<nextHandle, dbuf, chan3, bridgePc, rxHandle, irqBound, irqs, table, txBufs>>

(* receive and RxToken::consume for every queued packet: a live buffer is  *)
(* handed to smoltcp and freed after consume; one whose pointer cannot be  *)
(* obtained is freed at once.  Either way every queued handle is freed.    *)
RxQueueHandles == {rxq[i].h : i \in DOMAIN rxq}

ReceiveAll ==
    /\ dbuf' = [h \in Handles |-> IF h \in RxQueueHandles /\ Live(h) THEN FreedBuf ELSE dbuf[h]]
    /\ rxq' = <<>>

\* Mutant of TxConsume: the device frees the buffer once it has sent TxPacket.
MutTxConsumeFree(buf, h) ==
    /\ CanSend(chan2)
    /\ chan2' = SendRaw(chan2, Msg(StackId, "TxPacket", h, TxBufferSize))
    /\ dbuf' = [buf EXCEPT ![h] = FreedBuf]

(* PacketTxToken::consume on the fresh buffer h of registry buf (live,     *)
(* length 0, capacity TX_BUFFER_SIZE; its slice is TX_BUFFER_SIZE long):   *)
(* set_dma_buffer_len to the slice length, then TxPacket{h, len} to the    *)
(* bridge's channel 2.                                                     *)
TxConsume(buf, h) ==
    /\ CanSend(chan2)
    /\ chan2' = SendRaw(chan2, Msg(StackId, "TxPacket", h, TxBufferSize))
    /\ dbuf' = [buf EXCEPT ![h].len = TxBufferSize]

(* transmit: net_alloc_buf(TX_BUFFER_SIZE); the wrapper takes handle 1     *)
(* (= E_ERROR) for a failure and returns None, so that buffer is never     *)
(* freed.  Otherwise the pointer is valid and smoltcp consumes the token.  *)
Transmit ==
    LET h == nextHandle
        fresh == [dbuf EXCEPT ![h] = [st |-> "live", cap |-> TxBufferSize, len |-> 0, filled |-> 0]]
    IN  /\ h <= MaxHandle
        /\ nextHandle' = h + 1
        /\ txBufs' = txBufs \cup {h}
        /\ IF h = E_ERROR
           THEN /\ dbuf' = fresh
                /\ UNCHANGED chan2
           ELSE TxConsume(fresh, h)

(* Step 2: iface.poll.  smoltcp drains the device's receive queue, then    *)
(* asks for a TX token when it has a frame to send -- when is its own     *)
(* choice, so both polls are possible.                                     *)
StackPoll ==
    /\ stackPc = "poll"
    /\ stackPc' = "api"
    /\ rxq' = <<>>
    /\ \/ /\ ReceiveAll
          /\ UNCHANGED <<nextHandle, chan2, txBufs>>
       \/ /\ rxq = <<>>
          /\ Transmit
    /\ UNCHANGED <<chan3, bridgePc, rxHandle, irqBound, irqs, table>>

(* Step 3: recv_non_blocking on channel 3.  A request that decodes is      *)
(* served and the response sent on channel 3; one that does not is        *)
(* logged.  canSend is smoltcp's answer to can_send.                     *)
StackApiRecv ==
    /\ stackPc = "api"
    /\ stackPc' = "bridge"
    /\ IF chan3 = <<>>
       THEN UNCHANGED <<chan3, table>>
       ELSE \E canSend \in BOOLEAN :
            LET r == AsNetStackRequest(Head(chan3))
                o == ServeRequest(table, r, canSend)
            IN  IF r.ty = "Fail"
                THEN /\ chan3' = Taken(chan3)
                     /\ UNCHANGED table
                ELSE /\ CanSend(Taken(chan3))
                     /\ chan3' = SendRaw(Taken(chan3), [from |-> StackId, ty |-> o.resp.ty,
                                                      h |-> o.resp.code, len |-> 0])
                     /\ table' = o.table
    /\ UNCHANGED <<nextHandle, dbuf, chan2, bridgePc, rxHandle, irqBound, irqs, rxq, txBufs>>

-----------------------------------------------------------------------------
Init ==
    /\ DmaInit
    /\ chan2 = <<>> /\ chan3 = <<>>
    /\ bridgePc = "boot"
    /\ rxHandle = 0
    /\ irqBound = FALSE
    /\ irqs = 0
    /\ stackPc = "bridge"
    /\ rxq = <<>>
    /\ table = EmptyTable
    /\ txBufs = {}

Next ==
    \/ BridgeBoot \/ BridgeFirst \/ BridgeSecond
    \/ Interrupt
    \/ StackBridgeRecv \/ StackPoll \/ StackApiRecv

Spec == Init /\ [][Next]_vars

(* Both loops are busy loops that never block; a V-Node that runs keeps    *)
(* taking steps.                                                           *)
FairSpec ==
    /\ Spec
    /\ WF_vars(BridgeFirst \/ BridgeSecond)
    /\ WF_vars(StackBridgeRecv \/ StackPoll \/ StackApiRecv)

-----------------------------------------------------------------------------
(***************************************************************************)
(* A TxPacket on its way to net-bridge names a live DMA buffer whose       *)
(* length is the one the message gives: the device sets the length before *)
(* it sends, and leaves freeing to net-bridge's NET_TX path, so the        *)
(* bridge's net_tx/net_free_buf find the buffer the device filled.         *)
(***************************************************************************)
TxPacketNamesLiveBuffer ==
    \A i \in DOMAIN chan2 :
        chan2[i].ty = "TxPacket" => Live(chan2[i].h) /\ dbuf[chan2[i].h].len = chan2[i].len

(***************************************************************************)
(* Every TX buffer the device allocated and that is still live is on its   *)
(* way to net-bridge: "the net-bridge V-Node is now responsible for        *)
(* freeing the DMA buffer after transmission" (aethernet_device.rs).       *)
(***************************************************************************)
TxBuffersAccounted ==
    \A h \in txBufs : Live(h) =>
        \E i \in DOMAIN chan2 : chan2[i].ty = "TxPacket" /\ chan2[i].h = h

(***************************************************************************)
(* net-bridge hands its RX buffer to AetherNet "with ownership semantics"  *)
(* (net-bridge main.rs, after the RxPacket send): while one RxPacket for a *)
(* buffer is still on its way, no second RxPacket announces the same       *)
(* buffer, so no later RX_POLL has overwritten the frame it carries.       *)
(***************************************************************************)
RxHandleOwnedOnce ==
    \A i, j \in DOMAIN chan3 :
        (i # j /\ chan3[i].ty = "RxPacket" /\ chan3[j].ty = "RxPacket") => chan3[i].h # chan3[j].h

(***************************************************************************)
(* A packet net-bridge receives reaches the AetherNet device: an RxPacket  *)
(* the bridge sends for a buffer is eventually in the device's             *)
(* rx_packet_queue, from which smoltcp consumes it.                        *)
(***************************************************************************)
RxPacketReachesDevice ==
    \A h \in Handles :
        (\E i \in DOMAIN chan3 : chan3[i].ty = "RxPacket" /\ chan3[i].h = h)
            ~> (h \in RxQueueHandles)

=============================================================================
