---------------------------- MODULE NetworkProofs ----------------------------
(***************************************************************************)
(* Proofs about the network V-Nodes, for every set of clients, fds,        *)
(* handles and bounds: every TxPacket on its way to net-bridge names a     *)
(* live buffer of the length it gives (NetPath!TxPacketNamesLiveBuffer),   *)
(* with and without socket-api and its clients beside the network path.   *)
(***************************************************************************)
EXTENDS SocketApi, SeqLemmas, TLAPS

(* The network data path: the TX buffers on channel 2.                     *)

\* The variants that reach channel 2: IRQ events and the device's TxPackets.
Chan2Types == {"Irq", "TxPacket"}

IsTx(q, i) == q[i].ty = "TxPacket"

(* Every TxPacket of q names an issued handle below nh other than the RX   *)
(* buffer rx, whose buffer in d is live and has the message's length.      *)
TxGood(q, d, nh, rx) ==
    \A i \in DOMAIN q : IsTx(q, i) =>
        /\ q[i].h \in Handles /\ q[i].h < nh /\ q[i].h # rx
        /\ d[q[i].h].st = "live" /\ d[q[i].h].len = q[i].len

(* No two TxPackets of q name the same buffer.                             *)
TxUnique(q) ==
    \A i, j \in DOMAIN q : (i # j /\ IsTx(q, i) /\ IsTx(q, j)) => q[i].h # q[j].h

(* The inductive invariant: the registry is typed, net-bridge's RX buffer  *)
(* was issued before every TxPacket's, channel 2 carries only IRQ events  *)
(* and TxPackets (so the device's receive queue stays empty and frees     *)
(* nothing), and the TxPackets name distinct live buffers.                 *)
NInv ==
    /\ DmaTypeOK
    /\ rxHandle \in Nat /\ rxHandle < nextHandle
    /\ rxq = << >>
    /\ TypedSeq(chan2, Chan2Types)
    /\ TxGood(chan2, dbuf, nextHandle, rxHandle)
    /\ TxUnique(chan2)

-----------------------------------------------------------------------------
(* A step that leaves channel 2 alone and changes the registry only at a   *)
(* handle no TxPacket names keeps the TxPackets good.                      *)
LEMMA TxFrame ==
    ASSUME NEW q, NEW d, NEW nh \in Int, NEW rx, TxGood(q, d, nh, rx),
           NEW x, \A i \in DOMAIN q : IsTx(q, i) => q[i].h # x,
           NEW d2, \A y \in Handles \ {x} : d2[y] = d[y],
           NEW nh2 \in Int, nh <= nh2,
           NEW rx2, \A i \in DOMAIN q : IsTx(q, i) => q[i].h # rx2
    PROVE  TxGood(q, d2, nh2, rx2)
<1>. SUFFICES ASSUME NEW i \in DOMAIN q, IsTx(q, i)
              PROVE  /\ q[i].h \in Handles /\ q[i].h < nh2 /\ q[i].h # rx2
                     /\ d2[q[i].h].st = "live" /\ d2[q[i].h].len = q[i].len
    BY DEF TxGood
<1>1. /\ q[i].h \in Handles /\ q[i].h < nh /\ q[i].h # rx /\ q[i].h # x
      /\ d[q[i].h].st = "live" /\ d[q[i].h].len = q[i].len
    BY DEF TxGood
<1>2. d2[q[i].h] = d[q[i].h]  BY <1>1
<1>3. q[i].h \in Int  BY <1>1 DEF Handles
<1>. QED  BY <1>1, <1>2, <1>3

(* Taking the head of channel 2 keeps the others good and distinct, and   *)
(* none of them names the head's buffer when the head is a TxPacket.       *)
LEMMA TxTail ==
    ASSUME NEW S, NEW q \in Seq(S), q # << >>, NEW d, NEW nh, NEW rx,
           TxGood(q, d, nh, rx), TxUnique(q)
    PROVE  /\ TxGood(Tail(q), d, nh, rx)
           /\ TxUnique(Tail(q))
           /\ IsTx(q, 1) => \A i \in DOMAIN Tail(q) : IsTx(Tail(q), i) => Tail(q)[i].h # q[1].h
           /\ Head(q) = q[1]
<1>1. /\ Len(q) \in Nat \ {0}
      /\ DOMAIN q = 1..Len(q)
      /\ DOMAIN Tail(q) = 1..Len(q) - 1
      /\ \A i \in 1..Len(q) - 1 : Tail(q)[i] = q[i + 1]
    BY HeadTailProperties, LenProperties, EmptySeq
<1>2. Head(q) = q[1]  OBVIOUS
<1>. QED  BY <1>1, <1>2 DEF TxGood, TxUnique, IsTx

(* Appending a message that is not a TxPacket keeps the TxPackets.         *)
LEMMA TxAppendOther ==
    ASSUME NEW S, NEW q \in Seq(S), NEW m \in S, m.ty # "TxPacket",
           NEW d, NEW nh, NEW rx, TxGood(q, d, nh, rx), TxUnique(q)
    PROVE  TxGood(Append(q, m), d, nh, rx) /\ TxUnique(Append(q, m))
<1>1. /\ Len(q) \in Nat
      /\ DOMAIN q = 1..Len(q)
      /\ DOMAIN Append(q, m) = 1..Len(q) + 1
      /\ \A i \in 1..Len(q) : Append(q, m)[i] = q[i]
      /\ Append(q, m)[Len(q) + 1] = m
    BY AppendProperties, LenProperties
<1>. QED  BY <1>1 DEF TxGood, TxUnique, IsTx

(* Appending a TxPacket for a fresh handle h, live with the message's      *)
(* length in d, keeps the TxPackets good and distinct.                     *)
LEMMA TxAppendFresh ==
    ASSUME NEW S, NEW q \in Seq(S), NEW m \in S, m.ty = "TxPacket",
           NEW d, NEW nh \in Int, NEW rx, TxGood(q, d, nh, rx), TxUnique(q),
           m.h = nh, m.h \in Handles, m.h # rx,
           d[m.h].st = "live", d[m.h].len = m.len
    PROVE  TxGood(Append(q, m), d, nh + 1, rx) /\ TxUnique(Append(q, m))
<1>. DEFINE a == Append(q, m)
<1>1. /\ Len(q) \in Nat
      /\ DOMAIN q = 1..Len(q)
      /\ DOMAIN a = 1..Len(q) + 1
      /\ \A i \in 1..Len(q) : a[i] = q[i]
      /\ a[Len(q) + 1] = m
    BY AppendProperties, LenProperties
<1>2. \A i \in 1..Len(q) : IsTx(q, i) => q[i].h \in Handles /\ q[i].h < nh
    BY <1>1 DEF TxGood
<1>3. \A i \in 1..Len(q) : IsTx(q, i) => q[i].h # m.h
    <2>. SUFFICES ASSUME NEW i \in 1..Len(q), IsTx(q, i) PROVE q[i].h # m.h  OBVIOUS
    <2>1. q[i].h \in Handles /\ q[i].h < nh  BY <1>2
    <2>. QED  BY <2>1 DEF Handles
<1>4. TxGood(a, d, nh + 1, rx)
    <2>. SUFFICES ASSUME NEW i \in DOMAIN a, IsTx(a, i)
                  PROVE  /\ a[i].h \in Handles /\ a[i].h < nh + 1 /\ a[i].h # rx
                         /\ d[a[i].h].st = "live" /\ d[a[i].h].len = a[i].len
        BY DEF TxGood
    <2>1. CASE i = Len(q) + 1  BY <1>1, <2>1 DEF Handles
    <2>2. CASE i \in 1..Len(q)
        <3>1. a[i] = q[i] /\ IsTx(q, i)  BY <1>1, <2>2 DEF IsTx
        <3>2. q[i].h \in Handles /\ q[i].h < nh /\ q[i].h # rx
              /\ d[q[i].h].st = "live" /\ d[q[i].h].len = q[i].len
            BY <1>1, <2>2, <3>1 DEF TxGood
        <3>. QED  BY <3>1, <3>2 DEF Handles
    <2>. QED  BY <1>1, <2>1, <2>2
<1>5. TxUnique(a)
    <2>. SUFFICES ASSUME NEW i \in DOMAIN a, NEW j \in DOMAIN a, i # j, IsTx(a, i), IsTx(a, j)
                  PROVE  a[i].h # a[j].h
        BY DEF TxUnique
    <2>1. CASE i \in 1..Len(q) /\ j \in 1..Len(q)  BY <1>1, <2>1 DEF TxUnique, IsTx
    <2>2. CASE i = Len(q) + 1 /\ j \in 1..Len(q)  BY <1>1, <1>3, <2>2 DEF IsTx
    <2>3. CASE j = Len(q) + 1 /\ i \in 1..Len(q)  BY <1>1, <1>3, <2>3 DEF IsTx
    <2>. QED  BY <1>1, <2>1, <2>2, <2>3
<1>. QED  BY <1>4, <1>5


-----------------------------------------------------------------------------
(* alloc_dma_buffer keeps the registry typed and changes only the entry   *)
(* NEXT_HANDLE had, which becomes live.                                    *)
LEMMA AllocKeeps ==
    ASSUME DmaTypeOK, NEW size \in Nat, AllocBuf(size)
    PROVE  /\ DmaTypeOK'
           /\ nextHandle \in Handles /\ nextHandle' = nextHandle + 1
           /\ dbuf'[nextHandle].st = "live"
           /\ \A y \in Handles \ {nextHandle} : dbuf'[y] = dbuf[y]
<1>1. nextHandle \in Handles  BY DEF AllocBuf, DmaTypeOK, Handles
<1>2. dbuf' \in [Handles -> Buffer]  BY <1>1 DEF AllocBuf, DmaTypeOK, Buffer, BufStatus
<1>3. nextHandle' \in 1..(MaxHandle + 1)  BY <1>1, DmaAssumption DEF AllocBuf, Handles
<1>4. dbuf'[nextHandle].st = "live" /\ \A y \in Handles \ {nextHandle} : dbuf'[y] = dbuf[y]
    BY <1>1 DEF AllocBuf, DmaTypeOK
<1>. QED  BY <1>1, <1>2, <1>3, <1>4 DEF AllocBuf, DmaTypeOK

(* free_dma_buffer(h) keeps the registry typed and changes only entry h.  *)
LEMMA FreeKeeps ==
    ASSUME DmaTypeOK, NEW h, FreeBuf(h)
    PROVE  /\ DmaTypeOK' /\ UNCHANGED nextHandle
           /\ \A y \in Handles \ {h} : dbuf'[y] = dbuf[y]
<1>1. CASE Live(h)
    <2>1. dbuf' = [dbuf EXCEPT ![h] = FreedBuf]  BY <1>1 DEF FreeBuf
    <2>2. h \in Handles  BY <1>1 DEF Live
    <2>. QED  BY <2>1, <2>2 DEF FreeBuf, DmaTypeOK, Buffer, BufStatus, FreedBuf
<1>2. CASE ~Live(h)  BY <1>2 DEF FreeBuf, DmaTypeOK
<1>. QED  BY <1>1, <1>2

(* handle_irq(11): an IRQ event is appended to channel 2 when it is bound. *)
LEMMA InterruptNInv ==
    ASSUME NInv, Interrupt
    PROVE  NInv'
<1>. DEFINE m == Msg(0, "Irq", 11, 0)
<1>1. CASE irqBound
    <2>1. chan2' = Append(chan2, m)  BY <1>1 DEF Interrupt, SendRaw
    <2>2. m.ty \in Chan2Types /\ m.ty # "TxPacket"  BY DEF Msg, Chan2Types
    <2>3. TypedSeq(chan2', Chan2Types)  BY <2>1, <2>2, AppendTyped DEF NInv
    <2>4. chan2 \in Seq(Range(chan2) \cup {m}) /\ m \in Range(chan2) \cup {m}
        BY TypedIsSeq DEF NInv
    <2>5. TxGood(chan2', dbuf, nextHandle, rxHandle) /\ TxUnique(chan2')
        BY <2>1, <2>2, <2>4, TxAppendOther DEF NInv
    <2>. QED  BY <2>3, <2>5 DEF Interrupt, NInv, DmaTypeOK
<1>2. CASE ~irqBound  BY <1>2 DEF Interrupt, NInv, DmaTypeOK, TxGood, TxUnique, IsTx, TypedSeq
<1>. QED  BY <1>1, <1>2

(* net-bridge's _start: the RX buffer takes the handle NEXT_HANDLE, above *)
(* every TxPacket's.                                                       *)
LEMMA BridgeBootNInv ==
    ASSUME NInv, BridgeBoot
    PROVE  NInv'
<1>1. /\ DmaTypeOK'
      /\ nextHandle \in Handles /\ nextHandle' = nextHandle + 1
      /\ \A y \in Handles \ {nextHandle} : dbuf'[y] = dbuf[y]
    <2>1. AllocBuf(RxBufferSize) /\ RxBufferSize \in Nat  BY DEF BridgeBoot, RxBufferSize
    <2>. QED  BY <2>1, AllocKeeps DEF NInv
<1>2. /\ rxHandle' \in {rxHandle, nextHandle}
      /\ UNCHANGED <<chan2, rxq>>
    BY DEF BridgeBoot
<1>3. rxHandle' \in Nat /\ rxHandle' < nextHandle'  BY <1>1, <1>2 DEF NInv, Handles
<1>4. \A i \in DOMAIN chan2 : IsTx(chan2, i) => chan2[i].h # nextHandle /\ chan2[i].h # rxHandle'
    BY <1>1, <1>2 DEF NInv, TxGood, Handles
<1>5. TxGood(chan2, dbuf', nextHandle', rxHandle')
    <2>1. nextHandle \in Int /\ nextHandle' \in Int /\ nextHandle <= nextHandle'  BY <1>1 DEF Handles
    <2>2. TxGood(chan2, dbuf, nextHandle, rxHandle)  BY DEF NInv
    <2>. QED  BY <1>1, <1>4, <2>1, <2>2, TxFrame
<1>. QED  BY <1>1, <1>2, <1>3, <1>5 DEF NInv

(* net-bridge's first recv: a TxPacket is sent and its buffer freed; the  *)
(* other TxPackets name other buffers.                                     *)
LEMMA BridgeFirstNInv ==
    ASSUME NInv, BridgeFirst
    PROVE  NInv'
<1>1. CASE chan2 = << >>  BY <1>1 DEF BridgeFirst, NInv, DmaTypeOK, TxGood, TxUnique, IsTx, TypedSeq
<1>2. CASE chan2 # << >>
    <2>1. chan2 \in Seq(Range(chan2))  BY DEF NInv, TypedSeq
    <2>2. /\ TxGood(Tail(chan2), dbuf, nextHandle, rxHandle)
          /\ TxUnique(Tail(chan2))
          /\ IsTx(chan2, 1) => \A i \in DOMAIN Tail(chan2) :
                                   IsTx(Tail(chan2), i) => Tail(chan2)[i].h # chan2[1].h
          /\ Head(chan2) = chan2[1]
        BY <1>2, <2>1, TxTail DEF NInv
    <2>3. TypedSeq(chan2', Chan2Types)  BY <1>2, TailTyped DEF BridgeFirst, Taken, NInv
    <2>4. chan2' = Tail(chan2)  BY <1>2 DEF BridgeFirst, Taken
    <2>5. CASE Head(chan2).ty = "TxPacket"
        <3>. DEFINE h == Head(chan2).h
        <3>1. FreeBuf(h) /\ UNCHANGED rxHandle  BY <1>2, <2>5, Zenon DEF BridgeFirst
        <3>2. DmaTypeOK' /\ UNCHANGED nextHandle /\ \A y \in Handles \ {h} : dbuf'[y] = dbuf[y]
            BY <3>1, FreeKeeps DEF NInv
        <3>3. \A i \in DOMAIN Tail(chan2) : IsTx(Tail(chan2), i) =>
                  Tail(chan2)[i].h # h /\ Tail(chan2)[i].h # rxHandle'
            BY <2>2, <2>5, <3>1 DEF IsTx, TxGood
        <3>4. TxGood(Tail(chan2), dbuf', nextHandle', rxHandle')
            <4>1. nextHandle \in Int /\ nextHandle' \in Int /\ nextHandle <= nextHandle'
                BY <3>2 DEF NInv, DmaTypeOK
            <4>2. \A i \in DOMAIN Tail(chan2) : IsTx(Tail(chan2), i) => Tail(chan2)[i].h # h
                BY <3>3
            <4>3. \A i \in DOMAIN Tail(chan2) : IsTx(Tail(chan2), i) => Tail(chan2)[i].h # rxHandle'
                BY <3>3
            <4>4. \A y \in Handles \ {h} : dbuf'[y] = dbuf[y]  BY <3>2
            <4>5. TxGood(Tail(chan2), dbuf, nextHandle, rxHandle)  BY <2>2
            <4>. QED  BY <4>1, <4>2, <4>3, <4>4, <4>5, TxFrame
        <3>. QED  BY <2>2, <2>3, <2>4, <3>1, <3>2, <3>4 DEF BridgeFirst, NInv
    <2>6. CASE Head(chan2).ty # "TxPacket"
        <3>1. UNCHANGED <<nextHandle, dbuf>>  BY <1>2, <2>6 DEF BridgeFirst
        <3>. QED  BY <2>2, <2>3, <2>4, <3>1 DEF BridgeFirst, NInv, DmaTypeOK
    <2>. QED  BY <2>5, <2>6
<1>. QED  BY <1>1, <1>2


(* SYS_NET_RX_POLL into rx_dma_handle, then set_len: the registry stays    *)
(* typed and no entry but rx_dma_handle's changes.                         *)
LEMMA RxPollKeeps ==
    ASSUME DmaTypeOK, BridgeSecond, chan2 # << >>
    PROVE  /\ dbuf' \in [Handles -> Buffer]
           /\ \A y \in Handles \ {rxHandle} : dbuf'[y] = dbuf[y]
<1>. DEFINE n == RxPollResult(rxHandle, RxBufferSize)
            after == RxPollBuffers(rxHandle, RxBufferSize)
            ok == n > SUCCESS /\ SetLenOk(rxHandle, n)
<1>1. dbuf' = IF ok THEN [after EXCEPT ![rxHandle].len = n] ELSE after
    BY DEF BridgeSecond
<1>2. CASE Live(rxHandle)
    <2>1. rxHandle \in Handles  BY <1>2 DEF Live
    <2>2. n \in Nat  BY DEF RxPollResult, SimulatedPacketLen, E_ERROR
    <2>3. /\ after \in [Handles -> Buffer]
          /\ \A y \in Handles \ {rxHandle} : after[y] = dbuf[y]
        <3>. DEFINE b == dbuf[rxHandle]
                    v == IF SetLenOk(rxHandle, SimulatedPacketLen) THEN SimulatedPacketLen ELSE b.len
        <3>1. SimulatedPacketLen <= RxBufferSize  BY DEF SimulatedPacketLen, RxBufferSize
        <3>2. after = [dbuf EXCEPT ![rxHandle].filled = SimulatedPacketLen, ![rxHandle].len = v]
            BY <1>2, <3>1, Zenon DEF RxPollBuffers
        <3>3. b \in Buffer /\ v \in Nat  BY <2>1 DEF DmaTypeOK, Buffer, SimulatedPacketLen
        <3>4. DOMAIN after = Handles /\ \A y \in Handles \ {rxHandle} : after[y] = dbuf[y]
            BY <2>1, <3>2 DEF DmaTypeOK
        <3>5. after[rxHandle] = [b EXCEPT !.filled = SimulatedPacketLen, !.len = v]
            BY <2>1, <3>2 DEF DmaTypeOK
        <3>6. [b EXCEPT !.filled = SimulatedPacketLen, !.len = v] \in Buffer
            BY <3>3 DEF Buffer, SimulatedPacketLen
        <3>7. \A y \in Handles : after[y] \in Buffer  BY <3>4, <3>5, <3>6 DEF DmaTypeOK
        <3>. QED  BY <3>2, <3>4, <3>7
    <2>. QED  BY <1>1, <2>1, <2>2, <2>3 DEF Buffer
<1>3. CASE ~Live(rxHandle)
    <2>1. after = dbuf /\ ~ok  BY <1>3 DEF RxPollBuffers, SetLenOk
    <2>. QED  BY <1>1, <2>1 DEF DmaTypeOK
<1>. QED  BY <1>2, <1>3

(* net-bridge's second recv: the message is dropped, and the RX poll       *)
(* touches only rx_dma_handle, which no TxPacket names.                    *)
LEMMA BridgeSecondNInv ==
    ASSUME NInv, BridgeSecond
    PROVE  NInv'
<1>1. CASE chan2 = << >>  BY <1>1 DEF BridgeSecond, NInv, DmaTypeOK, TxGood, TxUnique, IsTx, TypedSeq
<1>2. CASE chan2 # << >>
    <2>1. chan2 \in Seq(Range(chan2))  BY DEF NInv, TypedSeq
    <2>2. /\ TxGood(Tail(chan2), dbuf, nextHandle, rxHandle)
          /\ TxUnique(Tail(chan2))
        BY <1>2, <2>1, TxTail DEF NInv
    <2>3. TypedSeq(chan2', Chan2Types)  BY <1>2, TailTyped DEF BridgeSecond, Taken, NInv
    <2>4. chan2' = Tail(chan2) /\ UNCHANGED <<nextHandle, rxHandle, rxq>>
        BY <1>2 DEF BridgeSecond, Taken
    <2>5. /\ dbuf' \in [Handles -> Buffer]
          /\ \A y \in Handles \ {rxHandle} : dbuf'[y] = dbuf[y]
        BY <1>2, RxPollKeeps DEF NInv
    <2>6. TxGood(Tail(chan2), dbuf', nextHandle', rxHandle')
        <3>1. \A i \in DOMAIN Tail(chan2) : IsTx(Tail(chan2), i) => Tail(chan2)[i].h # rxHandle
            BY <2>2 DEF TxGood
        <3>2. nextHandle \in Int /\ nextHandle' \in Int /\ nextHandle <= nextHandle'
            BY <2>4 DEF NInv, DmaTypeOK
        <3>. QED  BY <2>2, <2>4, <2>5, <3>1, <3>2, TxFrame
    <2>. QED  BY <2>2, <2>3, <2>4, <2>5, <2>6 DEF NInv, DmaTypeOK
<1>. QED  BY <1>1, <1>2

(* AetherNet's recv on channel 2: the head is dropped (no RxPacket is ever *)
(* on channel 2, so the device queue stays empty).                         *)
LEMMA StackBridgeRecvNInv ==
    ASSUME NInv, StackBridgeRecv
    PROVE  NInv'
<1>1. CASE chan2 = << >>  BY <1>1 DEF StackBridgeRecv, NInv, DmaTypeOK, TxGood, TxUnique, IsTx, TypedSeq
<1>2. CASE chan2 # << >>
    <2>1. chan2 \in Seq(Range(chan2))  BY DEF NInv, TypedSeq
    <2>2. /\ TxGood(Tail(chan2), dbuf, nextHandle, rxHandle)
          /\ TxUnique(Tail(chan2))
        BY <1>2, <2>1, TxTail DEF NInv
    <2>3. TypedSeq(Tail(chan2), Chan2Types) /\ Head(chan2).ty \in Chan2Types
        BY <1>2, TailTyped DEF NInv
    <2>4. /\ chan2' = Tail(chan2) /\ rxq' = rxq
          /\ UNCHANGED <<nextHandle, dbuf, rxHandle>>
        BY <1>2, <2>3 DEF StackBridgeRecv, Taken, Chan2Types
    <2>. QED  BY <2>2, <2>3, <2>4 DEF NInv, DmaTypeOK
<1>. QED  BY <1>1, <1>2

(* AetherNet's recv on channel 3 touches neither channel 2 nor a buffer.   *)
LEMMA StackApiRecvNInv ==
    ASSUME NInv, StackApiRecv
    PROVE  NInv'
<1>1. UNCHANGED <<nextHandle, dbuf, chan2, rxHandle, rxq>>  BY DEF StackApiRecv
<1>. QED  BY <1>1 DEF NInv, DmaTypeOK, TxGood, TxUnique, IsTx, TypedSeq


(* The empty sequence has no index.                                        *)
LEMMA EmptyDomain == DOMAIN << >> = {}
<1>1. << >> \in Seq({}) /\ Len(<< >>) = 0  BY EmptySeq
<1>2. DOMAIN << >> = 1..0  BY <1>1, LenProperties
<1>. QED  BY <1>2

(* transmit: net_alloc_buf takes NEXT_HANDLE for a fresh live buffer, and  *)
(* consume sets its length and names it in a TxPacket on channel 2.  No    *)
(* TxPacket named that handle before, since every one is below it.         *)
LEMMA TransmitNInv ==
    ASSUME NInv, Transmit, UNCHANGED rxHandle
    PROVE  /\ DmaTypeOK' /\ TypedSeq(chan2', Chan2Types)
           /\ TxGood(chan2', dbuf', nextHandle', rxHandle') /\ TxUnique(chan2')
<1>. DEFINE h == nextHandle
            fresh == [dbuf EXCEPT ![h] = [st |-> "live", cap |-> TxBufferSize, len |-> 0, filled |-> 0]]
            m == Msg(StackId, "TxPacket", h, TxBufferSize)
<1>1. h \in Handles /\ nextHandle' = h + 1 /\ nextHandle' \in 1..(MaxHandle + 1)
    BY DmaAssumption DEF Transmit, NInv, DmaTypeOK, Handles
<1>2. /\ fresh \in [Handles -> Buffer] /\ fresh[h].st = "live"
      /\ \A y \in Handles \ {h} : fresh[y] = dbuf[y]
    BY <1>1 DEF NInv, DmaTypeOK, Buffer, BufStatus, TxBufferSize
<1>3. \A i \in DOMAIN chan2 : IsTx(chan2, i) => chan2[i].h # h /\ chan2[i].h # rxHandle
    BY DEF NInv, TxGood, Handles
<1>4. h \in Int /\ rxHandle < h  BY <1>1 DEF NInv, Handles
<1>5. CASE h = E_ERROR
    <2>1. dbuf' = fresh /\ UNCHANGED chan2  BY <1>5 DEF Transmit
    <2>2. TxGood(chan2, dbuf', nextHandle', rxHandle')
        <3>1. \A y \in Handles \ {h} : dbuf'[y] = dbuf[y]  BY <1>2, <2>1
        <3>2. \A i \in DOMAIN chan2 : IsTx(chan2, i) => chan2[i].h # h  BY <1>3
        <3>3. \A i \in DOMAIN chan2 : IsTx(chan2, i) => chan2[i].h # rxHandle'  BY <1>3
        <3>4. nextHandle \in Int /\ nextHandle' \in Int /\ nextHandle <= nextHandle'  BY <1>1, <1>4
        <3>5. TxGood(chan2, dbuf, nextHandle, rxHandle)  BY DEF NInv
        <3>. QED  BY <3>1, <3>2, <3>3, <3>4, <3>5, TxFrame
    <2>. QED  BY <1>1, <1>2, <2>1, <2>2 DEF NInv, DmaTypeOK
<1>6. CASE h # E_ERROR
    <2>1. chan2' = Append(chan2, m) /\ dbuf' = [fresh EXCEPT ![h].len = TxBufferSize]
        BY <1>6 DEF Transmit, TxConsume, SendRaw
    <2>2. /\ dbuf' \in [Handles -> Buffer]
          /\ dbuf'[h].st = "live" /\ dbuf'[h].len = TxBufferSize
          /\ \A y \in Handles \ {h} : dbuf'[y] = dbuf[y]
        BY <1>1, <1>2, <2>1 DEF Buffer, TxBufferSize
    <2>3. TxGood(chan2, dbuf', h, rxHandle)  BY <1>3, <1>4, <2>2, TxFrame DEF NInv
    <2>4. chan2 \in Seq(Range(chan2) \cup {m}) /\ m \in Range(chan2) \cup {m}
        BY TypedIsSeq DEF NInv
    <2>5. m.ty = "TxPacket" /\ m.h = h /\ m.len = TxBufferSize  BY DEF Msg
    <2>6. TxGood(Append(chan2, m), dbuf', h + 1, rxHandle) /\ TxUnique(Append(chan2, m))
        BY <1>1, <1>4, <2>2, <2>3, <2>4, <2>5, TxAppendFresh DEF NInv
    <2>7. TypedSeq(chan2', Chan2Types)  BY <2>1, <2>5, AppendTyped DEF NInv, Chan2Types
    <2>. QED  BY <1>1, <2>1, <2>2, <2>6, <2>7 DEF DmaTypeOK
<1>. QED  BY <1>5, <1>6

(* iface.poll: the receive queue is empty, so receive frees nothing;       *)
(* otherwise a transmit.                                                   *)
LEMMA StackPollNInv ==
    ASSUME NInv, StackPoll
    PROVE  NInv'
<1>1. rxq' = << >> /\ UNCHANGED rxHandle  BY DEF StackPoll
<1>2. CASE ReceiveAll /\ UNCHANGED <<nextHandle, chan2, txBufs>>
    <2>1. RxQueueHandles = {}  BY EmptyDomain DEF NInv, RxQueueHandles
    <2>2. dbuf' \in [Handles -> Buffer] /\ \A y \in Handles : dbuf'[y] = dbuf[y]
        BY <1>2, <2>1 DEF ReceiveAll, NInv, DmaTypeOK
    <2>3. TxGood(chan2', dbuf', nextHandle', rxHandle')  BY <1>1, <1>2, <2>2 DEF NInv, TxGood, IsTx
    <2>. QED  BY <1>1, <1>2, <2>2, <2>3 DEF NInv, DmaTypeOK, TxUnique, IsTx, TypedSeq
<1>3. CASE rxq = << >> /\ Transmit
    <2>1. nextHandle' = nextHandle + 1  BY <1>3 DEF Transmit
    <2>2. rxHandle' \in Nat /\ rxHandle' < nextHandle'  BY <1>1, <2>1 DEF NInv, DmaTypeOK
    <2>. QED  BY <1>1, <1>3, <2>2, TransmitNInv DEF NInv
<1>. QED  BY <1>2, <1>3 DEF StackPoll


-----------------------------------------------------------------------------
LEMMA NInvInit == Init => NInv
<1>. SUFFICES ASSUME Init PROVE NInv  OBVIOUS
<1>1. /\ nextHandle = 1 /\ dbuf = [h \in Handles |-> NeverBuf]
      /\ chan2 = << >> /\ rxHandle = 0 /\ rxq = << >>
    BY Zenon DEF Init, DmaInit
<1>2. DmaTypeOK  BY <1>1, DmaAssumption DEF DmaTypeOK, NeverBuf, Buffer, BufStatus
<1>3. chan2 \in Seq(Range(chan2)) /\ Range(chan2) = {}
    BY <1>1, EmptyDomain, EmptySeq, SeqOfRange DEF Range
<1>4. TypedSeq(chan2, Chan2Types)  BY <1>3 DEF TypedSeq
<1>5. TxGood(chan2, dbuf, nextHandle, rxHandle) /\ TxUnique(chan2)
    BY <1>1, EmptyDomain DEF TxGood, TxUnique
<1>. QED  BY <1>1, <1>2, <1>4, <1>5 DEF NInv

(* Every step of net-bridge, AetherNet and IRQ 11 keeps NInv.              *)
LEMMA NInvNext == NInv /\ [Next]_vars => NInv'
<1>. SUFFICES ASSUME NInv, [Next]_vars PROVE NInv'  OBVIOUS
<1>1. CASE BridgeBoot  BY <1>1, BridgeBootNInv
<1>2. CASE BridgeFirst  BY <1>2, BridgeFirstNInv
<1>3. CASE BridgeSecond  BY <1>3, BridgeSecondNInv
<1>4. CASE Interrupt  BY <1>4, InterruptNInv
<1>5. CASE StackBridgeRecv  BY <1>5, StackBridgeRecvNInv
<1>6. CASE StackPoll  BY <1>6, StackPollNInv
<1>7. CASE StackApiRecv  BY <1>7, StackApiRecvNInv
<1>8. CASE UNCHANGED vars
    BY <1>8 DEF vars, netVars, NInv, DmaTypeOK, TxGood, TxUnique, IsTx, TypedSeq
<1>. QED  BY <1>1, <1>2, <1>3, <1>4, <1>5, <1>6, <1>7, <1>8 DEF Next

(* socket-api's steps leave channel 2 and the DMA registry alone.          *)
LEMMA NInvSocketNext == NInv /\ [SocketNext]_allVars => NInv'
<1>. SUFFICES ASSUME NInv, [SocketNext]_allVars PROVE NInv'  OBVIOUS
<1>1. CASE Next /\ UNCHANGED apiVars  BY <1>1, NInvNext
<1>2. CASE ApiServe \/ \E c \in ApiClients : \E m \in SocketRequests(c) : ApiClientSend(m)
    <2>1. UNCHANGED <<nextHandle, dbuf, chan2, rxHandle, rxq>>
        BY <1>2 DEF ApiServe, NetFrame, ApiClientSend, vars, netVars
    <2>. QED  BY <2>1 DEF NInv, DmaTypeOK, TxGood, TxUnique, IsTx, TypedSeq
<1>3. CASE UNCHANGED allVars
    <2>1. UNCHANGED vars  BY <1>3 DEF allVars
    <2>. QED  BY <2>1, NInvNext
<1>. QED  BY <1>1, <1>2, <1>3 DEF SocketNext

(* NInv names the live, right-length buffer of every TxPacket.             *)
LEMMA NInvTx == NInv => TxPacketNamesLiveBuffer
    BY DEF NInv, TxGood, IsTx, TxPacketNamesLiveBuffer, Live

(***************************************************************************)
(* Every TxPacket on channel 2 names a live DMA buffer of the length it    *)
(* gives, in every run of net-bridge and AetherNet: transmit               *)
(* (aethernet_device.rs) takes a handle above every one already named,    *)
(* sets its length before it sends, and only net-bridge's NET_TX path     *)
(* (main.rs) frees it, once it has dequeued the packet; the RX poll       *)
(* touches rx_dma_handle only, which no TxPacket names.                    *)
(***************************************************************************)
THEOREM TxBuffersLive == Spec => []TxPacketNamesLiveBuffer
<1>1. Init => NInv  BY NInvInit
<1>2. NInv /\ [Next]_vars => NInv'  BY NInvNext
<1>. QED  BY <1>1, <1>2, NInvTx, PTL DEF Spec

(* The same holds with socket-api and its clients on channel 4 and        *)
(* AetherNet's channel 3 (MCSocketApi's run).                              *)
THEOREM TxBuffersLiveWithApi == SocketSpec => []TxPacketNamesLiveBuffer
<1>1. SocketInit => NInv  BY NInvInit DEF SocketInit
<1>2. NInv /\ [SocketNext]_allVars => NInv'  BY NInvSocketNext
<1>. QED  BY <1>1, <1>2, NInvTx, PTL DEF SocketSpec

=============================================================================
