----------------------------- MODULE SocketApi -----------------------------
(***************************************************************************)
(* The socket-api V-Node (vnode/socket-api/src/main.rs) on channel 4, its  *)
(* clients, and the network data path of NetPath it talks to: socket-api  *)
(* calls the AetherNet service with send_and_recv on channel 3, the        *)
(* channel net-bridge also sends its RxPackets and TxPacketAcks to, and    *)
(* where the service answers.  socket-api answers its own clients on       *)
(* channel 4, where it reads their requests.                               *)
(*                                                                         *)
(* A message on channel 4 is [from, ty, fd, a]: a SocketRequest (a is the  *)
(* socket type of Socket, the port of Bind, the data length of Send) or a  *)
(* SocketResponse (a is Success's value or Error's errno).                 *)
(***************************************************************************)
EXTENDS Integers, NetPath

CONSTANTS
    ApiId,     \* task id of socket-api
    ApiClients, \* V-Nodes that send SocketRequests on channel 4
    FdArgs,    \* fds clients name in requests
    DataLens,  \* lengths of the data of Send requests
    MaxReqs    \* model bound: number of requests clients send

ASSUME SocketApiAssumption ==
    /\ ApiId \notin ApiClients \cup {BridgeId, StackId, 0}
    /\ FdArgs \subseteq Nat /\ DataLens \subseteq 0..4
    /\ MaxReqs \in Nat

VARIABLES
    chan4,    \* the queue of channel 4
    sockets,  \* socket-api's sockets: fd -> [net, ty, listening]
    nextFd,   \* socket-api's next_fd
    sent      \* requests clients have sent (bound only)

apiVars == <<chan4, sockets, nextFd, sent>>
allVars == <<vars, apiVars>>

SockMsg(from, ty, fd, a) == [from |-> from, ty |-> ty, fd |-> fd, a |-> a]

SocketRequests(c) ==
    {SockMsg(c, "Socket", 0, t) : t \in {1, 2, 3}}
    \cup {SockMsg(c, ty, fd, 0) : ty \in {"Bind", "Listen", "Accept", "Connect", "Recv", "Close"},
                                  fd \in FdArgs}
    \cup {SockMsg(c, "Send", fd, n) : fd \in FdArgs, n \in DataLens}

\* postcard's zigzag encoding of an i32.
ZigZag(c) == IF c >= 0 THEN 2 * c ELSE -2 * c - 1

(***************************************************************************)
(* postcard::from_bytes::<SocketRequest> of a message on channel 4.  A     *)
(* request decodes as itself.  socket-api's own responses: Error(errno,    *)
(* text) (variant 2: varint, string) reads as Listen{fd = zigzag(errno),   *)
(* backlog = the text's length}; Success(v) lacks Socket's second field;   *)
(* Data(d) needs d to hold Bind's addr and port (5 bytes), and the data    *)
(* here is shorter.  Both fail.                                            *)
(***************************************************************************)
AsSocketRequest(m) ==
    CASE m.ty = "SockError" -> SockMsg(m.from, "Listen", ZigZag(m.a), 0)
      [] m.ty \in {"SockSuccess", "SockData"} -> SockMsg(m.from, "Fail", 0, 0)
      [] OTHER -> m

(***************************************************************************)
(* postcard::from_bytes::<NetStackResponse> of the message socket-api's    *)
(* send_and_recv dequeues from channel 3 -- the oldest one, its own        *)
(* request when the channel was empty.  A response decodes as itself.      *)
(* OpenSocket(t, p) reads as SocketOpened(t); Send(h, d) as Data of h      *)
(* bytes when the len(d) varint and d hold h bytes; SendTo(h, ..) as       *)
(* Error(h); Recv(h) as Success; CloseSocket (variant 4) as nothing.      *)
(* net-bridge's RxPacket{h, len} reads as SocketOpened(h), its            *)
(* TxPacketAck (variant 2, no code) fails.                                 *)
(***************************************************************************)
AsNetStackResponse(m) ==
    CASE m.ty \in {"SocketOpened", "Data", "Error", "Success"} -> Resp(m.ty, m.h)
      [] m.ty \in {"OpenSocket", "RxPacket"} -> Resp("SocketOpened", m.h)
      [] m.ty = "Send"   -> IF m.h <= 1 + m.len THEN Resp("Data", m.h) ELSE Resp("Fail", 0)
      [] m.ty = "SendTo" -> Resp("Error", m.h)
      [] m.ty = "Recv"   -> Resp("Success", 0)
      [] OTHER           -> Resp("Fail", 0)

\* send_and_recv of NetStackRequest ty(a, b) on channel 3: the decoded
\* reply and the queue it leaves.
NetCall(ty, a, b) == Msg(ApiId, ty, a, b)
NetReply(ty, a, b) == AsNetStackResponse(SendAndRecvReply(chan3, NetCall(ty, a, b)))
NetRest(ty, a, b) == SendAndRecvRest(chan3, NetCall(ty, a, b))

\* The SocketResponse for a NetStackResponse r: ok is the answer for the
\* response the call expects, Error(code) passes the code on, anything
\* else is Error(-1).
Relay(r, expected, ok) ==
    CASE r.ty = expected -> ok
      [] r.ty = "Error"  -> SockMsg(ApiId, "SockError", 0, r.code)
      [] OTHER           -> SockMsg(ApiId, "SockError", 0, -1)

SockOk(v) == SockMsg(ApiId, "SockSuccess", 0, v)
SockErr(e) == SockMsg(ApiId, "SockError", 0, e)

\* socket type of SocketRequest (1 stream, 2 datagram) -> AetherNet's (0 TCP, 1 UDP)
NetSockType(ty) == ty - 1

-----------------------------------------------------------------------------
(* handle of one SocketRequest r: the new socket table, next_fd and        *)
(* channel 3, and the response client_chan.send puts on channel 4.         *)

Reply(m) == chan4' = SendRaw(Taken(chan4), m)

\* sockets.insert(fd, info): the table f with k bound to v.
Insert(f, k, v) == [x \in DOMAIN f \cup {k} |-> IF x = k THEN v ELSE f[x]]

\* What the handlers leave alone of the network path.
NetFrame == UNCHANGED <<nextHandle, dbuf, chan2, bridgePc, rxHandle, irqBound, irqs,
                        stackPc, rxq, table, txBufs>>

(* Socket: types 1 and 2 are opened in AetherNet with OpenSocket(type, 0); *)
(* on SocketOpened(n) the new fd next_fd is bound to net handle n.  Other  *)
(* types are Error(100).                                                   *)
ApiSocket(r) ==
    IF r.a \notin {1, 2}
    THEN /\ Reply(SockErr(100))
         /\ UNCHANGED <<chan3, sockets, nextFd>>
    ELSE LET rep == NetReply("OpenSocket", NetSockType(r.a), 0)
         IN  /\ chan3' = NetRest("OpenSocket", NetSockType(r.a), 0)
             /\ IF rep.ty = "SocketOpened"
                THEN /\ sockets' = Insert(sockets, nextFd,
                                          [net |-> rep.code, ty |-> r.a, listening |-> FALSE])
                     /\ nextFd' = nextFd + 1
                     /\ Reply(SockOk(nextFd))
                ELSE /\ UNCHANGED <<sockets, nextFd>>
                     /\ Reply(Relay(rep, "SocketOpened", SockOk(0)))

(* Bind: OpenSocket again with the fd's type and the port; SocketOpened(n) *)
(* replaces the fd's net handle by n.  (The stored type is always 1 or 2,  *)
(* so Bind's own Error(100) branch is never taken.)                        *)
ApiBind(r) ==
    LET rep == NetReply("OpenSocket", NetSockType(sockets[r.fd].ty), r.a)
    IN  /\ chan3' = NetRest("OpenSocket", NetSockType(sockets[r.fd].ty), r.a)
        /\ sockets' = IF rep.ty = "SocketOpened"
                      THEN [sockets EXCEPT ![r.fd].net = rep.code]
                      ELSE sockets
        /\ Reply(Relay(rep, "SocketOpened", SockOk(0)))

(* Listen: only a stream socket (type 1) is marked listening.              *)
ApiListen(r) ==
    IF sockets[r.fd].ty = 1
    THEN /\ sockets' = [sockets EXCEPT ![r.fd].listening = TRUE]
         /\ Reply(SockOk(0))
    ELSE /\ UNCHANGED sockets
         /\ Reply(SockErr(105))

(* Connect: a datagram socket sends SendTo(net, addr, port, []) and        *)
(* expects Success; a stream socket is Error(106).                         *)
ApiConnect(r) ==
    IF sockets[r.fd].ty = 2
    THEN /\ chan3' = NetRest("SendTo", sockets[r.fd].net, 0)
         /\ Reply(Relay(NetReply("SendTo", sockets[r.fd].net, 0), "Success", SockOk(0)))
    ELSE /\ UNCHANGED chan3
         /\ Reply(SockErr(106))

(* Send: Send(net, data) for either type; Success(len) on Success.         *)
ApiSend(r) ==
    /\ chan3' = NetRest("Send", sockets[r.fd].net, r.a)
    /\ Reply(Relay(NetReply("Send", sockets[r.fd].net, r.a), "Success", SockOk(r.a)))

(* Recv: Recv(net); Data is passed on.                                     *)
ApiRecv(r) ==
    LET rep == NetReply("Recv", sockets[r.fd].net, 0)
    IN  /\ chan3' = NetRest("Recv", sockets[r.fd].net, 0)
        /\ Reply(Relay(rep, "Data", SockMsg(ApiId, "SockData", 0, rep.code)))

(* Close: the fd is removed first, then CloseSocket(net) is sent.          *)
ApiClose(r) ==
    /\ sockets' = [k \in DOMAIN sockets \ {r.fd} |-> sockets[k]]
    /\ chan3' = NetRest("CloseSocket", sockets[r.fd].net, 0)
    /\ Reply(Relay(NetReply("CloseSocket", sockets[r.fd].net, 0), "Success", SockOk(0)))

(* The request r on an fd: Error(9) (EBADF) when socket-api has no such   *)
(* fd; Accept is Error(11) (EWOULDBLOCK) whatever the fd.                  *)
ApiHandle(r) ==
    CASE r.ty = "Socket" -> ApiSocket(r)
      [] r.ty = "Accept" -> Reply(SockErr(11)) /\ UNCHANGED <<chan3, sockets, nextFd>>
      [] r.fd \notin DOMAIN sockets -> Reply(SockErr(9)) /\ UNCHANGED <<chan3, sockets, nextFd>>
      [] r.ty = "Bind"    -> ApiBind(r) /\ UNCHANGED nextFd
      [] r.ty = "Listen"  -> ApiListen(r) /\ UNCHANGED <<chan3, nextFd>>
      [] r.ty = "Connect" -> ApiConnect(r) /\ UNCHANGED <<sockets, nextFd>>
      [] r.ty = "Send"    -> ApiSend(r) /\ UNCHANGED <<sockets, nextFd>>
      [] r.ty = "Recv"    -> ApiRecv(r) /\ UNCHANGED <<sockets, nextFd>>
      [] r.ty = "Close"   -> ApiClose(r) /\ UNCHANGED nextFd

(* One iteration of socket-api's loop that receives a message: a request  *)
(* that decodes is handled and answered; one that does not is logged.      *)
ApiServe ==
    /\ chan4 # <<>>
    /\ LET r == AsSocketRequest(Head(chan4))
       IN  IF r.ty = "Fail"
           THEN /\ chan4' = Taken(chan4)
                /\ UNCHANGED <<chan3, sockets, nextFd>>
           ELSE ApiHandle(r)
    /\ NetFrame
    /\ UNCHANGED sent

(* A client sends a SocketRequest to channel 4.                            *)
ApiClientSend(m) ==
    /\ sent < MaxReqs
    /\ CanSend(chan4)
    /\ chan4' = SendRaw(chan4, m)
    /\ sent' = sent + 1
    /\ UNCHANGED <<vars, sockets, nextFd>>

-----------------------------------------------------------------------------
SocketInit ==
    /\ Init
    /\ chan4 = <<>>
    /\ sockets = <<>>
    /\ nextFd = 1
    /\ sent = 0

SocketNext ==
    \/ Next /\ UNCHANGED apiVars
    \/ ApiServe
    \/ \E c \in ApiClients : \E m \in SocketRequests(c) : ApiClientSend(m)

SocketSpec == SocketInit /\ [][SocketNext]_allVars

=============================================================================
