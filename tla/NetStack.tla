------------------------------ MODULE NetStack ------------------------------
(***************************************************************************)
(* The AetherNet service's handling of one NetStackRequest received on its *)
(* own channel 3 (vnode/net-stack/src/main.rs, the match on request).      *)
(*                                                                         *)
(* The socket table is a record [socks, next]: socks maps the service's    *)
(* socket handles (smoltcp_sockets_map together with the SocketSet entry   *)
(* it names) to the socket's kind, "tcp" or "udp"; next is                 *)
(* next_socket_handle.  A request is [ty, a, b]: OpenSocket(a = sock_type, *)
(* b = local_port), Send(a = handle), SendTo(a = handle), Recv(a = handle) *)
(* or CloseSocket(a = handle); payloads and addresses are left out, no     *)
(* branch depends on them.  What smoltcp answers to can_send and can_recv  *)
(* is an input: smoltcp is not part of this tree.                         *)
(***************************************************************************)
EXTENDS Naturals, TLC

\* NetStackResponse values: SocketOpened(h), Data(..), Error(code), Success.
Resp(ty, code) == [ty |-> ty, code |-> code]

SocketTable(socks, next) == [socks |-> socks, next |-> next]

EmptyTable == SocketTable(<<>>, 1)

\* A request as postcard decodes it.
Req(ty, a, b) == [ty |-> ty, a |-> a, b |-> b]

NetRequestTypes == {"OpenSocket", "Send", "SendTo", "Recv", "CloseSocket"}

(* OpenSocket: the handle is taken and next_socket_handle incremented      *)
(* before the type is examined; type 0 is a TCP socket, 1 a UDP socket,    *)
(* anything else Error(100) -- and the handle is spent all the same.       *)
OpenSocket(t, sockType) ==
    LET h == t.next
        kind == IF sockType = 0 THEN "tcp" ELSE "udp"
    IN  IF sockType \in {0, 1}
        THEN [table |-> SocketTable((h :> kind) @@ t.socks, h + 1),
              resp |-> Resp("SocketOpened", h)]
        ELSE [table |-> SocketTable(t.socks, h + 1), resp |-> Resp("Error", 100)]

(* Send on a TCP socket and SendTo on a UDP socket: Success when smoltcp's *)
(* can_send holds, Error(104) otherwise; the other kind is Error(102), an  *)
(* unknown handle Error(103).                                              *)
SendOn(t, h, kind, canSend) ==
    [table |-> t,
     resp |-> IF h \notin DOMAIN t.socks THEN Resp("Error", 103)
              ELSE IF t.socks[h] # kind THEN Resp("Error", 102)
              ELSE IF canSend THEN Resp("Success", 0)
              ELSE Resp("Error", 104)]

(* Recv: Data for either kind (empty when can_recv is false or recv_slice  *)
(* fails); an unknown handle is Error(103).                                *)
RecvOn(t, h) ==
    [table |-> t,
     resp |-> IF h \in DOMAIN t.socks THEN Resp("Data", 0) ELSE Resp("Error", 103)]

(* CloseSocket: remove the map entry and the socket -> Success; Error(103) *)
(* when the handle is not in the map.                                      *)
CloseOn(t, h) ==
    IF h \in DOMAIN t.socks
    THEN [table |-> SocketTable([k \in DOMAIN t.socks \ {h} |-> t.socks[k]], t.next),
          resp |-> Resp("Success", 0)]
    ELSE [table |-> t, resp |-> Resp("Error", 103)]

(* The new table and the response for request r; canSend is what smoltcp  *)
(* answers if the request asks.                                            *)
ServeRequest(t, r, canSend) ==
    CASE r.ty = "OpenSocket"  -> OpenSocket(t, r.a)
      [] r.ty = "Send"        -> SendOn(t, r.a, "tcp", canSend)
      [] r.ty = "SendTo"      -> SendOn(t, r.a, "udp", canSend)
      [] r.ty = "Recv"        -> RecvOn(t, r.a)
      [] r.ty = "CloseSocket" -> CloseOn(t, r.a)

=============================================================================
