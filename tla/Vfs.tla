-------------------------------- MODULE Vfs --------------------------------
(***************************************************************************)
(* The VFS V-Node (vnode/vfs/src/main.rs) and the V-Nodes that talk to it  *)
(* on channel 7.  The VFS polls channel 7 with recv_non_blocking, decodes  *)
(* the bytes as a VfsRequest, handles it and sends the VfsResponse back on *)
(* the SAME channel 7.  Requests and responses therefore share one FIFO    *)
(* queue, and every reader of channel 7 takes whatever is at its head.     *)
(*                                                                         *)
(* A message is a record [from, ty, a, b, off]: the sending V-Node, the    *)
(* variant, and its fields (unused fields are 0 or "").  Decoding a        *)
(* message of the other enum is modelled by what postcard makes of its     *)
(* bytes (AsVfsRequest).  Strings are kept where the code compares them    *)
(* (paths); the dummy data the VFS returns is kept as its length.          *)
(***************************************************************************)
EXTENDS Naturals, Sequences, TLC, VNodeChannel

CONSTANTS
    VfsId,        \* task id of the VFS V-Node
    Clients,      \* task ids of the V-Nodes that send requests on channel 7
    ClientPaths,  \* paths clients name in Open, List and Stat
    Fds,          \* fds clients name in Read, Write and Close
    ReadLens,     \* len arguments of Read requests
    WriteLens,    \* data lengths of Write requests
    MaxReqs       \* model bound: number of requests clients send

ASSUME VfsAssumption ==
    /\ VfsId \notin Clients
    /\ Fds \subseteq Nat /\ ReadLens \subseteq Nat /\ WriteLens \subseteq Nat
    /\ MaxReqs \in Nat

VARIABLES
    chan7,      \* the queue of channel 7 (kernel MAILBOXES[7])
    nextFd,     \* VfsService.next_fd
    openFiles,  \* VfsService.open_files: fd -> [path, cursor, owner, movedBy]
    reply,      \* what each client's last send_and_recv returned
    sent        \* number of requests clients have sent (bound only)

vars == <<chan7, nextFd, openFiles, reply, sent>>

NoReply == [from |-> VfsId, ty |-> "None", a |-> 0, b |-> 0, off |-> 0]
Msg(from, ty, a, b, off) == [from |-> from, ty |-> ty, a |-> a, b |-> b, off |-> off]
Resp(ty, a) == Msg(VfsId, ty, a, 0, 0)

(* The requests a client V-Node can encode (VfsRequest, vfs_ipc.rs).       *)
Requests(c) ==
       {Msg(c, "Open", p, 0, 0) : p \in ClientPaths}
  \cup {Msg(c, "Read", f, l, 0) : f \in Fds, l \in ReadLens}
  \cup {Msg(c, "Write", f, l, 0) : f \in Fds, l \in WriteLens}
  \cup {Msg(c, "List", p, 0, 0) : p \in ClientPaths}
  \cup {Msg(c, "Stat", p, 0, 0) : p \in ClientPaths}
  \cup {Msg(c, "Close", f, 0, 0) : f \in Fds}

RequestTypes == {"Open", "Read", "Write", "List", "Stat", "Close"}

(* A path postcard reads out of bytes that were not a string: no branch of *)
(* List or Stat matches it.                                                *)
ForeignPath == "?"

(***************************************************************************)
(* postcard::from_bytes::<VfsRequest> applied to a message on channel 7.   *)
(* A VfsRequest decodes as itself.  A VfsResponse, whose variant index is  *)
(* read as a VfsRequest variant index, decodes as follows:                 *)
(*   Success(i)  -> Open: the string length i needs bytes that are absent; *)
(*   Data(n)     -> Read{fd: n, len: 'd' = 100, offset: 'u' = 117} when    *)
(*                  n >= 2 (the dummy data starts "du"), else too short;   *)
(*   Metadata(m) -> Write{fd: is_dir, data: size bytes, offset: created}:  *)
(*                  "/home" gives Write{1, [], 1678886400}; README's size  *)
(*                  1024 asks for bytes that are absent;                   *)
(*   DirectoryEntries -> List of a string made of entry bytes;             *)
(*   Error{code, msg} -> Stat of a string made of message bytes.           *)
(***************************************************************************)
Fail == Msg(VfsId, "Fail", 0, 0, 0)

\* The created (and modified) time of every VfsMetadata the VFS returns.
Created == 1678886400

AsVfsRequest(m) ==
    CASE m.ty \in RequestTypes -> m
      [] m.ty = "Data" /\ m.a >= 2 -> Msg(m.from, "Read", m.a, 100, 117)
      [] m.ty = "Metadata" /\ m.a = "/home" -> Msg(m.from, "Write", 1, 0, Created)
      [] m.ty = "DirectoryEntries" -> Msg(m.from, "List", ForeignPath, 0, 0)
      [] m.ty = "Error" -> Msg(m.from, "Stat", ForeignPath, 0, 0)
      [] OTHER -> Fail

(* Length of format!("dummy_data_from_file_{}_at_offset_{}", path, off).   *)
DummyLen(path, off) == 21 + Len(path) + 11 + Digits[off]

MinOf(x, y) == IF x <= y THEN x ELSE y

-----------------------------------------------------------------------------
(* handle_request, one operator per VfsRequest arm.  Each receives the     *)
(* decoded request r and the queue q after the recv, and sends its         *)
(* response on channel 7 (client_chan.send) as the last thing it does.     *)

Answer(q, resp) == chan7' = SendRaw(q, resp)

\* open_files.insert(fd, file): the map f with k bound to v.
Insert(f, k, v) == [x \in DOMAIN f \cup {k} |-> IF x = k THEN v ELSE f[x]]

\* Mutant of Open: next_fd not incremented.
MutVfsOpenNoIncrement(r, q) ==
    /\ openFiles' = Insert(openFiles, nextFd, [path |-> r.a, cursor |-> 0, owner |-> r.from,
                                               movedBy |-> r.from])
    /\ nextFd' = nextFd
    /\ Answer(q, Resp("Success", nextFd))

\* Open: fd = next_fd; next_fd += 1; open_files.insert(fd, ..); Success(fd).
VfsOpen(r, q) ==
    /\ openFiles' = Insert(openFiles, nextFd, [path |-> r.a, cursor |-> 0, owner |-> r.from,
                                               movedBy |-> r.from])
    /\ nextFd' = nextFd + 1
    /\ Answer(q, Resp("Success", nextFd))

\* Read: bytes = min(len, dummy data length); cursor = offset + bytes; or EBADF.
VfsRead(r, q) ==
    /\ UNCHANGED nextFd
    /\ IF r.a \in DOMAIN openFiles
       THEN LET n == MinOf(r.b, DummyLen(openFiles[r.a].path, r.off))
            IN  /\ openFiles' = [openFiles EXCEPT ![r.a].cursor = r.off + n,
                                                  ![r.a].movedBy = r.from]
                /\ Answer(q, Resp("Data", n))
       ELSE /\ UNCHANGED openFiles
            /\ Answer(q, Resp("Error", 9))

\* Write: cursor = offset + data.len(); Success(data.len()); or EBADF.
VfsWrite(r, q) ==
    /\ UNCHANGED nextFd
    /\ IF r.a \in DOMAIN openFiles
       THEN /\ openFiles' = [openFiles EXCEPT ![r.a].cursor = r.off + r.b,
                                              ![r.a].movedBy = r.from]
            /\ Answer(q, Resp("Success", r.b))
       ELSE /\ UNCHANGED openFiles
            /\ Answer(q, Resp("Error", 9))

\* List: entries for "/", "/home", "/home/user"; ENOENT for any other path.
VfsList(r, q) ==
    /\ UNCHANGED <<nextFd, openFiles>>
    /\ Answer(q, IF r.a \in {"/", "/home", "/home/user"}
                 THEN Resp("DirectoryEntries", r.a) ELSE Resp("Error", 2))

\* Stat: metadata of "/README.txt" and "/home"; ENOENT otherwise.
VfsStat(r, q) ==
    /\ UNCHANGED <<nextFd, openFiles>>
    /\ Answer(q, IF r.a \in {"/README.txt", "/home"}
                 THEN Resp("Metadata", r.a) ELSE Resp("Error", 2))

\* Close: open_files.remove(fd) -> Success(0); or EBADF.
VfsClose(r, q) ==
    /\ UNCHANGED nextFd
    /\ IF r.a \in DOMAIN openFiles
       THEN /\ openFiles' = [f \in DOMAIN openFiles \ {r.a} |-> openFiles[f]]
            /\ Answer(q, Resp("Success", 0))
       ELSE /\ UNCHANGED openFiles
            /\ Answer(q, Resp("Error", 9))

HandleRequest(r, q) ==
    CASE r.ty = "Open"  -> VfsOpen(r, q)
      [] r.ty = "Read"  -> VfsRead(r, q)
      [] r.ty = "Write" -> VfsWrite(r, q)
      [] r.ty = "List"  -> VfsList(r, q)
      [] r.ty = "Stat"  -> VfsStat(r, q)
      [] r.ty = "Close" -> VfsClose(r, q)

-----------------------------------------------------------------------------
Init ==
    /\ chan7 = <<>>
    /\ nextFd = 1
    /\ openFiles = <<>>
    /\ reply = [c \in Clients |-> NoReply]
    /\ sent = 0

(* One iteration of run_loop in which recv_non_blocking returns a message  *)
(* that decodes: the request is handled and the response sent on channel  *)
(* 7.  The iteration is atomic: the loop makes no blocking call, and the   *)
(* scheduler never preempts a V-Node.                                      *)
VfsServe ==
    /\ chan7 # <<>>
    /\ AsVfsRequest(Head(chan7)) # Fail
    /\ HandleRequest(AsVfsRequest(Head(chan7)), Taken(chan7))
    /\ UNCHANGED <<reply, sent>>

(* The message does not decode: "Failed to deserialize", nothing is sent.  *)
VfsDrop ==
    /\ chan7 # <<>>
    /\ AsVfsRequest(Head(chan7)) = Fail
    /\ chan7' = Taken(chan7)
    /\ UNCHANGED <<nextFd, openFiles, reply, sent>>

(* recv_non_blocking finds channel 7 empty (Ok(None)); SYS_TIME returns.   *)
VfsIdle ==
    /\ chan7 = <<>>
    /\ UNCHANGED vars

(* Any V-Node holding IpcManage may IPC_SEND a request to channel 7.       *)
ClientSend(c, m) ==
    /\ sent < MaxReqs
    /\ CanSend(chan7)
    /\ chan7' = SendRaw(chan7, m)
    /\ sent' = sent + 1
    /\ UNCHANGED <<nextFd, openFiles, reply>>

(* vfs_chan.send_and_recv(&req), as file-manager and the shell call it:    *)
(* send_raw on channel 7, then recv_blocking on channel 7, which returns   *)
(* the head of channel 7 at once -- the queue holds at least the request.  *)
ClientCall(c, m) ==
    /\ sent < MaxReqs
    /\ CanSend(chan7)
    /\ reply' = [reply EXCEPT ![c] = SendAndRecvReply(chan7, m)]
    /\ chan7' = SendAndRecvRest(chan7, m)
    /\ sent' = sent + 1
    /\ UNCHANGED <<nextFd, openFiles>>

Next ==
    \/ VfsServe
    \/ VfsDrop
    \/ VfsIdle
    \/ \E c \in Clients : \E m \in Requests(c) : ClientSend(c, m) \/ ClientCall(c, m)

Spec == Init /\ [][Next]_vars

-----------------------------------------------------------------------------
(***************************************************************************)
(* An Open never hands out an fd that is still open: handle_request's Open *)
(* takes next_fd and increments it, so an entry of open_files keeps the    *)
(* path and the opener it was created with until a Close removes it.       *)
(***************************************************************************)
OpenNeverReplaces ==
    [][\A f \in DOMAIN openFiles \cap DOMAIN openFiles' :
          /\ openFiles'[f].path = openFiles[f].path
          /\ openFiles'[f].owner = openFiles[f].owner]_vars

(***************************************************************************)
(* send_and_recv returns the VFS's response: what a client's recv_blocking *)
(* takes from channel 7 after sending a request was sent by the VFS        *)
(* ("This assumes a synchronous request-response pattern", vnode.rs).      *)
(***************************************************************************)
ReplyFromVfs ==
    \A c \in Clients : reply[c] # NoReply => reply[c].from = VfsId

=============================================================================
