---------------------------- MODULE InitService ----------------------------
(***************************************************************************)
(* The init-service V-Node (vnode/init-service/src/main.rs) on channel 6,  *)
(* its clients, and the shell's "start" command, which calls it with       *)
(* send_and_recv.  Like the VFS, the service reads requests from channel 6 *)
(* and sends each InitResponse back on channel 6.                          *)
(*                                                                         *)
(* A message is [from, ty, s, pid, bytes].  A string s is a record of its  *)
(* name and length: a service name keeps its text; a text the service      *)
(* formatted keeps only its length (name ""), since no formatted text      *)
(* equals a configured name and such a text is only looked up, never      *)
(* found.  bytes is the length of the postcard encoding, which the kernel  *)
(* compares with the receiver's 4096-byte buffer.                          *)
(***************************************************************************)
EXTENDS Naturals, Sequences, TLC, VNodeChannel

CONSTANTS
    InitId,      \* task id of the init-service V-Node
    ShellId,     \* task id of the shell
    Clients,     \* other V-Nodes that send requests on channel 6
    ClientNames, \* service names clients put in requests
    MaxReqs      \* model bound: number of requests clients send

ASSUME InitServiceAssumption ==
    /\ InitId \notin Clients \cup {ShellId}
    /\ ClientNames \subseteq STRING
    /\ MaxReqs \in Nat

VARIABLES
    chan6,    \* the queue of channel 6
    running,  \* InitService.running_vnodes: name -> pid
    nextPid,  \* InitService.next_pid
    served,   \* the last run_loop iteration handled a message (auxiliary)
    shell,    \* [name, got]: the shell's last "start" and what it decoded
    sent      \* number of requests clients have sent (bound only)

vars == <<chan6, running, nextPid, served, shell, sent>>

\* service_configs as InitService::new fills it.
Configured == {"aethernet-service", "socket-api", "dns-resolver"}

Str(n) == [name |-> n, len |-> Len(n)]
Text(len) == [name |-> "", len |-> len]
StrBytes(s) == VarintLen(s.len) + s.len

\* A request or a one-string response: variant index, then the string.
Msg(from, ty, s) == [from |-> from, ty |-> ty, s |-> s, pid |-> 0, bytes |-> 1 + StrBytes(s)]

\* Status { service_name, is_running, pid: Option<u64> }; pid 0 stands for None.
StatusMsg(name, pid) ==
    [from |-> InitId, ty |-> "Status", s |-> name, pid |-> pid,
     bytes |-> 1 + StrBytes(name) + 1 + (IF pid = 0 THEN 1 ELSE 1 + VarintLen(pid))]

Requests(c) ==
    {Msg(c, ty, n) : ty \in {"ServiceStart", "ServiceStatus", "ServiceRestart", "ServiceStop"},
                     n \in {Str(x) : x \in ClientNames}}

(* The lengths of the texts handle_request formats.                        *)
StartedText(n, pid) == Text(Len("Service '") + n.len + Len("' started with PID ") + Digits[pid] + Len("."))
AlreadyText(n) == Text(Len("Service ") + n.len + Len(" is already running."))
NotFoundText(n) == Text(Len("Service '") + n.len + Len("' not found in configuration."))
NoRestartText(n) == Text(Len("Service '") + n.len + Len("' not running to restart."))
StoppedText(n) == Text(Len("Service '") + n.len + Len("' stopped."))
NotRunningText(n) == Text(Len("Service '") + n.len + Len("' not running."))

(***************************************************************************)
(* postcard::from_bytes::<InitRequest> of a message on channel 6.  The     *)
(* response variants Success 0, Status 1 and Error 2 are read as the       *)
(* request variants 0, 1 and 2, and the string that follows as the service *)
(* name: Success(t) is ServiceStart{t}, Status{n, ..} is ServiceStatus{n}  *)
(* (the bytes after the name are left unread), Error(t) is                 *)
(* ServiceRestart{t}.                                                      *)
(***************************************************************************)
AsInitRequest(m) ==
    CASE m.ty = "Success" -> Msg(m.from, "ServiceStart", m.s)
      [] m.ty = "Status"  -> Msg(m.from, "ServiceStatus", m.s)
      [] m.ty = "Error"   -> Msg(m.from, "ServiceRestart", m.s)
      [] OTHER            -> m

(* postcard::from_bytes::<InitResponse> of what the shell's send_and_recv  *)
(* returns.  Its own ServiceStart{n} reads as Success(n); ServiceRestart   *)
(* {n} as Error(n); ServiceStatus{n} as a Status missing its bool, and     *)
(* ServiceStop (index 3) as no variant: both fail ("Unexpected response"). *)
AsInitResponse(m) ==
    CASE m.ty = "ServiceStart"   -> "Success"
      [] m.ty = "ServiceRestart" -> "Error"
      [] m.ty \in {"ServiceStatus", "ServiceStop"} -> "Unexpected"
      [] OTHER -> m.ty

-----------------------------------------------------------------------------
(* handle_request: the new running map and next pid, and the response.     *)
Answer(q, resp) == chan6' = SendRaw(q, resp)

Without(rm, n) == [k \in DOMAIN rm \ {n} |-> rm[k]]

\* running_vnodes.insert(name, vnode): the map rm with k bound to v.
Insert(rm, k, v) == [x \in DOMAIN rm \cup {k} |-> IF x = k THEN v ELSE rm[x]]

\* Mutant of ServiceStart: next_pid not incremented.
MutStartOnNoIncrement(rm, n, q) ==
    \/ /\ n.name \in DOMAIN rm
       /\ running' = rm /\ UNCHANGED nextPid
       /\ Answer(q, Msg(InitId, "Error", AlreadyText(n)))
    \/ /\ n.name \notin DOMAIN rm /\ n.name \in Configured
       /\ running' = Insert(rm, n.name, nextPid)
       /\ UNCHANGED nextPid
       /\ Answer(q, Msg(InitId, "Success", StartedText(n, nextPid)))
    \/ /\ n.name \notin DOMAIN rm /\ n.name \notin Configured
       /\ running' = rm /\ UNCHANGED nextPid
       /\ Answer(q, Msg(InitId, "Error", NotFoundText(n)))

\* ServiceStart on the map rm (running_vnodes, or what Restart left of it):
\* already running -> Error; configured -> pid = next_pid, next_pid += 1,
\* insert, Success; otherwise Error (not found).
StartOn(rm, n, q) ==
    \/ /\ n.name \in DOMAIN rm
       /\ running' = rm /\ UNCHANGED nextPid
       /\ Answer(q, Msg(InitId, "Error", AlreadyText(n)))
    \/ /\ n.name \notin DOMAIN rm /\ n.name \in Configured
       /\ running' = Insert(rm, n.name, nextPid)
       /\ nextPid' = nextPid + 1
       /\ Answer(q, Msg(InitId, "Success", StartedText(n, nextPid)))
    \/ /\ n.name \notin DOMAIN rm /\ n.name \notin Configured
       /\ running' = rm /\ UNCHANGED nextPid
       /\ Answer(q, Msg(InitId, "Error", NotFoundText(n)))

ServiceStart(n, q) == StartOn(running, n, q)

\* ServiceStatus: Status with the pid if running, None otherwise.
ServiceStatus(n, q) ==
    /\ UNCHANGED <<running, nextPid>>
    /\ Answer(q, StatusMsg(n, IF n.name \in DOMAIN running THEN running[n.name] ELSE 0))

\* ServiceRestart: remove, then handle_request(ServiceStart) on the map
\* without the entry; Error if it was not running.
ServiceRestart(n, q) ==
    IF n.name \in DOMAIN running
    THEN StartOn(Without(running, n.name), n, q)
    ELSE /\ UNCHANGED <<running, nextPid>>
         /\ Answer(q, Msg(InitId, "Error", NoRestartText(n)))

\* ServiceStop: remove -> Success; Error if it was not running.
ServiceStop(n, q) ==
    /\ UNCHANGED nextPid
    /\ IF n.name \in DOMAIN running
       THEN /\ running' = Without(running, n.name)
            /\ Answer(q, Msg(InitId, "Success", StoppedText(n)))
       ELSE /\ UNCHANGED running
            /\ Answer(q, Msg(InitId, "Error", NotRunningText(n)))

HandleRequest(r, q) ==
    CASE r.ty = "ServiceStart"   -> ServiceStart(r.s, q)
      [] r.ty = "ServiceStatus"  -> ServiceStatus(r.s, q)
      [] r.ty = "ServiceRestart" -> ServiceRestart(r.s, q)
      [] r.ty = "ServiceStop"    -> ServiceStop(r.s, q)

-----------------------------------------------------------------------------
Init ==
    /\ chan6 = <<>>
    /\ running = <<>>
    /\ nextPid = 1000
    /\ served = FALSE
    /\ shell = [name |-> "", got |-> "None"]
    /\ sent = 0

(* One run_loop iteration that receives a message that fits the buffer     *)
(* and decodes (every InitResponse decodes as some InitRequest): handle it *)
(* and send the response on channel 6.                                     *)
InitServe ==
    /\ chan6 # <<>>
    /\ Delivered(Head(chan6))
    /\ HandleRequest(AsInitRequest(Head(chan6)), Taken(chan6))
    /\ served' = TRUE
    /\ UNCHANGED <<shell, sent>>

(* The kernel drops a message longer than the 4096-byte buffer; the        *)
(* wrapper returns Err and the iteration does nothing else.                *)
InitDrop ==
    /\ chan6 # <<>>
    /\ ~Delivered(Head(chan6))
    /\ chan6' = Taken(chan6)
    /\ served' = FALSE
    /\ UNCHANGED <<running, nextPid, shell, sent>>

(* recv_non_blocking returns Ok(None); SYS_TIME.                           *)
InitIdle ==
    /\ chan6 = <<>>
    /\ served' = FALSE
    /\ UNCHANGED <<chan6, running, nextPid, shell, sent>>

InitLoop == InitServe \/ InitDrop \/ InitIdle

(* Any V-Node with IpcManage sends a request to channel 6.                 *)
ClientSend(m) ==
    /\ sent < MaxReqs
    /\ CanSend(chan6)
    /\ chan6' = SendRaw(chan6, m)
    /\ sent' = sent + 1
    /\ UNCHANGED <<running, nextPid, served, shell>>

(* The shell's "start <name>": init_chan.send_and_recv(ServiceStart{name}) *)
(* and the InitResponse variant it decodes from what it receives.          *)
ShellStart(n) ==
    /\ sent < MaxReqs
    /\ CanSend(chan6)
    /\ LET m == Msg(ShellId, "ServiceStart", Str(n))
       IN  /\ shell' = [name |-> n, got |-> AsInitResponse(SendAndRecvReply(chan6, m))]
           /\ chan6' = SendAndRecvRest(chan6, m)
    /\ sent' = sent + 1
    /\ UNCHANGED <<running, nextPid, served>>

Next ==
    \/ InitLoop
    \/ \E c \in Clients : \E m \in Requests(c) : ClientSend(m)
    \/ \E n \in ClientNames : ShellStart(n)

Spec == Init /\ [][Next]_vars

(* The init-service's loop never blocks; when it runs, it takes a step.    *)
FairSpec == Spec /\ WF_vars(InitLoop)

-----------------------------------------------------------------------------
(***************************************************************************)
(* Running services have distinct pids: ServiceStart takes next_pid and    *)
(* increments it, also when ServiceRestart re-enters it, so no two entries *)
(* of running_vnodes share a pid.                                          *)
(***************************************************************************)
RunningPidsDistinct ==
    \A a, b \in DOMAIN running : a # b => running[a] # running[b]

(***************************************************************************)
(* Once clients stop sending, the init-service eventually stops handling   *)
(* messages: every request is answered once, and the loop then only polls *)
(* an empty channel or one holding responses for clients.                  *)
(***************************************************************************)
InitEventuallyIdle == <>[](~served)

=============================================================================
