------------------------- MODULE InitServiceProofs -------------------------
(***************************************************************************)
(* Proof that the init-service never gives two running services the same  *)
(* pid (InitService!RunningPidsDistinct), for every set of clients, every *)
(* set of service names and every bound on the channel.                    *)
(***************************************************************************)
EXTENDS InitService, SeqLemmas, TLAPS

\* The variants that can be on channel 6: InitRequest and InitResponse.
RequestTypes == {"ServiceStart", "ServiceStatus", "ServiceRestart", "ServiceStop"}
ResponseTypes == {"Success", "Status", "Error"}
MsgTypes == RequestTypes \cup ResponseTypes

(* Every pid of the map rm is a natural below p.                           *)
PidsBelow(rm, p) == \A a \in DOMAIN rm : rm[a] \in Nat /\ rm[a] < p

(* No two names of the map rm share a pid.                                 *)
PidsDistinct(rm) == \A a, b \in DOMAIN rm : a # b => rm[a] # rm[b]

(* The inductive invariant: next_pid is above every pid handed out, and    *)
(* channel 6 holds only requests and responses.                            *)
PInv ==
    /\ nextPid \in Nat
    /\ PidsBelow(running, nextPid)
    /\ PidsDistinct(running)
    /\ TypedSeq(chan6, MsgTypes)

-----------------------------------------------------------------------------
(* Removing a name keeps the pids below the bound and distinct.            *)
LEMMA WithoutPids ==
    ASSUME NEW rm, NEW p, NEW x, PidsBelow(rm, p), PidsDistinct(rm)
    PROVE  PidsBelow(Without(rm, x), p) /\ PidsDistinct(Without(rm, x))
    BY DEF PidsBelow, PidsDistinct, Without

(***************************************************************************)
(* ServiceStart on a map rm whose pids are below next_pid and distinct:    *)
(* the new entry takes next_pid, which no entry has, and next_pid grows.   *)
(***************************************************************************)
LEMMA StartOnPids ==
    ASSUME nextPid \in Nat, NEW rm, PidsBelow(rm, nextPid), PidsDistinct(rm),
           NEW n, NEW q, StartOn(rm, n, q)
    PROVE  /\ nextPid' \in Nat
           /\ PidsBelow(running', nextPid')
           /\ PidsDistinct(running')
           /\ \E e : e.ty \in ResponseTypes /\ chan6' = Append(q, e)
<1>1. CASE n.name \in DOMAIN rm
    BY <1>1 DEF StartOn, Answer, SendRaw, Msg, ResponseTypes
<1>2. CASE n.name \notin DOMAIN rm /\ n.name \in Configured
    <2>1. running' = Insert(rm, n.name, nextPid) /\ nextPid' = nextPid + 1
        BY <1>2 DEF StartOn
    <2>2. DOMAIN running' = {n.name} \cup DOMAIN rm
          /\ running'[n.name] = nextPid
          /\ \A a \in DOMAIN rm : running'[a] = rm[a]
        BY <1>2, <2>1 DEF Insert
    <2>3. PidsBelow(running', nextPid')  BY <2>1, <2>2 DEF PidsBelow
    <2>4. PidsDistinct(running')  BY <2>1, <2>2 DEF PidsBelow, PidsDistinct
    <2>5. \E e : e.ty \in ResponseTypes /\ chan6' = Append(q, e)
        BY <1>2 DEF StartOn, Answer, SendRaw, Msg, ResponseTypes
    <2>. QED  BY <2>1, <2>3, <2>4, <2>5
<1>3. CASE n.name \notin DOMAIN rm /\ n.name \notin Configured
    BY <1>3 DEF StartOn, Answer, SendRaw, Msg, ResponseTypes
<1>. QED  BY <1>1, <1>2, <1>3

(* handle_request on a typed request: running_vnodes keeps distinct pids  *)
(* below next_pid, and one InitResponse is appended to the queue q.        *)
LEMMA HandleRequestPids ==
    ASSUME nextPid \in Nat, PidsBelow(running, nextPid), PidsDistinct(running),
           NEW r, r.ty \in RequestTypes, NEW q, HandleRequest(r, q)
    PROVE  /\ nextPid' \in Nat
           /\ PidsBelow(running', nextPid')
           /\ PidsDistinct(running')
           /\ \E e : e.ty \in ResponseTypes /\ chan6' = Append(q, e)
<1>1. CASE r.ty = "ServiceStart"
    <2>1. StartOn(running, r.s, q)  BY <1>1 DEF HandleRequest, ServiceStart
    <2>. QED  BY <2>1, StartOnPids
<1>2. CASE r.ty = "ServiceStatus"
    <2>1. ServiceStatus(r.s, q)  BY <1>2 DEF HandleRequest
    <2>. QED  BY <2>1 DEF ServiceStatus, Answer, SendRaw, StatusMsg, ResponseTypes
<1>3. CASE r.ty = "ServiceRestart"
    <2>1. ServiceRestart(r.s, q)  BY <1>3 DEF HandleRequest
    <2>2. CASE r.s.name \in DOMAIN running
        <3>1. StartOn(Without(running, r.s.name), r.s, q)  BY <2>1, <2>2 DEF ServiceRestart
        <3>2. PidsBelow(Without(running, r.s.name), nextPid)
              /\ PidsDistinct(Without(running, r.s.name))
            BY WithoutPids
        <3>. QED  BY <3>1, <3>2, StartOnPids
    <2>3. CASE r.s.name \notin DOMAIN running
        BY <2>1, <2>3 DEF ServiceRestart, Answer, SendRaw, Msg, ResponseTypes
    <2>. QED  BY <2>2, <2>3
<1>4. CASE r.ty = "ServiceStop"
    <2>1. ServiceStop(r.s, q)  BY <1>4 DEF HandleRequest
    <2>2. CASE r.s.name \in DOMAIN running
        <3>1. running' = Without(running, r.s.name) /\ nextPid' = nextPid
            BY <2>1, <2>2 DEF ServiceStop
        <3>2. \E e : e.ty \in ResponseTypes /\ chan6' = Append(q, e)
            BY <2>1, <2>2 DEF ServiceStop, Answer, SendRaw, Msg, ResponseTypes
        <3>. QED  BY <3>1, <3>2, WithoutPids
    <2>3. CASE r.s.name \notin DOMAIN running
        BY <2>1, <2>3 DEF ServiceStop, Answer, SendRaw, Msg, ResponseTypes
    <2>. QED  BY <2>2, <2>3
<1>. QED  BY <1>1, <1>2, <1>3, <1>4 DEF RequestTypes

(* postcard reads every message of channel 6 as some InitRequest.          *)
LEMMA DecodedIsRequest ==
    ASSUME NEW m, m.ty \in MsgTypes
    PROVE  AsInitRequest(m).ty \in RequestTypes
    BY DEF AsInitRequest, Msg, MsgTypes, RequestTypes, ResponseTypes

-----------------------------------------------------------------------------
LEMMA PInvInit == Init => PInv
<1>. SUFFICES ASSUME Init PROVE PInv  OBVIOUS
<1>0. chan6 = << >> /\ running = << >> /\ nextPid = 1000  BY Zenon DEF Init
<1>1. DOMAIN << >> = {}
    <2>1. << >> \in Seq({}) /\ Len(<< >>) = 0  BY EmptySeq
    <2>2. DOMAIN << >> = 1..0  BY <2>1, LenProperties
    <2>. QED  BY <2>2
<1>2. chan6 \in Seq(Range(chan6))  BY <1>0, EmptySeq, SeqOfRange
<1>3. Range(chan6) = {} /\ DOMAIN running = {}  BY <1>0, <1>1 DEF Range
<1>4. TypedSeq(chan6, MsgTypes)  BY <1>2, <1>3 DEF TypedSeq
<1>5. PidsBelow(running, nextPid) /\ PidsDistinct(running)
    BY <1>3 DEF PidsBelow, PidsDistinct
<1>. QED  BY <1>0, <1>4, <1>5 DEF PInv

(* run_loop iteration that handles a message.                              *)
LEMMA InitServePInv ==
    ASSUME PInv, InitServe
    PROVE  PInv'
<1>1. TypedSeq(Taken(chan6), MsgTypes) /\ Head(chan6).ty \in MsgTypes
    BY TailTyped DEF InitServe, PInv, Taken
<1>2. AsInitRequest(Head(chan6)).ty \in RequestTypes  BY <1>1, DecodedIsRequest
<1>3. /\ nextPid' \in Nat
      /\ PidsBelow(running', nextPid')
      /\ PidsDistinct(running')
      /\ \E e : e.ty \in ResponseTypes /\ chan6' = Append(Taken(chan6), e)
    BY <1>2, HandleRequestPids DEF InitServe, PInv
<1>4. TypedSeq(chan6', MsgTypes)  BY <1>1, <1>3, AppendTyped DEF MsgTypes
<1>. QED  BY <1>3, <1>4 DEF PInv

(* Every step of init-service, its clients and the shell keeps PInv.       *)
LEMMA PInvNext == PInv /\ [Next]_vars => PInv'
<1>. SUFFICES ASSUME PInv, [Next]_vars PROVE PInv'  OBVIOUS
<1>1. CASE InitServe  BY <1>1, InitServePInv
<1>2. CASE InitDrop
    <2>1. TypedSeq(chan6', MsgTypes)  BY <1>2, TailTyped DEF InitDrop, PInv, Taken
    <2>. QED  BY <1>2, <2>1 DEF InitDrop, PInv
<1>3. CASE InitIdle  BY <1>3 DEF InitIdle, PInv
<1>4. CASE \E c \in Clients : \E m \in Requests(c) : ClientSend(m)
    <2>. PICK c \in Clients : \E m \in Requests(c) : ClientSend(m)  BY <1>4
    <2>. PICK m \in Requests(c) : ClientSend(m)  OBVIOUS
    <2>1. m.ty \in MsgTypes  BY DEF Requests, Msg, MsgTypes, RequestTypes
    <2>2. TypedSeq(chan6', MsgTypes)  BY <2>1, AppendTyped DEF ClientSend, SendRaw, PInv
    <2>. QED  BY <2>2 DEF ClientSend, PInv
<1>5. CASE \E n \in ClientNames : ShellStart(n)
    <2>. PICK n \in ClientNames : ShellStart(n)  BY <1>5
    <2>. DEFINE m == Msg(ShellId, "ServiceStart", Str(n))
    <2>1. m.ty \in MsgTypes  BY DEF Msg, MsgTypes, RequestTypes
    <2>2. TypedSeq(Append(chan6, m), MsgTypes) /\ Append(chan6, m) # <<>>
        BY <2>1, AppendTyped DEF PInv
    <2>3. TypedSeq(Tail(Append(chan6, m)), MsgTypes)  BY <2>2, TailTyped
    <2>4. chan6' = Tail(Append(chan6, m))  BY DEF ShellStart, SendAndRecvRest, SendRaw, Taken
    <2>. QED  BY <2>3, <2>4 DEF ShellStart, PInv
<1>6. CASE UNCHANGED vars  BY <1>6 DEF vars, PInv, TypedSeq, PidsBelow, PidsDistinct
<1>. QED  BY <1>1, <1>2, <1>3, <1>4, <1>5, <1>6 DEF Next, InitLoop

(***************************************************************************)
(* No two running services share a pid, whatever the clients send and in *)
(* whatever order: handle_request's ServiceStart (main.rs) takes next_pid  *)
(* and increments it, ServiceRestart removes the entry before re-entering  *)
(* ServiceStart, so every pid in running_vnodes is below next_pid and was  *)
(* handed out once.                                                        *)
(***************************************************************************)
THEOREM PidsNeverShared == Spec => []RunningPidsDistinct
<1>1. Init => PInv  BY PInvInit
<1>2. PInv /\ [Next]_vars => PInv'  BY PInvNext
<1>3. PInv => RunningPidsDistinct  BY DEF PInv, PidsDistinct, RunningPidsDistinct
<1>. QED  BY <1>1, <1>2, <1>3, PTL DEF Spec

=============================================================================
