------------------------------ MODULE VfsProofs ------------------------------
(***************************************************************************)
(* Proof that the VFS never hands out an fd that is still open             *)
(* (Vfs!OpenNeverReplaces), for every set of clients, paths, fds, lengths  *)
(* and every bound on channel 7.                                           *)
(***************************************************************************)
EXTENDS Vfs, SequenceTheorems, TLAPS

(* An entry of open_files is an OpenFile record.                           *)
FileRec(e) == e = [path |-> e.path, cursor |-> e.cursor, owner |-> e.owner, movedBy |-> e.movedBy]

(* The inductive invariant: next_fd is above every open fd, and every      *)
(* entry is an OpenFile.                                                   *)
VInv ==
    /\ nextFd \in Nat
    /\ \A f \in DOMAIN openFiles : f \in Nat /\ f < nextFd /\ FileRec(openFiles[f])

(* The step OpenNeverReplaces constrains.                                  *)
KeepsFiles ==
    \A f \in DOMAIN openFiles \cap DOMAIN openFiles' :
        /\ openFiles'[f].path = openFiles[f].path
        /\ openFiles'[f].owner = openFiles[f].owner

-----------------------------------------------------------------------------
(* postcard reads every message of channel 7 either as a VfsRequest or as  *)
(* nothing.                                                                *)
LEMMA DecodedRequest ==
    ASSUME NEW m, AsVfsRequest(m) # Fail
    PROVE  AsVfsRequest(m).ty \in RequestTypes
    BY Zenon DEF AsVfsRequest, Msg, RequestTypes

(* handle_request's match takes one of its six arms.                       *)
LEMMA HandleArms ==
    ASSUME NEW r, r.ty \in RequestTypes, NEW q, HandleRequest(r, q)
    PROVE  \/ VfsOpen(r, q) \/ VfsRead(r, q) \/ VfsWrite(r, q)
           \/ VfsList(r, q) \/ VfsStat(r, q) \/ VfsClose(r, q)
    BY Zenon DEF HandleRequest, RequestTypes

(* Open: the new fd is next_fd, above every open one.                      *)
LEMMA OpenOK ==
    ASSUME VInv, NEW r, NEW q, VfsOpen(r, q)
    PROVE  VInv' /\ KeepsFiles
<1>. DEFINE e == [path |-> r.a, cursor |-> 0, owner |-> r.from, movedBy |-> r.from]
<1>1. openFiles' = Insert(openFiles, nextFd, e) /\ nextFd' = nextFd + 1  BY DEF VfsOpen
<1>2. /\ DOMAIN openFiles' = DOMAIN openFiles \cup {nextFd}
      /\ openFiles'[nextFd] = e
      /\ \A f \in DOMAIN openFiles : openFiles'[f] = openFiles[f]
    BY <1>1 DEF Insert, VInv
<1>3. FileRec(e)  BY DEF FileRec
<1>. QED  BY <1>1, <1>2, <1>3 DEF VInv, KeepsFiles

(* Moving the cursor of an open fd keeps its path and its opener.         *)
LEMMA MovedOK ==
    ASSUME VInv, UNCHANGED nextFd, NEW k \in DOMAIN openFiles, NEW x, NEW y,
           openFiles' = [openFiles EXCEPT ![k].cursor = x, ![k].movedBy = y]
    PROVE  VInv' /\ KeepsFiles
<1>1. FileRec(openFiles[k])  BY DEF VInv
<1>2. /\ DOMAIN openFiles' = DOMAIN openFiles
      /\ \A j \in DOMAIN openFiles \ {k} : openFiles'[j] = openFiles[j]
      /\ openFiles'[k] = [path |-> openFiles[k].path, cursor |-> x,
                          owner |-> openFiles[k].owner, movedBy |-> y]
    BY <1>1 DEF FileRec
<1>. QED  BY <1>2 DEF VInv, KeepsFiles, FileRec

(* Read and Write move the cursor of an open fd, or answer EBADF.          *)
LEMMA ReadWriteOK ==
    ASSUME VInv, NEW r, NEW q, VfsRead(r, q) \/ VfsWrite(r, q)
    PROVE  VInv' /\ KeepsFiles
<1>1. UNCHANGED nextFd  BY DEF VfsRead, VfsWrite
<1>2. CASE r.a \in DOMAIN openFiles /\ VfsRead(r, q)
    <2>1. openFiles' = [openFiles EXCEPT ![r.a].cursor = r.off + MinOf(r.b, DummyLen(openFiles[r.a].path, r.off)),
                                         ![r.a].movedBy = r.from]
        BY <1>2, Zenon DEF VfsRead
    <2>. QED  BY <1>1, <1>2, <2>1, MovedOK
<1>3. CASE r.a \in DOMAIN openFiles /\ VfsWrite(r, q)
    <2>1. openFiles' = [openFiles EXCEPT ![r.a].cursor = r.off + r.b, ![r.a].movedBy = r.from]
        BY <1>3, Zenon DEF VfsWrite
    <2>. QED  BY <1>1, <1>3, <2>1, MovedOK
<1>4. CASE r.a \notin DOMAIN openFiles
    <2>1. UNCHANGED openFiles  BY <1>4 DEF VfsRead, VfsWrite
    <2>. QED  BY <1>1, <2>1 DEF VInv, KeepsFiles
<1>. QED  BY <1>2, <1>3, <1>4

(* Close removes the fd; every other entry stays as it was.                *)
LEMMA CloseOK ==
    ASSUME VInv, NEW r, NEW q, VfsClose(r, q)
    PROVE  VInv' /\ KeepsFiles
<1>1. UNCHANGED nextFd  BY DEF VfsClose
<1>2. /\ DOMAIN openFiles' \subseteq DOMAIN openFiles
      /\ \A f \in DOMAIN openFiles' : openFiles'[f] = openFiles[f]
    BY DEF VfsClose
<1>. QED  BY <1>1, <1>2 DEF VInv, KeepsFiles

(* One iteration of run_loop that handles a request.                       *)
LEMMA ServeOK ==
    ASSUME VInv, VfsServe
    PROVE  VInv' /\ KeepsFiles
<1>. DEFINE r == AsVfsRequest(Head(chan7))
            q == Taken(chan7)
<1>1. r.ty \in RequestTypes  BY DecodedRequest DEF VfsServe
<1>2. HandleRequest(r, q)  BY DEF VfsServe
<1>3. CASE VfsOpen(r, q)  BY <1>3, OpenOK
<1>4. CASE VfsRead(r, q) \/ VfsWrite(r, q)  BY <1>4, ReadWriteOK
<1>5. CASE VfsList(r, q) \/ VfsStat(r, q)  BY <1>5 DEF VfsList, VfsStat, VInv, KeepsFiles
<1>6. CASE VfsClose(r, q)  BY <1>6, CloseOK
<1>. QED  BY <1>1, <1>2, <1>3, <1>4, <1>5, <1>6, HandleArms

(* Every step of the VFS and its clients keeps VInv and every open file.   *)
LEMMA StepOK == VInv /\ [Next]_vars => VInv' /\ KeepsFiles
<1>. SUFFICES ASSUME VInv, [Next]_vars PROVE VInv' /\ KeepsFiles  OBVIOUS
<1>1. CASE VfsServe  BY <1>1, ServeOK
<1>2. CASE VfsDrop \/ VfsIdle \/ UNCHANGED vars
    BY <1>2 DEF VfsDrop, VfsIdle, vars, VInv, KeepsFiles
<1>3. CASE \E c \in Clients : \E m \in Requests(c) : ClientSend(c, m) \/ ClientCall(c, m)
    BY <1>3 DEF ClientSend, ClientCall, VInv, KeepsFiles
<1>. QED  BY <1>1, <1>2, <1>3 DEF Next

LEMMA InitVInv == Init => VInv
<1>. SUFFICES ASSUME Init PROVE VInv  OBVIOUS
<1>1. openFiles = << >> /\ nextFd = 1  BY Zenon DEF Init
<1>2. << >> \in Seq({}) /\ Len(<< >>) = 0  BY EmptySeq
<1>3. DOMAIN openFiles = {}  BY <1>1, <1>2, LenProperties
<1>. QED  BY <1>1, <1>3 DEF VInv

(***************************************************************************)
(* An open fd keeps the path and the opener it was created with until it   *)
(* is closed, whatever the clients send and in whatever order:             *)
(* handle_request's Open (vfs main.rs) takes next_fd and increments it, so *)
(* open_files.insert never lands on an open fd, and Read and Write change  *)
(* only the cursor.                                                        *)
(***************************************************************************)
THEOREM OpenNeverReplacesHolds == Spec => OpenNeverReplaces
<1>1. Init => VInv  BY InitVInv
<1>2. VInv /\ [Next]_vars => VInv'  BY StepOK
<1>3. VInv /\ [Next]_vars => [KeepsFiles]_vars  BY StepOK
<1>. QED  BY <1>1, <1>2, <1>3, PTL DEF Spec, OpenNeverReplaces, KeepsFiles

=============================================================================
