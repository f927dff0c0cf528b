-------------------------------- MODULE Dma --------------------------------
(***************************************************************************)
(* The DMA buffer registry (kernel/src/arch/x86_64/dma.rs).                *)
(*                                                                         *)
(* NEXT_HANDLE : AtomicU64 starting at 1           -> nextHandle           *)
(* DMA_BUFFERS : BTreeMap<u64, Vec<u8>>            -> dbuf                 *)
(* A buffer is its Vec: capacity (fixed by Vec::with_capacity(size)) and   *)
(* length (changed only by set_len).  Besides the code's state, dbuf[h]    *)
(* records for each handle whether it was never allocated or has been     *)
(* freed, and "filled", the number of bytes the kernel itself has written  *)
(* into the buffer's memory (NET_RX_POLL copies a packet there).          *)
(***************************************************************************)
EXTENDS Naturals

CONSTANTS
    AllocSizes,    \* sizes passed to NET_ALLOC_BUF
    MaxHandle      \* model bound: handles 1..MaxHandle can be issued

ASSUME DmaAssumption ==
    /\ AllocSizes \subseteq Nat
    /\ MaxHandle \in Nat \ {0}

Handles == 1..MaxHandle

\* Handle arguments a caller can pass: 0 (never issued) and every handle.
HandleArgs == 0..MaxHandle

\* Status of a handle: never issued, a key of DMA_BUFFERS, or removed.
BufStatus == {"never", "live", "freed"}

Buffer == [st : BufStatus, cap : Nat, len : Nat, filled : Nat]

NeverBuf == [st |-> "never", cap |-> 0, len |-> 0, filled |-> 0]

\* A removed entry: its Vec is dropped, nothing of it remains.
FreedBuf == [st |-> "freed", cap |-> 0, len |-> 0, filled |-> 0]

VARIABLES nextHandle, dbuf

dmaVars == <<nextHandle, dbuf>>

DmaInit ==
    /\ nextHandle = 1
    /\ dbuf = [h \in Handles |-> NeverBuf]

Live(h) == h \in Handles /\ dbuf[h].st = "live"

(***************************************************************************)
(* alloc_dma_buffer(size): fetch_add on NEXT_HANDLE, insert an empty Vec   *)
(* with capacity size under that handle; always Some(handle).             *)
(***************************************************************************)
\* Mutant: the handle is taken with a load instead of a fetch_add.
MutAllocNoIncrement(size) ==
    /\ nextHandle <= MaxHandle
    /\ UNCHANGED nextHandle
    /\ dbuf' = [dbuf EXCEPT ![nextHandle] = [st |-> "live", cap |-> size, len |-> 0, filled |-> 0]]

AllocBuf(size) ==
    /\ nextHandle <= MaxHandle
    /\ nextHandle' = nextHandle + 1
    /\ dbuf' = [dbuf EXCEPT ![nextHandle] = [st |-> "live", cap |-> size, len |-> 0, filled |-> 0]]

(***************************************************************************)
(* free_dma_buffer(h): remove the entry if present; an unknown handle is   *)
(* only logged.                                                            *)
(***************************************************************************)
FreeBuf(h) ==
    /\ dbuf' = IF Live(h) THEN [dbuf EXCEPT ![h] = FreedBuf] ELSE dbuf
    /\ UNCHANGED nextHandle

(***************************************************************************)
(* get_dma_buffer_ptr(h): Vec::as_mut_ptr of a live buffer.  For capacity  *)
(* 0 that is NonNull::dangling(), address 1 for u8; otherwise an address   *)
(* of the kernel heap, here 4096 * h (distinct, page-sized, above 1).     *)
(***************************************************************************)
BufPtr(h) == IF dbuf[h].cap = 0 THEN 1 ELSE 4096 * h

(***************************************************************************)
(* set_dma_buffer_len(h, n): Ok and length n when h is live and n <=       *)
(* capacity; Err otherwise, with nothing changed.                          *)
(***************************************************************************)
\* Mutant: the capacity check of set_len is dropped.
MutSetLenNoCheck(h, n) == Live(h)

SetLenOk(h, n) == Live(h) /\ n <= dbuf[h].cap

SetLen(h, n) ==
    /\ dbuf' = IF SetLenOk(h, n) THEN [dbuf EXCEPT ![h].len = n] ELSE dbuf
    /\ UNCHANGED nextHandle

DmaTypeOK ==
    /\ nextHandle \in 1..(MaxHandle + 1)
    /\ dbuf \in [Handles -> Buffer]

=============================================================================
