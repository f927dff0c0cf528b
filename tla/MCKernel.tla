------------------------------ MODULE MCKernel ------------------------------
(* Model-checking instance of Kernel: the kernel task and two V-Nodes, one  *)
(* channel, IRQ 11  (VirtIO-Net, as net-bridge registers it), two handles.  *)
EXTENDS Kernel

MCTaskIds == {0, 1100, 1110}
MCVNodeCaps ==
    1100 :> {IpcManage, IrqRegister(11), DmaAlloc, DmaAccess} @@
    1110 :> {LogWrite, IpcManage, NetworkAccess}

\* A second assignment in which V-Node 1110 holds no IPC capability.
MCVNodeCapsNoIpc ==
    1100 :> {IpcManage, IrqRegister(11), DmaAlloc, DmaAccess} @@
    1110 :> {LogWrite, TimeRead}

\* States that differ only in the record of the last entry behave alike:
\* no action reads it.
MCView == state
=============================================================================
