-------------------------------- MODULE Irq --------------------------------
(***************************************************************************)
(* The IRQ dispatcher (kernel/src/arch/x86_64/irq.rs).                     *)
(*                                                                         *)
(* IRQ_TO_CHANNEL_MAP : BTreeMap<u8, ChannelId> -> irqMap, NoChannel for  *)
(* an IRQ number that has no binding.      acknowledge_irq only logs (the  *)
(* EOI write is not implemented), so it changes no state.                  *)
(* handle_irq sends through the mailbox layer and so is an action of       *)
(* Kernel.tla, which composes this module with Mailbox.                     *)
(***************************************************************************)
EXTENDS Integers

CONSTANTS
    Irqs           \* IRQ numbers (u8) that occur

ASSUME IrqAssumption == Irqs \subseteq 0..255

\* No binding (the map has no key); -1 is not a u32 channel id.
NoChannel == -1

VARIABLE irqMap

IrqInit == irqMap = [n \in Irqs |-> NoChannel]

\* register_irq_handler(n, c): insert, replacing an earlier binding of n.
RegisterIrq(n, c) == irqMap' = [irqMap EXCEPT ![n] = c]

Bound(n) == irqMap[n] # NoChannel

IrqTypeOK(chanArgs) == irqMap \in [Irqs -> {NoChannel} \cup chanArgs]

=============================================================================
