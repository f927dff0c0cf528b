----------------------------- MODULE MCNetPath -----------------------------
(* The network data path with an interrupt line that delivers IRQ 11.     *)
EXTENDS NetPath

\* Task ids of net-bridge and the AetherNet service.
MCBridgeId == 11
MCStackId == 12

=============================================================================
