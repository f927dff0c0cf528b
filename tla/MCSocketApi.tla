---------------------------- MODULE MCSocketApi ----------------------------
(* socket-api, one client, and the network path with one interrupt.     *)
EXTENDS SocketApi

MCBridgeId == 11
MCStackId == 12
\* socket-api and the dns-resolver, its client.
MCApiId == 13
MCApiClients == {14}

=============================================================================
