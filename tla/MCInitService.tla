-------------------------- MODULE MCInitService --------------------------
(* Model-checking instance of InitService: one client V-Node besides the   *)
(* shell, two configured names and one that is not configured.            *)
EXTENDS InitService

MCNames == {"socket-api", "dns-resolver", "mail"}
=============================================================================
