------------------------------- MODULE MCVfs -------------------------------
(* Model-checking instance of Vfs: two client V-Nodes (file-manager and    *)
(* the shell), the paths of the VFS's table that make every List and Stat  *)
(* branch reachable, fds 1 and 2, reads of 2 and 4096 bytes.               *)
EXTENDS Vfs

MCClients == {1102, 1115}
MCPaths == {"/home", "/README.txt"}
=============================================================================
