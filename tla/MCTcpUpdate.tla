---- MODULE MCTcpUpdate ----
(* Three clients on two sockets, files of up to two bytes. *)
EXTENDS TcpUpdate
MCFds == 0 .. 1
====
