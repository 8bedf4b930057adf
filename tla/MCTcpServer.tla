---------------------------- MODULE MCTcpServer ----------------------------
(* TcpServer for TLC, with a user that leaves the names alone.             *)
EXTENDS TcpServer

MCCallbackName(c) == ConnName(c)
=============================================================================
