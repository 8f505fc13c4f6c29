----------------------------- MODULE MCTcpSocket -----------------------------
(* Instance of TcpSocket for TLC. *)
EXTENDS TcpSocket

MCFds == 1..4
=============================================================================
