------------------------------ MODULE MCEpoll ------------------------------
(* Epoll for TLC; the configurations choose the descriptors and tasks. *)
EXTENDS Epoll
=============================================================================
