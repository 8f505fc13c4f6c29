------------------------------ MODULE MCWatcher ------------------------------
(* Instance of Watcher for TLC. *)
EXTENDS Watcher
=============================================================================
