----------------------------- MODULE MCEventLoop -----------------------------
(* EventLoop for TLC; the configurations choose threads, jobs and handlers. *)
EXTENDS EventLoop
=============================================================================
