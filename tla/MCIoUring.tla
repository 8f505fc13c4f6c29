----------------------------- MODULE MCIoUring -----------------------------
(* IoUring for TLC. *)
EXTENDS IoUring

(* What user code calls in one behaviour *)
MCLoads == {{"read", "cancel", "nocb"},
            {"read", "write", "submit", "batch", "fail"},
            {"recv", "unregister", "nomem", "close"},
            {"recv", "read", "batch"},
            {"accept", "cancel", "fail"},
            {"timer", "close_timer", "fail"},
            {"timer", "close_timer", "oneshot_timeouts", "write", "batch"}}
=============================================================================
