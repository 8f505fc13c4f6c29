-------------------------- MODULE MCCoroutineService --------------------------
(* Instance of CoroutineService for TLC: each behaviour uses one of these    *)
(* sets of operations.                                                       *)
EXTENDS CoroutineService

MCLoads ==
    {{"read", "cancel_read", "set_current"}, {"read", "cancel_read", "fail"},
     {"recv", "cancel_read"}, {"write", "fail"}, {"read", "call"},
     {"write", "cancel"}, {"accept", "cancel"}, {"sleep", "fail", "large"}, {"job", "call"},
     {"job", "call", "clear", "set_current"}, {"write", "clear", "set_current"}}
=============================================================================
