SPECIFICATION FairSpec
CONSTANTS
    Kinds = {"notifier", "inotify", "signal", "timer"}
    Threads = {t1, t2, t3}
    MaxEvents = 3
    MaxCalls = 5
INVARIANTS OneRead FdForgotten KnownFaults
PROPERTIES Handled
CHECK_DEADLOCK FALSE
