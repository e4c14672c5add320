SPECIFICATION FairSpec
CONSTANTS
    Pids = {1, 2}
    Policy = "FAILURE"
    HasPidfd = TRUE
    DoPipe = TRUE
    ManualLogrotate = FALSE
    CrashReport = FALSE
    Faults = {"boot", "fork", "child", "signal"}
    Sent = {"TERM", "USR1", "KILL"}
    MaxSends = 3
    Ends = {"ok", "error", "KILL"}
    Reactions = {"die", "exit"}
    Heirs = FALSE
    Others = TRUE
INVARIANTS Inductive HandlerTarget ForeignUnharmed AtMostOneService
PROPERTIES ExitNoticed StopEnds ComesBack
