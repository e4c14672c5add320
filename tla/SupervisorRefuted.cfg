SPECIFICATION FairSpec
CONSTANTS
    Pids = {1, 2}
    Policy = "FAILURE"
    HasPidfd = FALSE
    DoPipe = FALSE
    ManualLogrotate = FALSE
    CrashReport = FALSE
    Faults = {"child"}
    Sent = {"TERM", "USR1"}
    MaxSends = 2
    Ends = {"error"}
    Reactions = {"die"}
    Heirs = FALSE
    Others = TRUE
INVARIANT ForeignUnharmed
PROPERTIES CrashRestartLoop ExitNoticed
CHECK_DEADLOCK FALSE
