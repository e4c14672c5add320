SPECIFICATION Spec
CONSTANTS
    Pids = {1, 2}
    Policy = "FAILURE"
    HasPidfd = TRUE
    DoPipe = FALSE
    ManualLogrotate = FALSE
    CrashReport = FALSE
    Faults = {"child", "signal"}
    Sent = {}
    MaxSends = 0
    Ends = {"error"}
    Reactions = {"die"}
    Heirs = FALSE
    Others = FALSE
PROPERTY FailureNotRestarted
