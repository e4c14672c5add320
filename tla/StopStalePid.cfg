SPECIFICATION StopSpec
CONSTANTS
    Pids = {1, 2}
    Policy = "FAILURE"
    HasPidfd = TRUE
    DoPipe = FALSE
    ManualLogrotate = FALSE
    CrashReport = FALSE
    Faults = {}
    Sent = {}
    MaxSends = 0
    Ends = {"error"}
    Reactions = {"die"}
    Heirs = FALSE
    Others = FALSE
    Timeouts = {1}
    Second = 2
    MaxStops = 1
    EarlyStop = FALSE
INVARIANT TimeoutLeavesNothing
