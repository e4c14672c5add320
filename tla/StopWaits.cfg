SPECIFICATION StopFairSpec
CONSTANTS
    Pids = {1, 2}
    Policy = "NEVER"
    HasPidfd = TRUE
    DoPipe = TRUE
    ManualLogrotate = FALSE
    CrashReport = FALSE
    Faults = {"child", "signal"}
    Sent = {}
    MaxSends = 0
    Ends = {"ok", "error"}
    Reactions = {"die", "exit"}
    Heirs = FALSE
    Others = FALSE
    Timeouts <- NoneOrOne
    Second = 2
    MaxStops = 2
    EarlyStop = FALSE
INVARIANTS NotRunningMeansDown TimeoutLeavesNothing
PROPERTY StopReturns
