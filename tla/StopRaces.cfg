SPECIFICATION StopSpec
CONSTANTS
    Pids = {1, 2}
    Policy = "FAILURE"
    HasPidfd = TRUE
    DoPipe = FALSE
    ManualLogrotate = FALSE
    CrashReport = FALSE
    Faults = {"child", "fork", "signal"}
    Sent = {"USR1"}
    MaxSends = 1
    Ends = {"ok", "error"}
    Reactions = {"die", "exit", "ignore"}
    Heirs = FALSE
    Others = FALSE
    Timeouts <- NoneOrOne
    Second = 2
    MaxStops = 2
    EarlyStop = FALSE
INVARIANT StoppedMeansGone
