SPECIFICATION StopSpec
CONSTANTS
    Pids = {1, 2}
    Policy = "FAILURE"
    HasPidfd = FALSE
    DoPipe = FALSE
    ManualLogrotate = FALSE
    CrashReport = FALSE
    Faults = {}
    Sent = {"USR1"}
    MaxSends = 1
    Ends = {"ok", "error"}
    Reactions = {"die", "exit", "ignore"}
    Heirs = FALSE
    Others = FALSE
    Timeouts = {1}
    Second = 2
    MaxStops = 1
    EarlyStop = FALSE
INVARIANT KillsInTime
