SPECIFICATION FairSpec
CONSTANTS
    Pids = {1, 2}
    Policy = "FAILURE"
    HasPidfd = TRUE
    DoPipe = FALSE
    ManualLogrotate = FALSE
    CrashReport = FALSE
    Faults = {}
    Sent = {"TERM", "USR1"}
    MaxSends = 2
    Ends = {"error"}
    Reactions = {"die"}
    Heirs = FALSE
    Others = FALSE
PROPERTY StopAlwaysEnds
