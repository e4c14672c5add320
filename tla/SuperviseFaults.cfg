SPECIFICATION Spec
CONSTANTS
    Pids = {1, 2}
    Policy = "ALWAYS"
    HasPidfd = TRUE
    DoPipe = FALSE
    ManualLogrotate = FALSE
    CrashReport = FALSE
    Faults = {"pidfd_open", "poll", "child", "signal"}
    Sent = {"TERM", "USR1"}
    MaxSends = 3
    Ends = {"ok", "error"}
    Reactions = {"die", "ignore"}
    Heirs = FALSE
    Others = TRUE
PROPERTIES StopSticks UnwatchedEnds
