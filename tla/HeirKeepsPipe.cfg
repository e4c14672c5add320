SPECIFICATION FairSpec
CONSTANTS
    Pids = {1, 2}
    Policy = "ALWAYS"
    HasPidfd = TRUE
    DoPipe = TRUE
    ManualLogrotate = FALSE
    CrashReport = FALSE
    Faults = {}
    Sent = {"TERM", "USR1"}
    MaxSends = 2
    Ends = {"error"}
    Reactions = {"die"}
    Heirs = TRUE
    Others = FALSE
PROPERTY ComesBack
