SPECIFICATION Spec
CONSTANTS
    Pids = {1, 2}
    Policy = "ALWAYS"
    HasPidfd = FALSE
    DoPipe = TRUE
    ManualLogrotate = TRUE
    CrashReport = TRUE
    Faults = {"boot", "pipe", "fork", "child", "signal"}
    Sent = {"QUIT", "USR1", "HUP"}
    MaxSends = 3
    Ends = {"ok", "SEGV", "TERM"}
    Reactions = {"die", "exit", "ignore"}
    Heirs = TRUE
    Others = TRUE
INVARIANTS PidfileNamesService PrematureNotRestarted CleanExit
PROPERTY KeepsContract
