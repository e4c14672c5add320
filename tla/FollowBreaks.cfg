SPECIFICATION Spec
CONSTANTS
    Options <- LinuxUnlink
    MaxLines = 2
    MaxFiles = 2
INVARIANT FollowGoesOn
