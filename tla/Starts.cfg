SPECIFICATION Spec
CONSTANTS
    s1 = s1
    s2 = s2
    s3 = s3
    Starters = {s1, s2, s3}
    Pids = {1, 2, 3}
    Discipline = "written"
    MaxQueries = 1
    MaxRestarts = 1
    Surroundings = {{"restarts", "queries", "signals", "write_fails"}, {"kills", "others"}}
INVARIANTS Inductive OneRunner OneServiceUnlessKilled RunnerReachable StatusSeesRunning SignalReaches
SYMMETRY Symmetry
