SPECIFICATION Spec
CONSTANTS
    s1 = s1
    s2 = s2
    s3 = s3
    Starters = {s1, s2}
    Pids = {1, 2, 3, 4}
    Discipline = "returned"
    MaxQueries = 0
    MaxRestarts = 0
    Surroundings = {{}}
INVARIANT OneRunner
