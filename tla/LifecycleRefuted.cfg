SPECIFICATION Spec
CONSTANTS
    s1 = s1
    s2 = s2
    s3 = s3
    Starters = {s1, s2}
    Pids = {1, 2, 3}
    Discipline = "written"
    MaxQueries = 1
    MaxRestarts = 0
    Surroundings = {{"queries"}, {"signals", "kills", "others"}}
INVARIANT OneService
PROPERTIES StartedMeansRunning AlreadyRunning OnlyRunnersHit
