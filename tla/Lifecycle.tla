------------------------------ MODULE Lifecycle ------------------------------
(***************************************************************************)
(* Several `service-runner start' commands for one name, the runners and   *)
(* services they bring up, a `status', `restart' or `logrotate' command,   *)
(* and the two pidfiles they share, which are written in two steps:        *)
(* fopen(..., "w") empties a file before the process id is in it.  Runners *)
(* may be killed, which leaves their pidfiles behind, and process ids are  *)
(* recycled.                                                               *)
(*                                                                         *)
(* A runner is modelled here only as far as others can see it: it brings   *)
(* up services, one after the other, and then cleans up (Supervisor says   *)
(* when).                                                                  *)
(***************************************************************************)
EXTENDS Integers

CONSTANTS
    Starters,       \* the start commands
    Pids,           \* process ids
    Discipline,     \* when a start is given: at "any" time, when all others have
                    \* "returned", or when moreover each runner's pidfile is "written"
    MaxQueries,     \* bound: how many status, restart and logrotate commands there are
    MaxRestarts,    \* bound: how many services a runner brings up after its first
    Surroundings    \* sets of what may happen besides: see below

ASSUME LifecycleAssumption ==
    /\ Pids \subseteq Nat \ {0}
    /\ Discipline \in {"any", "returned", "written"}
    /\ {MaxQueries, MaxRestarts} \subseteq Nat
    /\ Surroundings \subseteq SUBSET {"restarts", "queries", "signals", "kills",
                                      "write_fails", "others"}

Absent == 0     \* no file
Empty  == -1    \* a file without a process id: read_pidfile() fails
Contents == Pids \union {Absent, Empty}

VARIABLES
    possible,       \* what may happen
    at,             \* per start command: where it, and later its runner, is
    runner,         \* per start command: its runner's process id
    child,          \* per start command: its service's process id
    found,          \* per start command: what it has read from a pidfile
    setup,          \* per start command: where the service process is
    restarts,       \* per start command: services brought up after the first
    proc,           \* per process id: "free", "runner", "service" or "other"
    pidfile, pidfile_runner,
    errand,         \* the command that looks at the runner: "status" or "signal"
    query,          \* where it is
    saw,            \* what it has read: runner_pid and service_pid, Absent if none
    alive,          \* what its kill(pid, 0) said of them
    hit,            \* the process id that got the signal of a restart or logrotate
    code,           \* its exit status
    queries,
    steady          \* starters whose runner was there for it all the time: see Stays

starts == <<at, found, runner, child, setup, restarts>>
files  == <<pidfile, pidfile_runner>>
status == <<errand, query, saw, alive, hit, code, queries, steady>>
vars   == <<possible, starts, proc, files, status>>

Restarts   == IF "restarts" \in possible THEN MaxRestarts ELSE 0
Errands    == (IF "queries" \in possible THEN {"status"} ELSE {})
              \union (IF "signals" \in possible THEN {"signal"} ELSE {})
Kills      == "kills" \in possible         \* runners are killed (SIGKILL, out of memory)
WriteFails == "write_fails" \in possible   \* a runner cannot write its pidfile
Others     == "others" \in possible        \* unrelated processes take a free process id

Starting == {"read_runner", "probe_runner", "read_service", "probe_service",
             "unlink_service", "unlink_stale", "daemonize"}
Booting  == {"empty_runner", "write_runner"}
Running  == {"spawn", "supervise"}
Cleaning == {"unlink_pid", "unlink_runner"}
HasRunner == Booting \union Running \union Cleaning
Ended    == {"running_already", "failed", "exited", "killed"}

\* The values of the variables; a pidfile holds a process id, nothing, or is not there.
TypeOK ==
    /\ possible \in Surroundings
    /\ at \in [Starters -> {"idle"} \union Starting \union HasRunner \union Ended]
    /\ found \in [Starters -> Pids \union {Absent}]
    /\ runner \in [Starters -> Pids \union {Absent}]
    /\ child \in [Starters -> Pids \union {Absent}]
    /\ setup \in [Starters -> {"none", "empty", "write", "up"}]
    /\ restarts \in [Starters -> 0 .. MaxRestarts]
    /\ proc \in [Pids -> {"free", "runner", "service", "other"}]
    /\ pidfile \in Contents /\ pidfile_runner \in Contents
    /\ errand \in {"status", "signal"}
    /\ query \in {"idle", "service", "probe_runner", "probe_service", "signal"}
    /\ saw \in [runner : Pids \union {Absent}, service : Pids \union {Absent}]
    /\ alive \in BOOLEAN /\ hit \in Pids \union {Absent}
    /\ code \in {0, 1, 3, 4} /\ queries \in 0 .. MaxQueries
    /\ steady \subseteq Starters

Init ==
    /\ possible \in Surroundings
    /\ at = [s \in Starters |-> "idle"]
    /\ found = [s \in Starters |-> Absent]
    /\ runner = [s \in Starters |-> Absent] /\ child = [s \in Starters |-> Absent]
    /\ setup = [s \in Starters |-> "none"] /\ restarts = [s \in Starters |-> 0]
    /\ proc = [p \in Pids |-> "free"]
    /\ pidfile = Absent /\ pidfile_runner = Absent
    /\ errand = "status" /\ hit = Absent
    /\ query = "idle" /\ saw = [runner |-> Absent, service |-> Absent]
    /\ alive = FALSE /\ code = 3 /\ queries = 0 /\ steady = {}
-----------------------------------------------------------------------------
\* read_pidfile()
Read(file) == IF file = Empty THEN Absent ELSE file

\* kill(pid, 0) == 0 || errno == EPERM
Exists(p) == proc[p] # "free"

\* kill(pid, sig) == 0, by a user who may signal his runners and services.  An unrelated
\* process may be somebody else's: EPERM.
Signalled(p) == IF proc[p] = "other" THEN BOOLEAN ELSE {Exists(p)}

Goto(s, place) == at' = [at EXCEPT ![s] = place]

\* The runner and the service of s are up, and both pidfiles have been written.
Up(s) == at[s] \in Running /\ setup[s] = "up"

\* What a status command should report, and whom a restart should reach.
Stays(s) == IF errand = "status" THEN Up(s) ELSE at[s] \in Running

\* What a step of somebody else means for the command.
Noted == steady' = {s \in steady : Stays(s)'}
StatusUntouched ==
    UNCHANGED <<possible, errand, query, saw, alive, hit, code, queries>> /\ Noted
-----------------------------------------------------------------------------
(* The start command, until it has made its runner.                        *)

MayStart ==
    \A s \in Starters :
        /\ Discipline # "any" => at[s] \notin Starting
        /\ Discipline = "written" /\ at[s] \in HasRunner => pidfile_runner = runner[s]

Start(s) ==
    /\ at[s] = "idle" /\ MayStart
    /\ Goto(s, "read_runner")
    /\ UNCHANGED <<found, runner, child, setup, restarts, proc, files>> /\ StatusUntouched

\* One of the pidfiles is read: on to `next', or to `otherwise' if that fails.
Find(s, file, next, otherwise) ==
    /\ found' = [found EXCEPT ![s] = Read(file)]
    /\ Goto(s, IF Read(file) # Absent THEN next ELSE otherwise)
    /\ UNCHANGED <<runner, child, setup, restarts, proc, files>> /\ StatusUntouched

\* Does the process that was found exist?
Probe(s, exists, next) ==
    /\ Goto(s, IF Exists(found[s]) THEN exists ELSE next)
    /\ UNCHANGED <<found, runner, child, setup, restarts, proc, files>> /\ StatusUntouched

\* Mutant of ProbeFound: a runner that is there is not noticed.
ProbeNothing(s) == at[s] = "probe_runner" /\ Probe(s, "read_service", "read_service")

\* Without a readable runner's pidfile the service's pidfile is not looked at.
FindRunner(s)   == at[s] = "read_runner" /\ Find(s, pidfile_runner, "probe_runner", "daemonize")
ProbeFound(s)   == at[s] = "probe_runner" /\ Probe(s, "running_already", "read_service")
FindService(s)  == at[s] = "read_service" /\ Find(s, pidfile, "probe_service", "unlink_stale")

\* Here EPERM is not looked for: it counts as if there was no such process.
ProbeOrphan(s) ==
    /\ at[s] = "probe_service"
    /\ \E running \in Signalled(found[s]) : Goto(s, IF running THEN "failed" ELSE "unlink_service")
    /\ UNCHANGED <<found, runner, child, setup, restarts, proc, files>> /\ StatusUntouched

UnlinkService(s) ==
    /\ at[s] = "unlink_service"
    /\ pidfile' = Absent
    /\ Goto(s, "unlink_stale")
    /\ UNCHANGED <<found, runner, child, setup, restarts, proc, pidfile_runner>> /\ StatusUntouched

UnlinkStale(s) ==
    /\ at[s] = "unlink_stale"
    /\ pidfile_runner' = Absent
    /\ Goto(s, "daemonize")
    /\ UNCHANGED <<found, runner, child, setup, restarts, proc, pidfile>> /\ StatusUntouched

\* Mutant of Daemonize: fork() is not checked.
DaemonizeUnchecked(s) ==
    /\ at[s] = "daemonize"
    /\ runner' = [runner EXCEPT ![s] = IF \A p \in Pids : Exists(p) THEN -1
                                       ELSE CHOOSE p \in Pids : ~Exists(p)]
    /\ proc' = [p \in Pids |-> IF p = runner'[s] THEN "runner" ELSE proc[p]]
    /\ Goto(s, "empty_runner")
    /\ UNCHANGED <<found, child, setup, restarts, files>> /\ StatusUntouched

\* The parent returns at once; the child is the runner.
Daemonize(s) ==
    /\ at[s] = "daemonize"
    /\ \/ \E p \in Pids :
            /\ proc[p] = "free"
            /\ proc' = [proc EXCEPT ![p] = "runner"]
            /\ runner' = [runner EXCEPT ![s] = p]
            /\ Goto(s, "empty_runner")
       \/ /\ \A p \in Pids : Exists(p)
          /\ Goto(s, "failed")
          /\ UNCHANGED <<proc, runner>>
    /\ UNCHANGED <<found, child, setup, restarts, files>> /\ StatusUntouched
-----------------------------------------------------------------------------
(* The runner and its services.                                            *)

EmptyRunner(s) ==
    /\ at[s] = "empty_runner"
    /\ \/ pidfile_runner' = Empty /\ Goto(s, "write_runner")
       \/ WriteFails /\ Goto(s, "unlink_pid") /\ UNCHANGED pidfile_runner
    /\ UNCHANGED <<found, runner, child, setup, restarts, proc, pidfile>> /\ StatusUntouched

WriteRunner(s) ==
    /\ at[s] = "write_runner"
    /\ pidfile_runner' = runner[s]
    /\ Goto(s, "spawn")
    /\ UNCHANGED <<found, runner, child, setup, restarts, proc, pidfile>> /\ StatusUntouched

Spawn(s) ==
    /\ at[s] = "spawn"
    /\ \/ \E p \in Pids :
            /\ proc[p] = "free"
            /\ proc' = [proc EXCEPT ![p] = "service"]
            /\ child' = [child EXCEPT ![s] = p]
            /\ setup' = [setup EXCEPT ![s] = "empty"]
            /\ Goto(s, "supervise")
       \/ /\ \A p \in Pids : Exists(p)
          /\ Goto(s, "unlink_pid")
          /\ UNCHANGED <<proc, child, setup>>
    /\ UNCHANGED <<found, runner, restarts, files>> /\ StatusUntouched

\* The service process writes its pidfile, even when its runner is gone.
EmptyPidfile(s) ==
    /\ setup[s] = "empty"
    /\ pidfile' = Empty
    /\ setup' = [setup EXCEPT ![s] = "write"]
    /\ UNCHANGED <<at, found, runner, child, restarts, proc, pidfile_runner>> /\ StatusUntouched

WritePidfile(s) ==
    /\ setup[s] = "write"
    /\ pidfile' = child[s]
    /\ setup' = [setup EXCEPT ![s] = "up"]
    /\ UNCHANGED <<at, found, runner, child, restarts, proc, pidfile_runner>> /\ StatusUntouched

\* The service ends and is waited for, by its runner or by init.
ServiceEnds(s) ==
    /\ setup[s] # "none"
    /\ proc' = [proc EXCEPT ![child[s]] = "free"]
    /\ setup' = [setup EXCEPT ![s] = "none"]
    /\ child' = [child EXCEPT ![s] = Absent]
    /\ UNCHANGED <<at, found, runner, restarts, files>> /\ StatusUntouched

Respawn(s) ==
    /\ at[s] = "supervise" /\ setup[s] = "none" /\ restarts[s] < Restarts
    /\ restarts' = [restarts EXCEPT ![s] = @ + 1]
    /\ Goto(s, "spawn")
    /\ UNCHANGED <<found, runner, child, setup, proc, files>> /\ StatusUntouched

\* Mutant of Finish: the service is not waited for.
FinishEarly(s) ==
    /\ at[s] = "supervise"
    /\ Goto(s, "unlink_pid")
    /\ UNCHANGED <<found, runner, child, setup, restarts, proc, files>> /\ StatusUntouched

Finish(s) ==
    /\ at[s] = "supervise" /\ setup[s] = "none"
    /\ Goto(s, "unlink_pid")
    /\ UNCHANGED <<found, runner, child, setup, restarts, proc, files>> /\ StatusUntouched

\* Whatever the pidfiles hold, they are removed.
CleanPidfile(s) ==
    /\ at[s] = "unlink_pid"
    /\ pidfile' = Absent
    /\ Goto(s, "unlink_runner")
    /\ UNCHANGED <<found, runner, child, setup, restarts, proc, pidfile_runner>> /\ StatusUntouched

CleanRunner(s) ==
    /\ at[s] = "unlink_runner"
    /\ pidfile_runner' = Absent
    /\ Goto(s, "exited")
    /\ proc' = [proc EXCEPT ![runner[s]] = "free"]
    /\ UNCHANGED <<found, runner, child, setup, restarts, pidfile>> /\ StatusUntouched

KillRunner(s) ==
    /\ Kills /\ at[s] \in HasRunner
    /\ Goto(s, "killed")
    /\ proc' = [proc EXCEPT ![runner[s]] = "free"]
    /\ UNCHANGED <<found, runner, child, setup, restarts, files>> /\ StatusUntouched

OtherStarts(p) ==
    /\ Others /\ proc[p] = "free"
    /\ proc' = [proc EXCEPT ![p] = "other"]
    /\ UNCHANGED <<starts, files>> /\ StatusUntouched

OtherExits(p) ==
    /\ proc[p] = "other"
    /\ proc' = [proc EXCEPT ![p] = "free"]
    /\ UNCHANGED <<starts, files>> /\ StatusUntouched
-----------------------------------------------------------------------------
(* The status command: two files are read, then two processes looked at.   *)
(* restart and logrotate read one, and send SIGUSR1 or SIGHUP by its       *)
(* process id.  What the signal does to a runner is Supervisor's.          *)

\* Without a process id, restart and logrotate are over.
AfterRunnerFile ==
    IF errand' = "status" THEN "service"
    ELSE IF saw'.runner # Absent THEN "signal" ELSE "idle"

QueryRunnerFile ==
    /\ query = "idle" /\ queries < MaxQueries
    /\ queries' = queries + 1
    /\ errand' \in Errands
    /\ saw' = [runner |-> Read(pidfile_runner), service |-> Absent]
    /\ query' = AfterRunnerFile
    /\ hit' = Absent /\ code' = 1
    /\ UNCHANGED <<possible, starts, proc, files, alive>>
    /\ steady' = {s \in Starters : Stays(s)'}

\* kill(runner_pid, SIGUSR1) or SIGHUP: whoever has the process id now gets it.
Signal ==
    /\ query = "signal"
    /\ query' = "idle"
    /\ \E ok \in Signalled(saw.runner) :
        IF ok THEN hit' = saw.runner /\ code' = 0 ELSE UNCHANGED <<hit, code>>
    /\ UNCHANGED <<possible, starts, proc, files, errand, saw, alive, queries, steady>>

QueryPidfile ==
    /\ query = "service"
    /\ saw' = [saw EXCEPT !.service = Read(pidfile)]
    /\ query' = "probe_runner"
    /\ UNCHANGED <<possible, starts, proc, files, errand, alive, hit, code, queries, steady>>

ProbeRunner ==
    /\ query = "probe_runner"
    /\ alive' = (saw.runner # Absent /\ Exists(saw.runner))
    /\ query' = "probe_service"
    /\ UNCHANGED <<possible, starts, proc, files, errand, saw, hit, code, queries, steady>>

\* The exit status is that of an LSB init script.
ExitCode(runner_ok, service_ok) ==
    IF runner_ok /\ service_ok THEN 0
    ELSE IF service_ok THEN 1
    ELSE IF runner_ok THEN (IF saw.service # Absent THEN 1 ELSE 4)
    ELSE IF saw.runner # Absent \/ saw.service # Absent THEN 1 ELSE 3

ProbeService ==
    /\ query = "probe_service"
    /\ code' = ExitCode(alive, saw.service # Absent /\ Exists(saw.service))
    /\ query' = "idle"
    /\ UNCHANGED <<possible, starts, proc, files, errand, saw, alive, hit, queries, steady>>
-----------------------------------------------------------------------------
StartStep(s) ==
    \/ FindRunner(s) \/ ProbeFound(s) \/ FindService(s) \/ ProbeOrphan(s)
    \/ UnlinkService(s) \/ UnlinkStale(s) \/ Daemonize(s)

RunnerStep(s) ==
    \/ EmptyRunner(s) \/ WriteRunner(s) \/ Spawn(s) \/ Respawn(s) \/ Finish(s)
    \/ CleanPidfile(s) \/ CleanRunner(s)

StatusStep == QueryPidfile \/ ProbeRunner \/ ProbeService \/ Signal

\* Everything that can be started has been, and has ended.
Terminated ==
    /\ \A s \in Starters : at[s] \in Ended /\ setup[s] = "none"
    /\ query = "idle"
    /\ UNCHANGED vars

Next ==
    \/ \E s \in Starters :
        \/ Start(s) \/ StartStep(s) \/ RunnerStep(s)
        \/ EmptyPidfile(s) \/ WritePidfile(s) \/ ServiceEnds(s) \/ KillRunner(s)
    \/ \E p \in Pids : OtherStarts(p) \/ OtherExits(p)
    \/ QueryRunnerFile \/ StatusStep
    \/ Terminated

Spec == Init /\ [][Next]_vars
-----------------------------------------------------------------------------
\* "Does nothing if the service is already running": there are never two runners for
\* one name (the checks of start before it forks, start.c:1786-1821).
OneRunner ==
    \A s, t \in Starters : at[s] \in HasRunner /\ at[t] \in HasRunner => s = t

\* Nor are there ever two services for one name, even of two runners one after the other.
OneService ==
    \A s, t \in Starters : setup[s] # "none" /\ setup[t] # "none" => s = t

\* At least while no runner has been killed.
NoneKilled == \A s \in Starters : at[s] # "killed"

OneServiceUnlessKilled == NoneKilled => OneService

\* As long as a runner lives and has not begun to clean up, its pidfile holds its process
\* id: stop, restart and status reach it.
RunnerReachable ==
    \A s \in Starters : at[s] \in Running => pidfile_runner = runner[s]

\* Runners and services are in the process table, each under a process id of its own, and only
\* a runner that supervises, or has been killed, has a service.
Listed ==
    /\ \A s \in Starters :
        /\ at[s] \in HasRunner => runner[s] \in Pids /\ proc[runner[s]] = "runner"
        /\ setup[s] # "none" => child[s] \in Pids /\ proc[child[s]] = "service"
        /\ at[s] \notin {"supervise", "killed"} => setup[s] = "none"
    /\ \A s, t \in Starters :
        s # t => /\ {at[s], at[t]} \subseteq HasRunner => runner[s] # runner[t]
                 /\ "none" \notin {setup[s], setup[t]} => child[s] # child[t]

\* One start looks around at a time.  A runner that lives is beyond its boot then, and the
\* start has not read its pidfile yet, or has found it in there; and no file names a runner
\* before it has written it.
StartsExclude ==
    /\ \A s, t \in Starters : at[s] \in Starting /\ at[t] \in Starting => s = t
    /\ \A s, t \in Starters :
        at[s] \in Starting /\ at[t] \in HasRunner =>
            /\ at[t] \notin Booting
            /\ \/ at[s] = "read_runner" /\ pidfile_runner = runner[t]
               \/ at[s] = "probe_runner" /\ found[s] = runner[t]
    /\ \A s \in Starters :
        at[s] \in {"daemonize"} \union Booting => pidfile_runner \in {Absent, Empty}

\* A service that is up is the one its pidfile names.
PidfileCurrent == NoneKilled => \A s \in Starters : Up(s) => pidfile = child[s]

\* What an errand has learnt of a runner that has been there for it all the time is true.
LearntTruth ==
    \A s \in steady :
        /\ Stays(s) /\ saw.runner = runner[s]
        /\ errand = "signal" =>
            query = "signal" \/ (query = "idle" /\ code = 0 /\ hit = runner[s])
        /\ errand = "status" /\ NoneKilled =>
            /\ query # "signal"
            /\ query # "service" => saw.service = child[s]
            /\ query = "probe_service" => alive
            /\ query = "idle" => code = 0

\* The invariant that every step preserves.  If a start is only given when the runner's pidfile
\* is written, it implies all the invariants of this module.
Inductive ==
    /\ TypeOK /\ Listed
    /\ Discipline = "written" =>
        OneRunner /\ RunnerReachable /\ StartsExclude /\ PidfileCurrent /\ LearntTruth

\* When `start' says "already running", and exits with status 0, the process id it has found
\* is a runner's.
AlreadyRunning ==
    [][\A s \in Starters : at[s] = "probe_runner" /\ at'[s] = "running_already" =>
          \E t \in Starters : at[t] \in HasRunner /\ runner[t] = found[s]]_vars

\* A service that was up, with its runner, during the whole query is reported as running, if
\* no runner has been killed.
StatusSeesRunning ==
    NoneKilled /\ query = "idle" /\ errand = "status" /\ steady # {} => code = 0

\* A restart or logrotate reaches the runner that was there all the time, also while its
\* service is being replaced, and says so.
SignalReaches ==
    NoneKilled /\ query = "idle" /\ errand = "signal" /\ steady # {} =>
        code = 0 /\ \E s \in steady : hit = runner[s]

\* Nobody but a runner gets such a signal (restart.c:107, logrotate.c:107).
OnlyRunnersHit ==
    [][query = "signal" /\ hit' # Absent => proc[hit'] = "runner"]_vars

\* When `start' has returned, and nothing has been stopped, killed or has ended, the service
\* is not reported as stopped (tests/basic.test.sh: start, then status 0).
StartedMeansRunning ==
    [][ProbeService /\ code' = 3 =>
          \A s \in Starters : at[s] \notin Booting \union Running]_vars
=============================================================================
