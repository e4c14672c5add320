----------------------------- MODULE StopCommand -----------------------------
(***************************************************************************)
(* `service-runner stop' (stop.c) beside the runner it stops.  The command *)
(* shares nothing with the runner but the pidfiles and signals.  It reads  *)
(* the two pidfiles once, sends SIGTERM to the runner (to the service, if  *)
(* only its pidfile is left), and waits; when --shutdown-timeout is over   *)
(* it kills both and removes their pidfiles, by the process ids it read at *)
(* the beginning.  Time passes for the command only: how fast the others   *)
(* are is left open.                                                       *)
(***************************************************************************)
EXTENDS Supervisor

CONSTANTS
    Timeouts,   \* the values of --shutdown-timeout, in seconds; -1 is none
    Second,     \* how many milliseconds a second has: 1000, in the code
    MaxStops,   \* bound: how often the command is run, one at a time
    EarlyStop   \* the first time, already before the runner has its pidfile

ASSUME StopAssumption ==
    /\ Timeouts \subseteq Nat \union {-1}
    /\ Second \in Nat \ {0} /\ Second % 2 = 0
    /\ EarlyStop \in BOOLEAN /\ MaxStops \in Nat

Runner == 0     \* the target, when it is not a service process id

VARIABLES
    st,             \* where the command is
    stops,
    shutdown_timeout, \* the option's value
    waited,         \* milliseconds since SIGTERM was sent, counted if there is a timeout
    seen_runner,    \* pidfile_runner_ok
    seen_service,   \* service_pid, NotForked if !pidfile_ok
    target,         \* pid
    target_ended,   \* the process that the pidfd refers to has ended
    stop_status     \* its exit status

svars == <<st, stops, shutdown_timeout, waited, seen_runner, seen_service, target, stop_status>>
allvars == <<vars, svars, target_ended>>

StopPlaces == {"idle", "read", "open", "send", "wait", "kill_service", "check_pidfile",
               "unlink_pidfile", "kill_runner", "unlink_runner"}

\* What the command has read and aims at: a process id from a pidfile, or none.
StopTypeOK ==
    /\ st \in StopPlaces
    /\ stops \in 0 .. MaxStops
    /\ seen_runner \in BOOLEAN /\ target_ended \in BOOLEAN
    /\ shutdown_timeout \in Timeouts \union {-1} /\ waited \in Nat
    /\ {seen_service, target} \subseteq Pids \union {NotForked}
    /\ stop_status \in {0, 1}

StopInit ==
    /\ Init
    /\ st = "idle" /\ stops = 0 /\ shutdown_timeout = -1 /\ waited = 0
    /\ seen_runner = FALSE /\ seen_service = NotForked
    /\ target = Runner /\ target_ended = FALSE /\ stop_status = 1
-----------------------------------------------------------------------------
\* kill(pid, 0) succeeds, for a zombie and for whoever has the process id now, too.
Exists == IF target = Runner THEN ~Gone ELSE stage[target] # "free"

\* The pidfd, opened by OpenTarget, stays with the process it was opened for.
Follow ==
    target_ended' =
        IF st' \in {"idle", "read", "open"} THEN FALSE
        ELSE IF target = Runner THEN Gone'
        ELSE target_ended \/ stage'[target] \notin Alive

Return(status) == st' = "idle" /\ stop_status' = status

\* Mutant of ReadRunner: a runner counts only if there is the pidfile of its service.
ReadRunnerByService ==
    /\ st = "idle" /\ stops < MaxStops
    /\ EarlyStop \/ pidfile_runner \/ stops > 0
    /\ stops' = stops + 1 /\ shutdown_timeout' \in Timeouts /\ waited' = 0
    /\ seen_runner' = (pidfile_runner /\ pidfile # NotForked)
    /\ st' = "read"
    /\ stop_status' = 1
    /\ UNCHANGED <<vars, seen_service, target>>
    /\ Follow

ReadRunner ==
    /\ st = "idle" /\ stops < MaxStops
    /\ EarlyStop \/ pidfile_runner \/ stops > 0
    /\ stops' = stops + 1 /\ shutdown_timeout' \in Timeouts /\ waited' = 0
    /\ seen_runner' = pidfile_runner
    /\ st' = "read"
    /\ stop_status' = 1
    /\ UNCHANGED <<vars, seen_service, target>>
    /\ Follow

\* Without a pidfile there is nothing to stop: "is not running", exit status 0.
ReadService ==
    /\ st = "read"
    /\ seen_service' = pidfile
    /\ target' = IF seen_runner THEN Runner ELSE pidfile
    /\ IF seen_runner \/ pidfile # NotForked
       THEN st' = "open" /\ UNCHANGED stop_status
       ELSE Return(0)
    /\ UNCHANGED <<vars, stops, shutdown_timeout, waited, seen_runner>>
    /\ Follow

OpenTarget ==
    /\ st = "open"
    /\ IF Exists THEN st' = "send" /\ UNCHANGED stop_status ELSE Return(1)
    /\ UNCHANGED <<vars, stops, shutdown_timeout, waited, seen_runner, seen_service, target>>
    /\ Follow

\* Without a pidfd, whoever has the process id now gets the signal.
Reachable ==
    IF target = Runner THEN ~Gone
    ELSE stage[target] # "free" /\ (HasPidfd => ~target_ended \/ stage[target] = "zombie")

SendTerm ==
    /\ st = "send"
    /\ IF Reachable
       THEN /\ st' = "wait" /\ UNCHANGED stop_status
            /\ IF target = Runner
               THEN pending' = pending \union {"TERM"} /\ UNCHANGED sigs
               ELSE Kill(target, "TERM") /\ UNCHANGED pending
       ELSE Return(1) /\ UNCHANGED <<pending, sigs>>
    /\ UNCHANGED <<pc, blocked, armed, globals, watching, stage, mask, handlers, outcome,
                   heir, files, sends, stops, shutdown_timeout, waited, seen_runner, seen_service,
                   target>>
    /\ Follow

\* poll() on the pidfd, or kill(pid, 0) every half second, says it has ended.  With the
\* pidfd, a process that is still there half a second later is an error.
StopWaited ==
    /\ st = "wait"
    /\ IF HasPidfd THEN target_ended ELSE ~Exists
    /\ Return(IF Exists THEN 1 ELSE 0)
    /\ UNCHANGED <<vars, stops, shutdown_timeout, waited, seen_runner, seen_service, target>>
    /\ Follow

\* The timeout is kept in milliseconds, for poll().
Millis(timeout) == IF timeout = -1 THEN -1 ELSE timeout * Second

\* poll() returns after that time.  Without pidfds, the seconds of the clock are compared with
\* it every half second; `part' of a second had passed when the wait began.
TimeIsUp(part) ==
    /\ shutdown_timeout # -1
    /\ IF HasPidfd THEN waited >= Millis(shutdown_timeout)
       ELSE (waited + part) \div Second > Millis(shutdown_timeout)

Half == Second \div 2

WaitOn ==
    /\ st = "wait" /\ shutdown_timeout # -1 /\ ~TimeIsUp(0)
    /\ waited' = waited + Half
    /\ UNCHANGED <<vars, st, stops, shutdown_timeout, seen_runner, seen_service, target,
                   stop_status>>
    /\ Follow

\* Mutants of StopTimeout: it is taken for the end of the runner; the service is spared.
StopTimeoutDone ==
    /\ st = "wait" /\ \E part \in {0, Half} : TimeIsUp(part)
    /\ Return(0)
    /\ UNCHANGED <<vars, stops, shutdown_timeout, waited, seen_runner, seen_service, target>>
    /\ Follow

StopTimeoutSpares ==
    /\ st = "wait" /\ \E part \in {0, Half} : TimeIsUp(part)
    /\ st' = "kill_runner"
    /\ UNCHANGED <<vars, stops, shutdown_timeout, waited, seen_runner, seen_service, target,
                   stop_status>>
    /\ Follow

StopTimeout ==
    /\ st = "wait" /\ \E part \in {0, Half} : TimeIsUp(part)
    /\ IF HasPidfd THEN ~target_ended ELSE Exists
    /\ st' = IF seen_service # NotForked THEN "kill_service" ELSE "kill_runner"
    /\ UNCHANGED <<vars, stops, shutdown_timeout, waited, seen_runner, seen_service, target,
                   stop_status>>
    /\ Follow

\* kill(service_pid, SIGKILL): by the number read from the pidfile.
KillService ==
    /\ st = "kill_service"
    /\ st' = "check_pidfile"
    /\ IF stage[seen_service] \in Alive
       THEN Dies(seen_service, "KILL")
       ELSE Kill(seen_service, "KILL") /\ UNCHANGED <<pending, stage, mask, handlers, outcome>>
    /\ UNCHANGED <<pc, blocked, armed, globals, watching, heir, files, sends,
                   stops, shutdown_timeout, waited, seen_runner, seen_service, target,
                   stop_status>>
    /\ Follow

\* The pidfile is removed if it still holds that number.
CheckPidfile ==
    /\ st = "check_pidfile"
    /\ st' = IF pidfile = seen_service THEN "unlink_pidfile" ELSE "kill_runner"
    /\ UNCHANGED <<vars, stops, shutdown_timeout, waited, seen_runner, seen_service, target,
                   stop_status>>
    /\ Follow

StopUnlinkPidfile ==
    /\ st = "unlink_pidfile"
    /\ st' = "kill_runner"
    /\ pidfile' = NotForked
    /\ UNCHANGED <<control, globals, watching, procs, heir, pidfile_runner, sends,
                   stops, shutdown_timeout, waited, seen_runner, seen_service, target,
                   stop_status>>
    /\ Follow

StopKillRunner ==
    /\ st = "kill_runner"
    /\ IF seen_runner /\ ~Gone THEN KillRunner ELSE UNCHANGED <<pc, stage>>
    /\ IF seen_runner THEN st' = "unlink_runner" /\ UNCHANGED stop_status ELSE Return(1)
    /\ UNCHANGED <<blocked, pending, armed, globals, watching, mask, sigs, handlers,
                   outcome, heir, files, sends, stops, shutdown_timeout, waited, seen_runner, seen_service,
                   target>>
    /\ Follow

\* The runner's pidfile has never held another number.
StopUnlinkRunner ==
    /\ st = "unlink_runner"
    /\ pidfile_runner' = FALSE
    /\ Return(1)
    /\ UNCHANGED <<control, globals, watching, procs, heir, pidfile, sends,
                   stops, shutdown_timeout, waited, seen_runner, seen_service, target>>
    /\ Follow
-----------------------------------------------------------------------------
StopStep ==
    \/ ReadService \/ OpenTarget \/ SendTerm \/ WaitOn \/ StopWaited \/ StopTimeout
    \/ KillService \/ CheckPidfile \/ StopUnlinkPidfile
    \/ StopKillRunner \/ StopUnlinkRunner

RunnerSide == Next /\ UNCHANGED svars /\ Follow

StopNext == RunnerSide \/ ReadRunner \/ StopStep

StopSpec == StopInit /\ [][StopNext]_allvars

\* The command runs; it need not be started.
StopFairSpec ==
    /\ StopSpec
    /\ WF_allvars(StopStep)
    /\ WF_allvars((RunnerStep \/ RunnerFault) /\ UNCHANGED svars /\ Follow)
    /\ \A p \in Pids : /\ WF_allvars(ChildStep(p) /\ UNCHANGED svars /\ Follow)
                       /\ WF_allvars(ServiceSignalled(p) /\ UNCHANGED svars /\ Follow)
-----------------------------------------------------------------------------
Nothing == Gone /\ \A p \in Pids : stage[p] \notin Alive

\* When `stop' has found a runner and exits with status 0, there is no runner, no
\* service and no pidfile any more.
StoppedMeansGone ==
    st = "idle" /\ stop_status = 0 /\ seen_runner =>
        Nothing /\ pidfile = NotForked /\ ~pidfile_runner

\* When it says that the service is not running, it is not, and will not be, unless its
\* runner was killed before.
NotRunningMeansDown ==
    st = "idle" /\ stop_status = 0 /\ ~seen_runner /\ seen_service = NotForked
        => Nothing \/ pc = "killed"

\* When it gives up waiting, and has read both pidfiles, it leaves no process and no
\* pidfile behind either (--shutdown-timeout).
TimeoutLeavesNothing ==
    st = "unlink_runner" /\ seen_service # NotForked =>
        Nothing /\ pidfile = NotForked

\* SIGKILL is not sent before the timeout is over, and no more than a second and a half later:
\* "If the service doesn't shut down after SECONDS after sending SIGTERM send SIGKILL"
\* (README.md:172-173).
KillsInTime ==
    st \in {"kill_service", "check_pidfile", "unlink_pidfile", "kill_runner", "unlink_runner"} =>
        waited - shutdown_timeout * Second \in 0 .. Second + Half

\* A stop comes to an end if the service obeys or there is a timeout.
StopReturns == st = "read" ~> st = "idle"
-----------------------------------------------------------------------------
(* Inductive invariants: what makes the safety properties true.            *)

Killing == {"check_pidfile", "unlink_pidfile", "kill_runner", "unlink_runner"}

\* The command aims at the runner if it has seen one, else at the process id of the
\* pidfile, and returns 1 unless it finds that its target has ended.
Aimed ==
    /\ st \notin {"idle", "read"} => (seen_runner <=> target = Runner)
    /\ st \in {"kill_service", "check_pidfile", "unlink_pidfile"} => seen_service # NotForked
    /\ st # "idle" => stop_status = 1 /\ stops > 0
    /\ st = "unlink_runner" => Gone

\* Only a stop kills the runner, and it removes the pidfile before anyone else looks.
Found ==
    /\ st \notin {"idle", "unlink_runner"} /\ seen_runner => pc # "killed"
    /\ st # "unlink_runner" /\ pc = "killed" => ~pidfile_runner
    /\ st = "idle" /\ stop_status = 0 /\ seen_runner => pc = "exited"

\* From the first stop on, the runner has its pidfile until it is gone: who does not
\* see one comes too late.
Down ==
    /\ pc = "boot" => ~pidfile_runner /\ stops = 0
    /\ stops > 0 => pidfile_runner \/ Gone
    /\ ~seen_runner /\ (st # "idle" \/ stop_status = 0) => Gone

\* Without restarts there is one service process at most in the life of the runner: the
\* pidfile, and what the command has read in it, name that one or none.
Once ==
    /\ ~restart_issued /\ "USR1" \notin pending
    /\ service_pid = EveryPid /\ pc \notin Leaving => ~running
    /\ service_pid = NotForked => pidfile = NotForked /\ seen_service = NotForked
    /\ service_pid \in Pids => {pidfile, seen_service} \subseteq {NotForked, service_pid}
    /\ seen_service # NotForked => pidfile \in {NotForked, seen_service}
    /\ st \in Killing /\ seen_service # NotForked => \A p \in Pids : stage[p] \notin Alive
    /\ st \in {"kill_runner", "unlink_runner"} /\ seen_service # NotForked
           => pidfile = NotForked
=============================================================================
