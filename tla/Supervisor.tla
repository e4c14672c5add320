----------------------------- MODULE Supervisor -----------------------------
(***************************************************************************)
(* The service-runner process of one `service-runner start`, from the      *)
(* moment it has blocked its signals (start.c:1882) to its exit, with the  *)
(* service processes it forks, the signals it receives and forwards, and   *)
(* the two pidfiles.  A step of the model lies between two points at which *)
(* another process, or a signal, can interfere.                            *)
(*                                                                         *)
(* A signal is a member of `pending' until it is handled; one that is not  *)
(* blocked is handled before the runner takes its next step (a blocking    *)
(* system call returns EINTR).  Process ids are recycled.                  *)
(***************************************************************************)
EXTENDS Integers

CONSTANTS
    Pids,            \* the process ids the kernel can hand out
    Policy,          \* --restart: "NEVER", "FAILURE" or "ALWAYS"
    HasPidfd,        \* pidfd_open() is there (FALSE: it fails with ENOSYS)
    DoPipe,          \* the output goes through a pipe (any log rotation, a file size limit)
    ManualLogrotate, \* --manual-logrotate
    CrashReport,     \* --crash-report is given
    Faults,          \* the calls that may fail
    Sent,            \* the signals others send to the runner
    MaxSends,        \* bound: how many of them
    Ends,            \* how the service may end by itself
    Reactions,       \* what the service may do when it gets a signal
    Heirs,           \* descendants of the service may keep its stdout open
    Others           \* unrelated processes may take a free process id

ASSUME PidsAssumption == Pids \subseteq Nat \ {0}
ASSUME PolicyAssumption == Policy \in {"NEVER", "FAILURE", "ALWAYS"}
ASSUME FlagsAssumption ==
    /\ {HasPidfd, DoPipe, ManualLogrotate, CrashReport, Heirs, Others} \subseteq BOOLEAN
    /\ ManualLogrotate => DoPipe
ASSUME SendsAssumption == MaxSends \in Nat

StopSignals == {"TERM", "QUIT", "INT"}
Signals     == StopSignals \union {"USR1", "HUP", "CHLD"}

\* How a process ends: exit(0), exit(n), exit(1) before execv() (the runner was sent
\* SIGTERM, or could not be), or by a signal, with a core dump or without one.
Crashes   == {"error", "premature", "untold", "SEGV", "DUMP", "HUP", "USR1"}
Outcomes  == {"ok", "KILL"} \union StopSignals \union Crashes

ASSUME FaultsAssumption ==
    Faults \subseteq {"boot", "pipe", "fork", "pidfd_open", "poll", "child", "signal"}
ASSUME SentAssumption == Sent \subseteq StopSignals \union {"USR1", "HUP", "KILL"}
ASSUME EndsAssumption == Ends \subseteq Outcomes \ {"premature", "untold"}
ASSUME ReactionsAssumption == Reactions \subseteq {"die", "exit", "ignore"}

NotForked == 0      \* service_pid before the first fork()
EveryPid  == -1     \* service_pid after the service was reaped: kill(-1, ...)

VARIABLES
    pc,             \* where the runner is
    blocked,        \* its signal mask
    pending,        \* signals sent to it and not yet handled
    armed,          \* its handlers are installed
    service_pid,
    service_pidfd,  \* "none", "live", or "dead" once what it refers to is reaped
    running,
    restart_issued,
    got_sigchld,
    events,         \* pollfds[].events that are not 0
    revents,        \* pollfds[].revents that are not 0
    service_status, \* the outcome waitpid() has returned
    stage,          \* per process id: what the process is doing
    mask,           \* per process id: its signal mask
    sigs,           \* per process id: signals sent to it and not yet handled
    handlers,       \* per process id: it still has the runner's handlers
    outcome,        \* per process id: how a zombie ended
    heir,           \* a descendant of the service holds the write end of the pipe
    pidfile,        \* the process id in the pidfile, NotForked if there is none
    pidfile_runner, \* the runner's pidfile exists
    sends

control  == <<pc, blocked, pending, armed>>
globals  == <<service_pid, service_pidfd, running, restart_issued, got_sigchld>>
watching == <<events, revents, service_status>>
procs    == <<stage, mask, sigs, handlers, outcome>>
files    == <<pidfile, pidfile_runner>>
vars     == <<control, globals, watching, procs, heir, files, sends>>

Setup  == {"new", "setup", "unblocked", "failing", "untold"}  \* between fork() and execv()
Alive  == Setup \union {"service"}
Stages == Alive \union {"free", "other", "zombie"}
Own    == {p \in Pids : stage[p] \in Alive \union {"zombie"}}

Waiting == {"loop", "polling", "check", "reap"}
Leaving == {"unlink_pid", "unlink_runner", "exited", "killed"}
Places  == {"boot", "fork", "arm", "watch", "drop", "dropwait", "block", "judge",
            "crashed", "endloop"} \union Waiting \union Leaving

RunnerOK ==
    /\ pc \in Places
    /\ blocked \subseteq Signals /\ pending \subseteq Signals /\ armed \in BOOLEAN
    /\ service_pid \in Pids \union {NotForked, EveryPid}
    /\ service_pidfd \in {"none", "live", "dead"}
    /\ running \in BOOLEAN /\ restart_issued \in BOOLEAN /\ got_sigchld \in BOOLEAN
    /\ events \subseteq {"pid", "pipe"} /\ revents \subseteq {"pid", "pipe"}
    /\ service_status \in Outcomes

ProcsOK ==
    /\ stage \in [Pids -> Stages]
    /\ mask \in [Pids -> SUBSET Signals]
    /\ sigs \in [Pids -> SUBSET (StopSignals \union {"KILL"})]
    /\ handlers \in [Pids -> BOOLEAN]
    /\ outcome \in [Pids -> Outcomes]

FilesOK ==
    /\ heir \in BOOLEAN
    /\ pidfile \in Pids \union {NotForked} /\ pidfile_runner \in BOOLEAN
    /\ sends \in 0 .. MaxSends

\* The values the variables of the runner, the processes and the files can have.
TypeOK == RunnerOK /\ ProcsOK /\ FilesOK

Init ==
    /\ pc = "boot" /\ blocked = Signals /\ pending = {} /\ armed = FALSE
    /\ service_pid = NotForked /\ service_pidfd = "none"
    /\ running = FALSE /\ restart_issued = FALSE /\ got_sigchld = FALSE
    /\ events = {} /\ revents = {} /\ service_status = "ok"
    /\ stage = [p \in Pids |-> "free"]
    /\ mask = [p \in Pids |-> {}] /\ sigs = [p \in Pids |-> {}]
    /\ handlers = [p \in Pids |-> FALSE] /\ outcome = [p \in Pids |-> "ok"]
    /\ heir = FALSE
    /\ pidfile = NotForked /\ pidfile_runner = FALSE
    /\ sends = 0
-----------------------------------------------------------------------------
(* What the kernel does.                                                   *)

Gone == pc \in {"exited", "killed"}

\* SIGCHLD: without a handler (that is, with a pidfd) it is discarded.
ChildSignal == IF HasPidfd THEN {} ELSE {"CHLD"}

\* kill(target, s): no effect on a free process id or a zombie.
Kill(target, s) ==
    sigs' = [p \in Pids |->
                IF target \in {p, EveryPid} /\ stage[p] \in Alive \union {"other"}
                THEN sigs[p] \union {s} ELSE sigs[p]]

\* Mutants of Forward: by number although there is a pidfd; not at all.
ForwardByNumber(s) == Kill(service_pid, s)
ForwardNowhere(s)  == UNCHANGED sigs

\* A signal on its way to the service: through the pidfd if there is one.  The
\* process the pidfd refers to cannot be mistaken for a later one.
Forward(s) ==
    IF service_pidfd = "dead" THEN UNCHANGED sigs ELSE Kill(service_pid, s)

\* p ends with outcome o: its parent, the runner, is told.  init reaps an orphan.
Dies(p, o) ==
    /\ stage' = [stage EXCEPT ![p] = IF Gone THEN "free" ELSE "zombie"]
    /\ outcome' = [outcome EXCEPT ![p] = o]
    /\ sigs' = [sigs EXCEPT ![p] = {}]
    /\ mask' = [mask EXCEPT ![p] = {}]
    /\ handlers' = [handlers EXCEPT ![p] = FALSE]
    /\ pending' = IF Gone THEN pending ELSE pending \union ChildSignal

\* The default action of SIGQUIT may write a core dump.
KilledBy(s) == IF s = "QUIT" THEN {"QUIT", "DUMP"} ELSE {s}

\* waitpid(service_pid, ...) looks at these processes, all children for -1.
Waited == {p \in Own : service_pid \in {p, EveryPid}}

Reaped(p) ==
    /\ stage' = [stage EXCEPT ![p] = "free"]
    /\ outcome' = [outcome EXCEPT ![p] = "ok"]
    /\ service_status' = outcome[p]
    /\ service_pidfd' = IF service_pidfd = "live" /\ service_pid = p
                        THEN "dead" ELSE service_pidfd
    /\ UNCHANGED <<mask, sigs, handlers>>

\* The runner is gone: init waits for its zombies, and its children live on.
ZombiesReaped == stage' = [p \in Pids |-> IF stage[p] = "zombie" THEN "free" ELSE stage[p]]
KillRunner    == pc' = "killed" /\ ZombiesReaped

\* Mutant of PipeHeld: the runner does not close its write end.
PipeHeldByRunner == TRUE

\* What poll() reports.  The pipe hangs up when nobody holds its write end; the
\* service is the only process that can have it besides its descendants.
PipeHeld == heir \/ service_pid \in {p \in Pids : stage[p] \in Alive}
PidReady ==
    \/ service_pidfd = "dead"
    \/ service_pidfd = "live" /\ stage[service_pid] = "zombie"
Ready == {e \in events : IF e = "pid" THEN PidReady ELSE ~PipeHeld}
-----------------------------------------------------------------------------
(* Signals reach the runner.                                               *)

Send(s) ==
    /\ sends < MaxSends /\ ~Gone
    /\ sends' = sends + 1
    /\ IF s = "KILL"
       THEN KillRunner /\ UNCHANGED pending
       ELSE pending' = pending \union {s} /\ UNCHANGED <<pc, stage>>
    /\ UNCHANGED <<blocked, armed, globals, watching, mask, sigs, handlers, outcome,
                   heir, files>>

\* Mutant of Deliver: EINTR is an error of poll() like any other.
DeliverLeavesLoop(s) ==
    /\ s \in pending \ blocked /\ ~Gone
    /\ pending' = pending \ {s}
    /\ pc' = IF pc = "polling" THEN "endloop" ELSE pc
    /\ UNCHANGED <<blocked, armed, service_pid, service_pidfd, watching,
                   stage, mask, handlers, outcome, heir, files, sends>>

\* A handler runs.  poll() returns EINTR; a signal that comes between the test of
\* the loop and the call of poll() does not keep poll() from waiting.
Deliver(s) ==
    /\ s \in pending \ blocked /\ ~Gone
    /\ pending' = pending \ {s}
    /\ pc' = IF pc = "polling" THEN "check" ELSE pc
    /\ UNCHANGED <<blocked, armed, service_pid, service_pidfd, watching,
                   stage, mask, handlers, outcome, heir, files, sends>>

handle_stop_signal ==
    \E s \in StopSignals :
        /\ Deliver(s)
        /\ IF service_pid = NotForked
           THEN UNCHANGED <<running, sigs>>
           ELSE running' = FALSE /\ Forward(s)
        /\ UNCHANGED <<restart_issued, got_sigchld>>

\* Mutant of handle_restart_signal: a restart revokes a stop.
RestartRevives ==
    /\ Deliver("USR1")
    /\ restart_issued' = TRUE /\ running' = TRUE /\ Forward("TERM")
    /\ UNCHANGED got_sigchld

handle_restart_signal ==
    /\ Deliver("USR1")
    /\ IF service_pid = NotForked
       THEN UNCHANGED <<restart_issued, sigs>>
       ELSE restart_issued' = TRUE /\ Forward("TERM")
    /\ UNCHANGED <<running, got_sigchld>>

handles_logrotate ==
    /\ Deliver("HUP")
    /\ UNCHANGED <<running, restart_issued, got_sigchld, sigs>>

handle_child ==
    /\ Deliver("CHLD")
    /\ got_sigchld' = TRUE
    /\ UNCHANGED <<running, restart_issued, sigs>>
-----------------------------------------------------------------------------
(* The runner's own steps.                                                 *)

At(place) == pc = place /\ pending \subseteq blocked

\* The runner's pidfile is written and the log takes the place of the terminal.
Boot ==
    /\ At("boot")
    /\ pidfile_runner' = TRUE /\ running' = TRUE /\ pc' = "fork"
    /\ UNCHANGED <<blocked, pending, armed, service_pid, service_pidfd,
                   restart_issued, got_sigchld, watching, procs, heir, pidfile, sends>>

\* Mutant of BootFails: the pidfile of the runner is left there.
BootReturns ==
    /\ At("boot") /\ "boot" \in Faults
    /\ pidfile_runner' \in BOOLEAN
    /\ pc' = "exited"
    /\ UNCHANGED <<blocked, pending, armed, globals, watching, procs, heir,
                   pidfile, sends>>

BootFails ==
    /\ At("boot") /\ "boot" \in Faults
    /\ pidfile_runner' \in BOOLEAN
    /\ pc' = "unlink_pid"
    /\ UNCHANGED <<blocked, pending, armed, globals, watching, procs, heir,
                   pidfile, sends>>

\* The child starts with a copy of the runner's mask and handlers, and with no
\* pending signal; a new pipe has no heir.
Fork ==
    /\ At("fork")
    /\ \E p \in Pids :
        /\ stage[p] = "free"
        /\ service_pid' = p
        /\ stage' = [stage EXCEPT ![p] = "new"]
        /\ mask' = [mask EXCEPT ![p] = blocked]
        /\ sigs' = [sigs EXCEPT ![p] = {}]
        /\ handlers' = [handlers EXCEPT ![p] = armed]
    /\ heir' = FALSE
    /\ pc' = "arm"
    /\ UNCHANGED <<blocked, pending, armed, service_pidfd, running, restart_issued,
                   got_sigchld, watching, outcome, files, sends>>

\* No pipe, or no process: fork() may always find that all process ids are taken.
ForkFails ==
    /\ At("fork")
    /\ \/ "pipe" \in Faults /\ DoPipe /\ UNCHANGED service_pid
       \/ /\ "fork" \in Faults \/ \A p \in Pids : stage[p] # "free"
          /\ service_pid' = EveryPid
    /\ pc' = "unlink_pid"
    /\ UNCHANGED <<blocked, pending, armed, service_pidfd, running, restart_issued,
                   got_sigchld, watching, procs, heir, files, sends>>

\* Mutant of Arm: SIGTERM stays blocked.
ArmWithoutTerm ==
    /\ At("arm")
    /\ armed' = TRUE
    /\ blocked' = blocked \ {"QUIT", "INT", "USR1"}
    /\ pc' = "watch"
    /\ UNCHANGED <<pending, globals, watching, procs, heir, files, sends>>

\* Handlers are installed, then signals unblocked: HUP only if it is wanted.
Arm ==
    /\ At("arm")
    /\ armed' = TRUE
    /\ blocked' = (blocked \ (StopSignals \union {"USR1"}))
                      \ (IF ManualLogrotate THEN {"HUP"} ELSE {})
    /\ pc' = "watch"
    /\ UNCHANGED <<pending, globals, watching, procs, heir, files, sends>>

\* pidfd_open() and the poll set; without pidfds, SIGCHLD gets its handler.
Watch ==
    /\ At("watch")
    /\ service_pidfd' = IF HasPidfd THEN "live" ELSE "none"
    /\ events' = {"pid"} \union (IF DoPipe THEN {"pipe"} ELSE {})
    /\ revents' = {}
    /\ blocked' = blocked \ {"CHLD"}
    /\ pc' = "loop"
    /\ UNCHANGED <<pending, armed, service_pid, running, restart_issued, got_sigchld,
                   service_status, procs, heir, files, sends>>

\* Mutant of WatchFails: the service is left alone.
WatchReturns ==
    /\ At("watch") /\ HasPidfd /\ "pidfd_open" \in Faults
    /\ pc' = "unlink_pid"
    /\ UNCHANGED <<blocked, pending, armed, globals, watching, procs, heir, files, sends>>

WatchFails ==
    /\ At("watch") /\ HasPidfd /\ "pidfd_open" \in Faults
    /\ pc' = "drop"
    /\ UNCHANGED <<blocked, pending, armed, globals, watching, procs, heir, files, sends>>

\* After half a second: kill(service_pid, SIGTERM), then a waitpid() that waits.
Drop ==
    /\ At("drop")
    /\ Kill(service_pid, "TERM")
    /\ pc' = "dropwait"
    /\ UNCHANGED <<blocked, pending, armed, globals, watching, stage, mask, handlers,
                   outcome, heir, files, sends>>

DropWait ==
    /\ At("dropwait")
    /\ \E p \in Waited : stage[p] = "zombie" /\ Reaped(p)
    /\ pc' = "unlink_pid"
    /\ UNCHANGED <<blocked, pending, armed, service_pid, running, restart_issued,
                   got_sigchld, events, revents, heir, files, sends>>

Loop ==
    /\ At("loop")
    /\ pc' = IF events = {} THEN "endloop" ELSE "polling"
    /\ revents' = {}
    /\ UNCHANGED <<blocked, pending, armed, globals, events, service_status, procs,
                   heir, files, sends>>

PollReturns ==
    /\ At("polling") /\ Ready # {}
    /\ revents' = Ready
    /\ pc' = "check"
    /\ UNCHANGED <<blocked, pending, armed, globals, events, service_status, procs,
                   heir, files, sends>>

\* Log data: whoever holds the pipe may write at any time.
PollLogData ==
    /\ At("polling") /\ "pipe" \in events /\ PipeHeld
    /\ revents' = Ready
    /\ pc' = "check"
    /\ UNCHANGED <<blocked, pending, armed, globals, events, service_status, procs,
                   heir, files, sends>>

\* The loop is also left when log data cannot be read (where splice() is not supported).
PollFails ==
    /\ At("polling") /\ "poll" \in Faults
    /\ pc' = "endloop"
    /\ UNCHANGED <<blocked, pending, armed, globals, watching, procs, heir, files, sends>>

\* A pipe that hung up is not polled again; is there a reason to call waitpid()?
Check ==
    /\ At("check")
    /\ events' = events \ (revents \intersect {"pipe"})
    /\ IF "pid" \in revents \/ got_sigchld
       THEN pc' = "reap" /\ got_sigchld' = FALSE
       ELSE pc' = "loop" /\ UNCHANGED got_sigchld
    /\ UNCHANGED <<blocked, pending, armed, service_pid, service_pidfd, running,
                   restart_issued, revents, service_status, procs, heir, files, sends>>

\* waitpid(service_pid, ..., WNOHANG) finds an ended child ...
Reap ==
    /\ At("reap")
    /\ \E p \in Waited : stage[p] = "zombie" /\ Reaped(p)
    /\ pc' = "block"
    /\ UNCHANGED <<blocked, pending, armed, service_pid, running, restart_issued,
                   got_sigchld, events, revents, heir, files, sends>>

\* ... or none that has ended, or no child at all.
ReapNothing ==
    /\ At("reap")
    /\ \A p \in Waited : stage[p] # "zombie"
    /\ events' = IF Waited = {} THEN events \ {"pid"} ELSE events
    /\ pc' = "loop"
    /\ UNCHANGED <<blocked, pending, armed, globals, revents, service_status, procs,
                   heir, files, sends>>

\* Mutant of Block: no signal is blocked.
BlockNothing ==
    /\ At("block")
    /\ pc' = "judge"
    /\ UNCHANGED <<blocked, pending, armed, globals, watching, procs, heir, files, sends>>

Block ==
    /\ At("block")
    /\ blocked' = blocked \union (Signals \ {"HUP"})
    /\ pc' = "judge"
    /\ UNCHANGED <<pending, armed, globals, watching, procs, heir, files, sends>>

\* Mutant of Restarts: SIGQUIT, SIGINT and SIGKILL fall through like SIGTERM.
RestartsWhenAsked(o, issued) ==
    \/ Policy \in {"FAILURE", "ALWAYS"} /\ o \in Crashes
    \/ issued

\* Is a service that ended with outcome o to be started again?  `issued': it was
\* sent SIGTERM for a restart.
Restarts(o, issued) ==
    \/ Policy = "ALWAYS"
    \/ Policy = "FAILURE" /\ o \in Crashes
    \/ issued /\ o \notin {"QUIT", "INT", "KILL"}

Judge ==
    /\ At("judge")
    /\ running' = (running /\ Restarts(service_status, restart_issued))
    /\ restart_issued' = FALSE
    /\ service_pid' = EveryPid
    /\ events' = events \ {"pid"}
    /\ pc' = IF service_status \in Crashes THEN "crashed" ELSE "loop"
    /\ service_status' = "ok"
    /\ UNCHANGED <<blocked, pending, armed, service_pidfd, got_sigchld, revents,
                   procs, heir, files, sends>>

\* The crash reporter, a child of the runner, has come and gone; the restart sleep.
Crashed ==
    /\ At("crashed")
    /\ pending' = pending \union (IF CrashReport THEN ChildSignal ELSE {})
    /\ pc' = "loop"
    /\ UNCHANGED <<blocked, armed, globals, watching, procs, heir, files, sends>>

EndLoop ==
    /\ At("endloop")
    /\ service_pidfd' = "none"
    /\ pc' = IF running THEN "fork" ELSE "unlink_pid"
    /\ UNCHANGED <<blocked, pending, armed, service_pid, running, restart_issued,
                   got_sigchld, watching, procs, heir, files, sends>>

UnlinkPidfile ==
    /\ At("unlink_pid")
    /\ pidfile' = NotForked
    /\ pc' = "unlink_runner"
    /\ UNCHANGED <<blocked, pending, armed, globals, watching, procs, heir,
                   pidfile_runner, sends>>

\* The runner removes its own pidfile and is gone.
Exit ==
    /\ At("unlink_runner")
    /\ pidfile_runner' = FALSE
    /\ pc' = "exited"
    /\ ZombiesReaped
    /\ UNCHANGED <<blocked, pending, armed, globals, watching, mask, sigs, handlers,
                   outcome, heir, pidfile, sends>>
-----------------------------------------------------------------------------
(* The child, until it has become the service.                             *)

Undisturbed(p) == sigs[p] \subseteq mask[p]

\* Mutant of WritePidfile: a pidfile that is there is not written again.
WritePidfileOnce(p) ==
    /\ stage[p] = "new" /\ Undisturbed(p)
    /\ stage' = [stage EXCEPT ![p] = "setup"]
    /\ pidfile' = IF pidfile = NotForked THEN p ELSE pidfile
    /\ UNCHANGED <<control, globals, watching, mask, sigs, handlers, outcome, heir,
                   pidfile_runner, sends>>

WritePidfile(p) ==
    /\ stage[p] = "new" /\ Undisturbed(p)
    /\ stage' = [stage EXCEPT ![p] = "setup"]
    /\ pidfile' = p
    /\ UNCHANGED <<control, globals, watching, mask, sigs, handlers, outcome, heir,
                   pidfile_runner, sends>>

\* Limits, standard I/O, root and working directory are set; then the mask.
Unblock(p) ==
    /\ stage[p] = "setup" /\ Undisturbed(p)
    /\ stage' = [stage EXCEPT ![p] = "unblocked"]
    /\ mask' = [mask EXCEPT ![p] = @ \ (Signals \ {"HUP"})]
    /\ UNCHANGED <<control, globals, watching, sigs, handlers, outcome, heir, files, sends>>

\* execv() resets the handlers and keeps the mask.
Exec(p) ==
    /\ stage[p] = "unblocked" /\ Undisturbed(p)
    /\ stage' = [stage EXCEPT ![p] = "service"]
    /\ handlers' = [handlers EXCEPT ![p] = FALSE]
    /\ UNCHANGED <<control, globals, watching, mask, sigs, outcome, heir, files, sends>>

\* Whatever fails before the service runs: SIGTERM to the runner, then exit(1).  When
\* execv() fails the child may have given up its user, and with it the permission to
\* signal the runner: kill() fails, and is only logged.
signal_premature_exit(p) ==
    /\ "child" \in Faults
    /\ stage[p] \in {"new", "setup", "unblocked"} /\ Undisturbed(p)
    /\ \/ /\ stage' = [stage EXCEPT ![p] = "failing"]
          /\ pending' = IF Gone THEN pending ELSE pending \union {"TERM"}
       \/ /\ "signal" \in Faults /\ stage[p] = "unblocked"
          /\ stage' = [stage EXCEPT ![p] = "untold"]
          /\ UNCHANGED pending
    /\ UNCHANGED <<pc, blocked, armed, globals, watching, mask, sigs, handlers,
                   outcome, heir, files, sends>>

PrematureExit(p) ==
    /\ stage[p] \in {"failing", "untold"} /\ Undisturbed(p)
    /\ Dies(p, IF stage[p] = "failing" THEN "premature" ELSE "untold")
    /\ UNCHANGED <<pc, blocked, armed, globals, watching, heir, files, sends>>

\* A signal reaches the child before execv().  With the runner's handlers, which see
\* its service_pid, 0, it is reported and dropped; without them it kills.
ChildSignalled(p) ==
    /\ stage[p] \in Setup
    /\ \E s \in sigs[p] \ mask[p] :
        IF handlers[p]
        THEN /\ sigs' = [sigs EXCEPT ![p] = @ \ {s}]
             /\ UNCHANGED <<pending, stage, mask, handlers, outcome>>
        ELSE \E o \in KilledBy(s) : Dies(p, o)
    /\ UNCHANGED <<pc, blocked, armed, globals, watching, heir, files, sends>>

ChildStep(p) ==
    \/ WritePidfile(p) \/ Unblock(p) \/ Exec(p)
    \/ signal_premature_exit(p) \/ PrematureExit(p) \/ ChildSignalled(p)
-----------------------------------------------------------------------------
(* The service, and the rest of the world.                                 *)

ServiceSignalled(p) ==
    /\ stage[p] = "service"
    /\ \E s \in sigs[p] \ mask[p] :
        \/ "die" \in Reactions /\ \E o \in KilledBy(s) : Dies(p, o)
        \/ "exit" \in Reactions /\ Dies(p, "ok")
        \/ /\ "ignore" \in Reactions
           /\ sigs' = [sigs EXCEPT ![p] = @ \ {s}]
           /\ UNCHANGED <<pending, stage, mask, handlers, outcome>>
    /\ UNCHANGED <<pc, blocked, armed, globals, watching, heir, files, sends>>

ServiceEnds(p) ==
    /\ stage[p] = "service"
    /\ \E o \in Ends : Dies(p, o)
    /\ UNCHANGED <<pc, blocked, armed, globals, watching, heir, files, sends>>

LeaveHeir ==
    /\ Heirs /\ DoPipe /\ service_pid \in Pids /\ stage[service_pid] = "service"
    /\ heir' = TRUE
    /\ UNCHANGED <<control, globals, watching, procs, files, sends>>

HeirExits ==
    /\ heir
    /\ heir' = FALSE
    /\ UNCHANGED <<control, globals, watching, procs, files, sends>>

OtherStarts(p) ==
    /\ Others /\ stage[p] = "free"
    /\ stage' = [stage EXCEPT ![p] = "other"]
    /\ sigs' = [sigs EXCEPT ![p] = {}]
    /\ UNCHANGED <<control, globals, watching, mask, handlers, outcome, heir, files, sends>>

OtherExits(p) ==
    /\ stage[p] = "other"
    /\ stage' = [stage EXCEPT ![p] = "free"]
    /\ UNCHANGED <<control, globals, watching, mask, sigs, handlers, outcome, heir,
                   files, sends>>

\* Nothing is left to happen.
Terminated ==
    /\ Gone /\ \A p \in Pids : stage[p] \notin Alive
    /\ UNCHANGED vars
-----------------------------------------------------------------------------
Handler == handle_stop_signal \/ handle_restart_signal \/ handles_logrotate \/ handle_child

RunnerStep ==
    \/ Handler
    \/ Boot \/ Fork \/ Arm \/ Watch \/ Drop \/ DropWait
    \/ Loop \/ PollReturns \/ Check \/ Reap \/ ReapNothing \/ Block \/ Judge \/ Crashed
    \/ EndLoop \/ UnlinkPidfile \/ Exit

RunnerFault == BootFails \/ ForkFails \/ WatchFails \/ PollFails

World ==
    \/ \E s \in Sent : Send(s)
    \/ PollLogData
    \/ \E p \in Pids : ServiceEnds(p) \/ OtherStarts(p) \/ OtherExits(p)
    \/ LeaveHeir \/ HeirExits

Next ==
    \/ RunnerStep
    \/ RunnerFault
    \/ \E p \in Pids : ChildStep(p) \/ ServiceSignalled(p)
    \/ World
    \/ Terminated

Spec == Init /\ [][Next]_vars

(***************************************************************************)
(* The scheduler lets the runner and its child run; a signal that can be   *)
(* handled is.  Whether a call of the runner succeeds is left open, and    *)
(* nothing is promised of the rest of the world, or of a service that is   *)
(* not sent a signal.                                                      *)
(***************************************************************************)
Fairness ==
    /\ WF_vars(RunnerStep \/ RunnerFault)
    /\ \A p \in Pids : WF_vars(ChildStep(p)) /\ WF_vars(ServiceSignalled(p))

FairSpec == Spec /\ Fairness
-----------------------------------------------------------------------------
(* Safety.                                                                 *)

\* A stop or restart handler that can run finds a process to signal that is the
\* runner's own child, not yet waited for: never 0 or -1, never a process id that
\* the kernel may have given to somebody else (start.c:1203-1262).
HandlerTarget ==
    armed /\ ~Gone /\ ~(StopSignals \union {"USR1"} \subseteq blocked)
        => service_pidfd # "none" \/ service_pid \in Own

\* No process that has nothing to do with the service is ever sent a signal, although
\* process ids are recycled (handle_stop_signal, handle_restart_signal).
ForeignUnharmed == \A p \in Pids : stage[p] = "other" => sigs[p] = {}

\* However exits, restarts and failures interleave, there are never two instances of
\* the service, not even while one is still being set up (the loop start.c:1957-2525).
AtMostOneService ==
    \A p, q \in Pids : stage[p] \in Alive /\ stage[q] \in Alive => p = q

\* While the service runs, its pidfile holds its process id: what `stop' kills after
\* the shutdown timeout and what `status' looks at (write_pidfile in the child).
PidfileNamesService ==
    \A p \in Pids : stage[p] \in Alive \ {"new", "failing"} => pidfile = p

\* When the runner has exited, it has left no pidfile and no service behind.
CleanExit ==
    pc = "exited" =>
        /\ pidfile = NotForked /\ ~pidfile_runner
        /\ \A p \in Pids : stage[p] \notin Alive

\* A child that never became the service and could send SIGTERM to the runner is not
\* replaced, whatever the policy: the signal is handled before its end is judged.  One
\* that may not signal the runner is left to FailureNotRestarted (start.c:1073-1081).
PrematureNotRestarted ==
    pc = "judge" /\ service_status = "premature" => ~running

\* As the comment of signal_premature_exit() has it: "a crash-restart-loop is prevented if
\* the service process doesn't even manage to exec".
FailureNotRestarted ==
    [][pc = "judge" /\ pc' # "judge" /\ service_status \in {"premature", "untold"}
           => ~running']_vars

\* After a stop, nothing makes the runner want the service again, no restart request
\* and no policy, even if it has lost sight of a service (poll() failed).
StopSticks == [][running' => running \/ pc = "boot"]_vars

\* --rlimit, as documented: a child that cannot set its limits is started again and
\* again (README.md, "there will be a crash-restart-loop").
CrashRestartLoop ==
    [][pc = "judge" /\ pc' # "judge" /\ service_status = "premature" => running']_vars

\* What the contract sees of the runner: where its service is, and how it ended.
phase ==
    IF pc \in Leaving \/ (service_pid = EveryPid /\ ~running) THEN "done"
    ELSE IF service_pid \notin Pids THEN "down"
    ELSE IF stage[service_pid] \in Alive THEN "up" ELSE "ended"

how ==
    IF phase # "ended" THEN "ok"
    ELSE IF stage[service_pid] = "zombie" THEN outcome[service_pid]
    ELSE service_status

Contract == INSTANCE RestartContract
    WITH keep <- running \/ service_pid = NotForked, asked <- restart_issued

\* Whatever is interrupted and whenever, the runner keeps to the restart policy: it
\* implements RestartContract.
KeepsContract == Contract!Spec
-----------------------------------------------------------------------------
(* Inductive invariants: what makes the safety properties true.            *)

\* The one process that is the runner's child is the one in service_pid; where the
\* runner is about to fork, and where it has stopped watching, there is none.
Ownership ==
    /\ Own \subseteq {service_pid}
    /\ pc \notin {"arm", "watch", "drop", "dropwait", "killed"} \union Waiting => Own = {}
    /\ pc \in Waiting /\ "pid" \notin events => Own = {}
    /\ pc = "crashed" => "pid" \notin events
    /\ pc \in {"unlink_runner", "exited"} => pidfile = NotForked
    /\ pc = "exited" => ~pidfile_runner

\* What service_pid is at each place.  While signals can be handled, it is the child's;
\* without a child they are blocked, unless the runner is leaving.
Watched ==
    /\ pc = "boot" => service_pid = NotForked
    /\ pc = "fork" => service_pid \in {NotForked, EveryPid} /\ running
    /\ pc \in {"arm", "watch", "drop", "dropwait"} => service_pid \in Own
    /\ pc \in Waiting =>
        IF "pid" \in events THEN service_pid \in Own ELSE service_pid = EveryPid
    /\ pc \in {"block", "judge"} => service_pid \in Pids
    /\ pc \in {"crashed", "endloop"} => service_pid = EveryPid
    /\ \/ pc \in {"watch", "drop", "dropwait", "block"} \union Leaving
       \/ pc \in Waiting /\ "pid" \in events
       \/ StopSignals \union {"USR1"} \subseteq blocked

\* With pidfds: as soon as the child can be waited for, there is one that refers to it.
Targets ==
    /\ pc \notin {"drop", "dropwait"}
    /\ pc \in Waiting /\ "pid" \in events => service_pidfd = "live"
    /\ pc = "block" => service_pidfd = "dead"
    /\ pc \in {"unlink_pid", "unlink_runner"} => StopSignals \union {"USR1"} \subseteq blocked

\* The SIGTERM of a child that fails, if it could be sent, is pending or has been handled,
\* and it is not blocked when the runner waits for that child.
Prematures ==
    /\ pc = "watch" \/ (pc \in Waiting /\ "pid" \in events) => "TERM" \notin blocked
    /\ \A p \in Pids :
        /\ stage[p] = "failing" \/ (stage[p] = "zombie" /\ outcome[p] = "premature")
        /\ ~Gone
        => "TERM" \in pending \/ ~running
    /\ pc \in {"block", "judge"} /\ service_status = "premature" => ~running

\* A service that the runner cannot watch has ended when the runner leaves because of it:
\* it is killed and waited for (pidfd_open() fails after fork(), start.c:2167-2207).
UnwatchedEnds ==
    [][(pc \in {"watch", "drop", "dropwait"} /\ pc' \in {"unlink_pid", "unlink_runner"})
           => stage'[service_pid] \notin Alive]_vars

\* The inductive invariant with pidfds, unless poll() or pidfd_open() fails: what the
\* proofs of the safety properties rest on.
Inductive == TypeOK /\ Ownership /\ PidfileNamesService /\ Watched /\ Targets /\ Prematures
-----------------------------------------------------------------------------
(* Liveness, under FairSpec.                                               *)

\* The end of a service process is noticed and the process waited for.
ExitNoticed == \A p \in Pids : stage[p] = "zombie" ~> stage[p] # "zombie"

\* Once a stop signal has been handed to a service that runs, and the service obeys,
\* the runner ends, unless it is killed.
StopEnds ==
    \A p \in Pids :
        (~running /\ service_pid = p /\ stage[p] = "service" /\ sigs[p] # {})
            ~> Gone

\* A service that is to be kept running runs again after it has ended, unless it is
\* stopped before, or its execv() fails and the runner cannot be told.
ComesBack ==
    (pc = "judge" /\ running /\ Restarts(service_status, restart_issued))
        ~> (~running \/ pc \in Leaving \/ \E p \in Pids : stage[p] \in {"service", "untold"})

\* A stop signal that the runner has accepted ends the runner.
StopAlwaysEnds == (~running /\ service_pid \in Pids) ~> pc = "exited"
=============================================================================
