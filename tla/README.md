# service-runner in TLA+

`service-runner` starts a program as a daemon, keeps it running, and writes its output to a
log file. Its commands (`start`, `stop`, `status`, `restart`, `logrotate`, `logs`) share
nothing with the running daemon but two pidfiles, signals and `/proc`. This directory holds a
TLA+ model of it, what TLC checks of the model, and what TLAPS proves.

Sources are cited as `start.c:1957` for `src/src/start.c`, line 1957.

## 1. The system

| component | state | operations | talks to |
|---|---|---|---|
| **runner** (start.c:1882-2571) | signal mask, handlers, `running`, `service_pid`, `service_pidfd`, `restart_issued`, `got_sigchld`, the poll set | boot, fork, arm the handlers, watch, event loop, waitpid, judge by the restart policy, clean up | its child (fork, inherited mask and handlers), the service (signals, pipe), the commands (signals, pidfiles) |
| **child before execv()** (start.c:1988-2122) | its copy of mask and handlers | write the pidfile, limits, chroot, chdir, unblock, execv, or fail and signal the runner | the runner |
| **start** (start.c:1317-1881) | none of its own | resolve paths and check them, look for a running instance, remove stale pidfiles, daemonize | pidfiles |
| **stop** (stop.c) | the two process ids it has read, a pidfd, the time waited | read, SIGTERM, wait, SIGKILL and remove the pidfiles after a timeout | runner, service, pidfiles |
| **status** (status.c) | what it has read | two reads, two probes, exit status | pidfiles |
| **restart**, **logrotate** | the process id they have read | read the runner's pidfile, send SIGUSR1 or SIGHUP | runner, pidfile |
| **log pipe** (start.c:1823-1860, 2248-2345) | the pipe, the open log file, its name, `logrotate_issued` | rotate by name or on request, open, splice or read and write, end at hang-up | service, administrator |
| **logs** (logs.c) | open file and offset, inotify watches, `modified`, `newfile`, `pidgone` | open, watch, read and print, wait for events | the runner's `/proc/PID/fd` |
| **paths** (util.c:16-371, start.c:1578-1717) | none | `dirend`, `abspath`, `normpath_no_escape`, `join_path`, pidfile path; their composition in start | file system |
| **settings** (start.c:79-211, 939-1201, 1333-1785, 2019-2117) | limits, ids; then those of the child | read the options, look up users, check rights, set limits, umask, priority, groups and user | user database, file system, kernel |
| **log lines** (start.c:277-913) | none | check a template, interpolate it, encode a message | log file |
| **help** (help.c:295-521) | none | wrap a text for the terminal | terminal |
| crash reporter, choice of the command, init script | none | see "Not modelled" | |

**What is hard.** Signals arrive between any two steps of the runner that has them unblocked,
and its handlers read and write the variables the event loop uses. A child inherits mask and
handlers of the moment of the fork. Process ids are recycled, and are read from files long
before they are used. The event loop waits for two things, the end of the service and the end
of its output, with `poll()`, and without pidfds depends on `poll()` being interrupted. Each
call can fail between two others. Pidfiles are emptied before they are written, several
commands may be under way at once, and a killed runner leaves everything behind. `logs` looks
up one file three times while it is being replaced. And what is typed in goes through functions
that are loops over indices with special cases at both ends (paths, templates, help), through
integers of three widths (limits), and through checks that guess what the kernel will say
(rights). `PROJECT.json` lists the hazards one by one.

**What makes each part correct.** The runner: one service at most, never a signal to anybody
else, the restart policy kept, a stop obeyed, a crash noticed, nothing left behind. start: one
runner per name. stop: exit status 0 means gone. status: what runs is reported. Log: in order,
complete, reopened on request, the service not blocked. logs: each line once, nothing skipped,
it ends. Paths: what is checked is what runs. Settings: the service runs with what was asked for,
and nothing sensible is refused. Log lines: a template that is accepted is printed as documented, and
any message can be read back.

## 2. Modules

| module | models | properties |
|---|---|---|
| `Supervisor` | runner, child, service, signals, process table | `Inductive` (with `TypeOK`), `HandlerTarget`, `ForeignUnharmed`, `AtMostOneService`, `PidfileNamesService`, `CleanExit`, `PrematureNotRestarted`, `FailureNotRestarted`, `StopSticks`, `UnwatchedEnds`, `ExitNoticed`, `StopEnds`, `ComesBack`, `KeepsContract` |
| `RestartContract` | what a runner promises: the restart policy, abstractly | implemented by `Supervisor` (`KeepsContract`) |
| `SupervisorProofs` | theorems about `Supervisor` | section 5 |
| `StopCommand` (EXTENDS `Supervisor`) | `stop` beside a full runner, and its clock | `StoppedMeansGone`, `KillsInTime`, `NotRunningMeansDown`, `TimeoutLeavesNothing`, `StopReturns` |
| `StopCommandProofs` (EXTENDS `SupervisorProofs`) | theorems about `StopCommand` | section 5 |
| `Lifecycle` | several `start`s, a `status`, `restart` or `logrotate`, the pidfiles, killed runners | `Inductive` (with `TypeOK`), `OneRunner`, `OneServiceUnlessKilled`, `RunnerReachable`, `StatusSeesRunning`, `SignalReaches` |
| `LifecycleProofs` | theorems about `Lifecycle` | section 5 |
| `LogPipe` | output from the pipe to rotated files | `Reopened`, `KeepsLog`, `FaultlessDrained` |
| `LogContract` | what a runner promises about the log, abstractly | implemented by `LogPipe` (`KeepsLog`) |
| `LogPipeProofs` | theorems about `LogPipe` and `LogTemplate` | section 5 |
| `LogsFollow` | `logs`, with `--follow` or without | `PrintsInOrder`, `LeavesNothing`, `ShowsReported`, `LogsEnds` |
| `LogsFollowProofs` | theorems about `LogsFollow` | section 5 |
| `SequenceFacts` | lemmas on sequences and on induction over numbers | |
| `Paths`, `NormPath`, `AbsPath` | paths as sequences of characters, and the functions of util.c on them | used by: |
| `Resolution` (EXTENDS `NormPath`, `AbsPath`) | what start checks, and what its child enters and runs | `RunsWhatWasChecked`, `StaysInside`, `RunsWhatWasAsked`, `SamePidfile`, `Normalises` |
| `ResolutionProofs` | theorems about `NormPath` and `Resolution` | section 5 |
| `Limits` | `--rlimit`, numbers and users, from text to integers of given widths | used by: |
| `Access` | the rights of files: what start checks, what the kernel does | used by: |
| `Settings` (EXTENDS `Limits`, `Access`) | start and its child, from the options to the credentials and limits of the service | `RunsAsAsked`, `RefusalsAreRight` |
| `InputsProofs` | theorems about `Settings` and `HelpText` | section 5 |
| `LogTemplate` | `--log-format` templates, the four encodings, the buffer of a message | `LogLinesReadable`, `DaysAreDays`, `AllReadable` |
| `HelpText` | `print_wrapped_text()` | `HelpFits` |
| `MC...` | the constants and sets of options for TLC; `MCInputs` composes the last six | |

Definitions carry the names of the functions, variables and options they stand for; the map in
`PROJECT.json` gives the lines of each. Some definitions are called "Mutant of": they are not part of the
model. Each is a variant of a definition with a plausible mistake in it, and serves to show that
a property notices the mistake.

### Supervisor

`pc` is the place of the runner in `command_start()`. `blocked` is its signal mask,
`pending` its pending signals, `armed` whether the handlers are installed. A handler is an
action that may fire at any place where its signal is pending, unblocked and handled; at `poll`
it also makes `poll()` return with EINTR. A step of the main flow requires that no unblocked
signal is pending (`At`): the kernel delivers those first. A process is `stage[p]`: `new`,
`setup`, `unblocked` (before `execv()`), `service`, `failing`, `untold`, `zombie`, `other` (unrelated) or
`free`, with its mask, handlers and pending signals. A forked child starts with copies of the
runner's. A pidfd stays with its process, a process id does not. The pipe is only "somebody
holds its write end": the service, or a descendant (`heir`).

The restart decision (`Judge`) follows start.c:2372-2438: normal end, error, stopping signal or
crash, against policy, `running` and `restart_issued`. What the program means by it is said in
`RestartContract`, with four variables and no processes, signals or masks. The refinement maps
`phase` (where the service is), `how` (how it ended), `keep` (`running`, or still booting) and
`asked` (`restart_issued`).

A child that fails before `execv()` signals its runner, and is `failing` until it exits. Where `execv()` itself fails
it may have another user by then, and `kill()` of the runner fails and is only logged (start.c:1077): with the fault
`"signal"` it is `untold`, and its exit is one like any other. The runner then starts it again, which `FailureNotRestarted` does not
allow (`PrematureLoop`), while `PrematureNotRestarted` is about the children that could send the signal.

`PollFails` also stands for a failing `read()` of the pipe (start.c:2317), which leaves the
same loop in the same way.

### StopCommand

`stop` takes its steps beside those of the runner. `Follow` keeps track of the process the
pidfd was opened for. `waited` is the time since SIGTERM in milliseconds, counted if there is a
timeout: with a pidfd one `poll()` waits for all of it, without one the command sleeps half a
second at a time and asks the clock. Time passes for the command only: how fast the runner is meanwhile is
left open, so that the timeout may come between any two of its steps. A second has `Second`
milliseconds, 2 for TLC.

### Lifecycle

Here a runner is only what others can see: it writes its pidfile in two steps, brings up
services one after the other, and cleans up. A `status`, `restart` or `logrotate` (an errand) reads a pidfile in one step
and probes or signals in another, with everything in between. `steady` are the runners that have been
there for all of it: what the errand says and whom it signals is judged by them. `possible`, chosen at the beginning from
`Surroundings`, says what else may happen: restarts, errands, a runner that cannot write
its pidfile, runners killed, unrelated processes that take free process ids. All commands are given by one user, who may signal his runners and services; an
unrelated process may be somebody else's, so that `kill()` may say EPERM (`Signalled`). `Discipline` says
when a start is given: at any time, after the others have returned, or moreover when their
pidfiles are written.

### LogPipe, LogsFollow

`LogContract` has the number of pieces written, the log, and a promise: pieces in order (calls may
fail), no gap (none does), or all of them (and `splice()` is supported). The refinement maps these
from the faults and the options, and the end from `pc`; pipe, descriptors, names and requests are
gone. `TypeOK` of `LogPipe`, `LogsFollow` and `Resolution`, and `StopTypeOK`, say what the variables
hold, and are not in the listed runs.

Pieces of output and lines are numbered. A log file is the period its name stands for and how
often a file of that name had been moved away when it was opened. inotify(7) does not report
changes in `/proc` on Linux (`proc_events` FALSE); the source expects it to (logs.c:156), so that
both are modelled.

### Paths and Resolution

A path is a sequence of `"/"`, `"."` and the other characters there are (`Letters`). Directories and files have
`PlainNames`, that is none of `""`, `"."` and `".."`, and none with a slash. Without a command there is nothing to
resolve; an empty one is refused by `join_path()` and `realpath()` alike (`AskedAssumption`). The loop of
`normpath_no_escape()` is a recursive function over its turns, with read and write index and
whether its assertions held; `abspath()` goes up the path as `dirend()` says. Both are compared
with `Walk`, which follows a path name by name. There are no symbolic links. Here `can_list` and `can_execute`
only look at existence and kind; rights are in `Access`.

### Limits, Access and Settings

The text of an option is a number, if it begins with one, and the rest. `strtol()` and its
relatives stop at the largest value of their type, `strtoul()` takes a minus sign, and a conversion to
a narrower type takes the remainder: `INT_MAX`, `LONG_MAX` and `LLONG_MAX` say how wide the types
are. `Settings` then goes step by step through the command (limits, numbers, users, the command's
rights, priority, the pidfile's rights) and the child (each limit, umask and output, chroot, groups,
group, user, `execv()`), each step with its failure. The reference says what an argument means as a
mathematical integer (`MeantBy`, `MeantIds`), and what a kernel that knows it would allow
(`Permitted`). Numbers below zero for a user or a group are excepted: `strtoul()` makes a large one of them, so that
`-u -18446744073709551615` is user 1. `RunsAsAsked` compares a running service with the former, `RefusalsAreRight` a
refused one with the latter.

A command has a path, the set of directories on the way to it, and `--chroot` and `--chdir` lead through others (`entered`). The kernel
wants the right to search each of them, for whoever asks: the starter when `stat()` looks (`stat`), the service's user when `execv()`
does (`Executes`). The rights `can_execute()` accepts are those of any class the user is in; the
kernel looks at the first only, and `Monotone` files are those where that is the same. What the kernel would let run is `Permitted`, with
supplementary groups and the privileges of root. The checks know of neither, so `RefusalsAreRight` is about what is also permitted without them
(`PermittedByRights`), and excepts what is denied because of a directory on the way; that both exceptions are needed is shown by
`RefusesNoPermitted` and `ChecksTheWay` in `InputsRefuted`. The second one is not harmless: for a root starter with `--user` it is a way into
the loop of `PrematureLoop`. The directories above those that are modelled (above the pidfile's, and above those that are entered) let
everybody through. `can_read_write()` also says yes for any starter of group 0; for those who are not root the `open()` in the runner
that may fail after that is not followed up.

### LogTemplate and HelpText

A template is checked by one `switch` and printed by another, 200 lines further on: `Accepted` and
`Directive`. The reference cuts it up by the table of README.md:70-110 (`Directives`, `Meaning`). `Decoded` is a reader of
JSON, XML, SQL or CSV, which refuses what these do not allow in a string (`Forbidden`), control characters among it. The encoders have cases for
some of these; `OtherControls` are those without. `LogLinesReadable` is about messages with none that an encoding
leaves raw (`LeftRaw`), and about pieces that do not name a day or month; `AllReadable` and `DaysAreDays` are what the documentation says, without these exceptions, and
are refuted (`ControlsRaw`, `DaysExchanged`). Characters beyond ASCII are not modelled: bytes from 0x80 on are printed as they are.

`print_wrapped_text` keeps the state of the C function (where it is, the
column, the indentation, whether the line is wrapped or the last word was dots) over its turns,
one word each (`PrintOn`). `HelpFits` only looks at the lines that come out: the words of the text; its lines, each as if
printed alone; no line too long that could be shorter, that is with two words that are not list marks (`Short`); and what
follows a break where the first line asks for it (`Hanging`, `Hangs`). That `HelpFits` says the last two of texts of one line is enough,
given the second.

### MCInputs

These modules do not interact: their variables are those of one command that is given paths,
settings, a template or a text, and it is the product of what they could be given that would be large. `InputsInit` varies one
of the four groups, and leaves the others plain; within `Given`, one set of options at a time.

## 3. Runs

At least one mutant per property violates it (see `PROJECT.json`).

| run | constants | distinct states | shows |
|---|---|---|---|
| `Supervise` | pidfds, FAILURE, pipe, 2 process ids, 3 signals of TERM/USR1/KILL, failing boot, fork, child and child's signal | 33,000 | ownership, the inductive invariant, and the liveness of exit, stop and restart |
| `SuperviseSigchld` | no pidfds, ALWAYS, pipe with heirs, manual rotation, crash reporter, QUIT/USR1/HUP | 216,000 | the contract is implemented; pidfile, failing children and clean exit |
| `SuperviseFaults` | pidfds, ALWAYS, `poll()`, `pidfd_open()` and the child's signal fail | 1,230,000 | what is left of the promises: a stop sticks, an unwatched service is killed |
| `StopRaces` | stop twice, with and without timeout, beside a restart | 96,000 | exit status 0 means gone |
| `StopWaits` | NEVER, fairness | 11,000 | stop returns, "not running" is true, a timeout leaves nothing |
| `Starts` | 3 starts, 3 process ids, two surroundings | 550,000 | one runner; status sees what runs, restart and logrotate reach it |
| `Logging` | 16 combinations of options and faults, pipe of 2, 4 pieces, 3 periods, 2 moves | 540,000 | the contract of the log, reopening, no blocked service |
| `Following` | 8 combinations, 3 lines, 3 files | 220,000 | every line once, none left, it ends |
| `Inputs` | paths up to 5, templates up to 5, texts up to 9 characters, 27,000 sets of settings | 594,000 | what is checked is what runs; settings, log lines and help are what was asked for |
| `StopSwallowed`, `LogOpenFails`, `ChrootElsewhere` | | | counterexamples, section 4 |

**Why these bounds are enough.** Two process ids are a service and its successor, or a stranger
that has taken a number: with at most one service at a time, a third adds nothing that could
be told apart; the theorems hold for any number. Three signals are a restart, a stop, and one that interrupts either. Three starts are
a runner, one that finds it, and one after both. With three process ids two runners at once would lack
room for the second service, but `OneRunner` already forbids the two runners. Two restarts of a
loop come of one restart; a pipe of two pieces and a buffer of one has a rest to leave; three
files are two rotations, the second before the first has been noticed. Paths of four or five
characters have room for a name, `..`, a doubled slash and one at the end, and the tree has
existing and missing directories and files at each level.

In `Inputs`, integers have 12 bits (`int`) and 16 bits (`long`): enough for every range the options
have, and few enough that `INT_MAX + 1`, `ULONG_MAX + 1` and -1 are among the numbers given, with each
bound and its neighbours. Two limits one after the other are enough for one to undo or forbid the next. Users are
root, one who is looked up, and one who is not there; files and the directories on the way belong to either, with every combination of
rights that a check looks at. Templates of up to three characters have every letter in every place behind a
`%`; longer ones have two directives. A message of three characters has an escape next to an escape, among them each that has a case and one control character without,
and with a buffer of four one is too long. Lines of 0 to 10 columns have no room, room for a letter, for
a word, for an indentation and a word, and for two words.

`Supervise` has its heirs off for `ComesBack` (a descendant that keeps the pipe keeps the service down,
see `HeirKeepsPipe`), and pidfds on for `ExitNoticed` and `ForeignUnharmed` (see `SupervisorRefuted`).
`StatusSeesRunning` and `OneServiceUnlessKilled` exclude killed runners, `Starts` only starts when
the last runner has its pidfile; what happens otherwise is section 4.

**Deadlock** is checked in every run; `Terminated`, `Done` and `Idle` are the ends a system may
come to.

**Fairness.** The runner is scheduled (`WF_vars(RunnerStep \/ RunnerFault)`: it goes on, whether
its calls succeed is open), so are its child and the delivery of a signal to a service. Nothing is
promised of the service (it need not end), of the senders of signals or of time. `stop`, `logs`
and the copying of the log are scheduled likewise. A service that is sent a stop signal may ignore
it only where `Reactions` has `ignore`; liveness is checked without that, as the program waits
for an unwilling service for ever by design.

## 4. Where the code does something else

### Findings, with a run each

- `StopSwallowed`: a stop that the runner accepts while its child, for the second service on,
  still has the runner's handlers is swallowed there (start.c:1205, 2127). The runner waits for a
  service that does not know.
- `LogOpenFails`: after `open()` of the next log file the old descriptor is tested
  (start.c:2274). A failure goes unnoticed, nobody reads the pipe, and the service blocks: until the next
  rotation in the program, for good in the model, where the periods are bounded.
- `ChrootElsewhere`: `dirend()` says 0 both for a path with no directory and for one directly below
  the root (util.c:66). `--chroot=/c` with no `/c` takes the directory `c` of the working directory.

### Further configurations

Not listed as runs in `PROJECT.json`: each is a configuration whose properties TLC refutes (`tlc -config NAME.cfg MODULE`).
TLC stops at the first one; for the others of the same configuration, remove those already seen.

Four of them are mistakes like those above:

- `PrematureLoop`: the SIGTERM by which a failing child is to stop its runner (start.c:1073-1081) is not permitted once the child of a
  root runner has changed its user. Where `execv()` fails after that, the service is started again for ever: the
  crash-restart-loop that the comment there says is prevented. README.md:135-137 warns of one when a limit cannot be set, where
  there is none, as limits come before the user (`CrashRestartLoop` in `SupervisorRefuted`).
- `StopTooLate`: without pidfds the timeout of stop, kept in milliseconds (stop.c:59), is compared with seconds (stop.c:187).
- `DaysExchanged`: `%a` and `%b`, `%ga` and `%gb` print each other's name (README.md:79-80, start.c:883-894).
- `ControlsRaw`: control characters without a case in `print_json_string()` and `print_xml_string()` go out as they are (start.c:337-339,
  395), and readers of JSON and XML refuse such lines.

All of them:

| configuration | module | property | what the trace shows |
|---|---|---|---|
| `SupervisorRefuted` | MCSupervisor | `ExitNoticed` | without pidfds, a SIGCHLD between the loop's test and `poll()` (start.c:2239) does not end `poll()` |
| `SupervisorRefuted` | MCSupervisor | `ForeignUnharmed` | without pidfds, a signal between waitpid() and the blocking (start.c:2351-2361; the comment there asks the question) goes to a recycled process id |
| `SupervisorRefuted` | MCSupervisor | `CrashRestartLoop` | a child that cannot set its limits stops its runner instead (start.c:1073, 2019-2031; README.md:135-137) |
| `PrematureLoop` | MCSupervisor | `FailureNotRestarted` | `execv()` fails, SIGTERM to the runner is not permitted, and the service is started again (start.c:1077, 2117-2120) |
| `HeirKeepsPipe` | MCSupervisor | `ComesBack` | a descendant that keeps the service's stdout keeps a crashed service down (start.c:2342; README.md:44-46) |
| `StopTooEarly` | MCStopCommand | `NotRunningMeansDown` | stop right after start finds no pidfile yet (tests/basic.test.sh:182-185 does so) |
| `StopStalePid` | MCStopCommand | `TimeoutLeavesNothing` | during a restart, stop kills the process id it read before (stop.c:260); the new service stays |
| `StopTooLate` | MCStopCommand | `KillsInTime` | SIGKILL comes when the timeout has been over for a second already (a second has two milliseconds here) |
| `StartTwice` | MCLifecycle | `OneRunner` | start returns before there is a pidfile (start.c:1875); a second one makes a second runner |
| `LifecycleRefuted` | MCLifecycle | `StartedMeansRunning` | status right after start answers 3 (tests/basic.test.sh:160-161 expects 0) |
| `LifecycleRefuted` | MCLifecycle | `AlreadyRunning` | a recycled process id is taken for the runner (start.c:1789) |
| `LifecycleRefuted` | MCLifecycle | `OnlyRunnersHit` | restart and logrotate signal whoever has the process id now (restart.c:107, logrotate.c:107) |
| `LifecycleRefuted` | MCLifecycle | `OneService` | a runner killed before its child has written the pidfile (start.c:1992): the next start does not see the service |
| `LogTailLost` | MCLogPipe | `NothingLost` | without splice(), what exceeds a buffer at hang-up is lost (start.c:2342) |
| `LogNotReopened` | MCLogPipe | `RequestReopens` | with a date in the file's name, a request does not reopen (start.c:2254) |
| `FollowStuck` | MCLogsFollow | `ShowsNew` | a rotation between open() and inotify_add_watch() (logs.c:180-201) goes unnoticed |
| `FollowSpins` | MCLogsFollow | `FollowEnds` | when the runner has no standard output any more, `modified` is never reset (logs.c:209-246, 335) |
| `FollowBreaks` | MCLogsFollow | `FollowGoesOn` | the watch of a removed old file is gone, and its removal fails (logs.c:195) |
| `DaysExchanged` | MCInputs | `DaysAreDays` | a template with `%a` prints the month |
| `ControlsRaw` | MCInputs | `AllReadable` | a message with an escape character, in JSON |
| `InputsRefuted` | MCInputs | `DocumentedLimitsWork` | README.md:129-130 allows INFINITY for both limits; as a soft limit it is refused (start.c:93-127) |
| `InputsRefuted` | MCInputs | `RunsAsAsked` | where `long` is narrower than `long long`, a large limit is truncated to a small one |
| `InputsRefuted` | MCInputs | `RefusesNoPermitted` | a command that the service may run by a supplementary group, or that root may run anyway, is refused (start.c:951-964) |
| `InputsRefuted` | MCInputs | `ChecksTheWay` | with `--user`, a command of mode 755 in a directory closed to that user passes `can_execute()`, since `stat()` is the starter's (start.c:942), and `execv()` fails |
| `InputsRefuted` | MCInputs | `FreesItsOwn` | a message longer than the buffer is cut off, and the buffer on the stack is given to `free()` (start.c:617, 910) |

## 5. Proofs

For every value of the constants: sets of process ids and starts, policies, options, sizes.

| module | theorem | property | assuming |
|---|---|---|---|
| `SupervisorProofs` | `TypeCorrect` | `TypeOK` | |
| | `StopKept` | `StopSticks` | |
| | `UnwatchedReaped` | `UnwatchedEnds` | |
| | `ServiceOwned` | `AtMostOneService` | `poll()` does not fail |
| | `NothingLeft` | `CleanExit` | the same |
| | `PidfileTrue` | `PidfileNamesService` | the same |
| | `PrematuresStop` | `PrematureNotRestarted` | the same |
| | `ContractKept` | `KeepsContract` | the same, and the runner is not sent SIGKILL |
| | `HandlersAimed` | `HandlerTarget` | pidfds; neither `poll()` nor `pidfd_open()` fails |
| | `NoneHarmed` | `ForeignUnharmed` | the same |
| | `InductiveHolds` | `Inductive` | the same |
| `StopCommandProofs` | `StopTypeCorrect` | `StopTypeOK` | |
| | `OneServiceBesideStop` | `AtMostOneService` | `poll()` does not fail |
| | `StoppedIsGone` | `StoppedMeansGone` | `poll()` does not fail, and nobody but stop sends SIGKILL |
| | `NotRunningIsDown` | `NotRunningMeansDown` | `poll()` does not fail; stop is given when the pidfile is written |
| | `TimeoutLeaves` | `TimeoutLeavesNothing` | `poll()` does not fail; the service is never started again |
| `LifecycleProofs` | `LifecycleInductive` | `Inductive` | |
| | `RunnerAlone` | `OneRunner` | a start is only given when the runner's pidfile is written |
| | `ServiceAlone` | `OneServiceUnlessKilled` | the same |
| | `RunnerFound` | `RunnerReachable` | the same |
| | `StatusTrue` | `StatusSeesRunning` | the same |
| | `SignalArrives` | `SignalReaches` | the same |
| `LogPipeProofs` | `RequestsKept` | `Reopened` | |
| | `LogKept` | `KeepsLog` | |
| | `LinesReadable` | `LogLinesReadable` | |
| `LogsFollowProofs` | `TypeCorrect` | `TypeOK` | |
| | `LinesInOrder` | `PrintsInOrder` | |
| | `NothingMissed` | `LeavesNothing` | |
| `ResolutionProofs` | `PathNormal` | each path has its normal form | |
| | `PlacesCorrect` | `TypeOK` | |
| | `Normalised` | `Normalises` | |
| | `CheckedRuns` | `RunsWhatWasChecked` | |
| | `Caged` | `StaysInside` | |
| | `AskedRuns` | `RunsWhatWasAsked` | |
| | `PidfileFound` | `SamePidfile` | |
| `InputsProofs` | `AsAsked` | `RunsAsAsked` | `LONG_MAX = LLONG_MAX` (a 64-bit process) |
| | `RightlyRefused` | `RefusalsAreRight` | the same, and no user or group has a number for its name |
| | `HelpPrinted` | `HelpFits` | |

The constants have the assumptions named `...Assumption` in their modules: what a set is a set of, and for `Limits` that the
integer types are no narrower than one another. `SpacesAssumption` is none about a constant: a space, a tab and a line end are
characters, which is so, but the provers do not know a string with a backslash to be a string. TLC evaluates all of them, in the
runs of their modules.

**Supervisor.** The assumptions are needed. When `poll()` fails the loop is left with a living service, and
without pidfds `HandlerTarget` and `ForeignUnharmed` are false (`SupervisorRefuted`). A killed runner restarts nothing and
decides nothing.

`StopSticks` follows from each step alone. None of the other properties is
inductive. At most one living service, for example,
is preserved by `Fork` only if there is no service left at the place where the runner forks, and
there is none because it left the loop only after `waitpid()` had reaped `service_pid`, which is
the only child. `Inductive` says so in five parts, besides the types:

- `Ownership`: a living or unreaped child is the one in `service_pid`, at those places of the
  runner where there may be one; past the clean-up there is none, and no pidfile.
- `PidfileNamesService`, the property itself, given `Ownership`.
- `Watched`: what `service_pid` and the poll set are, and which signals are blocked, at every place
  of the runner.
- `Targets`: wherever a handler can run, the pidfd is the child's (with pidfds only).
- `Prematures`: between the failure of a child that could signal its runner and the judgement, SIGTERM is pending for the
  runner or has been handled already.

Each is preserved by every step, given those before it: one lemma each, one step per action. TLC checks
`Inductive` in `Supervise`. `UnwatchedReaped` needs no more than that a child has just been forked where its pidfd is
opened. `ContractKept` maps every step of `Supervisor` to one of
`RestartContract` or to a stutter: `Fork` is its Start, `Judge` its Decide, the handlers its Stop and
AskRestart, everything else stutters.

**StopCommand.** `stop` signals, kills and removes by numbers it has read before, between any two steps of the runner, so
that the proofs begin with what it cannot disturb: `Ownership` (a kill makes a service end, and ends are
possible anyway). On top of it,

- `Aimed` says whom the command is after (the runner if it has seen one, else the number in the pidfile) and that it reports
  success only at the end of a wait;
- `Found`, that the runner is killed by stop alone and only after a timeout, so that a success without one means that the runner
  has left by itself, with `CleanExit`;
- `Down`, that from the first stop on a runner without its pidfile is a runner that is gone;
- `Once`, that without restarts there is one number in the life of the runner that the pidfile can hold or the command have read.

The assumptions are needed here, too: a second SIGKILL can remove the runner between the two halves of its clean-up, `StopTooEarly`
shows a stop before the pidfile, `StopStalePid` one that kills the predecessor of a service. What is on the clock is not proved: without pidfds
it is wrong (`StopTooLate`), and with them it is what was given to `poll()`.

**Lifecycle.** Two starts are kept apart by what each has read, not by a lock. `StartsExclude` says why that is
enough if starts are given one after the other: while a start looks around, a runner that lives is beyond its boot, and
either its pidfile has not been read yet or the start has found it in there; a runner that has not
written its pidfile is named by none, whichever process ids are recycled. That a start is given
late enough is needed (`StartTwice`). `Listed` gives every runner and service a process id of its
own, `PidfileCurrent` says that a service that is up is named by its pidfile, and `LearntTruth` that what an errand has read
and probed so far is true of a runner that stays: at each of its steps a bit more, up to exit status 0. TLC checks the
whole of `Inductive` in `Starts`.

**LogPipe.** `Requests` orders the moves of the file, the request, and the moment the log was opened.
`Copied` says that the pipe holds the last pieces and the log earlier ones, in their order, and all of
them if no call fails; `HungUp` that a pipe that has hung up is not written to, and empty after a
`splice()`. `LogKept` maps `Copy` to the contract's Copy or to a stutter if nothing is moved, the writes to its
Put, the end of the loop to its Finish, and everything else to stutters.

**LogsFollow.** That the printed lines are in order is not inductive: `InOrder` adds where the lines are (`Logged`: each
file after the one before), that what is printed comes before the rest of the file that is open and before all newer files
(`Before`), and that a file is only ever opened when it is newer than the last one (`At`). The latter fails
if changes of `/proc/PID/fd` are reported, which is why the property leaves these out. `LeavesNothing` does not: `Told` says
that as long as a file is not fully printed either it is still being written, or an event that says so is under way or has been noted,
or the command is on its way to read, and `Covered` what has been read at each place on that way.

**Resolution.** `Inductive` says what the variables are at each place, in terms of what was asked (`AsToChroot`,
`AsToChdir`, `AsToCommand`, `AsToPidfile`, `AsToPlace`). That it holds is simple, once a path that was resolved is known not to be
the empty sequence, which stands for "none". What remains is about paths of any length, trees of any size and any options:
that different ways of writing and joining paths lead to the same file. Two facts carry it. The first is
`PathNormal`: between two turns of its loop, `normpath_no_escape()` has written the text of a sequence of plain names, complete or
with a slash behind it, and these names followed by those that are still to be read lead where the whole path leads
(`Between`). The second is that `abspath()` leads where its argument does (`AbsPathFacts`), because `dirend()` only
ever cuts a path at a slash, and names before and behind a slash are those of the path (`ComponentsJoin`). It does not hold for an absolute
path of which not even the first directory exists, whence the condition in `RunsWhatWasAsked`, and `ChrootElsewhere`. `PidfileFound` needs one
thing more: a path that can be created passes through the same directories before and after it is resolved (`SameWays`).

The functions of `Paths` and `AbsPath` are recursive, and the library's theorems on induction take an operator
as a parameter, which these provers cannot instantiate. Here a set takes its place: the least
number that is not in it (`LeastNumber`) has all the smaller ones in it (`Climb`, `Descend`, `Mount`). `Iterates` and `BackwardExists` show likewise
that there is a function that satisfies a recursive definition, so that the `CHOOSE` behind it chooses one. TLC has checked
`Inductive` and `TypeOK` with the constants of `Inputs`.

**Settings.** `SettingsInvariant` follows the stages: what has been read of the options (`OptionsRead`, `ServiceKnown`), and
what the child has set so far (`LimitsSet`, `ProcessSet`, `CredentialsSet`), each in terms of the argument it came from. `AsAsked` then compares the conversion
of each argument with what it means as an integer; this is where the widths matter. On a machine where `long` is narrower
than `long long` it is false (`InputsRefuted`). `RightlyRefused` goes through every way to be refused and finds
something the kernel would have refused as well, or would only have let run by a supplementary group or as root; if a user's name is a
number, the lookup by that number may fail although there is
the user. `WantedRights` finds in what is permitted what the checks ask for: the way open to the starter, the rights of the command and the
directories with the service's user. `Monotone` and `Searches` are the
conditions that `RefusalsAreRight` itself states.

**Log lines.** The check of a template, its interpolation and the reference `Pieces` are three recursive functions over the places of
the template, each with its own idea of where the next piece begins. `LinesReadable` first shows that they exist (`ForwardExists`), and
then, from the end of the template to its beginning, that they agree from each place on (`Agree`): as long as no directive is
unknown they stop at the same places, the check collects the directives among the pieces, and what is printed are the pieces, but for the names of days and
months. For the encodings, `FlattenPlaces` says where in the line the code of each character begins.
There the reader finds this code and nothing else, since no escape is the beginning of another one and none begins with a
character that stands for itself (`KnownFacts`), and none of what is printed as it is is forbidden there, if the message has nothing that is left raw; so it gets back what comes behind, and before that this character
(`DecodeSteps`, `DecodedRight`).

**Help.** The state of `print_wrapped_text()` is mapped to what is on the paper. Three parts, as in `HelpFits`:

- Words. After each turn the words of the output are those of the text up to the place reached, since a break or a gap is only
  ever printed behind a whole word (`WordsKept`).
- Lines. A turn at a line end leaves the state a new text would begin with; so the turns in a text with a line end are those of
  its first line, and then those of the rest, moved by what is before them (`Moved`, `PrintJoined`). That every text is
  one line, or one line and such a rest, is `CutAtLineEnd`; `LinesKept` follows.
- A single line. As long as there is no break, the invariant is `FreshAt`: `indent` is what the line printed so far
  asks for (`Hanging`), `current` its width, `dots` whether its last word is dots, and if it is too long there are only list marks before its last word. What
  a line asks for changes with its last word alone (`HangingWord`, `HangingGap`); the source looks for it in the text, the reference in the
  line, which end alike (`SameEnd`). From the first
  break on it is `WrappedAt`: `indent` is what the first line asks for and stays, the lines behind which there is a break are done (`Short`, `Hangs`), and the
  last one is its indentation and what has been printed since (`Hung`). A line with one word that does not fit is never left by a second
  break with nothing on it, since a break is only printed where there is something to be printed behind it.

Induction over the turns, and over the characters of a text, goes by sets again (`Climb`).

**Only model-checked**: the liveness properties, as fairness is beyond the prover here, that is `ExitNoticed`, `StopEnds`,
`ComesBack`, `StopReturns`, `FaultlessDrained`, `ShowsReported` and `LogsEnds`.

## 6. Not modelled

- What the crash reporter is told, and the check that it may be executed (start.c:1719-1727); that it runs, and leaves
  a SIGCHLD behind, is in `Crashed`.
- `get_logfile_abspath()` and the check of the log file (start.c:1829-1848), which do for the log
  file what is modelled for the pidfile; `is_valid_name()`.
- stdio, `malloc()` and `localtime_r()` within handlers; the state of the C library is not modelled.
- In `--rlimit`, the length of a resource's name (start.c:83); in user lookup, the buffer that grows;
  failures of `dup2()`, `pipe()` and `clock_gettime()`.
- The wording of help and messages, wide and combining characters, breaking spaces other than blanks, tabs and line ends, and the choice of the command in main.
- A start in the foreground, which differs from a daemonized one only in who waits for it.
- `splice()` to a file that is open for appending, as the log is (start.c:1855, 2273), gives EINVAL on Linux: there the program takes the other branch, and what
  `KeepsLog` promises where `splice()` is supported rarely applies.
- Symbolic links, access control lists, and changes of the file system between check and use.
- The tests, the build and the init script, which are not part of the program.

## 7. Plan

Done: the supervision of the service first, as the heart of the program, with its contract and
proofs; then the commands that interfere with it (`StopCommand`, `Lifecycle`), the log
(`LogPipe`, `LogsFollow`), paths (`Resolution`); then what is given to the commands
(`Settings`, `LogTemplate`, `HelpText`), and the contract of the log. Every safety property of the passing runs is proved.

Next, in this order:

1. An abstract specification of `stop` (the service goes from up to down), and its refinement.
2. The log file's path and its check, and the crash reporter's, in `Resolution`.
