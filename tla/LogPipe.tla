------------------------------- MODULE LogPipe -------------------------------
(***************************************************************************)
(* The pipe between a service and its runner, and the log file the runner  *)
(* copies it to (start.c:2248-2345): rotation by the file's name, rotation *)
(* on request, and the end of the output.                                  *)
(*                                                                         *)
(* The pieces of output are numbered.  A log file is the period its name   *)
(* stands for and how often the file of that name had been moved away when *)
(* it was opened.                                                          *)
(***************************************************************************)
EXTENDS Integers, Sequences

CONSTANTS
    Options,    \* the options and surroundings a runner may be started with
    Capacity,   \* how much the pipe holds
    Buffer,     \* how much one read() takes (BUFSIZ)
    MaxData, MaxPeriods, MaxMoves   \* bounds: output, names, files moved away

ASSUME LogPipeAssumption ==
    /\ Options \subseteq [pattern : BOOLEAN, manual : BOOLEAN, splice : BOOLEAN,
                           faults : SUBSET {"open", "splice", "read", "write"}]
    /\ {Capacity, Buffer} \subseteq Nat \ {0} /\ Buffer <= Capacity
    /\ {MaxData, MaxPeriods, MaxMoves} \subseteq Nat

VARIABLES
    options,            \* those it has been started with
    pc,                 \* "poll", "rotate", "open", "copy", "hangup", "done"
    revents,            \* pollfds[POLLFD_PIPE].revents
    pipe,               \* what is in the pipe
    held,               \* somebody holds its write end
    written,            \* how much has been written to it
    log,                \* what is in the log files, in the order of writing
    logfile_fd,         \* the log file that is open
    logfile_path_buf,   \* the period of the name last opened
    new_logfile_path,   \* the name to (re-)open
    logrotate_issued,
    hup,                \* SIGHUP is pending
    period,             \* the current period
    moves,              \* how often the log file has been moved away
    asked, handled      \* `moves' when SIGHUP was last sent, and when last handled

files    == <<log, logfile_fd, logfile_path_buf, new_logfile_path>>
rotation == <<logrotate_issued, hup, moves, asked, handled>>
vars     == <<options, pc, revents, pipe, held, written, files, rotation, period>>

Pattern   == options.pattern    \* do_logrotate: the log file's name depends on the time
Manual    == options.manual     \* --manual-logrotate
CanSplice == options.splice     \* the file system of the log supports splice()
Faults    == options.faults     \* the calls that may fail

NoFile  == <<-1, -1>>
NoPath  == -1
Periods == 0 .. MaxPeriods
Moves   == 0 .. MaxMoves

\* The values of the variables; the name remembered is that of a period that has come.
TypeOK ==
    /\ options \in Options
    /\ pc \in {"poll", "rotate", "open", "copy", "hangup", "done"}
    /\ revents \subseteq {"IN", "HUP"}
    /\ pipe \in Seq(1 .. MaxData) /\ Len(pipe) <= Capacity
    /\ held \in BOOLEAN /\ written \in 0 .. MaxData
    /\ log \in Seq(1 .. MaxData)
    /\ logfile_fd \in (Periods \X Moves) \union {NoFile}
    /\ logfile_path_buf \in 0 .. period /\ new_logfile_path \in Periods \union {NoPath}
    /\ logrotate_issued \in BOOLEAN /\ hup \in BOOLEAN
    /\ period \in Periods /\ {moves, asked, handled} \subseteq Moves

Init ==
    /\ options \in Options
    /\ pc = "poll" /\ revents = {}
    /\ pipe = <<>> /\ held = TRUE /\ written = 0
    /\ log = <<>> /\ logfile_fd = <<0, 0>> /\ logfile_path_buf = 0
    /\ new_logfile_path = NoPath
    /\ logrotate_issued = FALSE /\ hup = FALSE
    /\ period = 0 /\ moves = 0 /\ asked = 0 /\ handled = 0
-----------------------------------------------------------------------------
(* The runner.                                                             *)

\* Mutant of Ready: output is not asked for.
ReadyHangUpOnly == IF held THEN {} ELSE {"HUP"}

Ready == (IF pipe # <<>> THEN {"IN"} ELSE {}) \union (IF held THEN {} ELSE {"HUP"})

Poll ==
    /\ pc = "poll" /\ Ready # {}
    /\ revents' = Ready
    /\ pc' = "rotate"
    /\ UNCHANGED <<pipe, held, written, files, rotation, period>>

\* The handler of SIGHUP.  It interrupts poll(); between the test of the loop and poll()
\* it does not keep poll() from waiting.
handles_logrotate ==
    /\ hup /\ Manual /\ pc # "done"
    /\ hup' = FALSE /\ logrotate_issued' = TRUE /\ handled' = asked
    /\ \/ pc = "poll" /\ pc' = "rotate" /\ revents' = {}
       \/ UNCHANGED <<pc, revents>>
    /\ UNCHANGED <<pipe, held, written, files, moves, asked, period>>

\* What to (re-)open, looked at when there is output or a request.
Rotate ==
    /\ pc = "rotate"
    /\ pc' = "open"
    /\ LET due == "IN" \in revents \/ logrotate_issued IN
       /\ new_logfile_path' =
            IF due /\ Pattern /\ period # logfile_path_buf THEN period
            ELSE IF ~Pattern /\ logrotate_issued THEN logfile_path_buf
            ELSE NoPath
       /\ logrotate_issued' = (logrotate_issued /\ Pattern)
    /\ UNCHANGED <<revents, pipe, held, written, log, logfile_fd, logfile_path_buf,
                   hup, moves, asked, handled, period>>

\* open() with O_CREAT: the file that has the name now.  Whether it failed is not
\* looked at: the old file is closed, and the new name is remembered.
Open ==
    /\ pc = "open"
    /\ pc' = "copy"
    /\ IF new_logfile_path = NoPath
       THEN UNCHANGED <<logfile_fd, logfile_path_buf>>
       ELSE /\ \/ logfile_fd' = <<new_logfile_path, moves>>
               \/ "open" \in Faults /\ logfile_fd' = NoFile
            /\ logfile_path_buf' = new_logfile_path
    /\ UNCHANGED <<revents, pipe, held, written, log, new_logfile_path, rotation, period>>

\* Mutant of Move: the output stays in the pipe.
MoveCopies(n, k) == UNCHANGED pipe /\ log' = log \o SubSeq(pipe, 1, k)

\* The first n pieces leave the pipe; the first k of them are written to the log.
Move(n, k) ==
    /\ pipe' = SubSeq(pipe, n + 1, Len(pipe))
    /\ log' = log \o SubSeq(pipe, 1, k)

\* splice() empties the pipe, or fails and leaves it as it is; where it is not supported,
\* one buffer is read and written.  If read() fails, the loop is left.
Copy ==
    /\ pc = "copy"
    /\ LET n == IF Len(pipe) < Buffer THEN Len(pipe) ELSE Buffer IN
       \/ /\ "IN" \notin revents \/ logfile_fd = NoFile \/ (CanSplice /\ "splice" \in Faults)
          /\ pc' = "hangup" /\ UNCHANGED <<pipe, log>>
       \/ /\ "IN" \in revents /\ logfile_fd # NoFile /\ CanSplice
          /\ pc' = "hangup" /\ Move(Len(pipe), Len(pipe))
       \/ /\ "IN" \in revents /\ logfile_fd # NoFile /\ ~CanSplice
          /\ \/ pc' = "hangup" /\ Move(n, n)
             \/ pc' = "hangup" /\ "write" \in Faults /\ \E k \in 0 .. n - 1 : Move(n, k)
             \/ pc' = "done" /\ "read" \in Faults /\ UNCHANGED <<pipe, log>>
    /\ UNCHANGED <<revents, held, written, logfile_fd, logfile_path_buf, new_logfile_path,
                   rotation, period>>

\* Mutant of HangUp: the request is off at the end of every turn.
HangUpResets ==
    /\ pc = "hangup"
    /\ pc' = IF "HUP" \in revents THEN "done" ELSE "poll"
    /\ logrotate_issued' = FALSE
    /\ UNCHANGED <<revents, pipe, held, written, files, hup, moves, asked, handled, period>>

\* A pipe that hung up is not polled again.
HangUp ==
    /\ pc = "hangup"
    /\ pc' = IF "HUP" \in revents THEN "done" ELSE "poll"
    /\ UNCHANGED <<revents, pipe, held, written, files, rotation, period>>
-----------------------------------------------------------------------------
(* The service, the administrator and the time.                            *)

Write ==
    /\ held /\ written < MaxData /\ Len(pipe) < Capacity
    /\ written' = written + 1
    /\ pipe' = Append(pipe, written')
    /\ UNCHANGED <<pc, revents, held, files, rotation, period>>

Release ==
    /\ held
    /\ held' = FALSE
    /\ UNCHANGED <<pc, revents, pipe, written, files, rotation, period>>

MoveFile ==
    /\ moves < MaxMoves
    /\ moves' = moves + 1
    /\ UNCHANGED <<pc, revents, pipe, held, written, files, logrotate_issued, hup, asked,
                   handled, period>>

\* service-runner logrotate
AskRotate ==
    /\ asked < moves /\ pc # "done"
    /\ hup' = TRUE /\ asked' = moves
    /\ UNCHANGED <<pc, revents, pipe, held, written, files, logrotate_issued, moves,
                   handled, period>>

NextPeriod ==
    /\ period < MaxPeriods
    /\ period' = period + 1
    /\ UNCHANGED <<pc, revents, pipe, held, written, files, rotation>>

Done == pc = "done" /\ UNCHANGED vars
-----------------------------------------------------------------------------
RunnerStep ==
    /\ Poll \/ handles_logrotate \/ Rotate \/ Open \/ Copy \/ HangUp
    /\ UNCHANGED options

World ==
    /\ Write \/ Release \/ MoveFile \/ AskRotate \/ NextPeriod
    /\ UNCHANGED options

Next == RunnerStep \/ World \/ Done

Spec == Init /\ [][Next]_vars

\* The runner is scheduled; nobody has to write, and nobody has to stop writing.
FairSpec == Spec /\ WF_vars(RunnerStep)
-----------------------------------------------------------------------------
\* The copying in the loop of start.c implements LogContract, however the log is rotated
\* and whichever calls fail: the log has the output in its order and nothing twice; if no
\* call fails nothing is left out, and where splice() is supported everything is there in
\* the end.
Contract == INSTANCE LogContract WITH
    promise <- IF Faults # {} THEN "order" ELSE IF CanSplice THEN "whole" ELSE "gapless",
    over <- pc = "done"

KeepsLog == Contract!Spec

\* Nothing is left in the pipe when the runner stops reading it.
NothingLost == pc = "done" => pipe = <<>>

\* When SIGHUP has been handled and the request is off, the open log file is not one that
\* had been moved away before the request, if the name does not change with the time.
Reopened ==
    ~Pattern /\ ~logrotate_issued /\ logfile_fd # NoFile /\ new_logfile_path = NoPath
        => logfile_fd[2] >= handled

\* A service that waits for room in the pipe gets it.
Drained == Len(pipe) = Capacity ~> (Len(pipe) < Capacity \/ pc = "done")

\* So it does if no call fails.
FaultlessDrained ==
    (Faults = {} /\ Len(pipe) = Capacity) ~> (Len(pipe) < Capacity \/ pc = "done")

\* When the runner sees a request for rotation, it opens the log file again: what
\* --manual-logrotate and the logrotate command are for.
RequestReopens ==
    [][pc = "rotate" /\ logrotate_issued /\ pc' = "open" => new_logfile_path' # NoPath]_vars
=============================================================================
