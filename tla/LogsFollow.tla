----------------------------- MODULE LogsFollow -----------------------------
(***************************************************************************)
(* `service-runner logs [--follow]' (logs.c:112-338).  The command finds   *)
(* the log file as the runner's standard output, /proc/PID/fd/1, prints    *)
(* what is in it and, if it is to follow, waits for inotify events: of     *)
(* that file (more output, or closed after writing) and of the directory   *)
(* /proc/PID/fd (another standard output, or the runner is gone).          *)
(*                                                                         *)
(* Lines of output are numbered; file n is the n-th log file of the runner.*)
(* Of the unread events only the set matters: inotify merges equal ones.   *)
(***************************************************************************)
EXTENDS Integers, Sequences

CONSTANTS
    Options,        \* the options and surroundings the command may be started with
    MaxLines, MaxFiles  \* bounds: lines of output, log files

ASSUME LogsFollowAssumption ==
    /\ Options \subseteq [follow : BOOLEAN, proc_events : BOOLEAN, unlinks : BOOLEAN]
    /\ MaxLines \in Nat /\ MaxFiles \in Nat \ {0}

Files  == 1 .. MaxFiles
NoFile == 0

VARIABLES
    options,        \* those it has been started with
    runner,         \* "up", "zombie" or "reaped"
    current,        \* the file that is its standard output
    closing,        \* the last one, as long as it is its standard error, too
    content,        \* per file: the lines in it
    lines,          \* how many lines there are
    unlinked,       \* files without a name
    pc,
    logfile_fd,     \* the file that is open
    offset,         \* how many lines have been read of it
    logfile_meta,   \* the file st_dev and st_ino stand for
    stdout_wd,      \* the file that is watched
    events,         \* unread events
    noted,          \* procdir_attrib and stdout_close
    modified, newfile, pidgone,
    printed

world  == <<runner, current, closing, content, lines, unlinked>>
Follow     == options.follow        \* --follow
ProcEvents == options.proc_events   \* inotify reports changes of /proc/PID/fd
Unlinks    == options.unlinks       \* old log files may be removed

opened == <<logfile_fd, offset, logfile_meta, stdout_wd>>
flags  == <<modified, newfile, pidgone>>
vars   == <<options, world, pc, opened, events, noted, flags, printed>>

\* The values of the variables; the file that is open is one the runner has had, and no more
\* has been read of it than is there.
TypeOK ==
    /\ options \in Options
    /\ runner \in {"up", "zombie", "reaped"}
    /\ current \in Files /\ closing \in 0 .. current - 1 /\ unlinked \subseteq Files
    /\ content \in [Files -> Seq(1 .. MaxLines)] /\ lines \in 0 .. MaxLines
    /\ pc \in {"top", "open", "watch", "read", "wait", "stat", "done", "failed"}
    /\ logfile_fd \in 0 .. current /\ logfile_meta \in 0 .. current /\ stdout_wd \in 0 .. current
    /\ offset \in Nat
    /\ logfile_fd # NoFile => offset <= Len(content[logfile_fd])
    /\ events \subseteq {"modify", "close", "create", "attrib"}
    /\ noted \subseteq {"close", "attrib"}
    /\ modified \in BOOLEAN /\ newfile \in BOOLEAN /\ pidgone \in BOOLEAN
    /\ printed \in Seq(1 .. MaxLines)

Init ==
    /\ options \in Options
    /\ runner = "up" /\ current = 1 /\ closing = NoFile
    /\ content = [f \in Files |-> <<>>] /\ lines = 0 /\ unlinked = {}
    /\ pc = "top" /\ logfile_fd = NoFile /\ offset = 0 /\ logfile_meta = NoFile
    /\ stdout_wd = NoFile /\ events = {} /\ noted = {}
    /\ modified = TRUE /\ newfile = FALSE /\ pidgone = FALSE
    /\ printed = <<>>
-----------------------------------------------------------------------------
(* The command.                                                            *)

Ended == pc \in {"done", "failed"}

\* What is there to do?  Without an open file, to open one.
Top ==
    /\ pc = "top"
    /\ pc' = IF ~modified /\ ~newfile THEN "wait"
             ELSE IF logfile_fd = NoFile THEN "open" ELSE "read"
    /\ IF newfile /\ ~modified /\ logfile_fd = NoFile
       THEN modified' = TRUE /\ newfile' = FALSE
       ELSE UNCHANGED <<modified, newfile>>
    /\ UNCHANGED <<world, opened, events, noted, pidgone, printed>>

\* A runner that has ended has no standard output (ENOENT).
Open ==
    /\ pc = "open"
    /\ IF runner = "up"
       THEN logfile_fd' = current /\ logfile_meta' = current /\ offset' = 0
       ELSE UNCHANGED <<logfile_fd, logfile_meta, offset>>
    /\ pc' = IF Follow THEN "watch" ELSE IF runner = "up" THEN "read" ELSE "failed"
    /\ UNCHANGED <<world, stdout_wd, events, noted, flags, printed>>

\* The file that is watched has no name and is open nowhere: the watch is gone with it.
WatchLost ==
    /\ stdout_wd \in unlinked
    /\ stdout_wd # logfile_fd /\ (stdout_wd # current \/ runner # "up")
    /\ stdout_wd # closing

\* The old watch goes, with its unread events, and a new one comes, if there is a file.
Rewatch ==
    /\ pc = "watch" /\ ~WatchLost
    /\ stdout_wd' = IF runner = "up" THEN current ELSE NoFile
    /\ events' = events \ {"modify", "close"}
    /\ pc' = "read"
    /\ UNCHANGED <<world, logfile_fd, offset, logfile_meta, noted, flags, printed>>

RewatchFails ==
    /\ pc = "watch" /\ WatchLost
    /\ pc' = "failed"
    /\ UNCHANGED <<world, opened, events, noted, flags, printed>>

\* Mutants of Rest: the file is read from its beginning; a buffer that is not full is dropped.
RestAgain  == content[logfile_fd]
RestOfFull == SubSeq(content[logfile_fd], offset + 1, Len(content[logfile_fd]) - 1)

Rest == SubSeq(content[logfile_fd], offset + 1, Len(content[logfile_fd]))

\* Everything that is in the file is printed; if there is a new file, this one is closed.
Read ==
    /\ pc = "read"
    /\ IF logfile_fd # NoFile /\ modified
       THEN printed' = printed \o Rest /\ offset' = Len(content[logfile_fd])
       ELSE UNCHANGED <<printed, offset>>
    /\ IF logfile_fd # NoFile /\ newfile
       THEN logfile_fd' = NoFile /\ newfile' = FALSE /\ modified' = TRUE /\ pc' = "top"
       ELSE /\ UNCHANGED <<logfile_fd, newfile>>
            /\ modified' = (modified /\ logfile_fd = NoFile) /\ pc' = "wait"
    /\ UNCHANGED <<world, logfile_meta, stdout_wd, events, noted, pidgone>>

\* Mutant of Wait: IN_MODIFY is not looked at.
WaitForClose ==
    /\ pc = "wait" /\ Follow /\ ~pidgone /\ events # {}
    /\ modified' = (modified \/ "create" \in events)
    /\ newfile' = (newfile \/ "create" \in events)
    /\ noted' = events \intersect {"close", "attrib"}
    /\ events' = {}
    /\ pc' = "stat"
    /\ UNCHANGED <<world, opened, pidgone, printed>>

\* All unread events at once.  poll() waits for the first.
Wait ==
    /\ pc = "wait" /\ Follow /\ ~pidgone /\ events # {}
    /\ modified' = (modified \/ events \intersect {"modify", "create"} # {})
    /\ newfile' = (newfile \/ "create" \in events)
    /\ noted' = events \intersect {"close", "attrib"}
    /\ events' = {}
    /\ pc' = "stat"
    /\ UNCHANGED <<world, opened, pidgone, printed>>

\* Is the runner still there, and is its standard output still the file that was opened?
Stat ==
    /\ pc = "stat"
    /\ pidgone' = ("attrib" \in noted /\ runner = "reaped")
    /\ newfile' = (newfile \/ ("close" \in noted /\ (runner # "up" \/ current # logfile_meta)))
    /\ noted' = {}
    /\ pc' = IF pidgone' /\ ~modified THEN "done" ELSE "top"
    /\ UNCHANGED <<world, opened, events, modified, printed>>

\* Mutant of Finish: it is followed although it was not asked for.
FinishFollowing ==
    /\ pc = "wait" /\ pidgone
    /\ pc' = IF modified THEN "top" ELSE "done"
    /\ UNCHANGED <<world, opened, events, noted, flags, printed>>

\* There is nothing to wait for.
Finish ==
    /\ pc = "wait" /\ (~Follow \/ pidgone)
    /\ pc' = IF Follow /\ modified THEN "top" ELSE "done"
    /\ UNCHANGED <<world, opened, events, noted, flags, printed>>
-----------------------------------------------------------------------------
(* The runner, its service, and the administrator.                         *)

Command == <<pc, opened, noted, flags, printed>>
Report(new) == events' = events \union new

Write ==
    /\ runner = "up" /\ closing = NoFile /\ lines < MaxLines
    /\ lines' = lines + 1
    /\ content' = [content EXCEPT ![current] = Append(@, lines')]
    /\ Report(IF stdout_wd = current THEN {"modify"} ELSE {})
    /\ UNCHANGED <<runner, current, closing, unlinked, Command>>

\* dup2(logfile_fd, STDOUT_FILENO)
Rotate ==
    /\ runner = "up" /\ closing = NoFile /\ current < MaxFiles
    /\ current' = current + 1 /\ closing' = current
    /\ Report(IF ProcEvents THEN {"create"} ELSE {})
    /\ UNCHANGED <<runner, content, lines, unlinked, Command>>

\* dup2(logfile_fd, STDERR_FILENO): nobody writes to the last file any more.
CloseOld ==
    /\ closing # NoFile
    /\ closing' = NoFile
    /\ Report(IF stdout_wd = closing THEN {"close"} ELSE {})
    /\ UNCHANGED <<runner, current, content, lines, unlinked, Command>>

Exit ==
    /\ runner = "up" /\ closing = NoFile
    /\ runner' = "zombie"
    /\ Report(IF stdout_wd = current THEN {"close"} ELSE {})
    /\ UNCHANGED <<current, closing, content, lines, unlinked, Command>>

Reaped ==
    /\ runner = "zombie"
    /\ runner' = "reaped"
    /\ Report(IF ProcEvents THEN {"attrib"} ELSE {})
    /\ UNCHANGED <<current, closing, content, lines, unlinked, Command>>

Unlink ==
    /\ Unlinks
    /\ \E f \in 1 .. current - 1 : unlinked' = unlinked \union {f}
    /\ UNCHANGED <<runner, current, closing, content, lines, events, Command>>

Idle == (Ended \/ runner = "reaped") /\ UNCHANGED vars
-----------------------------------------------------------------------------
Step ==
    /\ Top \/ Open \/ Rewatch \/ RewatchFails \/ Read \/ Wait \/ Stat \/ Finish
    /\ UNCHANGED options

Runner == (CloseOld \/ Reaped) /\ UNCHANGED options

Others == (Write \/ Rotate \/ Exit \/ Unlink) /\ UNCHANGED options

Next == Step \/ Runner \/ Others \/ Idle

Spec == Init /\ [][Next]_vars

\* The command is scheduled, and the runner finishes what it is at.
FairSpec == Spec /\ WF_vars(Step) /\ WF_vars(Runner)
-----------------------------------------------------------------------------
\* No line is printed twice or after a later one, over all rotations, as long as these are
\* noticed by the end of the old file only, as on Linux: an event of /proc/PID/fd makes the
\* command read a file again that it has just opened.
PrintsInOrder ==
    ~ProcEvents => \A i \in 1 .. Len(printed) - 1 : printed[i] < printed[i + 1]

Printed(f) == \A n \in 1 .. Len(content[f]) : \E i \in 1 .. Len(printed) : printed[i] = content[f][n]

\* When it follows, the command never turns from a file, for another one or to end, before it
\* has printed all the lines of it.
LeavesNothing ==
    [][\A f \in Files :
          ~Ended /\ logfile_fd = f /\ (logfile_fd' = NoFile \/ (Follow /\ pc' = "done"))
              => Printed(f)']_vars

LastLine(f, n) ==
    runner = "up" /\ current = f /\ content[f] # <<>> /\ content[f][Len(content[f])] = n

Shown(f, n) ==
    Ended \/ runner # "up" \/ current # f \/ \E i \in 1 .. Len(printed) : printed[i] = n

\* --follow: "Output new logs as they are written".  A line in the log file of a runner that
\* is up is printed, unless the log is rotated once more before.
ShowsNew == \A n \in 1 .. MaxLines, f \in Files : LastLine(f, n) ~> Shown(f, n)

\* So it is for the first log file, and over rotations where they are reported.
ShowsReported ==
    \A n \in 1 .. MaxLines, f \in Files :
        ((f = 1 \/ ProcEvents) /\ LastLine(f, n)) ~> Shown(f, n)

\* The command ends when the runner has ended: what the watch of /proc/PID/fd is for
\* ("IN_ATTRIB for unlink").
FollowEnds == runner = "reaped" ~> Ended

\* Without --follow it always ends.
LogsEnds == ~Follow ~> Ended

\* Following goes on through a rotation: no call fails because of it.
FollowGoesOn == pc # "failed"
=============================================================================
