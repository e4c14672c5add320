----------------------------- MODULE Resolution -----------------------------
(***************************************************************************)
(* How `service-runner start' makes of --chroot, --chdir, --pidfile and    *)
(* the command the paths it checks (start.c:1578-1717), and what its child *)
(* makes of these paths (start.c:2065-2117): it has another root and       *)
(* another working directory by then.                                      *)
(***************************************************************************)
EXTENDS NormPath, AbsPath

CONSTANT Asked  \* the options: [chroot_path, chdir_path, command, pidfile], <<>> if not given

\* There is a command; an empty one is refused by join_path() and by realpath().
ASSUME AskedAssumption ==
    Asked \subseteq [chroot_path : Strings, chdir_path : Strings, command : Strings \ {NULL},
                     pidfile : Strings]

VARIABLES
    asked,
    chroot_path, chdir_path, command, pidfile,
    checked,    \* what can_execute() has been given
    root, cwd,  \* the root and the working directory of the process
    runs,       \* the file that execv() runs
    pc

paths == <<chroot_path, chdir_path, command, pidfile>>
where == <<root, cwd, runs>>
vars  == <<asked, paths, checked, where, pc>>

Places == {"options", "chroot", "chdir", "command", "check", "pidfile",
           "enter_root", "enter_dir", "exec"}

\* The process is in a directory that exists, and knows its paths by absolute names.
TypeOK ==
    /\ asked \in Asked
    /\ pc \in Places \union {"failed", "running"}
    /\ {root, cwd} \subseteq Dirs
    /\ runs # NULL => runs \in Files
    /\ chroot_path # NULL => IsAbsolute(chroot_path)
    /\ pc = "running" =>
        \A path \in {chdir_path, command, pidfile} : path # NULL => IsAbsolute(path)

NotYet ==
    /\ chroot_path = NULL /\ chdir_path = asked.chdir_path
    /\ command = asked.command /\ pidfile = asked.pidfile
    /\ checked = NULL
    /\ root = <<>> /\ cwd = Cwd /\ runs = NULL
    /\ pc = "options"

Init == asked \in Asked /\ NotYet
-----------------------------------------------------------------------------
\* join_path(): a slash between, unless there is one.
join_path(base, rel) ==
    IF Last(base) # "/" /\ rel[1] # "/" THEN base \o <<"/">> \o rel ELSE base \o rel

\* can_list() and can_execute(), but for the rights (see Access): stat() by the runner, which
\* has the root / and the working directory Cwd.
Listable(path)   == Found(path, {}) /\ Leads(path) \in Dirs
Executable(path) == Found(path, {}) /\ Leads(path) \in Files

Options ==
    /\ pc = "options"
    /\ chroot_path' = abspath(asked.chroot_path, {})
    /\ pc' = IF asked.chroot_path # NULL /\ chroot_path' = NULL THEN "failed" ELSE "chroot"
    /\ UNCHANGED <<asked, chdir_path, command, pidfile, checked, where>>

Chroot ==
    /\ pc = "chroot"
    /\ pc' = IF chroot_path # NULL /\ ~Listable(chroot_path) THEN "failed" ELSE "chdir"
    /\ UNCHANGED <<asked, paths, checked, where>>

NoChdir ==
    /\ pc = "chdir" /\ chdir_path = NULL
    /\ pc' = "command"
    /\ UNCHANGED <<asked, paths, checked, where>>

\* Within the new root.
FromRoot(path) == IF IsAbsolute(path) THEN path ELSE join_path(<<"/">>, path)

ChdirInRoot ==
    /\ pc = "chdir" /\ chdir_path # NULL /\ chroot_path # NULL
    /\ chdir_path' = normpath_no_escape(FromRoot(chdir_path))
    /\ pc' = IF Listable(join_path(chroot_path, chdir_path')) THEN "command" ELSE "failed"
    /\ UNCHANGED <<asked, chroot_path, command, pidfile, checked, where>>

Chdir ==
    /\ pc = "chdir" /\ chdir_path # NULL /\ chroot_path = NULL
    /\ chdir_path' = abspath(chdir_path, {})
    /\ pc' = IF chdir_path' # NULL /\ Listable(chdir_path') THEN "command" ELSE "failed"
    /\ UNCHANGED <<asked, chroot_path, command, pidfile, checked, where>>

\* The command as the service will see it.  Without the normalisation, a mutant of InRoot.
Joined(rel) ==
    IF IsAbsolute(rel) THEN rel
    ELSE join_path(IF chdir_path = NULL THEN <<"/">> ELSE chdir_path, rel)

InRoot(rel) == normpath_no_escape(Joined(rel))

CommandInRoot ==
    /\ pc = "command" /\ chroot_path # NULL
    /\ command' = InRoot(command)
    /\ checked' = join_path(chroot_path, command')
    /\ pc' = "check"
    /\ UNCHANGED <<asked, chroot_path, chdir_path, pidfile, where>>

\* Mutant of InDir: the command is looked up in the working directory of the runner.
InCwdAnyway(rel) == IF IsAbsolute(rel) THEN rel ELSE abspath(rel, {})

\* With --chdir, even an absolute command is below that directory.
InDir(rel) ==
    IF chdir_path # NULL THEN join_path(chdir_path, rel)
    ELSE IF IsAbsolute(rel) THEN rel ELSE abspath(rel, {})

Command ==
    /\ pc = "command" /\ chroot_path = NULL
    /\ command' = InDir(command)
    /\ checked' = command'
    /\ pc' = IF command' = NULL THEN "failed" ELSE "check"
    /\ UNCHANGED <<asked, chroot_path, chdir_path, pidfile, where>>

Check ==
    /\ pc = "check"
    /\ pc' = IF Executable(checked) THEN "pidfile" ELSE "failed"
    /\ UNCHANGED <<asked, paths, checked, where>>

\* Only a relative path is resolved; without one, the pidfile is /var/run/NAME.pid.
get_pidfile_abspath(path, new) ==
    IF path = NULL \/ IsAbsolute(path) THEN path ELSE abspath(path, new)

Pidfile ==
    /\ pc = "pidfile"
    /\ pidfile' = get_pidfile_abspath(pidfile, {})
    /\ pc' = IF pidfile # NULL /\ pidfile' = NULL THEN "failed" ELSE "enter_root"
    /\ UNCHANGED <<asked, chroot_path, chdir_path, command, checked, where>>

\* chroot() leaves the working directory where it is.
EnterRoot ==
    /\ pc = "enter_root"
    /\ root' = IF chroot_path # NULL THEN Leads(chroot_path) ELSE root
    /\ pc' = "enter_dir"
    /\ UNCHANGED <<asked, paths, checked, cwd, runs>>

\* Where a path leads in the root of the process: not out of it.
Inside(path) == root \o Walk(<<>>, Names(path))

EnterDir ==
    /\ pc = "enter_dir"
    /\ cwd' = IF chdir_path # NULL THEN Inside(chdir_path) ELSE cwd
    /\ pc' = "exec"
    /\ UNCHANGED <<asked, paths, checked, root, runs>>

\* execv(): a relative path would begin in cwd.
Exec ==
    /\ pc = "exec"
    /\ runs' = IF IsAbsolute(command) THEN Inside(command) ELSE Walk(cwd, Names(command))
    /\ pc' = "running"
    /\ UNCHANGED <<asked, paths, checked, root, cwd>>

Done == pc \in {"failed", "running"} /\ UNCHANGED vars

Next ==
    \/ Options \/ Chroot \/ NoChdir \/ ChdirInRoot \/ Chdir
    \/ CommandInRoot \/ Command \/ Check \/ Pidfile
    \/ EnterRoot \/ EnterDir \/ Exec
    \/ Done

Spec == Init /\ [][Next]_vars
-----------------------------------------------------------------------------
(* What the variables are at each place, in terms of what was asked.       *)

Entering == {"enter_root", "enter_dir", "exec", "running"}
Approved == Entering \union {"pidfile"}
Built    == Approved \union {"check"}

AsToChroot ==
    /\ asked \in Asked
    /\ chroot_path = IF pc = "options" THEN NULL ELSE abspath(asked.chroot_path, {})
    /\ pc \notin {"options", "failed"} /\ asked.chroot_path # NULL => chroot_path # NULL
    /\ pc \notin {"options", "chroot", "failed"} /\ chroot_path # NULL => Listable(chroot_path)

AsToChdir ==
    /\ pc \in {"options", "chroot", "chdir"} => chdir_path = asked.chdir_path
    /\ pc \in Built \union {"command"} \/ checked # NULL =>
        IF asked.chdir_path = NULL THEN chdir_path = NULL
        ELSE IF chroot_path # NULL
        THEN /\ chdir_path = normpath_no_escape(FromRoot(asked.chdir_path))
             /\ Listable(join_path(chroot_path, chdir_path))
        ELSE chdir_path = abspath(asked.chdir_path, {}) /\ Listable(chdir_path)
    /\ pc \in Built \union {"command"} /\ asked.chdir_path # NULL => chdir_path # NULL

AsToCommand ==
    /\ pc \in Places \ Built => command = asked.command /\ checked = NULL
    /\ checked # NULL =>
        /\ pc \in Built \union {"failed"}
        /\ command = IF chroot_path # NULL THEN InRoot(asked.command) ELSE InDir(asked.command)
        /\ checked = IF chroot_path # NULL THEN join_path(chroot_path, command) ELSE command
    /\ pc \in Built => checked # NULL
    /\ pc \in Approved => Executable(checked)

AsToPidfile ==
    /\ pc \in Places \ Entering => pidfile = asked.pidfile
    /\ pc \in Entering =>
        /\ pidfile = get_pidfile_abspath(asked.pidfile, {})
        /\ asked.pidfile # NULL => pidfile # NULL

AsToPlace ==
    /\ root = IF pc \in {"enter_dir", "exec", "running"} /\ chroot_path # NULL
              THEN Leads(chroot_path) ELSE <<>>
    /\ cwd = IF pc \in {"exec", "running"} /\ chdir_path # NULL THEN Inside(chdir_path) ELSE Cwd
    /\ runs = IF pc # "running" THEN NULL
              ELSE IF IsAbsolute(command) THEN Inside(command) ELSE Walk(cwd, Names(command))

Inductive ==
    /\ pc \in Places \union {"failed", "running"}
    /\ AsToChroot /\ AsToChdir /\ AsToCommand /\ AsToPidfile /\ AsToPlace
-----------------------------------------------------------------------------
\* What runs in the end is the file that was found to be executable in the beginning,
\* although both are named by different paths in different roots and directories.
RunsWhatWasChecked == pc = "running" => runs = Leads(checked)

\* What is checked and what is run is inside the new root, however often the options say "..".
StaysInside ==
    chroot_path # NULL =>
        LET In(f) == IsPrefix(Leads(chroot_path), f) IN
        /\ checked # NULL => In(Leads(checked))
        /\ pc = "running" => In(runs) /\ (chdir_path # NULL => In(cwd))

\* Where the options ask to run the command: a relative one from --chdir or, without it, from
\* the working directory or the new root ("The service binary path is relative to this PATH",
\* README.md:144-145); an absolute one there, too, but from the new root if there is one.
Wanted ==
    LET chroots == asked.chroot_path # NULL
        top == IF chroots THEN Leads(asked.chroot_path) ELSE <<>>
        dir == IF asked.chdir_path = NULL THEN (IF chroots THEN <<>> ELSE Cwd)
               ELSE IF chroots THEN Walk(<<>>, Names(asked.chdir_path))
               ELSE Leads(asked.chdir_path)
        from == IF IsAbsolute(asked.command) /\ (chroots \/ asked.chdir_path = NULL)
                THEN <<>> ELSE dir
    IN top \o Walk(from, Names(asked.command))

\* The service is the one that was asked for, if the directories that were exist.
RunsWhatWasAsked ==
    pc = "running"
        /\ (asked.chroot_path # NULL => Found(asked.chroot_path, {}))
        /\ (asked.chroot_path = NULL /\ asked.chdir_path # NULL => Found(asked.chdir_path, {}))
    => runs = Wanted

Creatable(path) ==
    /\ \A n \in 0 .. Len(Names(path)) - 1 : Way(path, n) \in Dirs
    /\ Leads(path) \notin Dirs

\* stop, given the same --pidfile in the same directory, looks at the file that start has
\* written, although there was none when start resolved the path.
SamePidfile ==
    pc = "running" /\ pidfile # NULL /\ Creatable(pidfile) =>
        /\ Leads(get_pidfile_abspath(asked.pidfile, {Leads(pidfile)})) = Leads(pidfile)
        /\ Leads(pidfile) = Leads(asked.pidfile)

\* For everything it is given here, the loop of normpath_no_escape() ends, stays within its
\* buffer and keeps its assert()s, and its result is the path without ".", ".." and doubled
\* slashes.
Normalises ==
    LET right(path) == Sound(path) /\ normpath_no_escape(path) = Normal(path) IN
    chroot_path # NULL =>
        /\ pc = "chdir" /\ chdir_path # NULL => right(FromRoot(chdir_path))
        /\ pc = "command" => right(Joined(command))

\* --chroot=PATH is PATH: an absolute path leads where it says (util.c:66).
ChrootIsAsked ==
    pc = "running" /\ asked.chroot_path # NULL => root = Leads(asked.chroot_path)
=============================================================================
