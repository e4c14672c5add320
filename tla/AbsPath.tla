------------------------------- MODULE AbsPath -------------------------------
(***************************************************************************)
(* abspath() (util.c): the absolute path of a file that may not exist yet. *)
(* The longest leading part of the path that exists is resolved and the    *)
(* rest appended.                                                          *)
(***************************************************************************)
EXTENDS Paths

CONSTANTS
    Cwd,    \* the working directory, a sequence of names
    Dirs,   \* the directories there are, as such sequences (there are no symbolic links)
    Files   \* the executable files there are

ASSUME AbsPathAssumption ==
    /\ Cwd \in Dirs /\ Dirs \intersect Files = {}
    /\ Dirs \union Files \subseteq Seq(PlainNames)
    /\ \A f \in Dirs \union Files : f # <<>> => SubSeq(f, 1, Len(f) - 1) \in Dirs

Base(path) == IF IsAbsolute(path) THEN <<>> ELSE Cwd

\* A slash at the end stands for a directory.
Names(path) ==
    Components(path) \o (IF path # <<>> /\ Last(path) = "/" THEN <<<<".">>>> ELSE <<>>)

\* Where the path leads, and where its first n names do.
Leads(path)   == Walk(Base(path), Names(path))
Way(path, n)  == Walk(Base(path), SubSeq(Names(path), 1, n))

\* Every directory on the way is there, and the last file, too (with those in `new').
Found(path, new) ==
    /\ \A n \in 0 .. Len(Names(path)) - 1 : Way(path, n) \in Dirs
    /\ Leads(path) \in Dirs \union Files \union new

\* ENOTDIR: the first on the way that is not a directory is a file.
ThroughFile(path, new) ==
    \E n \in 0 .. Len(Names(path)) - 1 :
        /\ Way(path, n) \in Files \union new
        /\ \A m \in 0 .. n - 1 : Way(path, m) \in Dirs

realpath(path) == Text(Leads(path), TRUE)

\* Back from index i to one whose character is (not) a slash, or to 0.
BackOverSlashes(p, i) == CHOOSE j \in 0 .. i :
    /\ j = 0 \/ Char(p, j) # "/"
    /\ \A k \in j + 1 .. i : Char(p, k) = "/"

BackOverName(p, i) == CHOOSE j \in 0 .. i :
    /\ j = 0 \/ Char(p, j) = "/"
    /\ \A k \in j + 1 .. i : Char(p, k) # "/"

BackOverDoubled(p, i) == CHOOSE j \in 0 .. i :
    /\ j = 0 \/ Char(p, j - 1) # "/"
    /\ \A k \in j .. i - 1 : Char(p, k) = "/"

\* The index of the slash behind the directory part, 0 if there is none.
dirend(p) ==
    IF p = <<>> THEN 0
    ELSE BackOverDoubled(p, BackOverName(p, BackOverSlashes(p, Len(p) - 1)))

\* What follows the directory.  Mutant: the slashes between are not skipped, one is lost.
RestOfCut(path, index) == SubSeq(path, index + 3, Len(path))
Rest(path, index)      == SubSeq(path, SkipSlashes(path, index) + 1, Len(path))

\* The path without any directory that exists, below the working directory.
UnderCwd(path) == Text(Cwd, TRUE) \o <<"/">> \o path

NULL == <<>>

\* From the path up to index `cut' on, with a shorter one in each turn.
Parent(path, new) ==
    LET from[cut \in 0 .. Len(path)] ==
            LET index == dirend(SubSeq(path, 1, cut))
                dir   == SubSeq(path, 1, index) IN
            IF index = 0 THEN UnderCwd(path)
            ELSE IF Found(dir, new) THEN realpath(dir) \o <<"/">> \o Rest(path, index)
            ELSE IF ThroughFile(dir, new) THEN NULL
            ELSE from[index]
    IN from[Len(path)]

\* `new': the files that have been made since.
abspath(path, new) ==
    IF path = <<>> \/ ThroughFile(path, new) THEN NULL
    ELSE IF Found(path, new) THEN realpath(path)
    ELSE Parent(path, new)
=============================================================================
