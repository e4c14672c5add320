------------------------------ MODULE MCInputs ------------------------------
(***************************************************************************)
(* What is given to `service-runner start' and `help': the paths, the      *)
(* settings, what is logged or the help text vary, while the others are    *)
(* plain.                                                                  *)
(*                                                                         *)
(* Paths: all short ones in a small tree.  The working directory is /b:    *)
(*     directories   /  /a  /a/a  /b  /b/a  /b/c                           *)
(*     files         /a/b  /a/a/b  /b/b  /b/a/b  /b/c/b                    *)
(***************************************************************************)
EXTENDS Resolution, Settings, LogTemplate, HelpText

CONSTANTS Len1, Len2, Len3    \* bounds: the length of a pidfile's path, of the others, of templates

A == <<"a">>
B == <<"b">>
C == <<"c">>
InCwd    == <<B>>
AllDirs  == {<<>>, <<A>>, <<A, A>>, <<B>>, <<B, A>>, <<B, C>>}
AllFiles == {<<A, B>>, <<A, A, B>>, <<B, B>>, <<B, A, B>>, <<B, C, B>>}

AskedPidfiles ==
    [chroot_path : {NULL}, chdir_path : {NULL}, command : {B},
     pidfile : PathsUpTo(Len1, {"/", ".", "a", "b"})]

AskedCommands ==
    [chroot_path : {NULL, <<"/", "a">>, <<"a">>, <<"/", "a", "/", "a">>, <<"/", "c">>},
     chdir_path : PathsUpTo(Len2, {"/", ".", "a"}),
     command : PathsUpTo(Len2, {"/", ".", "b"}) \ {NULL}, pidfile : {NULL}]

AskedAll == AskedPidfiles \union AskedCommands
-----------------------------------------------------------------------------
Root == [uid |-> 0, gid |-> 0, groups |-> {2}]
User == [uid |-> 1, gid |-> 1, groups |-> {2}]
Ids  == {[name |-> Word("one"), id |-> 1], [name |-> Word("two"), id |-> 2]}

\* The resources FSIZE and NOFILE.
Limited == [r \in {1, 7} |-> IF r = 1 THEN [cur |-> RLIM_INFINITY, max |-> RLIM_INFINITY]
                             ELSE [cur |-> 4, max |-> 8]]

FilesOf(owners, rights) ==
    [dir : {FALSE}, uid : owners, gid : {1, 2}, usr : rights, grp : rights, oth : rights]
Folder(file) == [file EXCEPT !.dir = TRUE]
Anybodys     == CHOOSE file \in FilesOf({0}, {{"r", "w", "x"}}) : TRUE

Plain == [limits |-> <<>>, priority |-> Nil, umask |-> Nil, sleep |-> Nil, user |-> Nil,
          group |-> Nil, chroots |-> FALSE, rotates |-> FALSE, self |-> Root,
          command |-> Anybodys, path |-> {}, entered |-> {}, pidfile |-> NoFile,
          parent |-> Folder(Anybodys)]

\* The members of Given whose fields have these values.
Varied(of) ==
    [limits : of.limits, priority : of.priority, umask : of.umask, sleep : of.sleep,
     user : of.user, group : of.group, chroots : of.chroots, rotates : of.rotates,
     self : {Root, User}, command : of.command, path : of.path, entered : of.entered,
     pidfile : of.pidfile, parent : of.parent]

Only == [field \in DOMAIN Plain |-> {Plain[field]}]

\* One limit, by name or number, well-formed or not; two that follow each other.
Named == {Word("FSIZE"), Word("NOFILE"), Word("FILES"), Empty, Number(7), Number(6),
          Number(INT_MAX + 1), Number(-1), [Number(7) EXCEPT !.rest = "x"]}
Softs == {Number(n) : n \in {-1, 0, 5, 8, 9, LLONG_MAX, LLONG_MAX + 1}}
            \union {Empty, Word("INFINITY"), [Number(5) EXCEPT !.rest = "k"]}
Hards == {Number(n) : n \in {-1, 0, 5, 9}} \union {Empty, Word("INF"), Word("none")}
One == {<<n, s>> : n \in Named, s \in Softs}
          \union {<<n, s, h>> : n \in Named, s \in Softs, h \in Hards}
          \union {<<Number(7)>>, <<Number(7), Number(5), Number(5), Empty>>}
Few == {<<n, Number(s)>> : n \in {Word("NOFILE"), Word("FSIZE"), Number(7)}, s \in {5, 9}}
          \union {<<n, Number(s), Number(h)>> : n \in {Word("NOFILE"), Number(1)}, s \in {4, 6}, h \in {4, 6}}

GivenLimits ==
    Varied([Only EXCEPT !.limits = {<<l>> : l \in One} \union (Few \X Few), !.rotates = BOOLEAN])

Numbers(numbers) == {Nil, Empty, Word("high")} \union {Number(n) : n \in numbers}

GivenNumbers ==
    Varied([Only EXCEPT !.priority = Numbers({-21, -20, -1, 0, 19, 20, ULONG_MAX}),
                        !.umask    = Numbers({-1, 0, 63, 511, 512, ULONG_MAX + 1}),
                        !.sleep    = Numbers({-1, 0, UINT_MAX, UINT_MAX + 1, ULONG_MAX + 1})])

\* As whom it is started, and what the rights of the command are.
Persons == {Nil, Empty, Word("one"), Word("nobody"), Number(2), Number(3), Number(-1),
            Number(-ULONG_MAX)}
Execs   == {{}, {"x"}}

GivenIds ==
    Varied([Only EXCEPT !.user = Persons, !.group = Persons, !.chroots = BOOLEAN,
                        !.command = FilesOf({0, 1}, Execs) \union {Folder(Anybodys)}])

\* And those of a directory on the way to it, or of one to enter.
Own == {Nil, Word("one")}
OneFolder(owners, rights) == {{Folder(file)} : file \in FilesOf(owners, rights)}

GivenPaths ==
    Varied([Only EXCEPT !.user = Own, !.group = Own, !.path = OneFolder({0, 1}, Execs),
                        !.command = FilesOf({1}, Execs)])
GivenEntered ==
    Varied([Only EXCEPT !.user = Own, !.group = Own, !.chroots = BOOLEAN,
                        !.entered = OneFolder({0, 1}, Execs) \union {{NoFile}, {Anybodys}}])

\* And those of the pidfile, or of its directory.
GivenPidfiles ==
    Varied([Only EXCEPT !.pidfile = FilesOf({0, 1}, SUBSET {"r", "w"}) \union {Folder(Anybodys)},
                        !.parent = {Folder(file) : file \in FilesOf({1}, Execs)}])
GivenParents ==
    Varied([Only EXCEPT !.parent = {Folder(file) : file \in FilesOf({0, 1}, {{}, {"w"}, {"w", "x"}})}])

GivenAll ==
    GivenLimits \union GivenNumbers \union GivenIds \union GivenPaths \union GivenEntered
        \union GivenPidfiles \union GivenParents
-----------------------------------------------------------------------------
\* Log lines: all short templates, and longer ones of some letters; and all short messages.
TemplateChars == {"%", "j", "x", "q", "c", "g", "s", "Y", "z", "t", "f", "l", "n", "a", "b", "h", "?", "\r"}
AllTemplates ==
    UNION {[1 .. n -> TemplateChars] : n \in 0 .. 3} \union UNION {[1 .. n -> {"%", "s", "j", "g", "a"}] : n \in 4 .. Len3}
AllMessages ==
    UNION {[1 .. n -> {"a", "\"", "'", "\\", "/", "<", ">", "&", ";", "\n", "\r", "\t", "\f", "BS", "ESC"}] : n \in 0 .. 3}
-----------------------------------------------------------------------------
\* Help texts: all short ones, and longer ones of words, list marks, dots or lines.
AllTexts ==
    UNION {[1 .. n -> {"a", " ", ".", "-", "\n", "\t"}] : n \in 1 .. 4}
        \union UNION {[1 .. n -> {"a", " ", mark}] : n \in 5 .. 6, mark \in {"-", "*", "+"}}
        \union UNION {[1 .. n -> {"a", " ", "."}] : n \in 5 .. 7}
        \union [1 .. 5 -> {"a", " ", "\n"}]
        \union UNION {[1 .. n -> {"a", " "}] : n \in 7 .. 9}
Columns == {0, 3, 4, 6, 10}
-----------------------------------------------------------------------------
PlainAsked == [chroot_path |-> NULL, chdir_path |-> NULL, command |-> B, pidfile |-> NULL]

NoText  == text = <<>> /\ linelen = 0
NoLine  == template = <<>> /\ message = <<>>
NoPath  == asked = PlainAsked /\ NotYet
NoGiven == given = Plain /\ Fresh

InputsInit ==
    \/ Init /\ NoGiven /\ NoLine /\ NoText
    \/ NoPath /\ SettingsInit /\ NoLine /\ NoText
    \/ NoPath /\ NoGiven /\ Written /\ (template = <<>> \/ message = <<>>) /\ NoText
    \/ NoPath /\ NoGiven /\ NoLine /\ Typeset

inputs == <<vars, settings, template, message, text, linelen>>

InputsNext ==
    /\ UNCHANGED <<template, message, text, linelen>>
    /\ \/ NoLine /\ NoText /\ given = Plain /\ Next /\ UNCHANGED settings
       \/ NoLine /\ NoText /\ asked = PlainAsked /\ SettingsNext /\ UNCHANGED vars
       \/ ~(NoLine /\ NoText) /\ UNCHANGED inputs

InputsSpec == InputsInit /\ [][InputsNext]_inputs
=============================================================================
