-------------------------------- MODULE Paths --------------------------------
(***************************************************************************)
(* Paths as sequences of the characters "/", "." and letters, and what     *)
(* they denote: the reference for NormPath and AbsPath.                    *)
(***************************************************************************)
EXTENDS Integers, Sequences, SequencesExt

CONSTANT Letters    \* the characters of names, but for the dot

ASSUME LettersAssumption == Letters \intersect {"", "/", "."} = {}

Chars   == Letters \union {"/", "."}
Strings == Seq(Chars)

\* The names that directories and files can have.
PlainNames ==
    {n \in Strings : /\ n # <<>> /\ n # <<".">> /\ n # <<".", ".">>
                     /\ \A k \in 1 .. Len(n) : n[k] # "/"}

\* C strings.
Characters == STRING \ {""}
CStrings   == Seq(Characters)

\* path[i] of C, counted from 0; "" is the terminating NUL.
Char(path, i) == IF i < Len(path) THEN path[i + 1] ELSE ""

IsAbsolute(path) == Char(path, 0) = "/"

\* The first index from i on with something else than a slash.
SkipSlashes(path, i) ==
    CHOOSE j \in i .. Len(path) :
        Char(path, j) # "/" /\ \A k \in i .. j - 1 : Char(path, k) = "/"

\* The first index from i on with a slash, or the end.
NameEnd(path, i) ==
    CHOOSE j \in i .. Len(path) :
        Char(path, j) \in {"/", ""} /\ \A k \in i .. j - 1 : Char(path, k) # "/"

\* The names between the slashes.
Components(path) ==
    LET from[i \in 0 .. Len(path)] ==
            IF Char(path, i) = "" THEN <<>>
            ELSE IF Char(path, i) = "/" THEN from[i + 1]
            ELSE LET end == NameEnd(path, i) IN <<SubSeq(path, i + 1, end)>> \o from[end]
    IN from[0]

\* Where one gets from the directory `from', a sequence of names, by the given names;
\* ".." in the root is the root.
Walk(from, names) ==
    LET at[n \in 0 .. Len(names)] ==
            IF n = 0 THEN from
            ELSE LET before == at[n - 1] IN
                 IF names[n] = <<".">> THEN before
                 ELSE IF names[n] = <<".", ".">>
                      THEN SubSeq(before, 1, Len(before) - 1)
                 ELSE Append(before, names[n])
    IN at[Len(names)]

\* The text of a sequence of names.
Text(names, absolute) ==
    LET body == FlattenSeq([n \in 1 .. Len(names) |->
                               IF n = 1 THEN names[n] ELSE <<"/">> \o names[n]])
    IN IF absolute THEN <<"/">> \o body ELSE IF body = <<>> THEN <<".">> ELSE body

Normal(path) == Text(Walk(<<>>, Components(path)), IsAbsolute(path))

\* All paths of at most n characters.
PathsUpTo(n, chars) == UNION {[1 .. k -> chars] : k \in 0 .. n}
=============================================================================
