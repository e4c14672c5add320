------------------------------ MODULE NormPath ------------------------------
(***************************************************************************)
(* normpath_no_escape() (util.c): one pass over the path, with a read      *)
(* pointer that may go back to a slash and a write pointer that goes back  *)
(* over the last name.  A turn of its loop takes [src, dest, ok] to the    *)
(* next: the index of the read pointer, what has been written, and whether *)
(* the assert()s have held and the buffer has been large enough.           *)
(***************************************************************************)
EXTENDS Paths

\* The longest prefix that is empty or ends with a slash.
DropName(s) ==
    CHOOSE p \in {SubSeq(s, 1, n) : n \in 0 .. Len(s)} :
        /\ p = <<>> \/ Last(p) = "/"
        /\ \A n \in Len(p) + 1 .. Len(s) : s[n] # "/"

\* Mutant of StepBack: src is not decremented.
StayThere(path, i) == i

\* Back to the slash before i, if there is one.
StepBack(path, i) == IF Char(path, i - 1) = "/" THEN i - 1 ELSE i

AtDot(path, i)    == Char(path, i) = "." /\ Char(path, i + 1) \in {"/", ""}
AtDotDot(path, i) == /\ Char(path, i) = "." /\ Char(path, i + 1) = "."
                     /\ Char(path, i + 2) \in {"/", ""}

\* The slash behind the name that is dropped goes, then the name, then the slash before it,
\* unless that is the root.
DotDot(path, at) ==
    LET rest  == SkipSlashes(path, at.src + 2)
        up    == DropName(Front(at.dest))
        inner == Len(up) > 1 IN
    IF Len(at.dest) > 1
    THEN [src  |-> IF inner THEN StepBack(path, rest) ELSE rest,
          dest |-> IF inner THEN Front(up) ELSE up,
          ok   |-> at.ok /\ Last(at.dest) = "/"]
    ELSE [at EXCEPT !.src = rest]

Dot(path, at) ==
    LET rest == SkipSlashes(path, at.src + 1) IN
    IF Len(at.dest) > 1
    THEN [src  |-> StepBack(path, rest),
          dest |-> Front(at.dest),
          ok   |-> at.ok /\ Last(at.dest) = "/"]
    ELSE [at EXCEPT !.src = rest]

\* Slashes at the end are dropped.
Slash(path, at) ==
    LET rest == SkipSlashes(path, at.src) IN
    [at EXCEPT !.src = rest,
               !.dest = IF @ # <<>> /\ rest = Len(path) THEN @ ELSE Append(@, "/")]

Name(path, at) ==
    LET end == NameEnd(path, at.src) IN
    [at EXCEPT !.src = end, !.dest = @ \o SubSeq(path, at.src + 1, end)]

Turn(path, at) ==
    LET next ==
            IF at.src = Len(path) THEN at
            ELSE IF AtDotDot(path, at.src) THEN DotDot(path, at)
            ELSE IF AtDot(path, at.src) THEN Dot(path, at)
            ELSE IF Char(path, at.src) = "/" THEN Slash(path, at)
            ELSE Name(path, at)
    IN [next EXCEPT !.ok = @ /\ Len(next.dest) <= Len(path)]

\* After as many turns as the path has characters.
Loop(path) ==
    LET after[n \in 0 .. Len(path)] ==
            IF n = 0 THEN [src |-> 0, dest |-> <<>>, ok |-> TRUE] ELSE Turn(path, after[n - 1])
    IN after[Len(path)]

normpath_no_escape(path) ==
    IF Loop(path).dest = <<>> THEN <<".">> ELSE Loop(path).dest

\* The loop has ended by then, no assert() has failed, and the buffer was large enough.
Sound(path) == Loop(path).ok /\ Loop(path).src = Len(path)
=============================================================================
