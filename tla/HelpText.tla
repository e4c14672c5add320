------------------------------ MODULE HelpText ------------------------------
(***************************************************************************)
(* print_wrapped_text() (help.c:295-521), which prints the help for a      *)
(* terminal of linelen columns: it breaks lines between words, and indents *)
(* what follows a break to where the text began that was broken: behind    *)
(* its indentation, a list mark, two spaces, or the dots of a definition.  *)
(*                                                                         *)
(* Other breaking spaces than " ", "\t" and "\n", and characters that are  *)
(* not one column wide, are not told from letters.  Char() is 0-based.     *)
(***************************************************************************)
EXTENDS Paths

CONSTANTS HelpTexts, LineLengths

ASSUME HelpAssumption == HelpTexts \subseteq CStrings /\ LineLengths \subseteq Nat

VARIABLES text, linelen

Typeset == text \in HelpTexts /\ linelen \in LineLengths

\* Neither changes while it is printed.
HelpSpec == Typeset /\ [][UNCHANGED <<text, linelen>>]_<<text, linelen>>

Spaces == {" ", "\t", "\n"}

\* To the provers a string with an escape is not a string.
ASSUME SpacesAssumption == Spaces \subseteq Characters

find_word_end(s, i) ==
    CHOOSE j \in i .. Len(s) :
        Char(s, j) \in Spaces \union {""} /\ \A k \in i .. j - 1 : Char(s, k) \notin Spaces

\* The end of a line counts as a word.
find_word_start(s, i) ==
    CHOOSE j \in i .. Len(s) :
        Char(s, j) \notin {" ", "\t"} /\ \A k \in i .. j - 1 : Char(s, k) \in {" ", "\t"}

Width(c) == CASE c = "\t" -> 8 [] c = "\n" -> 0 [] OTHER -> 1

count_graphemes(s) ==
    LET upto[n \in 0 .. Len(s)] == IF n = 0 THEN 0 ELSE upto[n - 1] + Width(s[n])
    IN upto[Len(s)]

is_all_dots(word) == Len(word) >= 3 /\ \A i \in DOMAIN word : word[i] = "."

print_spaces(n) == [i \in 1 .. n |-> " "]

\* An indentation, which is dropped if it leaves no room.
Begin(at, space, room) ==
    LET width == IF count_graphemes(space) >= room THEN 0 ELSE count_graphemes(space) IN
    [at EXCEPT !.index = @ + Len(space), !.indent = width, !.current = width,
               !.wrapped = FALSE, !.dots = FALSE,
               !.out = @ \o IF count_graphemes(space) >= room THEN <<>> ELSE space]

Break(at) == [at EXCEPT !.out = @ \o <<"\n">> \o print_spaces(at.indent),
                        !.current = at.indent, !.wrapped = TRUE]

\* Mutant of Overflows: the indentation is not part of the line.
OverflowsIndented(at, width, room) ==
    at.current - at.indent + width > room /\ at.current > at.indent

\* A word that does not fit stays where it is if nothing is before it.
Overflows(at, width, room) == at.current + width > room /\ at.current > at.indent

IsBullet(word) == word \in {<<"-">>, <<"*">>, <<"+">>}

\* Where a break in what follows, or in the word itself, is to be indented to.
Indent(s, at, word) ==
    LET before(n) == IF at.index >= n THEN Char(s, at.index - n) ELSE "" IN
    IF IsBullet(word) /\ at.current = at.indent THEN at.current + 2
    ELSE IF \/ before(2) \in {" ", "\t"} /\ before(1) = " "
            \/ before(1) = "\t"
            \/ at.dots
         THEN at.current
    ELSE at.indent

Word_(s, from, room) ==
    LET end   == find_word_end(s, from.index)
        word  == SubSeq(s, from.index + 1, end)
        next  == find_word_start(s, end)
        space == SubSeq(s, end + 1, next)
        at    == IF Overflows(from, count_graphemes(word), room) THEN Break(from) ELSE from
        after == [at EXCEPT !.index = next, !.out = @ \o word,
                            !.current = @ + count_graphemes(word),
                            !.indent = IF at.wrapped THEN @ ELSE Indent(s, at, word),
                            !.dots = IF at.wrapped THEN @ ELSE is_all_dots(word)]
    IN IF after.current + count_graphemes(space) < room
       THEN [after EXCEPT !.out = @ \o space, !.current = @ + count_graphemes(space)]
       ELSE IF Char(s, next) \in {"\n", ""} THEN after ELSE Break(after)

NewLine(s, at, room) ==
    Begin([at EXCEPT !.index = @ + 1, !.out = Append(@, "\n")],
          SubSeq(s, at.index + 2, find_word_start(s, at.index + 1)), room)

PrintOn(s, at, room) ==
    IF Char(s, at.index) = "" THEN at
    ELSE IF Char(s, at.index) = "\n" THEN NewLine(s, at, room)
    ELSE Word_(s, at, room)

Nothing == [index |-> 0, indent |-> 0, current |-> 0, wrapped |-> FALSE, dots |-> FALSE, out |-> <<>>]

\* A turn prints one word, or the end of a line: there are no more than characters.
Turns(s, room) ==
    LET after[n \in 0 .. Len(s)] ==
            IF n = 0 THEN Begin(Nothing, SubSeq(s, 1, find_word_start(s, 0)), room)
            ELSE PrintOn(s, after[n - 1], room)
    IN after

print_wrapped_text(s, room) == Turns(s, room)[Len(s)].out
-----------------------------------------------------------------------------
(* What it is to do (help.c:416-432), said of the lines that come out.     *)

\* Where the words of a text begin, counted from 0.
Starts(s) ==
    {i \in 0 .. Len(s) - 1 : Char(s, i) \notin Spaces /\ (i = 0 \/ Char(s, i - 1) \in Spaces)}

WordAt(s, i) == SubSeq(s, i + 1, find_word_end(s, i))

Words(s) ==
    LET upto[n \in 0 .. Len(s)] ==
            IF n = 0 THEN <<>>
            ELSE IF n - 1 \in Starts(s) THEN Append(upto[n - 1], WordAt(s, n - 1))
            ELSE upto[n - 1]
    IN upto[Len(s)]

LinesOf(s) ==
    LET upto[n \in 0 .. Len(s)] ==
            IF n = 0 THEN <<<<>>>>
            ELSE IF s[n] = "\n" THEN Append(upto[n - 1], <<>>)
            ELSE Append(Front(upto[n - 1]), Append(Last(upto[n - 1]), s[n]))
    IN upto[Len(s)]

\* The words up to the one at i are list marks, one space apart.
ListMark(line, i) ==
    \A k \in Starts(line) : k <= i =>
        /\ IsBullet(WordAt(line, k))
        /\ k < i => Char(line, k + 1) = " " /\ k + 2 \in Starts(line)

\* A word behind a tab, two spaces, or dots.
SetOff(line, i) ==
    \/ i >= 1 /\ Char(line, i - 1) = "\t"
    \/ i >= 2 /\ Char(line, i - 2) \in {" ", "\t"} /\ Char(line, i - 1) = " "
    \/ LET before == Words(SubSeq(line, 1, i)) IN before # <<>> /\ is_all_dots(Last(before))

\* The columns in the first line that its last mark asks to indent to.
Hanging(line, base) ==
    LET marks == {i \in Starts(line) : ListMark(line, i) \/ SetOff(line, i)}
        last  == CHOOSE i \in marks : \A j \in marks : j <= i
    IN IF marks = {} THEN base
       ELSE count_graphemes(SubSeq(line, 1, last)) + (IF ListMark(line, last) THEN 2 ELSE 0)

\* The indentation of a text of one line.
Margin(s, room) ==
    LET width == count_graphemes(SubSeq(s, 1, find_word_start(s, 0))) IN
    IF width >= room THEN 0 ELSE width

\* A line is too long only if it has one word, besides list marks.
Short(line, i, room) ==
    count_graphemes(line) > room =>
        \A k \in 1 .. Len(Words(line)) - 1 : i = 1 /\ IsBullet(Words(line)[k])

\* A line after a break is indented as the first one asks for, and has something on it.
Hangs(line, first, base) == find_word_start(line, 0) = Hanging(first, base) /\ Words(line) # <<>>

\* No word is lost, split or moved, and no line end of the text; no line is too long that could
\* be shorter; and the lines after a break are indented alike.
HelpFits ==
    LET out   == print_wrapped_text(text, linelen)
        lines == LinesOf(out)
        own   == LinesOf(text)
    IN
    /\ Words(out) = Words(text)
    /\ lines = FlattenSeq([i \in DOMAIN own |-> LinesOf(print_wrapped_text(own[i], linelen))])
    /\ Len(own) = 1 =>
        /\ \A i \in DOMAIN lines : Short(lines[i], i, linelen)
        /\ \A i \in 2 .. Len(lines) : Hangs(lines[i], lines[1], Margin(text, linelen))
=============================================================================
