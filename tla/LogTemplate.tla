----------------------------- MODULE LogTemplate -----------------------------
(***************************************************************************)
(* The lines service-runner itself writes to the log (start.c:277-913):    *)
(* the check of a --log-format template, its interpolation, which has      *)
(* tables of its own, and the four encodings of a message.                 *)
(*                                                                         *)
(* Templates and messages are sequences of characters; what is printed is  *)
(* a sequence of <<character>> and <<how, what>>: <<"j", "s">> is the      *)
(* message in JSON, <<"g", "Y">> the year in GMT, <<"", "l">> the level.   *)
(***************************************************************************)
EXTENDS Paths

CONSTANTS
    Templates, Messages, BufferSize,
    OtherControls       \* the control characters no encoder has a case for

\* The buffer has room for the terminating NUL.
ASSUME LogAssumption ==
    /\ Templates \subseteq CStrings /\ Messages \subseteq CStrings
    /\ BufferSize \in Nat \ {0}

VARIABLES
    template,
    message     \* the text to log, formatted

Written == template \in Templates /\ message \in Messages

\* Neither changes while it is printed.
LogSpec == Written /\ [][UNCHANGED <<template, message>>]_<<template, message>>

Encodings == {"j", "x", "q", "c"}
-----------------------------------------------------------------------------
\* The switch of is_valid_log_template(): the directive at the "%" at i, if it is one.
Accepted(i) ==
    LET c == Char(template, i + 1)
        d == Char(template, i + 2)
    IN IF c \in Encodings THEN (IF d \in {"s", "f", "l", "L"} THEN <<c, d>> ELSE <<>>)
       ELSE IF c = "g"
            THEN (IF d \in {"Y", "m", "d", "H", "M", "S", "t", "T", "a", "b"} THEN <<c, d>> ELSE <<>>)
       ELSE IF c \in {"s", "Y", "m", "d", "H", "M", "S", "z", "t", "T", "f", "n", "l", "L",
                      "h", "a", "b", "%"}
            THEN <<c>> ELSE <<>>

\* Every directive is known, and one of them has the message.
is_valid_log_template ==
    LET ok[i \in 0 .. Len(template)] ==
            IF Char(template, i) = "" THEN {}
            ELSE IF Char(template, i) # "%" THEN ok[i + 1]
            ELSE IF Accepted(i) = <<>> THEN {<<>>}
            ELSE {Accepted(i)} \union ok[i + 1 + Len(Accepted(i))]
    IN <<>> \notin ok[0] /\ ok[0] \intersect ({<<"s">>} \union {<<e, "s">> : e \in Encodings}) # {}
-----------------------------------------------------------------------------
\* The switches of print_log_template().  %a prints the month, %b the day of the week.
Swapped(d) == IF d = "a" THEN "b" ELSE IF d = "b" THEN "a" ELSE d

\* FORMAT_ARG: an encoded string.  A directive that is not known is printed as it is, and
\* what follows it is text.
Encoded(e, d) ==
    IF d \in {"s", "f", "l", "L"} THEN [out |-> <<<<e, d>>>>, used |-> 2]
    ELSE [out |-> <<<<"%">>, <<e>>>>, used |-> 1]

Greenwich(d) ==
    IF d \in {"Y", "m", "d", "H", "M", "S", "t", "T", "a", "b"}
    THEN [out |-> <<<<"g", Swapped(d)>>>>, used |-> 2] ELSE [out |-> <<<<"%">>, <<"g">>>>, used |-> 1]

\* What the "%" at i prints, and how many characters after it belong to it.
Directive(i) ==
    LET c == Char(template, i + 1)
        d == Char(template, i + 2)
    IN IF c = "" THEN [out |-> <<<<"%">>>>, used |-> 0]
       ELSE IF c \in Encodings THEN Encoded(c, d)
       ELSE IF c = "g" THEN Greenwich(d)
       ELSE IF c \in {"Y", "m", "d", "H", "M", "S", "z", "t", "T", "s", "f", "n", "l", "L",
                      "h", "a", "b"}
            THEN [out |-> <<<<"", Swapped(c)>>>>, used |-> 1]
       ELSE IF c = "%" THEN [out |-> <<<<"%">>>>, used |-> 1]
       ELSE [out |-> <<<<"%">>, <<c>>>>, used |-> 1]

print_log_template ==
    LET from[i \in 0 .. Len(template)] ==
            IF Char(template, i) = "" THEN <<>>
            ELSE IF Char(template, i) # "%" THEN <<<<Char(template, i)>>>> \o from[i + 1]
            ELSE Directive(i).out \o from[i + 1 + Directive(i).used]
    IN from[0]

\* A message that does not fit is formatted again, into a buffer that hides the first one
\* within the block: it is the first that is printed, as far as it goes, and freed.
Fits    == Len(message) < BufferSize
Printed == IF Fits THEN message ELSE SubSeq(message, 1, BufferSize - 1)
Freed   == IF Fits THEN "nothing" ELSE "stack"
-----------------------------------------------------------------------------
(* The encodings: what becomes of a character.                             *)

Backspace == "BS"

\* Control characters that have a case, and the letters for them.
ShortEscapes == [c \in {"\r", "\n", "\t", "\f", Backspace} |->
                    CASE c = "\r" -> "r" [] c = "\n" -> "n" [] c = "\t" -> "t" [] c = "\f" -> "f" [] OTHER -> "b"]

json(c) ==
    CASE c \in {"\\", "\"", "/"} -> <<"\\", c>>
      [] c \in DOMAIN ShortEscapes -> <<"\\", ShortEscapes[c]>>
      [] c = "<"  -> <<"\\", "u", "0", "0", "3", "c">>
      [] c = ">"  -> <<"\\", "u", "0", "0", "3", "e">>
      [] OTHER    -> <<c>>

xml(c) ==
    CASE c = "&"  -> <<"&", "a", "m", "p", ";">>
      [] c = "\"" -> <<"&", "q", "u", "o", "t", ";">>
      [] c = "'"  -> <<"&", "#", "3", "9", ";">>
      [] c = "<"  -> <<"&", "l", "t", ";">>
      [] c = ">"  -> <<"&", "g", "t", ";">>
      [] c = "\r" -> <<"&", "#", "1", "3", ";">>
      [] c = "\n" -> <<"&", "#", "1", "0", ";">>
      [] OTHER    -> <<c>>

sql(c) == IF c = "'" THEN <<c, c>> ELSE <<c>>

\* Mutant of csv: the quotes of a message are left alone.
csvAsIs(c) == <<c>>

csv(c) == IF c = "\"" THEN <<c, c>> ELSE <<c>>

EncodedWith(e, text) ==
    FlattenSeq([i \in DOMAIN text |->
        CASE e = "j" -> json(text[i]) [] e = "x" -> xml(text[i])
          [] e = "q" -> sql(text[i]) [] e = "c" -> csv(text[i])])
-----------------------------------------------------------------------------
(* The reference: what README.md:70-110 says, and what a reader decodes.   *)

\* All directives; those of two letters after a "g" are in GMT.
Directives ==
    {<<"%", l>> : l \in {"Y", "m", "d", "H", "M", "S", "z", "t", "T", "f", "n", "l", "L", "h", "a",
                         "b", "s", "%"}}
    \union {<<"%", "g", l>> : l \in {"Y", "m", "d", "H", "M", "S", "t", "T", "a", "b"}}
    \union {<<"%", e, l>> : e \in Encodings, l \in {"s", "f", "l", "L"}}

\* What a directive prints.
Meaning(p) ==
    IF p = <<"%", "%">> THEN <<"%">> ELSE IF Len(p) = 2 THEN <<"", p[2]>> ELSE <<p[2], p[3]>>

Unknown == <<"", "unknown">>

\* The template, piece by piece.
Pieces ==
    LET from[i \in 0 .. Len(template)] ==
            LET heads == {p \in Directives : IsPrefix(p, SubSeq(template, i + 1, Len(template)))} IN
            IF i = Len(template) THEN <<>>
            ELSE IF heads # {} THEN LET p == CHOOSE p \in heads : TRUE IN <<Meaning(p)>> \o from[i + Len(p)]
            ELSE IF template[i + 1] = "%" THEN <<Unknown>>
            ELSE <<<<template[i + 1]>>>> \o from[i + 1]
    IN from[0]

Prints(pieces, what) == \E i \in DOMAIN pieces : pieces[i] = what

\* Up to the character that ends a string of that encoding: the text, and where that is.
Quote(e) == CASE e \in {"j", "c"} -> "\"" [] e = "q" -> "'" [] e = "x" -> "<"

\* The escapes of RFC 8259 and of XML, as far as they can occur here.
Escapes(e) ==
    IF e = "j" THEN << << <<"\\", "u", "0", "0", "3", "c">>, "<">>, << <<"\\", "u", "0", "0", "3", "e">>, ">">>,
                       << <<"\\", "r">>, "\r">>, << <<"\\", "n">>, "\n">>, << <<"\\", "t">>, "\t">>,
                       << <<"\\", "f">>, "\f">>, << <<"\\", "b">>, Backspace>>,
                       << <<"\\", "\\">>, "\\">>, << <<"\\", "\"">>, "\"">>, << <<"\\", "/">>, "/">> >>
    ELSE IF e = "x" THEN << << <<"&", "a", "m", "p", ";">>, "&">>, << <<"&", "q", "u", "o", "t", ";">>, "\"">>,
                            << <<"&", "#", "3", "9", ";">>, "'">>, << <<"&", "l", "t", ";">>, "<">>,
                            << <<"&", "g", "t", ";">>, ">">>, << <<"&", "#", "1", "3", ";">>, "\r">>,
                            << <<"&", "#", "1", "0", ";">>, "\n">> >>
    ELSE << << <<Quote(e), Quote(e)>>, Quote(e)>> >>

\* What may not stand in a string as it is: JSON takes no control character, XML but the tab
\* and the line break (and the carriage return, which it reads as a line break).
Forbidden(e) ==
    LET controls == DOMAIN ShortEscapes \union OtherControls IN
    IF e = "j" THEN {"\\"} \union controls
    ELSE IF e = "x" THEN {"&"} \union (controls \ {"\t", "\n"})
    ELSE {}

\* A character that only begins an escape stands for nothing by itself.
Decoded(e, line) ==
    LET from[i \in 0 .. Len(line)] ==
            LET known == {k \in DOMAIN Escapes(e) : IsPrefix(Escapes(e)[k][1], SubSeq(line, i + 1, Len(line)))} IN
            IF i = Len(line) THEN <<"open">>
            ELSE IF known # {}
            THEN LET k == CHOOSE k \in known : TRUE IN <<Escapes(e)[k][2]>> \o from[i + Len(Escapes(e)[k][1])]
            ELSE IF line[i + 1] = Quote(e) THEN (IF i + 1 = Len(line) THEN <<>> ELSE <<"ended">>)
            ELSE IF line[i + 1] \in Forbidden(e) THEN <<"bad">> ELSE <<line[i + 1]>> \o from[i + 1]
    IN from[0]

ReadBack(e, text) == Decoded(e, Append(EncodedWith(e, text), Quote(e))) = text

\* The control characters that an encoding leaves raw (start.c:337-339, 395).
LeftRaw(e) ==
    IF e = "j" THEN OtherControls
    ELSE IF e = "x" THEN {"\f", Backspace} \union OtherControls
    ELSE {}

NamesDayOrMonth(piece) == Len(piece) = 2 /\ piece[2] \in {"a", "b"}

\* A template is accepted if and only if all its directives are known and one has the message,
\* and each of its pieces is then printed as documented, but for the names of days and months
\* (see DaysAreDays); and a reader of JSON, XML, SQL or CSV gets a message back from the line,
\* unless it has control characters that are left raw (see AllReadable) (start.c:446-523
\* against 646-906; 277-444).
LogLinesReadable ==
    /\ is_valid_log_template <=>
        /\ ~Prints(Pieces, Unknown)
        /\ \E e \in Encodings \union {""} : Prints(Pieces, <<e, "s">>)
    /\ is_valid_log_template =>
        /\ Len(print_log_template) = Len(Pieces)
        /\ \A i \in DOMAIN Pieces : NamesDayOrMonth(Pieces[i]) \/ print_log_template[i] = Pieces[i]
    /\ \A e \in Encodings : (\A i \in DOMAIN Printed : Printed[i] \notin LeftRaw(e)) => ReadBack(e, Printed)
    /\ Fits => Printed = message

\* "%a .... local time abbreviated day in the week name", "%b .... local time abbreviated
\* month name" (README.md:79-80).
DaysAreDays == is_valid_log_template => print_log_template = Pieces

\* "%js ... JSON encoded log message", "%xs ... XML encoded log message" (README.md:98-99):
\* a reader gets back whatever was encoded.
AllReadable == \A e \in Encodings : ReadBack(e, Printed)

\* free_msg says that there is something to free: what malloc() has returned (start.c:910).
FreesItsOwn == Freed # "stack"
=============================================================================
