-------------------------- MODULE ResolutionProofs ---------------------------
(***************************************************************************)
(* For all paths: normpath_no_escape() writes their normal form, abspath() *)
(* and join_path() lead where they should, and what `service-runner start' *)
(* makes of its options is where Resolution says.  The recursive functions *)
(* of Paths and AbsPath are taken apart by induction over places: the      *)
(* least number that is no member of a set (SequenceFacts).                *)
(***************************************************************************)
EXTENDS Resolution, SequenceFacts

\* A character of a path, and the end of it.
LEMMA CharType ==
    ASSUME NEW path \in Seq(Chars), NEW i \in Nat
    PROVE  /\ ~(i < Len(path)) => Char(path, i) = ""
           /\ i < Len(path) => path[i + 1] \in Chars /\ Char(path, i) = path[i + 1]
           /\ i < Len(path) => Char(path, i) # ""
           /\ Len(path) \in Nat /\ Char(path, Len(path)) = ""
<1>1. i < Len(path) => path[i + 1] \in Chars
  OBVIOUS
<1>2. "" \notin Chars
  BY LettersAssumption DEF Chars
<1>3. Len(path) \in Nat /\ ~(Len(path) < Len(path))
  OBVIOUS
<1>. QED  BY <1>1, <1>2, <1>3 DEF Char

\* A slash, and the end of a name.
AtSlash(path, i) == Char(path, i) = "/"

AtEnd(path, i)   == Char(path, i) \in {"/", ""}

\* Where the slashes end.
LEMMA SkipSlashesResult ==
    ASSUME NEW path \in Seq(Chars), NEW i \in 0 .. Len(path)
    PROVE  /\ SkipSlashes(path, i) \in i .. Len(path)
           /\ ~AtSlash(path, SkipSlashes(path, i))
           /\ \A k \in i .. SkipSlashes(path, i) - 1 : AtSlash(path, k)
<1>. DEFINE Ends == {j \in i .. Len(path) : ~AtSlash(path, j)}
<1>1. i \in Nat /\ Len(path) \in Nat /\ Len(path) \in i .. Len(path)
  OBVIOUS
<1>2. ~AtSlash(path, Len(path))
  BY CharType DEF AtSlash
<1>3. Ends \subseteq i .. Len(path) /\ Len(path) \in Ends
  BY <1>1, <1>2
<1>4. PICK j \in Ends : /\ j \in i .. Len(path)
                       /\ \A k \in i .. j - 1 : k \in i .. Len(path) /\ k \notin Ends
  <2>. HIDE DEF Ends
  <2>. QED  BY <1>1, <1>3, FirstPlace
<1>. QED  BY <1>4 DEF SkipSlashes, AtSlash

\* Where a name ends.
LEMMA NameEndResult ==
    ASSUME NEW path \in Seq(Chars), NEW i \in 0 .. Len(path)
    PROVE  /\ NameEnd(path, i) \in i .. Len(path)
           /\ AtEnd(path, NameEnd(path, i))
           /\ \A k \in i .. NameEnd(path, i) - 1 : ~AtSlash(path, k)
<1>. DEFINE Ends == {j \in i .. Len(path) : AtEnd(path, j)}
<1>1. i \in Nat /\ Len(path) \in Nat /\ Len(path) \in i .. Len(path)
  OBVIOUS
<1>2. AtEnd(path, Len(path))
  BY CharType DEF AtEnd, AtSlash
<1>3. Ends \subseteq i .. Len(path) /\ Len(path) \in Ends
  BY <1>1, <1>2
<1>4. PICK j \in Ends : /\ j \in i .. Len(path)
                       /\ \A k \in i .. j - 1 : k \in i .. Len(path) /\ k \notin Ends
  <2>. HIDE DEF Ends
  <2>. QED  BY <1>1, <1>3, FirstPlace
<1>. QED  BY <1>4 DEF NameEnd, AtEnd, AtSlash

\* DropName keeps what ends with the last slash.
LEMMA DropNameResult ==
    ASSUME NEW s \in Seq(Chars)
    PROVE  \E n \in 0 .. Len(s) :
            /\ DropName(s) = SubSeq(s, 1, n)
            /\ n = 0 \/ s[n] = "/"
            /\ \A k \in n + 1 .. Len(s) : s[k] # "/"
<1>. DEFINE Kept(n) == n \in 0 .. Len(s) /\ (n = 0 \/ s[n] = "/")
            Dropped == {m \in Nat : m <= Len(s) /\ Kept(Len(s) - m)}
<1>1. Len(s) \in Dropped
  OBVIOUS
<1>2. PICK m \in Dropped : \A k \in Dropped : m <= k
  <2>1. Dropped \subseteq Nat
    OBVIOUS
  <2>. HIDE DEF Dropped
  <2>. QED  BY <1>1, <2>1, LeastNumber
<1>. DEFINE n == Len(s) - m
            p == SubSeq(s, 1, n)
<1>3. n \in 0 .. Len(s) /\ (n = 0 \/ s[n] = "/")
  BY <1>2
<1>4. ASSUME NEW k \in n + 1 .. Len(s)
      PROVE  s[k] # "/"
  <2>1. Len(s) - k \in Nat /\ Len(s) - k < m
    BY <1>2
  <2>2. Len(s) - k \in Dropped => m <= Len(s) - k
    BY <1>2
  <2>3. m \in Nat /\ k \in 0 .. Len(s) /\ Len(s) - (Len(s) - k) = k
    BY <1>2
  <2>. QED  BY <2>1, <2>2, <2>3
<1>5. Len(p) = n /\ (p = <<>> \/ Last(p) = "/")
  BY <1>3 DEF Last
<1>6. \E q \in {SubSeq(s, 1, k) : k \in 0 .. Len(s)} :
        /\ q = <<>> \/ Last(q) = "/"
        /\ \A k \in Len(q) + 1 .. Len(s) : s[k] # "/"
  <2>1. p \in {SubSeq(s, 1, k) : k \in 0 .. Len(s)}
    BY <1>3
  <2>. HIDE DEF p, n
  <2>. QED  BY <1>4, <1>5, <2>1
<1>7. PICK k \in 0 .. Len(s) :
        /\ DropName(s) = SubSeq(s, 1, k)
        /\ SubSeq(s, 1, k) = <<>> \/ Last(SubSeq(s, 1, k)) = "/"
        /\ \A j \in Len(SubSeq(s, 1, k)) + 1 .. Len(s) : s[j] # "/"
  BY <1>6 DEF DropName
<1>8. Len(SubSeq(s, 1, k)) = k /\ (k # 0 => SubSeq(s, 1, k)[k] = s[k])
  OBVIOUS
<1>. QED  BY <1>7, <1>8 DEF Last

\* All but the last element.
LEMMA FrontType ==
    ASSUME NEW S, NEW s \in Seq(S), s # <<>>
    PROVE  /\ Front(s) \in Seq(S)
           /\ Len(Front(s)) = Len(s) - 1
<1>1. Len(s) \in Nat \ {0}
  OBVIOUS
<1>2. Len(s) - 1 \in 0 .. Len(s)
  BY <1>1
<1>3. \A n \in 0 .. Len(s) : SubSeq(s, 1, n) \in Seq(S) /\ Len(SubSeq(s, 1, n)) = n
  OBVIOUS
<1>. QED  BY <1>2, <1>3 DEF Front

\* After a slash, or where nothing has been written, a name may begin.
Dropped(dest) == dest = <<>> \/ Last(dest) = "/"

\* What DropName leaves is ready for a name.
LEMMA DropNameType ==
    ASSUME NEW s \in Seq(Chars)
    PROVE  DropName(s) \in Seq(Chars) /\ Len(DropName(s)) <= Len(s) /\ Dropped(DropName(s))
<1>1. PICK n \in 0 .. Len(s) : DropName(s) = SubSeq(s, 1, n) /\ (n = 0 \/ s[n] = "/")
  BY DropNameResult
<1>2. SubSeq(s, 1, n) \in Seq(Chars) /\ Len(SubSeq(s, 1, n)) = n /\ n <= Len(s)
  OBVIOUS
<1>3. n # 0 => SubSeq(s, 1, n)[n] = s[n]
  OBVIOUS
<1>4. n = 0 => SubSeq(s, 1, n) = <<>>
  BY <1>2
<1>. QED  BY <1>1, <1>2, <1>3, <1>4 DEF Dropped, Last

-----------------------------------------------------------------------------
(* Walks: from a directory by the names of a path.                         *)

\* One name on the way of Walk.
Step(before, name) ==
    IF name = <<".">> THEN before
    ELSE IF name = <<".", ".">> THEN SubSeq(before, 1, Len(before) - 1)
    ELSE Append(before, name)

Routes == Seq(Strings)

\* A step from a route leads to a route.
LEMMA StepType ==
    ASSUME NEW before \in Routes, NEW name \in Strings
    PROVE  Step(before, name) \in Routes
<1>1. Append(before, name) \in Routes
  BY DEF Routes
<1>2. SubSeq(before, 1, Len(before) - 1) \in Routes
  <2>. DEFINE S == Strings
  <2>1. \A s \in Seq(S) : SubSeq(s, 1, Len(s) - 1) \in Seq(S)
    <3>. HIDE DEF S
    <3>1. SUFFICES ASSUME NEW s \in Seq(S) PROVE SubSeq(s, 1, Len(s) - 1) \in Seq(S)
      OBVIOUS
    <3>2. CASE s = <<>>
      BY <3>2
    <3>3. CASE s # <<>>
      BY <3>3
    <3>. QED  BY <3>2, <3>3
  <2>. QED  BY <2>1 DEF Routes
<1>. QED  BY <1>1, <1>2 DEF Step

\* The steps of Walk.
LEMMA WalkSteps ==
    ASSUME NEW from \in Routes, NEW names \in Routes
    PROVE  \E at \in [0 .. Len(names) -> Routes] :
            /\ at[0] = from
            /\ \A n \in 1 .. Len(names) : at[n] = Step(at[n - 1], names[n])
            /\ Walk(from, names) = at[Len(names)]
<1>. DEFINE N == Len(names)
            next == [n \in 1 .. N |-> [s \in Routes |-> Step(s, names[n])]]
            Body(f) == [n \in 0 .. N |->
                            IF n = 0 THEN from
                            ELSE LET before == f[n - 1] IN
                                 IF names[n] = <<".">> THEN before
                                 ELSE IF names[n] = <<".", ".">>
                                      THEN SubSeq(before, 1, Len(before) - 1)
                                 ELSE Append(before, names[n])]
            at == CHOOSE f : f = Body(f)
<1>1. N \in Nat
  BY DEF Routes
<1>2. \A n \in 1 .. N : names[n] \in Strings
  BY DEF Routes
<1>3. next \in [1 .. N -> [Routes -> Routes]]
  <2>1. ASSUME NEW n \in 1 .. N, NEW s \in Routes
        PROVE  Step(s, names[n]) \in Routes
    <3>1. names[n] \in Strings
      BY <1>2
    <3>. QED  BY <3>1, StepType
  <2>. QED  BY <2>1
<1>4. PICK f \in [0 .. N -> Routes] :
        f[0] = from /\ \A n \in 1 .. N : f[n] = next[n][f[n - 1]]
  <2>. HIDE DEF next, N
  <2>1. \E f : IsRun(f, Routes, from, N, next)
    BY <1>1, <1>3, Iterates
  <2>. QED  BY <2>1 DEF IsRun
<1>5. \A n \in 1 .. N : f[n] = Step(f[n - 1], names[n])
  <2>1. \A n \in 1 .. N : n - 1 \in 0 .. N
    BY <1>1
  <2>. QED  BY <1>4, <2>1
<1>6. f = Body(f)
  <2>1. \A n \in 0 .. N : n # 0 => n \in 1 .. N
    BY <1>1
  <2>. HIDE DEF N
  <2>. QED  BY <1>4, <1>5, <2>1 DEF Step
<1>. HIDE DEF Body
<1>7. at = Body(at)
  BY <1>6
<1>8. Walk(from, names) = at[N]
  BY DEF Walk, Body
<1>. HIDE DEF at
<1>9. /\ at \in [0 .. N -> Routes] /\ at[0] = from
      /\ \A n \in 1 .. N : at[n] = Step(at[n - 1], names[n])
  <2>1. DOMAIN at = 0 .. N /\ at[0] = from
    BY <1>1, <1>7 DEF Body
  <2>2. \A n \in 1 .. N : at[n] = Step(at[n - 1], names[n])
    <3>1. \A n \in 1 .. N : n \in 0 .. N /\ n # 0
      BY <1>1
    <3>2. \A n \in 1 .. N : at[n] = Body(at)[n]
      BY <1>7
    <3>. HIDE DEF N
    <3>. QED  BY <3>1, <3>2 DEF Body, Step
  <2>. DEFINE T == {n \in 0 .. N : at[n] \in Routes}
  <2>. HIDE DEF N
  <2>3. \A n \in 1 .. N : n - 1 \in T => n \in T
    <3>1. ASSUME NEW n \in 1 .. N, n - 1 \in T PROVE n \in T
      <4>1. names[n] \in Strings /\ n \in 0 .. N
        BY <1>1, <1>2
      <4>2. at[n - 1] \in Routes
        BY <3>1
      <4>3. at[n] \in Routes
        BY <2>2, <4>1, <4>2, StepType
      <4>. QED  BY <4>1, <4>3
    <3>. QED  BY <3>1
  <2>4. 0 \in T
    BY <1>1, <2>1
  <2>5. \A n \in 0 .. N : n \in T
    <3>. HIDE DEF T
    <3>. QED  BY <1>1, <2>3, <2>4, Climb
  <2>6. at = [n \in 0 .. N |-> at[n]]
    BY <1>7, <2>1 DEF Body
  <2>. QED  BY <2>1, <2>2, <2>5, <2>6
<1>. QED  BY <1>8, <1>9 DEF at

\* No names lead nowhere else.
LEMMA WalkNowhere ==
    ASSUME NEW from \in Routes
    PROVE  Walk(from, <<>>) = from
<1>. DEFINE names == <<>>
<1>1. names \in Routes
  BY DEF Routes
<1>2. Len(names) = 0
  OBVIOUS
<1>. HIDE DEF names
<1>3. PICK at \in [0 .. Len(names) -> Routes] : at[0] = from /\ Walk(from, names) = at[Len(names)]
  BY <1>1, WalkSteps
<1>. QED  BY <1>2, <1>3 DEF names

\* A walk ends at a route.
LEMMA WalkType ==
    ASSUME NEW from \in Routes, NEW names \in Routes
    PROVE  Walk(from, names) \in Routes
<1>1. Len(names) \in 0 .. Len(names)
  BY DEF Routes
<1>2. PICK at \in [0 .. Len(names) -> Routes] : Walk(from, names) = at[Len(names)]
  BY WalkSteps
<1>. QED  BY <1>1, <1>2

\* The first step of a walk, and the rest.
LEMMA WalkOn ==
    ASSUME NEW from \in Routes, NEW x \in Strings, NEW rest \in Routes
    PROVE  Walk(from, <<x>> \o rest) = Walk(Step(from, x), rest)
<1>. DEFINE names == <<x>> \o rest
            N == Len(rest)
<1>1. /\ names \in Routes /\ Len(names) = N + 1 /\ names[1] = x
      /\ \A n \in 1 .. N : names[n + 1] = rest[n]
      /\ N \in Nat
  <2>. DEFINE S == Strings
  <2>1. x \in S /\ rest \in Seq(S)
    BY DEF Routes
  <2>. HIDE DEF S
  <2>2. /\ names \in Seq(S) /\ Len(names) = N + 1 /\ names[1] = x
        /\ \A n \in 1 .. N : names[n + 1] = rest[n]
        /\ N \in Nat
    BY <2>1
  <2>. QED  BY <2>2 DEF S, Routes
<1>2. Step(from, x) \in Routes
  BY StepType
<1>. HIDE DEF names
<1>3. PICK at \in [0 .. Len(names) -> Routes] :
        /\ at[0] = from
        /\ \A n \in 1 .. Len(names) : at[n] = Step(at[n - 1], names[n])
        /\ Walk(from, names) = at[Len(names)]
  BY <1>1, WalkSteps
<1>4. PICK on \in [0 .. N -> Routes] :
        /\ on[0] = Step(from, x)
        /\ \A n \in 1 .. N : on[n] = Step(on[n - 1], rest[n])
        /\ Walk(Step(from, x), rest) = on[N]
  BY <1>2, WalkSteps
<1>. HIDE DEF N
<1>. DEFINE T == {n \in 0 .. N : at[n + 1] = on[n]}
<1>5. 0 \in T
  <2>1. 1 \in 1 .. Len(names)
    BY <1>1
  <2>2. at[1] = Step(at[1 - 1], names[1])
    BY <1>3, <2>1
  <2>. QED  BY <1>1, <1>3, <1>4, <2>2
<1>6. ASSUME NEW n \in 1 .. N, n - 1 \in T
      PROVE  n \in T
  <2>1. n + 1 \in 1 .. Len(names) /\ (n + 1) - 1 = n /\ (n - 1) + 1 = n /\ n \in 0 .. N
    BY <1>1
  <2>2. at[n + 1] = Step(at[n], rest[n])
    BY <1>1, <1>3, <2>1
  <2>3. at[n] = on[n - 1]
    BY <1>6, <2>1
  <2>4. on[n] = Step(on[n - 1], rest[n])
    BY <1>4
  <2>. QED  BY <2>1, <2>2, <2>3, <2>4
<1>7. N \in T
  <2>1. N \in 0 .. N
    BY <1>1
  <2>. HIDE DEF T
  <2>. QED  BY <1>1, <1>5, <1>6, <2>1, Climb
<1>. QED  BY <1>1, <1>3, <1>4, <1>7 DEF names

-----------------------------------------------------------------------------
(* Texts: names with slashes between.                                      *)

\* The parts that FlattenSeq concatenates, one after the other.
LEMMA Flattened ==
    ASSUME NEW seqs \in Routes, Len(seqs) # 0
    PROVE  \E f \in [1 .. Len(seqs) -> Strings] :
            /\ f[1] = seqs[1]
            /\ \A n \in 2 .. Len(seqs) : f[n] = f[n - 1] \o seqs[n]
            /\ FlattenSeq(seqs) = f[Len(seqs)]
<1>. DEFINE N == Len(seqs)
<1>1. seqs \in Seq(Seq(Chars)) /\ N \in Nat \ {0} /\ \A n \in 1 .. N : seqs[n] \in Strings
  <2>1. seqs \in Seq(Strings)
    BY DEF Routes, Strings
  <2>. QED  BY <2>1 DEF Strings
<1>2. PICK f : Flattening(f, Chars, seqs) /\ FlattenSeq(seqs) = f[N]
  BY <1>1, FlatteningExists
<1>3. /\ f \in [0 .. N -> Strings] /\ f[0] = <<>>
      /\ \A n \in 1 .. N : f[n] = f[n - 1] \o seqs[n]
  BY <1>2 DEF Flattening, Strings
<1>4. /\ 1 \in 1 .. N /\ 1 - 1 = 0 /\ N \in 1 .. N /\ \A n \in 1 .. N : n \in 0 .. N
      /\ \A n \in 2 .. N : n \in 1 .. N /\ n - 1 \in 1 .. N
  BY <1>1
<1>5. f[1] = seqs[1]
  <2>1. f[1] = f[0] \o seqs[1]
    BY <1>3, <1>4
  <2>2. \A s \in Strings : <<>> \o s = s
    BY DEF Strings
  <2>. QED  BY <1>1, <1>3, <1>4, <2>1, <2>2
<1>. HIDE DEF N
<1>. DEFINE g == [n \in 1 .. N |-> f[n]]
<1>6. g \in [1 .. N -> Strings]
  BY <1>3, <1>4
<1>7. g[1] = seqs[1] /\ (\A n \in 2 .. N : g[n] = g[n - 1] \o seqs[n]) /\ FlattenSeq(seqs) = g[N]
  BY <1>2, <1>3, <1>4, <1>5
<1>. HIDE DEF g
<1>. QED  BY <1>6, <1>7 DEF N

\* A route with one more name.
LEMMA RouteAppend ==
    ASSUME NEW seqs \in Routes, NEW x \in Strings
    PROVE  /\ Append(seqs, x) \in Routes /\ Len(Append(seqs, x)) = Len(seqs) + 1
           /\ \A n \in 1 .. Len(seqs) : Append(seqs, x)[n] = seqs[n] /\ seqs[n] \in Strings
           /\ Append(seqs, x)[Len(seqs) + 1] = x
           /\ Len(seqs) \in Nat
<1>1. seqs \in Seq(Strings)
  BY DEF Routes, Strings
<1>2. \A n \in 1 .. Len(seqs) : seqs[n] \in Strings
  BY <1>1
<1>. QED  BY <1>1, <1>2, AppendFacts DEF Routes, Strings

\* The concatenation of strings is a string.
LEMMA FlattenType ==
    ASSUME NEW seqs \in Routes
    PROVE  FlattenSeq(seqs) \in Strings
<1>1. Len(seqs) \in Nat /\ (Len(seqs) = 0 => seqs = <<>>)
  BY DEF Routes
<1>2. Len(seqs) # 0 => FlattenSeq(seqs) \in Strings
  <2>1. Len(seqs) # 0 => Len(seqs) \in 1 .. Len(seqs)
    BY <1>1
  <2>. QED  BY <2>1, Flattened
<1>3. Len(seqs) = 0 => FlattenSeq(seqs) \in Strings
  BY <1>1 DEF FlattenSeq, Strings
<1>. QED  BY <1>2, <1>3

\* The last part is the end of the concatenation.
LEMMA FlattenAppend ==
    ASSUME NEW seqs \in Routes, NEW x \in Strings
    PROVE  FlattenSeq(Append(seqs, x)) = FlattenSeq(seqs) \o x
<1>. DEFINE N == Len(seqs)
            more == Append(seqs, x)
<1>1. /\ more \in Routes /\ Len(more) = N + 1 /\ Len(more) # 0 /\ N \in Nat
      /\ \A n \in 1 .. N : more[n] = seqs[n] /\ seqs[n] \in Strings
      /\ more[N + 1] = x
  BY RouteAppend
<1>. HIDE DEF more
<1>2. PICK g \in [1 .. Len(more) -> Strings] :
        /\ g[1] = more[1]
        /\ \A n \in 2 .. Len(more) : g[n] = g[n - 1] \o more[n]
        /\ FlattenSeq(more) = g[Len(more)]
  BY <1>1, Flattened
<1>3. CASE N = 0
  <2>1. FlattenSeq(seqs) = <<>>
    BY <1>3 DEF FlattenSeq, Routes
  <2>2. FlattenSeq(more) = x
    BY <1>1, <1>2, <1>3
  <2>3. x = <<>> \o x
    BY DEF Strings
  <2>. QED  BY <2>1, <2>2, <2>3 DEF more
<1>4. CASE N # 0
  <2>1. PICK f \in [1 .. N -> Strings] :
            /\ f[1] = seqs[1]
            /\ \A n \in 2 .. N : f[n] = f[n - 1] \o seqs[n]
            /\ FlattenSeq(seqs) = f[N]
    BY <1>4, Flattened
  <2>. DEFINE T == {n \in Nat : n \in 1 .. N => g[n] = f[n]}
  <2>. HIDE DEF N
  <2>2. 0 \in T
    OBVIOUS
  <2>3. ASSUME NEW n \in 1 .. N, n - 1 \in T
        PROVE  n \in T
    <3>1. /\ n \in Nat /\ 1 \in 1 .. N
          /\ n # 1 => n \in 2 .. N /\ n \in 2 .. Len(more) /\ n - 1 \in 1 .. N
      BY <1>1
    <3>2. CASE n = 1
      BY <1>1, <1>2, <2>1, <3>1, <3>2
    <3>3. CASE n # 1
      <4>1. g[n] = g[n - 1] \o seqs[n] /\ f[n] = f[n - 1] \o seqs[n]
        BY <1>1, <1>2, <2>1, <3>1, <3>3
      <4>2. g[n - 1] = f[n - 1]
        BY <2>3, <3>1, <3>3
      <4>. QED  BY <3>1, <4>1, <4>2
    <3>. QED  BY <3>2, <3>3
  <2>4. N \in T
    <3>1. N \in 0 .. N
      BY <1>1
    <3>. HIDE DEF T
    <3>. QED  BY <1>1, <2>2, <2>3, <3>1, Climb
  <2>5. N \in 1 .. N /\ N + 1 \in 2 .. Len(more) /\ (N + 1) - 1 = N
    BY <1>1, <1>4
  <2>6. g[N] = f[N] /\ g[N + 1] = g[N] \o x
    BY <1>1, <1>2, <2>4, <2>5
  <2>. QED  BY <1>1, <1>2, <2>1, <2>6 DEF more
<1>. QED  BY <1>3, <1>4

-----------------------------------------------------------------------------
(* Components(): the names of a path.                                      *)

\* The names from index i on, if f has those from the later ones.
NamesFrom(path, f, i) ==
    IF Char(path, i) = "" THEN <<>>
    ELSE IF Char(path, i) = "/" THEN f[i + 1]
    ELSE LET end == NameEnd(path, i) IN <<SubSeq(path, i + 1, end)>> \o f[end]

\* The function in Components.
Following(path) == CHOOSE f : f = [i \in 0 .. Len(path) |-> NamesFrom(path, f, i)]

\* All names are those from the beginning.
LEMMA ComponentsFollow ==
    ASSUME NEW path
    PROVE  Components(path) = Following(path)[0]
BY DEF Components, Following, NamesFrom

\* The name that begins at index i.
LEMMA NameAt ==
    ASSUME NEW path \in Strings, NEW i \in 0 .. Len(path), ~AtEnd(path, i)
    PROVE  /\ i < NameEnd(path, i) /\ NameEnd(path, i) \in i + 1 .. Len(path)
           /\ AtEnd(path, NameEnd(path, i))
           /\ SubSeq(path, i + 1, NameEnd(path, i)) \in Strings
           /\ Len(SubSeq(path, i + 1, NameEnd(path, i))) = NameEnd(path, i) - i
           /\ \A k \in 1 .. NameEnd(path, i) - i :
                /\ SubSeq(path, i + 1, NameEnd(path, i))[k] = path[i + k]
                /\ path[i + k] # "/"
<1>. DEFINE end == NameEnd(path, i)
<1>1. path \in Seq(Chars)
  BY DEF Strings
<1>2. /\ end \in i .. Len(path) /\ AtEnd(path, end)
      /\ \A k \in i .. end - 1 : ~AtSlash(path, k)
  BY <1>1, NameEndResult
<1>. HIDE DEF end
<1>3. end # i
  BY <1>2
<1>4. end \in i + 1 .. Len(path) /\ i < end /\ i \in Nat /\ end \in Nat /\ Len(path) \in Nat
  BY <1>1, <1>2, <1>3
<1>5. /\ SubSeq(path, i + 1, end) \in Seq(Chars)
      /\ Len(SubSeq(path, i + 1, end)) = end - i
      /\ \A k \in 1 .. end - i : SubSeq(path, i + 1, end)[k] = path[i + k]
  <2>1. i + 1 \in 1 .. Len(path) + 1 /\ end \in (i + 1) - 1 .. Len(path)
    BY <1>4
  <2>2. end - (i + 1) + 1 = end - i /\ \A k \in 1 .. end - i : i + 1 + k - 1 = i + k
    BY <1>4
  <2>. QED  BY <1>1, <2>1, <2>2, SubSeqType
<1>6. ASSUME NEW k \in 1 .. end - i
      PROVE  path[i + k] # "/"
  <2>1. /\ i + k - 1 \in i .. end - 1 /\ i + k - 1 \in Nat /\ i + k - 1 < Len(path)
        /\ i + k - 1 + 1 = i + k
    BY <1>4
  <2>2. ~AtSlash(path, i + k - 1)
    BY <1>2, <2>1
  <2>3. Char(path, i + k - 1) = path[i + k]
    BY <1>1, <2>1, CharType
  <2>. QED  BY <2>2, <2>3 DEF AtSlash
<1>. QED  BY <1>2, <1>4, <1>5, <1>6 DEF end, Strings

\* A route behind a name.
LEMMA RoutePrepend ==
    ASSUME NEW seqs \in Routes, NEW x \in Strings
    PROVE  <<x>> \o seqs \in Routes
<1>1. <<x>> \in Seq(Strings) /\ seqs \in Seq(Strings)
  BY DEF Routes, Strings
<1>. QED  BY <1>1, ConcatFacts DEF Routes, Strings

\* The names from a place depend on those of the places behind it.
LEMMA NamesFromType ==
    ASSUME NEW path \in Strings, NEW i \in 0 .. Len(path), NEW f,
           \A k \in i + 1 .. Len(path) : f[k] \in Routes
    PROVE  /\ NamesFrom(path, f, i) \in Routes
           /\ \A g : (\A k \in i + 1 .. Len(path) : g[k] = f[k]) =>
                NamesFrom(path, g, i) = NamesFrom(path, f, i)
<1>1. CASE AtSlash(path, i)
  <2>1. i + 1 \in i + 1 .. Len(path)
    <3>1. i # Len(path)
      <4>1. path \in Seq(Chars)
        BY DEF Strings
      <4>2. Char(path, Len(path)) = ""
        BY <4>1, CharType
      <4>. QED  BY <1>1, <4>2 DEF AtSlash
    <3>2. Len(path) \in Nat
      BY DEF Strings
    <3>. QED  BY <3>1, <3>2
  <2>. QED  BY <1>1, <2>1 DEF NamesFrom, AtSlash
<1>2. CASE ~AtEnd(path, i)
  <2>1. NameEnd(path, i) \in i + 1 .. Len(path) /\ SubSeq(path, i + 1, NameEnd(path, i)) \in Strings
    BY <1>2, NameAt
  <2>2. <<SubSeq(path, i + 1, NameEnd(path, i))>> \o f[NameEnd(path, i)] \in Routes
    BY <2>1, RoutePrepend
  <2>. QED  BY <1>2, <2>1, <2>2 DEF NamesFrom, AtEnd
<1>3. CASE AtEnd(path, i) /\ ~AtSlash(path, i)
  <2>1. Char(path, i) = ""
    BY <1>3 DEF AtEnd, AtSlash
  <2>2. <<>> \in Routes
    BY DEF Routes
  <2>. QED  BY <2>1, <2>2 DEF NamesFrom
<1>. QED  BY <1>1, <1>2, <1>3

\* The recursion in Components, from the end of the path, has a solution.
LEMMA FollowingResult ==
    ASSUME NEW path \in Strings
    PROVE  /\ Following(path) \in [0 .. Len(path) -> Routes]
           /\ \A i \in 0 .. Len(path) :
                Following(path)[i] = NamesFrom(path, Following(path), i)
<1>. DEFINE N == Len(path)
            Right(f, k) == f \in [0 .. N -> Routes]
                           /\ \A i \in N - k .. N : f[i] = NamesFrom(path, f, i)
            T == {k \in Nat : \E f : Right(f, k)}
<1>1. N \in Nat
  BY DEF Strings
<1>2. 0 \in T
  <2>. DEFINE f == [i \in 0 .. N |-> <<>>]
  <2>1. f \in [0 .. N -> Routes] /\ f[N] = <<>>
    BY <1>1 DEF Routes
  <2>2. NamesFrom(path, f, N) = <<>>
    <3>1. path \in Seq(Chars)
      BY DEF Strings
    <3>. QED  BY <3>1, CharType DEF NamesFrom
  <2>3. \A i \in N - 0 .. N : i = N
    BY <1>1
  <2>4. Right(f, 0)
    <3>. HIDE DEF N, f
    <3>. QED  BY <2>1, <2>2, <2>3
  <2>. QED  BY <2>4
<1>3. ASSUME NEW k \in 1 .. N, k - 1 \in T
      PROVE  k \in T
  <2>1. PICK f : Right(f, k - 1)
    BY <1>3
  <2>. DEFINE j == N - k
              g == [f EXCEPT ![j] = NamesFrom(path, f, j)]
  <2>2. /\ j \in 0 .. N
        /\ \A i \in j .. N : i = j \/ i \in N - (k - 1) .. N
        /\ \A i \in j .. N : i \in 0 .. N /\ \A m \in i + 1 .. N : m # j /\ m \in 0 .. N
    BY <1>1
  <2>. HIDE DEF N, j
  <2>3. \A i \in j .. N : \A m \in i + 1 .. N : f[m] \in Routes /\ g[m] = f[m]
    BY <2>1, <2>2
  <2>. HIDE DEF g
  <2>4. \A i \in j .. N : /\ NamesFrom(path, f, i) \in Routes
                          /\ NamesFrom(path, g, i) = NamesFrom(path, f, i)
    BY <2>2, <2>3, NamesFromType DEF N
  <2>5. j \in j .. N
    BY <1>1, <2>2
  <2>6. g \in [0 .. N -> Routes] /\ g[j] = NamesFrom(path, f, j)
        /\ \A i \in 0 .. N : i # j => g[i] = f[i]
    BY <2>1, <2>2, <2>4, <2>5 DEF g
  <2>7. Right(g, k)
    <3>1. \A i \in j .. N : g[i] = NamesFrom(path, g, i)
      BY <2>1, <2>2, <2>4, <2>6
    <3>. QED  BY <2>6, <3>1 DEF j
  <2>8. k \in Nat
    BY <1>1
  <2>. HIDE DEF Right
  <2>. QED  BY <2>7, <2>8
<1>4. PICK f : Right(f, N)
  <2>1. N \in 0 .. N
    BY <1>1
  <2>2. N \in T
    <3>. HIDE DEF T, N
    <3>. QED  BY <1>1, <1>2, <1>3, <2>1, Climb
  <2>. QED  BY <2>2
<1>5. f \in [0 .. N -> Routes] /\ f = [i \in 0 .. N |-> NamesFrom(path, f, i)]
  <2>1. \A i \in 0 .. N : i \in N - N .. N
    BY <1>1
  <2>. HIDE DEF N
  <2>. QED  BY <1>4, <2>1
<1>. DEFINE h == Following(path)
<1>6. h = [i \in 0 .. N |-> NamesFrom(path, h, i)]
  BY <1>5 DEF Following
<1>. HIDE DEF h
<1>. DEFINE U == {k \in Nat : \A i \in N - k .. N : i \in 0 .. N => h[i] \in Routes}
<1>7. \A k \in 0 .. N : k \in U
  <2>1. ASSUME NEW i \in 0 .. N, \A m \in i + 1 .. N : h[m] \in Routes
        PROVE  h[i] \in Routes
    BY <1>6, <2>1, NamesFromType
  <2>2. 0 \in U
    <3>1. \A m \in N + 1 .. N : FALSE
      BY <1>1
    <3>2. N \in 0 .. N /\ \A i \in N - 0 .. N : i = N
      BY <1>1
    <3>. HIDE DEF N
    <3>. QED  BY <2>1, <3>1, <3>2
  <2>3. ASSUME NEW k \in 1 .. N, k - 1 \in U
        PROVE  k \in U
    <3>1. ASSUME NEW i \in N - k .. N, i \in 0 .. N PROVE h[i] \in Routes
      <4>1. \A m \in i + 1 .. N : m \in N - (k - 1) .. N /\ m \in 0 .. N
        BY <1>1, <3>1
      <4>2. \A m \in i + 1 .. N : h[m] \in Routes
        <5>. HIDE DEF N
        <5>. QED  BY <2>3, <4>1
      <4>. HIDE DEF N
      <4>. QED  BY <2>1, <3>1, <4>2
    <3>2. k \in Nat
      BY <1>1
    <3>. QED  BY <3>1, <3>2
  <2>. HIDE DEF U, N
  <2>. QED  BY <1>1, <2>2, <2>3, Climb
<1>8. \A i \in 0 .. N : h[i] \in Routes
  <2>1. N \in 0 .. N /\ \A i \in 0 .. N : i \in N - N .. N
    BY <1>1
  <2>. HIDE DEF N
  <2>. QED  BY <1>7, <2>1
<1>9. h \in [0 .. N -> Routes] /\ \A i \in 0 .. N : h[i] = NamesFrom(path, h, i)
  <2>. HIDE DEF N
  <2>. QED  BY <1>6, <1>8
<1>. QED  BY <1>9 DEF h

\* Slashes between names do not count.
LEMMA FollowSlashes ==
    ASSUME NEW path \in Strings, NEW i \in 0 .. Len(path), NEW j \in i .. Len(path),
           \A k \in i .. j - 1 : AtSlash(path, k)
    PROVE  Following(path)[j] = Following(path)[i]
<1>. DEFINE f == Following(path)
            T == {n \in 0 .. j - i : f[i + n] = f[i]}
<1>1. i \in Nat /\ j \in Nat /\ j - i \in Nat /\ Len(path) \in Nat /\ j <= Len(path)
  BY DEF Strings
<1>2. \A k \in 0 .. Len(path) : f[k] = NamesFrom(path, f, k)
  BY FollowingResult
<1>. HIDE DEF f
<1>3. 0 \in T
  BY <1>1
<1>4. ASSUME NEW n \in 1 .. j - i, n - 1 \in T
      PROVE  n \in T
  <2>1. /\ i + (n - 1) \in i .. j - 1 /\ i + (n - 1) \in 0 .. Len(path)
        /\ i + (n - 1) + 1 = i + n /\ n \in 0 .. j - i
    BY <1>1
  <2>2. AtSlash(path, i + (n - 1))
    BY <2>1
  <2>3. f[i + (n - 1)] = f[i + n]
    BY <1>2, <2>1, <2>2 DEF NamesFrom, AtSlash
  <2>4. f[i + (n - 1)] = f[i]
    BY <1>4
  <2>. QED  BY <2>1, <2>3, <2>4
<1>5. j - i \in T
  <2>1. j - i \in 0 .. j - i
    BY <1>1
  <2>. HIDE DEF T
  <2>. QED  BY <1>1, <1>3, <1>4, <2>1, Climb
<1>6. i + (j - i) = j
  BY <1>1
<1>. QED  BY <1>5, <1>6 DEF f

\* Slashes are no names.
LEMMA FollowSkip ==
    ASSUME NEW path \in Strings, NEW i \in 0 .. Len(path)
    PROVE  /\ SkipSlashes(path, i) \in i .. Len(path)
           /\ ~AtSlash(path, SkipSlashes(path, i))
           /\ Following(path)[SkipSlashes(path, i)] = Following(path)[i]
           /\ AtSlash(path, i) => i < SkipSlashes(path, i)
<1>1. path \in Seq(Chars)
  BY DEF Strings
<1>2. /\ SkipSlashes(path, i) \in i .. Len(path)
      /\ ~AtSlash(path, SkipSlashes(path, i))
      /\ \A k \in i .. SkipSlashes(path, i) - 1 : AtSlash(path, k)
  BY <1>1, SkipSlashesResult
<1>3. Following(path)[SkipSlashes(path, i)] = Following(path)[i]
  BY <1>2, FollowSlashes
<1>4. AtSlash(path, i) => SkipSlashes(path, i) # i
  BY <1>2
<1>. QED  BY <1>2, <1>3, <1>4

\* Up to a slash, or to the end.
LEMMA FollowBack ==
    ASSUME NEW path \in Strings, NEW i \in 1 .. Len(path), AtEnd(path, i),
           ~AtSlash(path, i - 1)
    PROVE  LET to == StepBack(path, SkipSlashes(path, i)) IN
           /\ to \in i .. Len(path)
           /\ AtEnd(path, to)
           /\ Following(path)[to] = Following(path)[i]
<1>. DEFINE rest == SkipSlashes(path, i)
<1>1. path \in Seq(Chars) /\ i \in 0 .. Len(path) /\ Len(path) \in Nat
  BY DEF Strings
<1>2. /\ rest \in i .. Len(path)
      /\ ~AtSlash(path, rest)
      /\ \A k \in i .. rest - 1 : AtSlash(path, k)
  BY <1>1, SkipSlashesResult
<1>. HIDE DEF rest
<1>3. CASE rest = i
  <2>1. StepBack(path, rest) = i
    BY <1>3 DEF StepBack, AtSlash
  <2>. QED  BY <1>2, <1>3, <2>1 DEF rest
<1>4. CASE rest # i
  <2>1. /\ rest - 1 \in i .. Len(path) /\ rest - 1 \in i .. rest - 1
        /\ \A k \in i .. (rest - 1) - 1 : k \in i .. rest - 1
    BY <1>1, <1>2, <1>4
  <2>2. AtSlash(path, rest - 1)
    BY <1>2, <2>1
  <2>3. StepBack(path, rest) = rest - 1 /\ AtEnd(path, rest - 1)
    BY <2>2 DEF StepBack, AtSlash, AtEnd
  <2>4. Following(path)[rest - 1] = Following(path)[i]
    BY <1>1, <1>2, <2>1, FollowSlashes
  <2>. QED  BY <2>1, <2>3, <2>4 DEF rest
<1>. QED  BY <1>3, <1>4

\* A name, and the names behind it.
LEMMA FollowName ==
    ASSUME NEW path \in Strings, NEW i \in 0 .. Len(path), ~AtEnd(path, i)
    PROVE  Following(path)[i]
            = <<SubSeq(path, i + 1, NameEnd(path, i))>> \o Following(path)[NameEnd(path, i)]
BY FollowingResult DEF NamesFrom, AtEnd

\* There is no name at the end.
LEMMA FollowEnd ==
    ASSUME NEW path \in Strings
    PROVE  Following(path)[Len(path)] = <<>>
<1>1. path \in Seq(Chars) /\ Len(path) \in 0 .. Len(path)
  BY DEF Strings
<1>2. Char(path, Len(path)) = ""
  BY <1>1, CharType
<1>. QED  BY <1>1, <1>2, FollowingResult DEF NamesFrom

\* A path as the loop has written it: after a name, and with the slash before the next one.
Parts(names) == [n \in 1 .. Len(names) |-> IF n = 1 THEN names[n] ELSE <<"/">> \o names[n]]

Top(absolute) == IF absolute THEN <<"/">> ELSE <<>>

Closed(names, absolute) == Top(absolute) \o FlattenSeq(Parts(names))

Opened(names, absolute) ==
    IF names = <<>> THEN Top(absolute) ELSE Append(Closed(names, absolute), "/")

-----------------------------------------------------------------------------
(* Texts as normpath_no_escape() writes them, complete or before a name.   *)

\* Strings, and their concatenation.
LEMMA StringFacts ==
    /\ <<>> \in Strings /\ <<"/">> \in Strings
    /\ \A s, t \in Strings : s \o t \in Strings /\ Len(s \o t) = Len(s) + Len(t)
    /\ \A s \in Strings : /\ Len(s) \in Nat /\ (Len(s) = 0 <=> s = <<>>)
                          /\ <<>> \o s = s /\ s \o <<>> = s
                          /\ Append(s, "/") = s \o <<"/">>
    /\ \A s, t, u \in Strings : (s \o t) \o u = s \o (t \o u)
<1>1. "/" \in Chars
  BY DEF Chars
<1>2. \A S : \A s, t, u \in Seq(S) : (s \o t) \o u = s \o (t \o u)
  OBVIOUS
<1>3. \A S : \A s \in Seq(S) : <<>> \o s = s /\ s \o <<>> = s
  OBVIOUS
<1>4. \A S : \A s \in Seq(S) : \A e \in S : Append(s, e) = s \o <<e>>
  OBVIOUS
<1>5. \A S : \A s, t \in Seq(S) : s \o t \in Seq(S) /\ Len(s \o t) = Len(s) + Len(t)
  OBVIOUS
<1>6. \A S : \A s \in Seq(S) : Len(s) \in Nat /\ (Len(s) = 0 <=> s = <<>>)
  OBVIOUS
<1>7. <<>> \in Strings /\ <<"/">> \in Strings
  BY <1>1 DEF Strings
<1>8. \A s, t \in Strings : s \o t \in Strings /\ Len(s \o t) = Len(s) + Len(t)
  BY <1>5 DEF Strings
<1>9. \A s \in Strings : Len(s) \in Nat /\ (Len(s) = 0 <=> s = <<>>)
  BY <1>6 DEF Strings
<1>10. \A s \in Strings : <<>> \o s = s /\ s \o <<>> = s
  BY <1>3 DEF Strings
<1>11. \A s \in Strings : Append(s, "/") = s \o <<"/">>
  BY <1>1, <1>4 DEF Strings
<1>12. \A s, t, u \in Strings : (s \o t) \o u = s \o (t \o u)
  BY <1>2 DEF Strings
<1>. QED  BY <1>7, <1>8, <1>9, <1>10, <1>11, <1>12

\* A name more is a part more, with a slash before it.
LEMMA PartsAppend ==
    ASSUME NEW names \in Routes, NEW x \in Strings
    PROVE  /\ Parts(names) \in Routes
           /\ Parts(Append(names, x))
                = Append(Parts(names), IF names = <<>> THEN x ELSE <<"/">> \o x)
<1>1. ASSUME NEW s \in Routes
      PROVE  Parts(s) \in Routes /\ Len(Parts(s)) = Len(s) /\ Len(s) \in Nat
  <2>1. s \in Seq(Strings) /\ Len(s) \in Nat
    BY DEF Routes, Strings
  <2>2. \A n \in 1 .. Len(s) : s[n] \in Strings
    BY <2>1
  <2>3. \A n \in 1 .. Len(s) : (IF n = 1 THEN s[n] ELSE <<"/">> \o s[n]) \in Strings
    BY <2>2, StringFacts
  <2>4. \A S : \A N \in Nat : \A f \in [1 .. N -> S] : f \in Seq(S) /\ Len(f) = N
    OBVIOUS
  <2>5. Parts(s) \in [1 .. Len(s) -> Strings]
    BY <2>3 DEF Parts
  <2>6. Parts(s) \in Seq(Strings) /\ Len(Parts(s)) = Len(s)
    BY <2>1, <2>4, <2>5
  <2>. QED  BY <2>1, <2>6 DEF Routes, Strings
<1>. DEFINE more == Append(names, x)
            y == IF names = <<>> THEN x ELSE <<"/">> \o x
            N == Len(names)
            parts == Parts(names)
<1>2. /\ more \in Routes /\ Len(more) = N + 1 /\ N \in Nat
      /\ \A n \in 1 .. N : more[n] = names[n]
      /\ more[N + 1] = x
  BY RouteAppend
<1>3. N = 0 <=> names = <<>>
  BY DEF Routes
<1>4. y \in Strings
  BY StringFacts
<1>. HIDE DEF y
<1>5. /\ Append(Parts(names), y) \in Routes /\ Len(Append(Parts(names), y)) = N + 1
      /\ \A n \in 1 .. N : Append(Parts(names), y)[n] = Parts(names)[n]
      /\ Append(Parts(names), y)[N + 1] = y
  <2>1. parts \in Routes /\ Len(parts) = N
    BY <1>1
  <2>. HIDE DEF parts, N
  <2>2. /\ Append(parts, y) \in Routes /\ Len(Append(parts, y)) = N + 1
        /\ \A n \in 1 .. N : Append(parts, y)[n] = parts[n]
        /\ Append(parts, y)[N + 1] = y
    BY <1>4, <2>1, RouteAppend
  <2>. QED  BY <2>2 DEF parts
<1>. HIDE DEF more
<1>6. \A n \in 1 .. N + 1 : Parts(more)[n] = Append(Parts(names), y)[n]
  <2>1. ASSUME NEW n \in 1 .. N + 1 PROVE Parts(more)[n] = Append(Parts(names), y)[n]
    <3>1. n \in 1 .. Len(more) /\ (n \in 1 .. N \/ n = N + 1)
      BY <1>2
    <3>. HIDE DEF N
    <3>2. Parts(more)[n] = IF n = 1 THEN more[n] ELSE <<"/">> \o more[n]
      BY <3>1 DEF Parts
    <3>3. CASE n \in 1 .. N
      BY <1>2, <1>5, <3>2, <3>3 DEF Parts, N
    <3>4. CASE n = N + 1
      <4>1. n = 1 <=> N = 0
        BY <1>2, <3>4
      <4>. QED  BY <1>2, <1>3, <1>5, <3>2, <3>4, <4>1 DEF y
    <3>. QED  BY <3>1, <3>3, <3>4
  <2>. QED  BY <2>1
<1>7. Parts(more) = Append(Parts(names), y)
  <2>1. Parts(more) \in Seq(Strings) /\ Len(Parts(more)) = N + 1
    BY <1>1, <1>2 DEF Routes, Strings
  <2>2. Append(Parts(names), y) \in Seq(Strings)
    BY <1>5 DEF Routes, Strings
  <2>3. \A S : \A s, t \in Seq(S) : Len(s) = Len(t) /\ (\A n \in 1 .. Len(s) : s[n] = t[n]) => s = t
    OBVIOUS
  <2>. HIDE DEF N
  <2>. QED  BY <1>5, <1>6, <2>1, <2>2, <2>3
<1>. QED  BY <1>1, <1>7 DEF more, y

PlainRoutes == {r \in Routes : \A k \in 1 .. Len(r) : r[k] \in PlainNames}

\* Concatenation is associative.
LEMMA Regroup ==
    ASSUME NEW s \in Strings, NEW t \in Strings, NEW u \in Strings
    PROVE  s \o (t \o u) = (s \o t) \o u
<1>1. s \in Seq(Chars) /\ t \in Seq(Chars) /\ u \in Seq(Chars)
  BY DEF Strings
<1>. QED  BY <1>1

\* A plain name more.
LEMMA PlainAppend ==
    ASSUME NEW names \in PlainRoutes, NEW x \in PlainNames
    PROVE  Append(names, x) \in PlainRoutes /\ Append(names, x) # <<>>
<1>1. names \in Routes /\ x \in Strings
  BY DEF PlainRoutes, PlainNames
<1>2. /\ Append(names, x) \in Routes /\ Len(Append(names, x)) = Len(names) + 1 /\ Len(names) \in Nat
      /\ \A n \in 1 .. Len(names) : Append(names, x)[n] = names[n]
      /\ Append(names, x)[Len(names) + 1] = x
  BY <1>1, RouteAppend
<1>3. \A n \in 1 .. Len(names) + 1 : n \in 1 .. Len(names) \/ n = Len(names) + 1
  BY <1>2
<1>4. \A n \in 1 .. Len(names) : names[n] \in PlainNames
  BY DEF PlainRoutes
<1>5. \A n \in 1 .. Len(names) + 1 : Append(names, x)[n] \in PlainNames
  BY <1>2, <1>3, <1>4
<1>6. Append(names, x) # <<>>
  BY <1>2
<1>. QED  BY <1>2, <1>5, <1>6 DEF PlainRoutes

\* A route without its last name, and that name.
LEMMA PlainSplit ==
    ASSUME NEW names \in PlainRoutes, names # <<>>
    PROVE  \E up \in PlainRoutes, x \in PlainNames :
            names = Append(up, x) /\ up = SubSeq(names, 1, Len(names) - 1)
<1>. DEFINE up == SubSeq(names, 1, Len(names) - 1)
            x == names[Len(names)]
<1>1. names \in Seq(Strings)
  BY DEF PlainRoutes, Routes, Strings
<1>2. ASSUME NEW S, NEW s \in Seq(S), s # <<>>
      PROVE  /\ SubSeq(s, 1, Len(s) - 1) \in Seq(S) /\ Len(SubSeq(s, 1, Len(s) - 1)) = Len(s) - 1
             /\ \A k \in 1 .. Len(s) - 1 : SubSeq(s, 1, Len(s) - 1)[k] = s[k]
             /\ Len(s) \in Nat \ {0}
             /\ s = Append(SubSeq(s, 1, Len(s) - 1), s[Len(s)])
  <2>1. Len(s) \in Nat \ {0}
    BY <1>2
  <2>2. Len(s) - 1 \in 0 .. Len(s) /\ Len(s) \in 1 .. Len(s)
    BY <2>1
  <2>. DEFINE most == SubSeq(s, 1, Len(s) - 1)
  <2>3. /\ most \in Seq(S) /\ Len(most) = Len(s) - 1
        /\ \A k \in 1 .. Len(s) - 1 : most[k] = s[k]
    BY <2>2, FrontFacts
  <2>4. s[Len(s)] \in S
    BY <2>2
  <2>. HIDE DEF most
  <2>5. /\ Append(most, s[Len(s)]) \in Seq(S) /\ Len(Append(most, s[Len(s)])) = Len(most) + 1
        /\ \A k \in 1 .. Len(most) : Append(most, s[Len(s)])[k] = most[k]
        /\ Append(most, s[Len(s)])[Len(most) + 1] = s[Len(s)]
    BY <2>3, <2>4, AppendFacts
  <2>6. \A k \in 1 .. Len(s) : k \in 1 .. Len(s) - 1 \/ k = (Len(s) - 1) + 1
    BY <2>1
  <2>7. s = Append(most, s[Len(s)])
    <3>1. Len(s) = Len(Append(most, s[Len(s)]))
      BY <2>1, <2>3, <2>5
    <3>2. \A k \in 1 .. Len(s) : s[k] = Append(most, s[Len(s)])[k]
      BY <2>1, <2>3, <2>5, <2>6
    <3>. QED  BY <2>5, <3>1, <3>2, SameSequence
  <2>. QED  BY <2>1, <2>3, <2>7 DEF most
<1>3. /\ up \in Seq(Strings) /\ Len(up) = Len(names) - 1
      /\ \A k \in 1 .. Len(names) - 1 : up[k] = names[k]
      /\ Len(names) \in Nat \ {0}
      /\ names = Append(up, x)
  BY <1>1, <1>2
<1>. HIDE DEF up
<1>4. \A k \in 1 .. Len(names) : names[k] \in PlainNames
  BY DEF PlainRoutes
<1>5. Len(names) \in 1 .. Len(names) /\ \A k \in 1 .. Len(names) - 1 : k \in 1 .. Len(names)
  BY <1>3
<1>6. up \in PlainRoutes
  BY <1>3, <1>4, <1>5 DEF PlainRoutes, Routes, Strings
<1>7. x \in PlainNames
  BY <1>4, <1>5
<1>. QED  BY <1>3, <1>6, <1>7 DEF up

\* The text of one name more.
LEMMA ClosedAppend ==
    ASSUME NEW names \in Routes, NEW x \in Strings, NEW absolute \in BOOLEAN
    PROVE  /\ Closed(names, absolute) \in Strings /\ Opened(names, absolute) \in Strings
           /\ Closed(Append(names, x), absolute) = Opened(names, absolute) \o x
<1>. DEFINE F == FlattenSeq(Parts(names))
            T == Top(absolute)
            y == IF names = <<>> THEN x ELSE <<"/">> \o x
<1>1. F \in Strings /\ T \in Strings /\ y \in Strings
  BY PartsAppend, FlattenType, StringFacts DEF Top
<1>2. Closed(names, absolute) = T \o F /\ T \o F \in Strings
  BY <1>1, StringFacts DEF Closed
<1>3. FlattenSeq(Append(Parts(names), y)) = F \o y
  BY <1>1, PartsAppend, FlattenAppend
<1>4. Closed(Append(names, x), absolute) = T \o (F \o y)
  BY <1>3, PartsAppend DEF Closed
<1>5. Opened(names, absolute) = IF names = <<>> THEN T ELSE (T \o F) \o <<"/">>
  BY <1>2, StringFacts DEF Opened
<1>6. CASE names = <<>>
  <2>1. Parts(names) = <<>>
    BY <1>6 DEF Parts
  <2>2. F = <<>>
    BY <2>1 DEF FlattenSeq
  <2>3. F \o y = x
    BY <1>6, <2>2, StringFacts
  <2>. QED  BY <1>1, <1>2, <1>4, <1>5, <1>6, <2>3
<1>7. CASE names # <<>>
  <2>1. T \o (F \o (<<"/">> \o x)) = ((T \o F) \o <<"/">>) \o x
    <3>. DEFINE slash == <<"/">>
                z == slash \o x
    <3>1. slash \in Strings /\ z \in Strings
      BY StringFacts
    <3>2. T \o (F \o z) = (T \o F) \o z
      <4>. HIDE DEF T, F, z, slash
      <4>. QED  BY <1>1, <3>1, Regroup
    <3>3. (T \o F) \o (slash \o x) = ((T \o F) \o slash) \o x
      <4>. DEFINE TF == T \o F
      <4>1. TF \in Strings
        BY <1>2
      <4>. HIDE DEF TF, slash
      <4>2. TF \o (slash \o x) = (TF \o slash) \o x
        BY <3>1, <4>1, Regroup
      <4>. QED  BY <4>2 DEF TF
    <3>. QED  BY <3>2, <3>3
  <2>2. (T \o F) \o <<"/">> \in Strings
    BY <1>2, StringFacts
  <2>. HIDE DEF T, F
  <2>. QED  BY <1>2, <1>4, <1>5, <1>7, <2>1, <2>2
<1>. QED  BY <1>6, <1>7

\* The text before a name, and what is left of it without the slash.
LEMMA OpenedResult ==
    ASSUME NEW names \in PlainRoutes, NEW absolute \in BOOLEAN
    PROVE  /\ Dropped(Opened(names, absolute))
           /\ names = <<>> => Len(Opened(names, absolute)) <= 1
           /\ names # <<>> =>
                /\ Closed(names, absolute) # <<>>
                /\ Len(Closed(names, absolute)) \in Nat \ {0}
                /\ Len(Opened(names, absolute)) = Len(Closed(names, absolute)) + 1
                /\ Last(Opened(names, absolute)) = "/"
                /\ Front(Opened(names, absolute)) = Closed(names, absolute)
                /\ Opened(names, absolute) = Append(Closed(names, absolute), "/")
<1>1. CASE names = <<>>
  <2>1. Opened(names, absolute) = IF absolute THEN <<"/">> ELSE <<>>
    BY <1>1 DEF Opened, Top
  <2>. QED  BY <1>1, <2>1 DEF Dropped, Last
<1>2. CASE names # <<>>
  <2>1. PICK up \in PlainRoutes, x \in PlainNames : names = Append(up, x)
    BY <1>2, PlainSplit
  <2>. DEFINE c == Closed(names, absolute)
  <2>2. up \in Routes /\ names \in Routes /\ x \in Strings /\ x # <<>>
    BY DEF PlainRoutes, PlainNames
  <2>3. c \in Strings /\ c = Opened(up, absolute) \o x /\ Opened(up, absolute) \in Strings
    BY <2>1, <2>2, ClosedAppend
  <2>4. Len(c) \in Nat \ {0}
    <3>1. Len(c) = Len(Opened(up, absolute)) + Len(x) /\ Len(Opened(up, absolute)) \in Nat
      BY <2>2, <2>3, StringFacts
    <3>2. Len(x) \in Nat \ {0}
      BY <2>2, StringFacts
    <3>. QED  BY <3>1, <3>2
  <2>5. Opened(names, absolute) = Append(c, "/")
    BY <1>2 DEF Opened
  <2>. HIDE DEF c
  <2>6. /\ Len(Append(c, "/")) = Len(c) + 1 /\ Append(c, "/")[Len(c) + 1] = "/"
        /\ SubSeq(Append(c, "/"), 1, Len(c)) = c
    <3>1. c \in Seq(Chars) /\ "/" \in Chars
      BY <2>3 DEF Strings, Chars
    <3>2. \A S : \A s \in Seq(S) : \A e \in S :
            /\ Len(Append(s, e)) = Len(s) + 1 /\ Append(s, e)[Len(s) + 1] = e
            /\ SubSeq(Append(s, e), 1, Len(s)) = s
      OBVIOUS
    <3>. QED  BY <3>1, <3>2
  <2>7. Last(Append(c, "/")) = "/" /\ Front(Append(c, "/")) = c
    <3>1. (Len(c) + 1) - 1 = Len(c)
      BY <2>4
    <3>. QED  BY <2>6, <3>1 DEF Last, Front
  <2>8. c # <<>>
    BY <2>4
  <2>. QED  BY <1>2, <2>4, <2>5, <2>6, <2>7, <2>8 DEF c, Dropped
<1>. QED  BY <1>1, <1>2

\* DropName drops the last name.
LEMMA DropLast ==
    ASSUME NEW s \in Strings, Dropped(s), NEW x \in Strings, \A k \in 1 .. Len(x) : x[k] # "/"
    PROVE  DropName(s \o x) = s
<1>. DEFINE t == s \o x
<1>1. s \in Seq(Chars) /\ x \in Seq(Chars)
  BY DEF Strings
<1>2. /\ t \in Seq(Chars) /\ Len(t) = Len(s) + Len(x)
      /\ \A k \in 1 .. Len(s) : t[k] = s[k]
      /\ \A k \in Len(s) + 1 .. Len(s) + Len(x) : t[k] = x[k - Len(s)]
  BY <1>1, ConcatFacts
<1>3. Len(s) \in Nat /\ Len(x) \in Nat
  BY <1>1
<1>4. SubSeq(t, 1, Len(s)) = s
  <2>1. \A S : \A p, q \in Seq(S) : SubSeq(p \o q, 1, Len(p)) = p
    OBVIOUS
  <2>. QED  BY <1>1, <2>1
<1>. HIDE DEF t
<1>5. PICK n \in 0 .. Len(t) : /\ DropName(t) = SubSeq(t, 1, n)
                               /\ n = 0 \/ t[n] = "/"
                               /\ \A k \in n + 1 .. Len(t) : t[k] # "/"
  BY <1>2, DropNameResult
<1>6. ~(n > Len(s))
  <2>1. ASSUME n > Len(s) PROVE FALSE
    <3>1. n \in Len(s) + 1 .. Len(s) + Len(x) /\ n - Len(s) \in 1 .. Len(x) /\ n # 0
      BY <1>2, <1>3, <2>1
    <3>. QED  BY <1>2, <1>5, <3>1
  <2>. QED  BY <2>1
<1>7. ~(n < Len(s))
  <2>1. ASSUME n < Len(s) PROVE FALSE
    <3>1. Len(s) \in n + 1 .. Len(t) /\ Len(s) \in 1 .. Len(s) /\ Len(s) # 0
      BY <1>2, <1>3, <2>1
    <3>2. s # <<>>
      BY <3>1
    <3>3. s[Len(s)] = "/"
      BY <3>2 DEF Dropped, Last
    <3>. QED  BY <1>2, <1>5, <3>1, <3>3
  <2>. QED  BY <2>1
<1>8. n = Len(s)
  BY <1>2, <1>3, <1>6, <1>7
<1>. QED  BY <1>4, <1>5, <1>8 DEF t

\* Where there is a character, there is a path.
LEMMA CharInside ==
    ASSUME NEW path \in Strings, NEW i \in Nat
    PROVE  Char(path, i) # "" =>
            i < Len(path) /\ i + 1 \in 1 .. Len(path) /\ Char(path, i) = path[i + 1]
<1>1. Len(path) \in Nat
  BY DEF Strings
<1>2. i < Len(path) => i + 1 \in 1 .. Len(path)
  BY <1>1
<1>. QED  BY <1>2 DEF Char

\* The first end from a place on is the one of the name there.
LEMMA EndIs ==
    ASSUME NEW path \in Strings, NEW i \in 0 .. Len(path), NEW j \in i .. Len(path),
           AtEnd(path, j), \A k \in i .. j - 1 : ~AtEnd(path, k)
    PROVE  NameEnd(path, i) = j
<1>. DEFINE end == NameEnd(path, i)
<1>1. path \in Seq(Chars) /\ Len(path) \in Nat
  BY DEF Strings
<1>2. /\ end \in i .. Len(path) /\ AtEnd(path, end)
      /\ \A k \in i .. end - 1 : ~AtSlash(path, k)
  BY <1>1, NameEndResult
<1>. HIDE DEF end
<1>3. ~(end < j)
  <2>1. end < j => end \in i .. j - 1
    BY <1>1, <1>2
  <2>. QED  BY <1>2, <2>1
<1>4. ~(j < end)
  <2>1. ASSUME j < end PROVE FALSE
    <3>1. j \in i .. end - 1 /\ j \in Nat /\ j < Len(path)
      BY <1>1, <1>2, <2>1
    <3>2. Char(path, j) # ""
      BY <1>1, <3>1, CharType
    <3>3. ~AtSlash(path, j)
      BY <1>2, <3>1
    <3>. QED  BY <3>2, <3>3 DEF AtSlash, AtEnd
  <2>. QED  BY <2>1
<1>5. end = j
  BY <1>1, <1>2, <1>3, <1>4
<1>. QED  BY <1>5 DEF end

\* The name "." ends behind the dot.
LEMMA DotName ==
    ASSUME NEW path \in Strings, NEW i \in 0 .. Len(path), AtDot(path, i)
    PROVE  /\ i + 1 \in 1 .. Len(path) /\ AtEnd(path, i + 1) /\ ~AtSlash(path, i)
           /\ Following(path)[i] = <<<<".">>>> \o Following(path)[i + 1]
<1>1. i \in Nat /\ Len(path) \in Nat /\ path \in Seq(Chars)
  BY DEF Strings
<1>2. Char(path, i) = "." /\ AtEnd(path, i + 1)
  BY DEF AtDot, AtEnd
<1>3. i + 1 \in 1 .. Len(path) /\ path[i + 1] = "."
  BY <1>1, <1>2, CharInside
<1>4. ~AtSlash(path, i) /\ ~AtEnd(path, i)
  BY <1>2 DEF AtSlash, AtEnd
<1>5. NameEnd(path, i) = i + 1
  <2>1. i + 1 \in i .. Len(path) /\ \A k \in i .. (i + 1) - 1 : k = i
    BY <1>1, <1>3
  <2>. QED  BY <1>2, <1>4, <2>1, EndIs
<1>6. SubSeq(path, i + 1, i + 1) = <<".">>
  <2>. DEFINE t == SubSeq(path, i + 1, i + 1)
  <2>1. i + 1 \in 1 .. Len(path) + 1 /\ i + 1 \in (i + 1) - 1 .. Len(path)
        /\ (i + 1) - (i + 1) + 1 = 1 /\ (i + 1) + 1 - 1 = i + 1
    BY <1>1, <1>3
  <2>2. /\ t \in Seq(Chars) /\ Len(t) = (i + 1) - (i + 1) + 1
        /\ \A k \in 1 .. (i + 1) - (i + 1) + 1 : t[k] = path[(i + 1) + k - 1]
    BY <1>1, <2>1, SubSeqType, Zenon
  <2>3. t[1] = "."
    BY <1>3, <2>1, <2>2
  <2>. HIDE DEF t
  <2>4. t = <<".">>
    <3>1. <<".">> \in Seq(Chars) /\ Len(<<".">>) = 1
      BY DEF Chars
    <3>2. \A k \in 1 .. Len(t) : t[k] = <<".">>[k]
      BY <2>2, <2>3
    <3>. QED  BY <2>2, <3>1, <3>2, SameSequence
  <2>. QED  BY <2>4 DEF t
<1>. QED  BY <1>2, <1>3, <1>4, <1>5, <1>6, FollowName

\* The name ".." ends behind the dots.
LEMMA DotDotName ==
    ASSUME NEW path \in Strings, NEW i \in 0 .. Len(path), AtDotDot(path, i)
    PROVE  /\ i + 2 \in 1 .. Len(path) /\ AtEnd(path, i + 2)
           /\ ~AtSlash(path, i) /\ ~AtSlash(path, i + 1)
           /\ Following(path)[i] = <<<<".", ".">>>> \o Following(path)[i + 2]
<1>1. i \in Nat /\ i + 1 \in Nat /\ Len(path) \in Nat /\ path \in Seq(Chars)
  BY DEF Strings
<1>2. Char(path, i) = "." /\ Char(path, i + 1) = "." /\ AtEnd(path, i + 2)
  BY DEF AtDotDot, AtEnd
<1>3. /\ i + 1 \in 1 .. Len(path) /\ path[i + 1] = "."
      /\ (i + 1) + 1 \in 1 .. Len(path) /\ path[(i + 1) + 1] = "."
  BY <1>1, <1>2, CharInside
<1>4. i + 2 = (i + 1) + 1 /\ i + 2 \in 1 .. Len(path) /\ path[i + 2] = "."
  <2>1. i + 2 = (i + 1) + 1
    BY <1>1
  <2>. QED  BY <1>3, <2>1
<1>5. ~AtSlash(path, i) /\ ~AtEnd(path, i) /\ ~AtSlash(path, i + 1) /\ ~AtEnd(path, i + 1)
  BY <1>2 DEF AtSlash, AtEnd
<1>6. NameEnd(path, i) = i + 2
  <2>1. i + 2 \in i .. Len(path) /\ \A k \in i .. (i + 2) - 1 : k = i \/ k = i + 1
    BY <1>1, <1>4
  <2>. QED  BY <1>2, <1>5, <2>1, EndIs
<1>7. SubSeq(path, i + 1, i + 2) = <<".", ".">>
  <2>. DEFINE t == SubSeq(path, i + 1, i + 2)
  <2>1. i + 1 \in 1 .. Len(path) + 1 /\ i + 2 \in (i + 1) - 1 .. Len(path)
        /\ (i + 2) - (i + 1) + 1 = 2 /\ (i + 1) + 1 - 1 = i + 1 /\ (i + 1) + 2 - 1 = i + 2
    BY <1>1, <1>3, <1>4
  <2>2. t \in Seq(Chars) /\ Len(t) = 2 /\ \A k \in 1 .. 2 : t[k] = path[(i + 1) + k - 1]
    BY <1>1, <2>1, SubSeqType
  <2>3. t[1] = "." /\ t[2] = "."
    BY <1>3, <1>4, <2>1, <2>2
  <2>. HIDE DEF t
  <2>4. <<".", ".">> \in Seq(Chars) /\ Len(<<".", ".">>) = 2
    BY DEF Chars
  <2>5. t = <<".", ".">>
    <3>1. \A k \in 1 .. 2 : k = 1 \/ k = 2
      OBVIOUS
    <3>2. \A k \in 1 .. Len(t) : t[k] = <<".", ".">>[k]
      BY <2>2, <2>3, <3>1
    <3>. QED  BY <2>2, <2>4, <3>2, SameSequence
  <2>. QED  BY <2>5 DEF t
<1>. QED  BY <1>2, <1>4, <1>5, <1>6, <1>7, FollowName

\* A name that is neither "." nor "..".
LEMMA PlainName ==
    ASSUME NEW path \in Strings, NEW i \in 0 .. Len(path), ~AtEnd(path, i),
           ~AtDot(path, i), ~AtDotDot(path, i)
    PROVE  SubSeq(path, i + 1, NameEnd(path, i)) \in PlainNames
<1>. DEFINE end == NameEnd(path, i)
            t == SubSeq(path, i + 1, end)
<1>1. i \in Nat /\ Len(path) \in Nat
  BY DEF Strings
<1>2. /\ end \in i + 1 .. Len(path) /\ AtEnd(path, end)
      /\ t \in Strings /\ Len(t) = end - i
      /\ \A k \in 1 .. end - i : t[k] = path[i + k] /\ path[i + k] # "/"
  BY NameAt
<1>. HIDE DEF end, t
<1>3. t # <<>> /\ \A k \in 1 .. Len(t) : t[k] # "/"
  <2>1. Len(t) # 0
    BY <1>1, <1>2
  <2>. QED  BY <1>2, <2>1
<1>4. /\ Len(t) = 1 => end = i + 1 /\ i < Len(path) /\ 1 \in 1 .. end - i
      /\ Len(t) = 2 => /\ end = i + 2 /\ i < Len(path) /\ i + 1 < Len(path)
                       /\ 1 \in 1 .. end - i /\ 2 \in 1 .. end - i
                       /\ (i + 1) + 1 = i + 2
  BY <1>1, <1>2
<1>5. t # <<".">>
  <2>1. ASSUME t = <<".">> PROVE FALSE
    <3>1. Len(t) = 1 /\ t[1] = "."
      BY <2>1
    <3>2. path[i + 1] = "."
      BY <1>2, <1>4, <3>1
    <3>3. Char(path, i) = "."
      BY <1>4, <3>1, <3>2 DEF Char
    <3>. QED  BY <1>2, <1>4, <3>1, <3>3 DEF AtDot, AtEnd
  <2>. QED  BY <2>1
<1>6. t # <<".", ".">>
  <2>1. ASSUME t = <<".", ".">> PROVE FALSE
    <3>1. Len(t) = 2 /\ t[1] = "." /\ t[2] = "."
      BY <2>1
    <3>2. path[i + 1] = "." /\ path[i + 2] = "."
      BY <1>2, <1>4, <3>1
    <3>3. Char(path, i) = "." /\ Char(path, i + 1) = "."
      BY <1>4, <3>1, <3>2 DEF Char
    <3>. QED  BY <1>2, <1>4, <3>1, <3>3 DEF AtDotDot, AtEnd
  <2>. QED  BY <2>1
<1>. QED  BY <1>2, <1>3, <1>5, <1>6 DEF PlainNames, end, t

-----------------------------------------------------------------------------
(* The loop of normpath_no_escape(): what holds between its turns.         *)

\* Between two turns of the loop: what has been read leads to `names', and that is what has been
\* written; not more has been written than read.
Follows(path, at, names) ==
    /\ at \in [src : 0 .. Len(path), dest : Strings, ok : BOOLEAN]
    /\ at.ok
    /\ Len(at.dest) <= at.src
    /\ names \in PlainRoutes
    /\ Walk(names, Following(path)[at.src]) = Walk(<<>>, Components(path))

Begins(path, at, names) ==
    IsAbsolute(path) /\ at.src = 0 /\ at.dest = <<>> /\ names = <<>>

BeforeName(path, at, names) ==
    /\ at.dest = Opened(names, IsAbsolute(path))
    /\ ~AtSlash(path, at.src)
    /\ names # <<>> => at.src < Len(path)

AfterName(path, at, names) ==
    /\ names # <<>>
    /\ at.dest = Closed(names, IsAbsolute(path))
    /\ AtEnd(path, at.src)

Between(path, at, names) ==
    /\ Follows(path, at, names)
    /\ Begins(path, at, names) \/ BeforeName(path, at, names) \/ AfterName(path, at, names)

Onward(path, at, next) ==
    at.src < next.src /\ \E names : Between(path, next, names)

\* A path is absolute or it is not.
LEMMA AbsoluteOrNot == ASSUME NEW path PROVE IsAbsolute(path) \in BOOLEAN
BY DEF IsAbsolute

\* The turn for a "..".
LEMMA DotDotTurn ==
    ASSUME NEW path \in Strings, NEW at, NEW names,
           Between(path, at, names), AtDotDot(path, at.src)
    PROVE  Onward(path, at, DotDot(path, at))
<1>. DEFINE abs == IsAbsolute(path)
            i == at.src
            F == Following(path)
            rest == SkipSlashes(path, i + 2)
            up == DropName(Front(at.dest))
<1>1. /\ i \in 0 .. Len(path) /\ at.dest \in Strings /\ at.ok /\ Len(at.dest) <= i
      /\ at = [src |-> i, dest |-> at.dest, ok |-> TRUE]
      /\ names \in PlainRoutes /\ Len(path) \in Nat /\ i \in Nat
      /\ Walk(names, F[i]) = Walk(<<>>, Components(path))
  BY DEF Between, Follows, Strings
<1>2. /\ i + 2 \in 1 .. Len(path) /\ i + 2 \in 0 .. Len(path) /\ AtEnd(path, i + 2)
      /\ ~AtSlash(path, i) /\ ~AtEnd(path, i) /\ ~AtSlash(path, (i + 2) - 1)
      /\ F[i] = <<<<".", ".">>>> \o F[i + 2]
  <2>1. /\ i + 2 \in 1 .. Len(path) /\ AtEnd(path, i + 2)
        /\ ~AtSlash(path, i) /\ ~AtSlash(path, i + 1)
        /\ F[i] = <<<<".", ".">>>> \o F[i + 2]
    BY <1>1, DotDotName
  <2>2. i + 2 \in 0 .. Len(path) /\ (i + 2) - 1 = i + 1
    BY <1>1, <2>1
  <2>3. ~AtEnd(path, i)
    BY DEF AtDotDot, AtEnd
  <2>. QED  BY <2>1, <2>2, <2>3
<1>3. BeforeName(path, at, names)
  BY <1>2 DEF Between, Begins, AfterName, AtSlash, IsAbsolute
<1>4. abs \in BOOLEAN
  BY AbsoluteOrNot
<1>. HIDE DEF abs, F
<1>5. /\ rest \in i + 2 .. Len(path) /\ ~AtSlash(path, rest) /\ F[rest] = F[i + 2]
  BY <1>2, FollowSkip DEF F
<1>6. F[i + 2] \in Routes
  BY <1>2, FollowingResult DEF F
<1>7. Walk(Step(names, <<".", ".">>), F[i + 2]) = Walk(<<>>, Components(path))
  <2>1. <<".", ".">> \in Strings
    BY DEF Strings, Chars
  <2>2. names \in Routes /\ F[i + 2] \in Routes
    BY <1>1, <1>6 DEF PlainRoutes
  <2>3. Walk(names, <<<<".", ".">>>> \o F[i + 2]) = Walk(Step(names, <<".", ".">>), F[i + 2])
    BY <2>1, <2>2, WalkOn
  <2>. QED  BY <1>1, <1>2, <2>3
<1>. HIDE DEF rest
<1>8. CASE names = <<>>
  <2>1. Len(at.dest) <= 1
    BY <1>3, <1>4, <1>8, OpenedResult, <1>1 DEF BeforeName, abs
  <2>2. DotDot(path, at) = [src |-> rest, dest |-> at.dest, ok |-> TRUE]
    <3>1. ~(Len(at.dest) > 1)
      BY <1>1, <2>1, StringFacts
    <3>. QED  BY <1>1, <3>1 DEF DotDot, rest
  <2>3. Step(names, <<".", ".">>) = names
    <3>1. <<".", ".">> # <<".">>
      OBVIOUS
    <3>2. SubSeq(<<>>, 1, Len(<<>>) - 1) = <<>>
      OBVIOUS
    <3>. QED  BY <1>8, <3>1, <3>2 DEF Step
  <2>. DEFINE next == [src |-> rest, dest |-> at.dest, ok |-> TRUE]
  <2>4. /\ next.src = rest /\ next.dest = at.dest /\ next.ok
        /\ rest \in 0 .. Len(path) /\ Len(at.dest) <= rest /\ i < rest
    <3>1. Len(at.dest) \in Nat
      BY <1>1, StringFacts
    <3>. QED  BY <1>1, <1>5, <3>1
  <2>5. Follows(path, next, names)
    BY <1>1, <1>5, <1>7, <2>3, <2>4 DEF Follows, F
  <2>6. BeforeName(path, next, names)
    BY <1>3, <1>5, <1>8, <2>4 DEF BeforeName
  <2>. HIDE DEF next
  <2>7. Between(path, next, names)
    BY <2>5, <2>6 DEF Between
  <2>. QED  BY <2>2, <2>4, <2>7 DEF Onward, next
<1>9. CASE names # <<>>
  <2>1. PICK most \in PlainRoutes, x \in PlainNames :
            names = Append(most, x) /\ most = SubSeq(names, 1, Len(names) - 1)
    BY <1>1, <1>9, PlainSplit
  <2>2. /\ Len(at.dest) = Len(Closed(names, abs)) + 1 /\ Len(Closed(names, abs)) \in Nat \ {0}
        /\ Last(at.dest) = "/" /\ Front(at.dest) = Closed(names, abs)
    BY <1>1, <1>3, <1>4, <1>9, OpenedResult DEF BeforeName, abs
  <2>3. /\ Closed(names, abs) = Opened(most, abs) \o x
        /\ Opened(most, abs) \in Strings /\ x \in Strings /\ most \in Routes
        /\ \A k \in 1 .. Len(x) : x[k] # "/"
    BY <1>4, <2>1, ClosedAppend DEF PlainNames, PlainRoutes
  <2>4. up = Opened(most, abs)
    BY <1>4, <2>2, <2>3, OpenedResult, DropLast
  <2>5. Len(up) \in Nat /\ Len(up) <= i - 1
    <3>1. Len(Closed(names, abs)) = Len(Opened(most, abs)) + Len(x) /\ Len(x) \in Nat
          /\ Len(Opened(most, abs)) \in Nat
      BY <2>3, StringFacts
    <3>. HIDE DEF up
    <3>. QED  BY <1>1, <2>2, <2>4, <3>1
  <2>6. Step(names, <<".", ".">>) = most
    <3>1. <<".", ".">> # <<".">>
      OBVIOUS
    <3>. QED  BY <2>1, <3>1 DEF Step
  <2>7. Len(at.dest) > 1
    BY <2>2
  <2>. DEFINE inner == Len(up) > 1
              to == StepBack(path, rest)
  <2>8. DotDot(path, at) = [src  |-> IF inner THEN to ELSE rest,
                            dest |-> IF inner THEN Front(up) ELSE up, ok |-> TRUE]
    BY <1>1, <2>2, <2>7 DEF DotDot, rest
  <2>. HIDE DEF up
  <2>9. CASE most = <<>>
    <3>1. ~inner
      <4>1. Len(Opened(most, abs)) <= 1
        BY <1>4, <2>9, OpenedResult
      <4>. QED  BY <2>4, <2>5, <4>1
    <3>. DEFINE next == [src |-> rest, dest |-> up, ok |-> TRUE]
    <3>2. DotDot(path, at) = next
      BY <2>8, <3>1
    <3>3. /\ next.src = rest /\ next.dest = up /\ next.ok
          /\ rest \in 0 .. Len(path) /\ Len(up) <= rest /\ i < rest
      BY <1>1, <1>5, <2>5
    <3>4. Follows(path, next, most)
      BY <1>1, <1>5, <1>7, <2>1, <2>3, <2>4, <2>6, <3>3 DEF Follows, F
    <3>5. BeforeName(path, next, most)
      BY <1>5, <2>4, <2>9, <3>3 DEF BeforeName, abs
    <3>. HIDE DEF next
    <3>. QED  BY <3>2, <3>3, <3>4, <3>5 DEF Between, Onward
  <2>10. CASE most # <<>>
    <3>1. /\ Len(up) = Len(Closed(most, abs)) + 1 /\ Len(Closed(most, abs)) \in Nat \ {0}
          /\ Front(up) = Closed(most, abs) /\ Closed(most, abs) \in Strings
      BY <1>4, <2>3, <2>4, <2>10, OpenedResult, ClosedAppend
    <3>2. inner
      BY <3>1
    <3>3. to \in i + 2 .. Len(path) /\ AtEnd(path, to) /\ F[to] = F[i + 2]
      BY <1>2, FollowBack DEF F, rest
    <3>. HIDE DEF to, inner
    <3>. DEFINE next == [src |-> to, dest |-> Front(up), ok |-> TRUE]
    <3>4. DotDot(path, at) = next
      BY <2>8, <3>2
    <3>5. /\ next.src = to /\ next.dest = Closed(most, abs) /\ next.ok
          /\ to \in 0 .. Len(path) /\ Len(Closed(most, abs)) <= to /\ i < to
      BY <1>1, <2>5, <3>1, <3>3
    <3>. HIDE DEF next
    <3>6. Follows(path, next, most)
      <4>1. next \in [src : 0 .. Len(path), dest : Strings, ok : BOOLEAN]
        BY <3>1, <3>5 DEF next
      <4>. QED  BY <1>7, <2>1, <2>6, <3>3, <3>5, <4>1 DEF Follows, F
    <3>7. AfterName(path, next, most)
      BY <2>10, <3>3, <3>5 DEF AfterName, abs
    <3>. QED  BY <3>4, <3>5, <3>6, <3>7 DEF Between, Onward
  <2>. QED  BY <2>9, <2>10
<1>. QED  BY <1>8, <1>9

\* The EXCEPT of two fields.
LEMMA Updated ==
    ASSUME NEW at, NEW s, NEW d, NEW k, at = [src |-> s, dest |-> d, ok |-> k], NEW r, NEW e,
           NEW next, next = [at EXCEPT !.src = r, !.dest = e]
    PROVE  next = [src |-> r, dest |-> e, ok |-> k]
OBVIOUS

\* The turn for a ".".
LEMMA DotTurn ==
    ASSUME NEW path \in Strings, NEW at, NEW names,
           Between(path, at, names), AtDot(path, at.src)
    PROVE  Onward(path, at, Dot(path, at))
<1>. DEFINE abs == IsAbsolute(path)
            i == at.src
            F == Following(path)
            rest == SkipSlashes(path, i + 1)
<1>1. /\ i \in 0 .. Len(path) /\ at.dest \in Strings /\ at.ok /\ Len(at.dest) <= i
      /\ at = [src |-> i, dest |-> at.dest, ok |-> TRUE]
      /\ names \in PlainRoutes /\ Len(path) \in Nat /\ i \in Nat
      /\ Walk(names, F[i]) = Walk(<<>>, Components(path))
  BY DEF Between, Follows, Strings
<1>2. /\ i + 1 \in 1 .. Len(path) /\ i + 1 \in 0 .. Len(path) /\ AtEnd(path, i + 1)
      /\ ~AtSlash(path, i) /\ ~AtEnd(path, i) /\ ~AtSlash(path, (i + 1) - 1)
      /\ F[i] = <<<<".">>>> \o F[i + 1]
  <2>1. /\ i + 1 \in 1 .. Len(path) /\ AtEnd(path, i + 1) /\ ~AtSlash(path, i)
        /\ F[i] = <<<<".">>>> \o F[i + 1]
    BY <1>1, DotName
  <2>2. i + 1 \in 0 .. Len(path) /\ (i + 1) - 1 = i
    BY <1>1, <2>1
  <2>3. ~AtEnd(path, i)
    BY DEF AtDot, AtEnd
  <2>. QED  BY <2>1, <2>2, <2>3
<1>3. BeforeName(path, at, names)
  BY <1>2 DEF Between, Begins, AfterName, AtSlash, IsAbsolute
<1>4. abs \in BOOLEAN
  BY AbsoluteOrNot
<1>. HIDE DEF abs, F
<1>5. /\ rest \in i + 1 .. Len(path) /\ ~AtSlash(path, rest) /\ F[rest] = F[i + 1]
  BY <1>2, FollowSkip DEF F
<1>6. F[i + 1] \in Routes
  BY <1>2, FollowingResult DEF F
<1>7. Walk(names, F[i + 1]) = Walk(<<>>, Components(path))
  <2>1. <<".">> \in Strings
    BY DEF Strings, Chars
  <2>2. names \in Routes /\ F[i + 1] \in Routes
    BY <1>1, <1>6 DEF PlainRoutes
  <2>3. Walk(names, <<<<".">>>> \o F[i + 1]) = Walk(Step(names, <<".">>), F[i + 1])
    BY <2>1, <2>2, WalkOn
  <2>. QED  BY <1>1, <1>2, <2>3 DEF Step
<1>. HIDE DEF rest
<1>8. CASE names = <<>>
  <2>1. Len(at.dest) <= 1
    BY <1>3, <1>4, <1>8, OpenedResult, <1>1 DEF BeforeName, abs
  <2>. DEFINE next == [src |-> rest, dest |-> at.dest, ok |-> TRUE]
  <2>2. Dot(path, at) = next
    <3>1. ~(Len(at.dest) > 1)
      BY <1>1, <2>1, StringFacts
    <3>. QED  BY <1>1, <3>1 DEF Dot, rest
  <2>3. /\ next.src = rest /\ next.dest = at.dest /\ next.ok
        /\ rest \in 0 .. Len(path) /\ Len(at.dest) <= rest /\ i < rest
    <3>1. Len(at.dest) \in Nat
      BY <1>1, StringFacts
    <3>. QED  BY <1>1, <1>5, <3>1
  <2>4. Follows(path, next, names)
    BY <1>1, <1>5, <1>7, <2>3 DEF Follows, F
  <2>5. BeforeName(path, next, names)
    BY <1>3, <1>5, <1>8, <2>3 DEF BeforeName
  <2>. HIDE DEF next
  <2>. QED  BY <2>2, <2>3, <2>4, <2>5 DEF Between, Onward
<1>9. CASE names # <<>>
  <2>1. /\ Len(at.dest) = Len(Closed(names, abs)) + 1 /\ Len(Closed(names, abs)) \in Nat \ {0}
        /\ Last(at.dest) = "/" /\ Front(at.dest) = Closed(names, abs)
    BY <1>1, <1>3, <1>4, <1>9, OpenedResult DEF BeforeName, abs
  <2>2. Closed(names, abs) \in Strings
    <3>1. names \in Routes /\ <<>> \in Strings
      BY <1>1, StringFacts DEF PlainRoutes
    <3>. QED  BY <1>4, <3>1, ClosedAppend
  <2>3. Len(at.dest) > 1
    BY <2>1
  <2>. DEFINE to == StepBack(path, rest)
              next == [src |-> to, dest |-> Closed(names, abs), ok |-> TRUE]
  <2>4. Dot(path, at) = next
    BY <1>1, <2>1, <2>3 DEF Dot, rest
  <2>5. to \in i + 1 .. Len(path) /\ AtEnd(path, to) /\ F[to] = F[i + 1]
    BY <1>2, FollowBack DEF F, rest
  <2>. HIDE DEF to
  <2>6. /\ next.src = to /\ next.dest = Closed(names, abs) /\ next.ok
        /\ to \in 0 .. Len(path) /\ Len(Closed(names, abs)) <= to /\ i < to
    BY <1>1, <2>1, <2>5
  <2>7. Follows(path, next, names)
    <3>1. next \in [src : 0 .. Len(path), dest : Strings, ok : BOOLEAN]
      BY <2>2, <2>6
    <3>. HIDE DEF next
    <3>. QED  BY <1>1, <1>7, <2>5, <2>6, <3>1 DEF Follows, F
  <2>. HIDE DEF next
  <2>8. AfterName(path, next, names)
    BY <1>9, <2>5, <2>6 DEF AfterName, abs
  <2>. QED  BY <2>4, <2>6, <2>7, <2>8 DEF Between, Onward
<1>. QED  BY <1>8, <1>9

\* The turn for slashes.
LEMMA SlashTurn ==
    ASSUME NEW path \in Strings, NEW at, NEW names,
           Between(path, at, names), AtSlash(path, at.src)
    PROVE  Onward(path, at, Slash(path, at))
<1>. DEFINE abs == IsAbsolute(path)
            i == at.src
            F == Following(path)
            rest == SkipSlashes(path, i)
<1>1. /\ i \in 0 .. Len(path) /\ at.dest \in Strings /\ at.ok /\ Len(at.dest) <= i
      /\ at = [src |-> i, dest |-> at.dest, ok |-> TRUE]
      /\ names \in PlainRoutes /\ Len(path) \in Nat /\ i \in Nat
      /\ Walk(names, F[i]) = Walk(<<>>, Components(path))
  BY DEF Between, Follows, Strings
<1>2. abs \in BOOLEAN
  BY AbsoluteOrNot
<1>3. /\ rest \in i .. Len(path) /\ ~AtSlash(path, rest) /\ F[rest] = F[i] /\ i < rest
  BY <1>1, FollowSkip
<1>4. Begins(path, at, names) \/ AfterName(path, at, names)
  BY DEF Between, BeforeName
<1>. HIDE DEF abs, F
<1>5. Slash(path, at)
        = [src  |-> rest,
           dest |-> IF at.dest # <<>> /\ rest = Len(path) THEN at.dest ELSE Append(at.dest, "/"),
           ok   |-> TRUE]
  <2>. DEFINE new == IF at.dest # <<>> /\ rest = Len(path) THEN at.dest ELSE Append(at.dest, "/")
  <2>1. Slash(path, at) = [at EXCEPT !.src = rest, !.dest = new]
    BY DEF Slash
  <2>. HIDE DEF new, rest
  <2>. QED  BY <1>1, <2>1, Updated DEF new
<1>. HIDE DEF rest
<1>6. CASE Begins(path, at, names)
  <2>. DEFINE next == [src |-> rest, dest |-> <<"/">>, ok |-> TRUE]
  <2>1. Slash(path, at) = next
    <3>1. Append(<<>>, "/") = <<"/">>
      OBVIOUS
    <3>. QED  BY <1>5, <1>6, <3>1 DEF Begins
  <2>2. Opened(names, abs) = <<"/">>
    BY <1>6 DEF Begins, Opened, Top, abs
  <2>3. /\ next.src = rest /\ next.dest = <<"/">> /\ next.ok
        /\ rest \in 0 .. Len(path) /\ Len(<<"/">>) <= rest
    <3>1. Len(<<"/">>) = 1
      OBVIOUS
    <3>. QED  BY <1>1, <1>3, <3>1
  <2>4. Follows(path, next, names)
    BY <1>1, <1>3, <2>3, StringFacts DEF Follows, F
  <2>5. BeforeName(path, next, names)
    BY <1>3, <1>6, <2>2, <2>3 DEF BeforeName, Begins, abs
  <2>. HIDE DEF next
  <2>. QED  BY <1>3, <2>1, <2>3, <2>4, <2>5 DEF Between, Onward
<1>7. CASE AfterName(path, at, names)
  <2>1. /\ names # <<>> /\ at.dest = Closed(names, abs) /\ at.dest # <<>>
        /\ Len(Opened(names, abs)) = Len(at.dest) + 1 /\ Len(at.dest) \in Nat
        /\ Opened(names, abs) = Append(at.dest, "/") /\ Opened(names, abs) \in Strings
    <3>1. names \in Routes /\ <<>> \in Strings
      BY <1>1, StringFacts DEF PlainRoutes
    <3>2. Opened(names, abs) \in Strings
      BY <1>2, <3>1, ClosedAppend
    <3>. QED  BY <1>1, <1>2, <1>7, <3>2, OpenedResult DEF AfterName, abs
  <2>2. CASE rest = Len(path)
    <3>. DEFINE next == [src |-> rest, dest |-> at.dest, ok |-> TRUE]
    <3>1. Slash(path, at) = next
      BY <1>5, <2>1, <2>2
    <3>2. /\ next.src = rest /\ next.dest = at.dest /\ next.ok
          /\ rest \in 0 .. Len(path) /\ Len(at.dest) <= rest
      BY <1>1, <1>3, <2>1
    <3>3. Follows(path, next, names)
      BY <1>1, <1>3, <3>2 DEF Follows, F
    <3>4. AtEnd(path, rest)
      <4>1. path \in Seq(Chars)
        BY DEF Strings
      <4>. QED  BY <2>2, <4>1, CharType DEF AtEnd
    <3>5. AfterName(path, next, names)
      BY <2>1, <3>2, <3>4 DEF AfterName, abs
    <3>. HIDE DEF next
    <3>. QED  BY <1>3, <3>1, <3>2, <3>3, <3>5 DEF Between, Onward
  <2>3. CASE rest # Len(path)
    <3>. DEFINE next == [src |-> rest, dest |-> Opened(names, abs), ok |-> TRUE]
    <3>1. Slash(path, at) = next
      BY <1>5, <2>1, <2>3
    <3>2. /\ next.src = rest /\ next.dest = Opened(names, abs) /\ next.ok
          /\ rest \in 0 .. Len(path) /\ Len(Opened(names, abs)) <= rest /\ rest < Len(path)
      BY <1>1, <1>3, <2>1, <2>3
    <3>3. Follows(path, next, names)
      <4>1. next \in [src : 0 .. Len(path), dest : Strings, ok : BOOLEAN]
        BY <2>1, <3>2
      <4>. HIDE DEF next
      <4>. QED  BY <1>1, <1>3, <3>2, <4>1 DEF Follows, F
    <3>4. BeforeName(path, next, names)
      BY <1>3, <3>2 DEF BeforeName, abs
    <3>. HIDE DEF next
    <3>. QED  BY <1>3, <3>1, <3>2, <3>3, <3>4 DEF Between, Onward
  <2>. QED  BY <2>2, <2>3
<1>. QED  BY <1>4, <1>6, <1>7

\* The turn for a plain name.
LEMMA NameTurn ==
    ASSUME NEW path \in Strings, NEW at, NEW names,
           Between(path, at, names), ~AtEnd(path, at.src),
           ~AtDot(path, at.src), ~AtDotDot(path, at.src)
    PROVE  Onward(path, at, Name(path, at))
<1>. DEFINE abs == IsAbsolute(path)
            i == at.src
            F == Following(path)
            end == NameEnd(path, i)
            x == SubSeq(path, i + 1, end)
            more == Append(names, x)
            next == [src |-> end, dest |-> Closed(more, abs), ok |-> TRUE]
<1>1. /\ i \in 0 .. Len(path) /\ at.dest \in Strings /\ at.ok /\ Len(at.dest) <= i
      /\ at = [src |-> i, dest |-> at.dest, ok |-> TRUE]
      /\ names \in PlainRoutes /\ Len(path) \in Nat /\ i \in Nat
      /\ Walk(names, F[i]) = Walk(<<>>, Components(path))
  BY DEF Between, Follows, Strings
<1>2. abs \in BOOLEAN
  BY AbsoluteOrNot
<1>3. BeforeName(path, at, names)
  BY DEF Between, Begins, AfterName, AtEnd, IsAbsolute
<1>4. /\ i < end /\ end \in i + 1 .. Len(path) /\ AtEnd(path, end)
      /\ x \in Strings /\ Len(x) = end - i
  BY <1>1, NameAt
<1>5. x \in PlainNames /\ F[i] = <<x>> \o F[end]
  BY <1>1, PlainName, FollowName
<1>6. end \in 0 .. Len(path)
  BY <1>1, <1>4
<1>7. F[end] \in Routes
  BY <1>6, FollowingResult
<1>. HIDE DEF abs, F, end, x
<1>8. Walk(more, F[end]) = Walk(<<>>, Components(path))
  <2>1. x \in Strings /\ names \in Routes /\ F[end] \in Routes
    BY <1>1, <1>4, <1>7 DEF PlainRoutes, Routes, Strings
  <2>2. Walk(names, <<x>> \o F[end]) = Walk(Step(names, x), F[end])
    BY <2>1, WalkOn
  <2>3. Step(names, x) = more
    BY <1>5 DEF Step, PlainNames
  <2>. QED  BY <1>1, <1>5, <2>2, <2>3
<1>9. more \in PlainRoutes /\ more # <<>>
  BY <1>1, <1>5, PlainAppend
<1>10. /\ Closed(more, abs) = at.dest \o x
       /\ Closed(more, abs) \in Strings
       /\ Len(Closed(more, abs)) = Len(at.dest) + Len(x) /\ Len(at.dest) \in Nat
  <2>1. names \in Routes
    BY <1>1 DEF PlainRoutes
  <2>2. Closed(more, abs) = Opened(names, abs) \o x
    BY <1>2, <1>4, <2>1, ClosedAppend
  <2>3. at.dest = Opened(names, abs)
    BY <1>3 DEF BeforeName, abs
  <2>. DEFINE d == at.dest
  <2>4. d \in Strings
    BY <1>1
  <2>. HIDE DEF more, d
  <2>5. d \o x \in Strings /\ Len(d \o x) = Len(d) + Len(x) /\ Len(d) \in Nat
    BY <1>4, <2>4, StringFacts
  <2>6. Closed(more, abs) = d \o x
    BY <2>2, <2>3 DEF d
  <2>. QED  BY <2>5, <2>6 DEF d
<1>11. Name(path, at) = next
  <2>1. Name(path, at) = [at EXCEPT !.src = end, !.dest = at.dest \o x]
    BY DEF Name, end, x
  <2>. HIDE DEF more
  <2>2. Name(path, at) = [at EXCEPT !.src = end, !.dest = Closed(more, abs)]
    BY <1>10, <2>1
  <2>. QED  BY <1>1, <2>2
<1>. HIDE DEF more
<1>12. /\ next.src = end /\ next.dest = Closed(more, abs) /\ next.ok
       /\ Len(Closed(more, abs)) <= end
  BY <1>1, <1>4, <1>10
<1>13. Follows(path, next, more)
  <2>1. next \in [src : 0 .. Len(path), dest : Strings, ok : BOOLEAN]
    BY <1>6, <1>10
  <2>. HIDE DEF next
  <2>. QED  BY <1>8, <1>9, <1>12, <2>1 DEF Follows, F
<1>. HIDE DEF next
<1>14. AfterName(path, next, more)
  BY <1>4, <1>9, <1>12 DEF AfterName, abs
<1>. QED  BY <1>4, <1>11, <1>12, <1>13, <1>14 DEF Between, Onward

States(path) == [src : 0 .. Len(path), dest : Strings, ok : BOOLEAN]

\* A turn goes on, until the end is reached.
LEMMA TurnResult ==
    ASSUME NEW path \in Strings, NEW at, NEW names, Between(path, at, names)
    PROVE  /\ \E more : Between(path, Turn(path, at), more)
           /\ Turn(path, at).src = Len(path) \/ at.src < Turn(path, at).src
<1>. DEFINE i == at.src
            next == IF at.src = Len(path) THEN at
                    ELSE IF AtDotDot(path, at.src) THEN DotDot(path, at)
                    ELSE IF AtDot(path, at.src) THEN Dot(path, at)
                    ELSE IF Char(path, at.src) = "/" THEN Slash(path, at)
                    ELSE Name(path, at)
<1>1. i \in 0 .. Len(path) /\ Len(path) \in Nat /\ path \in Seq(Chars)
  BY DEF Between, Follows, Strings
<1>2. i # Len(path) => Onward(path, at, next)
  <2>1. ASSUME i # Len(path) PROVE Char(path, i) # ""
    <3>1. i \in Nat /\ i < Len(path)
      BY <1>1, <2>1
    <3>. QED  BY <1>1, <3>1, CharType
  <2>2. CASE i # Len(path) /\ AtDotDot(path, i)
    BY <2>2, DotDotTurn
  <2>3. CASE i # Len(path) /\ ~AtDotDot(path, i) /\ AtDot(path, i)
    BY <2>3, DotTurn
  <2>4. CASE i # Len(path) /\ ~AtDotDot(path, i) /\ ~AtDot(path, i) /\ AtSlash(path, i)
    BY <2>4, SlashTurn DEF AtSlash
  <2>5. CASE i # Len(path) /\ ~AtDotDot(path, i) /\ ~AtDot(path, i) /\ ~AtSlash(path, i)
    <3>1. ~AtEnd(path, i)
      BY <2>1, <2>5 DEF AtSlash, AtEnd
    <3>. QED  BY <2>5, <3>1, NameTurn DEF AtSlash
  <2>. QED  BY <2>2, <2>3, <2>4, <2>5
<1>3. PICK more : Between(path, next, more)
  BY <1>2 DEF Onward
<1>4. next.src = Len(path) \/ i < next.src
  BY <1>2 DEF Onward
<1>. HIDE DEF next
<1>5. Turn(path, at) = [next EXCEPT !.ok = @ /\ Len(next.dest) <= Len(path)]
  BY DEF Turn, next
<1>6. next \in States(path) /\ next.ok /\ Len(next.dest) <= next.src
  BY <1>3 DEF Between, Follows, States
<1>7. Len(next.dest) <= Len(path)
  <2>1. next.src \in 0 .. Len(path) /\ next.dest \in Strings
    BY <1>6 DEF States
  <2>2. Len(next.dest) \in Nat
    BY <2>1, StringFacts
  <2>. QED  BY <1>1, <1>6, <2>1, <2>2
<1>8. Turn(path, at) = next
  BY <1>5, <1>6, <1>7 DEF States
<1>. QED  BY <1>3, <1>4, <1>8

\* Before the first turn.
LEMMA FirstBetween ==
    ASSUME NEW path \in Strings
    PROVE  Between(path, [src |-> 0, dest |-> <<>>, ok |-> TRUE], <<>>)
<1>. DEFINE first == [src |-> 0, dest |-> <<>>, ok |-> TRUE]
<1>1. <<>> \in PlainRoutes /\ <<>> \in Routes /\ <<>> \in Strings /\ Len(<<>>) = 0
  BY StringFacts DEF PlainRoutes, Routes
<1>2. 0 \in 0 .. Len(path)
  BY DEF Strings
<1>3. Follows(path, first, <<>>)
  BY <1>1, <1>2, ComponentsFollow DEF Follows
<1>4. CASE IsAbsolute(path)
  BY <1>3, <1>4 DEF Between, Begins
<1>5. CASE ~IsAbsolute(path)
  <2>1. BeforeName(path, first, <<>>)
    BY <1>5 DEF BeforeName, Opened, Top, IsAbsolute, AtSlash
  <2>. QED  BY <1>3, <2>1 DEF Between
<1>. QED  BY <1>4, <1>5

\* The turns of the loop.
LEMMA LoopTurns ==
    ASSUME NEW path \in Strings
    PROVE  \E after : /\ Loop(path) = after[Len(path)]
                      /\ after[0] = [src |-> 0, dest |-> <<>>, ok |-> TRUE]
                      /\ \A n \in 1 .. Len(path) : after[n] = Turn(path, after[n - 1])
<1>. DEFINE N == Len(path)
            first == [src |-> 0, dest |-> <<>>, ok |-> TRUE]
            S == {at \in States(path) : \E names : Between(path, at, names)}
            next == [n \in 1 .. N |-> [at \in S |-> Turn(path, at)]]
            Body(f) == [n \in 0 .. N |-> IF n = 0 THEN first ELSE Turn(path, f[n - 1])]
            after == CHOOSE f : f = Body(f)
<1>1. N \in Nat
  BY DEF Strings
<1>2. \A at, names : Between(path, at, names) => at \in S
  BY DEF Between, Follows, States
<1>3. first \in S
  <2>1. Between(path, first, <<>>)
    BY FirstBetween
  <2>. HIDE DEF S, first
  <2>. QED  BY <1>2, <2>1
<1>4. next \in [1 .. N -> [S -> S]]
  <2>1. \A at \in S : Turn(path, at) \in S
    <3>1. ASSUME NEW at \in S PROVE Turn(path, at) \in S
      <4>1. PICK names : Between(path, at, names)
        OBVIOUS
      <4>2. PICK more : Between(path, Turn(path, at), more)
        BY <4>1, TurnResult
      <4>. HIDE DEF S
      <4>. QED  BY <1>2, <4>2
    <3>. QED  BY <3>1
  <2>. HIDE DEF S, N
  <2>. QED  BY <2>1
<1>5. PICK f \in [0 .. N -> S] : f[0] = first /\ \A n \in 1 .. N : f[n] = next[n][f[n - 1]]
  <2>. HIDE DEF N, S, first, next
  <2>1. \E f : IsRun(f, S, first, N, next)
    BY <1>1, <1>3, <1>4, Iterates
  <2>. QED  BY <2>1 DEF IsRun
<1>6. f = Body(f)
  <2>1. \A n \in 0 .. N : n # 0 => n \in 1 .. N /\ n - 1 \in 0 .. N
    BY <1>1
  <2>. HIDE DEF N, S, first
  <2>2. \A n \in 1 .. N : n - 1 \in 0 .. N => f[n] = Turn(path, f[n - 1])
    BY <1>5
  <2>. QED  BY <1>5, <2>1, <2>2
<1>. HIDE DEF Body
<1>7. after = Body(after)
  BY <1>6
<1>8. Loop(path) = after[N]
  BY DEF Loop, Body
<1>. HIDE DEF after
<1>9. 0 \in 0 .. N /\ \A n \in 1 .. N : n \in 0 .. N /\ n # 0
  BY <1>1
<1>10. \A n \in 0 .. N : after[n] = Body(after)[n]
  BY <1>7
<1>11. after[0] = first /\ \A n \in 1 .. N : after[n] = Turn(path, after[n - 1])
  <2>. HIDE DEF N, first
  <2>. QED  BY <1>9, <1>10 DEF Body
<1>. QED  BY <1>8, <1>11

\* The loop has got to the end of the path.
LEMMA LoopEnds ==
    ASSUME NEW path \in Strings
    PROVE  \E names : Between(path, Loop(path), names) /\ Loop(path).src = Len(path)
<1>. DEFINE N == Len(path)
<1>1. N \in Nat
  BY DEF Strings
<1>2. PICK after : /\ Loop(path) = after[N]
                   /\ after[0] = [src |-> 0, dest |-> <<>>, ok |-> TRUE]
                   /\ \A n \in 1 .. N : after[n] = Turn(path, after[n - 1])
  BY LoopTurns
<1>. DEFINE T == {n \in 0 .. N : after[n].src >= n /\ \E names : Between(path, after[n], names)}
<1>3. 0 \in T
  <2>1. \E names : Between(path, [src |-> 0, dest |-> <<>>, ok |-> TRUE], names)
    BY FirstBetween
  <2>. QED  BY <1>1, <1>2, <2>1
<1>4. ASSUME NEW n \in 1 .. N, n - 1 \in T
      PROVE  n \in T
  <2>1. after[n] = Turn(path, after[n - 1])
    BY <1>2
  <2>2. PICK names : Between(path, after[n - 1], names)
    BY <1>4
  <2>3. PICK more : Between(path, after[n], more)
    BY <2>1, <2>2, TurnResult
  <2>4. after[n].src = N \/ after[n - 1].src < after[n].src
    BY <2>1, <2>2, TurnResult
  <2>5. after[n - 1].src \in 0 .. N /\ after[n].src \in 0 .. N
    BY <2>2, <2>3 DEF Between, Follows
  <2>6. n \in 0 .. N /\ after[n - 1].src >= n - 1
    BY <1>1, <1>4
  <2>7. after[n].src >= n
    <3>. HIDE DEF N, T
    <3>. QED  BY <1>1, <2>4, <2>5, <2>6
  <2>. QED  BY <2>3, <2>6, <2>7
<1>5. N \in T
  <2>1. N \in 0 .. N
    BY <1>1
  <2>. HIDE DEF T, N
  <2>. QED  BY <1>1, <1>3, <1>4, <2>1, Climb
<1>6. PICK names : Between(path, Loop(path), names)
  BY <1>2, <1>5
<1>7. Loop(path).src \in 0 .. N
  BY <1>6 DEF Between, Follows
<1>8. Loop(path).src >= N
  BY <1>2, <1>5
<1>9. Loop(path).src = N
  <2>. HIDE DEF T, N
  <2>. QED  BY <1>1, <1>7, <1>8
<1>. QED  BY <1>6, <1>9

\* The loop of normpath_no_escape() ends for every path, its assert()s hold, it stays within its
\* buffer, and its result is the path without ".", ".." and doubled slashes.
THEOREM PathNormal ==
    ASSUME NEW path \in Strings
    PROVE  Sound(path) /\ normpath_no_escape(path) = Normal(path)
<1>1. PICK names : Between(path, Loop(path), names) /\ Loop(path).src = Len(path)
  BY LoopEnds
<1>. DEFINE dest == Loop(path).dest
            abs == IsAbsolute(path)
            F == Following(path)
<1>2. /\ Loop(path).ok /\ names \in PlainRoutes
      /\ Walk(names, F[Len(path)]) = Walk(<<>>, Components(path))
  BY <1>1 DEF Between, Follows
<1>3. names = Walk(<<>>, Components(path))
  <2>1. F[Len(path)] = <<>>
    BY FollowEnd
  <2>2. names \in Routes
    BY <1>2 DEF PlainRoutes
  <2>. QED  BY <1>2, <2>1, <2>2, WalkNowhere
<1>4. dest = Closed(names, abs)
  <2>1. CASE Begins(path, Loop(path), names)
    <3>1. Len(path) = 0 /\ path \in Seq(Chars)
      BY <1>1, <2>1 DEF Begins, Strings
    <3>2. Char(path, 0) = ""
      BY <3>1, CharType
    <3>. QED  BY <2>1, <3>2 DEF Begins, IsAbsolute
  <2>2. CASE BeforeName(path, Loop(path), names)
    <3>1. names = <<>>
      <4>1. Len(path) \in Nat
        BY DEF Strings
      <4>. QED  BY <1>1, <2>2, <4>1 DEF BeforeName
    <3>2. Closed(names, abs) = Top(abs)
      <4>1. Parts(names) = <<>>
        BY <3>1 DEF Parts
      <4>2. FlattenSeq(Parts(names)) = <<>>
        BY <4>1 DEF FlattenSeq
      <4>3. Top(abs) \in Strings
        BY StringFacts DEF Top
      <4>. QED  BY <4>2, <4>3, StringFacts DEF Closed
    <3>. QED  BY <2>2, <3>1, <3>2 DEF BeforeName, Opened
  <2>3. CASE AfterName(path, Loop(path), names)
    BY <2>3 DEF AfterName
  <2>. QED  BY <1>1, <2>1, <2>2, <2>3 DEF Between
<1>5. Normal(path) = IF abs THEN <<"/">> \o FlattenSeq(Parts(names))
                     ELSE IF FlattenSeq(Parts(names)) = <<>> THEN <<".">>
                     ELSE FlattenSeq(Parts(names))
  BY <1>3 DEF Normal, Text, Parts
<1>6. FlattenSeq(Parts(names)) \in Strings
  <2>1. names \in Routes /\ <<>> \in Strings
    BY <1>2, StringFacts DEF PlainRoutes
  <2>. QED  BY <2>1, PartsAppend, FlattenType
<1>7. normpath_no_escape(path) = Normal(path)
  <2>1. CASE abs
    <3>1. <<"/">> \o FlattenSeq(Parts(names)) # <<>>
      <4>1. Len(<<"/">> \o FlattenSeq(Parts(names))) = Len(<<"/">>) + Len(FlattenSeq(Parts(names)))
        BY <1>6, StringFacts
      <4>2. Len(FlattenSeq(Parts(names))) \in Nat /\ Len(<<"/">>) = 1
        BY <1>6, StringFacts
      <4>3. Len(<<"/">> \o FlattenSeq(Parts(names))) # 0
        BY <4>1, <4>2
      <4>. QED  BY <4>3
    <3>. QED  BY <1>4, <1>5, <2>1, <3>1 DEF normpath_no_escape, Closed, Top
  <2>2. CASE ~abs
    <3>1. Closed(names, abs) = FlattenSeq(Parts(names))
      BY <1>6, <2>2, StringFacts DEF Closed, Top
    <3>. QED  BY <1>4, <1>5, <2>2, <3>1 DEF normpath_no_escape
  <2>. QED  BY <2>1, <2>2
<1>. QED  BY <1>1, <1>2, <1>7 DEF Sound

-----------------------------------------------------------------------------
(* The names of paths that are put together.                               *)

\* Routes, and their concatenation.
LEMMA RouteFacts ==
    /\ <<>> \in Routes
    /\ \A s, t \in Routes : s \o t \in Routes /\ Len(s \o t) = Len(s) + Len(t)
    /\ \A s \in Routes : Len(s) \in Nat /\ (Len(s) = 0 <=> s = <<>>)
    /\ \A s \in Routes : <<>> \o s = s /\ s \o <<>> = s
    /\ \A x \in Strings : <<x>> \in Routes
    /\ \A s \in Routes : \A x \in Strings : Append(s, x) = s \o <<x>>
<1>3. \A S : \A s \in Seq(S) : <<>> \o s = s /\ s \o <<>> = s
  OBVIOUS
<1>4. \A S : \A s \in Seq(S) : \A e \in S : Append(s, e) = s \o <<e>> /\ <<e>> \in Seq(S)
  OBVIOUS
<1>5. \A S : \A s, t \in Seq(S) : s \o t \in Seq(S) /\ Len(s \o t) = Len(s) + Len(t)
  OBVIOUS
<1>6. \A S : \A s \in Seq(S) : Len(s) \in Nat /\ (Len(s) = 0 <=> s = <<>>)
  OBVIOUS
<1>7. <<>> \in Routes
  BY DEF Routes
<1>8. \A s, t \in Routes : s \o t \in Routes /\ Len(s \o t) = Len(s) + Len(t)
  BY <1>5 DEF Routes
<1>9. \A s \in Routes : Len(s) \in Nat /\ (Len(s) = 0 <=> s = <<>>)
  BY <1>6 DEF Routes
<1>10. \A s \in Routes : <<>> \o s = s /\ s \o <<>> = s
  BY <1>3 DEF Routes
<1>11. \A s \in Routes : \A x \in Strings : Append(s, x) = s \o <<x>> /\ <<x>> \in Routes
  BY <1>4 DEF Routes, Strings
<1>. QED  BY <1>7, <1>8, <1>9, <1>10, <1>11

\* Concatenation is associative.
LEMMA RouteRegroup ==
    ASSUME NEW s \in Routes, NEW t \in Routes, NEW u \in Routes
    PROVE  s \o (t \o u) = (s \o t) \o u
<1>1. s \in Seq(Strings) /\ t \in Seq(Strings) /\ u \in Seq(Strings)
  BY DEF Routes, Strings
<1>. QED  BY <1>1

\* Within a name.
LEMMA NameInside ==
    ASSUME NEW path \in Strings, NEW i \in 0 .. Len(path), ~AtEnd(path, i),
           NEW k \in i .. NameEnd(path, i) - 1
    PROVE  ~AtEnd(path, k)
<1>. DEFINE end == NameEnd(path, i)
<1>1. path \in Seq(Chars) /\ Len(path) \in Nat /\ i \in Nat
  BY DEF Strings
<1>2. end \in i .. Len(path) /\ \A m \in i .. end - 1 : ~AtSlash(path, m)
  BY <1>1, NameEndResult
<1>3. ~AtSlash(path, k)
  BY <1>2
<1>4. k \in Nat /\ k < Len(path)
  <2>. HIDE DEF end
  <2>1. k \in i .. end - 1
    BY DEF end
  <2>. QED  BY <1>1, <1>2, <2>1
<1>5. Char(path, k) # ""
  BY <1>1, <1>4, CharType
<1>. QED  BY <1>3, <1>5 DEF AtEnd, AtSlash

\* The characters of two paths, one after the other.
LEMMA CharJoin ==
    ASSUME NEW a \in Strings, NEW b \in Strings
    PROVE  /\ a \o b \in Strings /\ Len(a \o b) = Len(a) + Len(b)
           /\ Len(a) \in Nat /\ Len(b) \in Nat
           /\ \A i \in Nat : i < Len(a) => Char(a \o b, i) = Char(a, i)
           /\ \A j \in Nat : Char(a \o b, Len(a) + j) = Char(b, j)
<1>. DEFINE c == a \o b
<1>1. a \in Seq(Chars) /\ b \in Seq(Chars)
  BY DEF Strings
<1>2. /\ c \in Seq(Chars) /\ Len(c) = Len(a) + Len(b)
      /\ \A k \in 1 .. Len(a) : c[k] = a[k]
      /\ \A k \in Len(a) + 1 .. Len(a) + Len(b) : c[k] = b[k - Len(a)]
      /\ Len(a) \in Nat /\ Len(b) \in Nat
  BY <1>1, ConcatFacts
<1>. HIDE DEF c
<1>3. ASSUME NEW i \in Nat, i < Len(a)
      PROVE  Char(c, i) = Char(a, i)
  <2>1. i + 1 \in 1 .. Len(a) /\ i < Len(c)
    BY <1>2, <1>3
  <2>. QED  BY <1>2, <1>3, <2>1 DEF Char
<1>4. ASSUME NEW j \in Nat
      PROVE  Char(c, Len(a) + j) = Char(b, j)
  <2>1. Len(a) + j < Len(c) <=> j < Len(b)
    BY <1>2
  <2>2. j < Len(b) => /\ (Len(a) + j) + 1 \in Len(a) + 1 .. Len(a) + Len(b)
                      /\ ((Len(a) + j) + 1) - Len(a) = j + 1
    BY <1>2
  <2>3. j < Len(b) => c[(Len(a) + j) + 1] = b[j + 1]
    BY <1>2, <2>2
  <2>. QED  BY <2>1, <2>3 DEF Char
<1>. QED  BY <1>2, <1>3, <1>4 DEF c, Strings

\* The names of the second of two strings.
LEMMA FollowTail ==
    ASSUME NEW a \in Strings, NEW b \in Strings
    PROVE  \A j \in 0 .. Len(b) : Following(a \o b)[Len(a) + j] = Following(b)[j]
<1>. DEFINE c == a \o b
            La == Len(a)
            Lb == Len(b)
            T == {j \in Nat : Following(c)[La + j] = Following(b)[j]}
<1>1. /\ c \in Strings /\ Len(c) = La + Lb /\ La \in Nat /\ Lb \in Nat
      /\ \A j \in Nat : Char(c, La + j) = Char(b, j)
  BY CharJoin
<1>2. ASSUME NEW j \in 0 .. Lb, \A k \in j + 1 .. Lb : k \in T
      PROVE  j \in T
  <2>1. j \in Nat /\ La + j \in 0 .. Len(c) /\ Char(c, La + j) = Char(b, j)
    BY <1>1
  <2>2. Following(b)[j] = NamesFrom(b, Following(b), j)
    BY FollowingResult
  <2>3. Following(c)[La + j] = NamesFrom(c, Following(c), La + j)
    BY <1>1, <2>1, FollowingResult
  <2>. HIDE DEF c, La, Lb
  <2>4. CASE Char(b, j) = ""
    BY <2>1, <2>2, <2>3, <2>4 DEF NamesFrom
  <2>5. CASE Char(b, j) = "/"
    <3>1. j < Lb
      <4>1. b \in Seq(Chars) /\ "/" # ""
        BY DEF Strings
      <4>. QED  BY <2>1, <2>5, <4>1, CharInside DEF Lb
    <3>2. j + 1 \in j + 1 .. Lb /\ La + (j + 1) = (La + j) + 1
      BY <1>1, <2>1, <3>1
    <3>3. Following(c)[(La + j) + 1] = Following(b)[j + 1]
      BY <1>2, <3>2
    <3>. QED  BY <2>1, <2>2, <2>3, <2>5, <3>3 DEF NamesFrom
  <2>6. CASE ~AtEnd(b, j)
    <3>. DEFINE e == NameEnd(b, j)
                x == SubSeq(b, j + 1, e)
                y == SubSeq(c, (La + j) + 1, La + e)
    <3>1. /\ e \in j + 1 .. Lb /\ AtEnd(b, e) /\ x \in Strings /\ Len(x) = e - j
          /\ \A k \in 1 .. e - j : x[k] = b[j + k]
      BY <2>1, <2>6, NameAt DEF Lb
    <3>2. \A k \in j .. e - 1 : ~AtEnd(b, k)
      BY <2>1, <2>6, NameInside DEF Lb
    <3>. HIDE DEF e, x
    <3>3. e \in Nat /\ La + e \in La + j .. Len(c) /\ e > j
      BY <1>1, <2>1, <3>1
    <3>4. AtEnd(c, La + e)
      BY <1>1, <3>1, <3>3 DEF AtEnd
    <3>5. ASSUME NEW k \in La + j .. (La + e) - 1
          PROVE  ~AtEnd(c, k)
      <4>1. k - La \in j .. e - 1 /\ k - La \in Nat /\ La + (k - La) = k
        BY <1>1, <2>1, <3>3
      <4>2. Char(c, La + (k - La)) = Char(b, k - La)
        BY <1>1, <4>1
      <4>3. Char(c, k) = Char(b, k - La)
        BY <4>1, <4>2
      <4>. QED  BY <3>2, <4>1, <4>3 DEF AtEnd
    <3>6. NameEnd(c, La + j) = La + e
      BY <1>1, <2>1, <3>3, <3>4, <3>5, EndIs
    <3>7. ~AtEnd(c, La + j)
      BY <2>1, <2>6 DEF AtEnd
    <3>8. /\ y \in Strings /\ Len(y) = (La + e) - (La + j)
          /\ \A k \in 1 .. (La + e) - (La + j) : y[k] = c[(La + j) + k]
      BY <1>1, <2>1, <3>6, <3>7, NameAt
    <3>. HIDE DEF y
    <3>9. y = x
      <4>1. (La + e) - (La + j) = e - j
        BY <1>1, <2>1, <3>3
      <4>2. ASSUME NEW k \in 1 .. e - j PROVE y[k] = x[k]
        <5>1. /\ (La + j) + k \in La + 1 .. La + Lb /\ ((La + j) + k) - La = j + k
              /\ k \in 1 .. (La + e) - (La + j)
          BY <1>1, <2>1, <3>1, <3>3, <4>1
        <5>2. c[(La + j) + k] = b[j + k]
          <6>1. a \in Seq(Chars) /\ b \in Seq(Chars)
            BY DEF Strings
          <6>2. \A m \in La + 1 .. La + Lb : c[m] = b[m - La]
            BY <6>1, ConcatFacts DEF c, La, Lb
          <6>. QED  BY <5>1, <6>2
        <5>. QED  BY <3>1, <3>8, <5>1, <5>2
      <4>3. x \in Seq(Chars) /\ y \in Seq(Chars)
        BY <3>1, <3>8 DEF Strings
      <4>. QED  BY <3>1, <3>8, <4>1, <4>2, <4>3, SameSequence
    <3>10. e \in j + 1 .. Lb
      BY <3>1
    <3>11. Following(c)[La + e] = Following(b)[e]
      BY <1>2, <3>10
    <3>12. Following(b)[j] = <<x>> \o Following(b)[e]
      BY <2>6, FollowName DEF e, x, Lb
    <3>13. Following(c)[La + j] = <<y>> \o Following(c)[La + e]
      BY <1>1, <2>1, <3>6, <3>7, FollowName DEF y
    <3>. QED  BY <2>1, <3>9, <3>11, <3>12, <3>13
  <2>. QED  BY <2>4, <2>5, <2>6 DEF AtEnd
<1>3. \A j \in 0 .. Lb : j \in T
  <2>. HIDE DEF T, Lb
  <2>. QED  BY <1>1, <1>2, Descend
<1>. QED  BY <1>3

\* The names of the first of two strings, if a slash divides them.
LEMMA FollowHead ==
    ASSUME NEW a \in Strings, NEW b \in Strings, AtSlash(b, 0)
    PROVE  \A i \in 0 .. Len(a) : Following(a \o b)[i] = Following(a)[i] \o Following(b)[0]
<1>. DEFINE c == a \o b
            La == Len(a)
            r == Following(b)[0]
            T == {i \in Nat : i \in 0 .. La => Following(c)[i] = Following(a)[i] \o r}
<1>1. /\ c \in Strings /\ Len(c) = La + Len(b) /\ La \in Nat /\ Len(b) \in Nat
      /\ \A i \in Nat : i < La => Char(c, i) = Char(a, i)
      /\ \A j \in Nat : Char(c, La + j) = Char(b, j)
  BY CharJoin
<1>2. /\ r \in Routes
      /\ \A i \in 0 .. La : Following(a)[i] \in Routes
      /\ Following(c)[La] = r
  <2>1. 0 \in 0 .. Len(b) /\ La + 0 = La
    BY <1>1
  <2>. QED  BY <2>1, FollowingResult, FollowTail
<1>3. Char(c, La) = "/"
  <2>1. Char(c, La + 0) = Char(b, 0) /\ La + 0 = La
    BY <1>1
  <2>. QED  BY <2>1 DEF AtSlash
<1>4. ASSUME NEW i \in 0 .. La, \A k \in i + 1 .. La : k \in T
      PROVE  i \in T
  <2>1. i \in Nat /\ i \in 0 .. Len(c)
    BY <1>1
  <2>2. CASE i = La
    <3>1. Following(a)[La] = <<>> /\ <<>> \o r = r
      BY <1>2, FollowEnd, RouteFacts
    <3>. QED  BY <1>2, <2>1, <2>2, <3>1
  <2>3. CASE i # La
    <3>1. i < La /\ i + 1 \in i + 1 .. La /\ i + 1 \in 0 .. La
      <4>1. La \in Nat
        BY <1>1
      <4>. HIDE DEF La
      <4>. QED  BY <2>3, <4>1
    <3>2. Char(c, i) = Char(a, i)
      BY <1>1, <2>1, <3>1
    <3>3. Following(a)[i] = NamesFrom(a, Following(a), i)
      BY FollowingResult
    <3>4. Following(c)[i] = NamesFrom(c, Following(c), i)
      BY <1>1, <2>1, FollowingResult
    <3>5. Char(a, i) # ""
      BY <2>1, <3>1, CharType DEF Strings
    <3>. HIDE DEF c, La, r
    <3>6. CASE Char(a, i) = "/"
      <4>1. Following(c)[i + 1] = Following(a)[i + 1] \o r
        BY <1>4, <3>1
      <4>. QED  BY <2>1, <3>2, <3>3, <3>4, <3>6, <4>1 DEF NamesFrom
    <3>7. CASE ~AtEnd(a, i)
      <4>. DEFINE e == NameEnd(a, i)
                  x == SubSeq(a, i + 1, e)
      <4>1. e \in i + 1 .. La /\ AtEnd(a, e) /\ x \in Strings
        BY <2>1, <3>7, NameAt DEF La
      <4>2. \A k \in i .. e - 1 : ~AtEnd(a, k)
        BY <2>1, <3>7, NameInside DEF La
      <4>. HIDE DEF e
      <4>3. e \in i .. Len(c) /\ e \in Nat /\ e <= La /\ e \in 0 .. La
        BY <1>1, <2>1, <4>1
      <4>4. AtEnd(c, e)
        <5>1. CASE e < La
          BY <1>1, <4>1, <4>3, <5>1 DEF AtEnd
        <5>2. CASE e = La
          BY <1>3, <5>2 DEF AtEnd
        <5>. QED  BY <1>1, <4>3, <5>1, <5>2
      <4>5. ASSUME NEW k \in i .. e - 1 PROVE ~AtEnd(c, k)
        <5>1. k \in Nat /\ k < La
          BY <1>1, <2>1, <4>3
        <5>2. Char(c, k) = Char(a, k)
          BY <1>1, <5>1
        <5>. QED  BY <4>2, <5>2 DEF AtEnd
      <4>6. NameEnd(c, i) = e
        BY <1>1, <2>1, <4>3, <4>4, <4>5, EndIs
      <4>7. ~AtEnd(c, i)
        BY <3>2, <3>7 DEF AtEnd
      <4>8. SubSeq(c, i + 1, e) = x
        <5>1. a \in Seq(Chars) /\ b \in Seq(Chars)
          BY DEF Strings
        <5>2. \A m \in 1 .. La : c[m] = a[m]
          BY <5>1, ConcatFacts DEF c, La
        <5>3. /\ x \in Strings /\ Len(x) = e - i
              /\ \A k \in 1 .. e - i : x[k] = a[i + k]
          BY <2>1, <3>7, NameAt DEF La, e
        <5>4. /\ SubSeq(c, i + 1, e) \in Strings /\ Len(SubSeq(c, i + 1, e)) = e - i
              /\ \A k \in 1 .. e - i : SubSeq(c, i + 1, e)[k] = c[i + k]
          BY <1>1, <2>1, <4>6, <4>7, NameAt
        <5>. DEFINE y == SubSeq(c, i + 1, e)
        <5>. HIDE DEF x, y
        <5>5. \A k \in 1 .. e - i : i + k \in 1 .. La
          BY <1>1, <2>1, <4>3
        <5>6. \A k \in 1 .. e - i : y[k] = x[k]
          BY <5>2, <5>3, <5>4, <5>5 DEF y
        <5>7. y = x
          BY <5>3, <5>4, <5>6, SameSequence DEF Strings, y
        <5>. QED  BY <5>7 DEF y
      <4>. HIDE DEF x
      <4>9. Following(c)[e] = Following(a)[e] \o r
        BY <1>4, <4>1, <4>3
      <4>10. Following(a)[i] = <<x>> \o Following(a)[e]
        BY <3>7, FollowName DEF e, x, La
      <4>11. Following(c)[i] = <<x>> \o Following(c)[e]
        BY <1>1, <2>1, <4>6, <4>7, <4>8, FollowName
      <4>12. <<x>> \o (Following(a)[e] \o r) = (<<x>> \o Following(a)[e]) \o r
        <5>. DEFINE one == <<x>>
                    g == Following(a)[e]
        <5>1. one \in Routes /\ g \in Routes
          BY <1>2, <4>1, <4>3, RouteFacts
        <5>. HIDE DEF one, g
        <5>2. one \o (g \o r) = (one \o g) \o r
          BY <1>2, <5>1, RouteRegroup
        <5>. QED  BY <5>2 DEF one, g
      <4>. QED  BY <2>1, <4>9, <4>10, <4>11, <4>12
    <3>. QED  BY <3>5, <3>6, <3>7 DEF AtEnd
  <2>. QED  BY <2>2, <2>3
<1>5. \A i \in 0 .. La : i \in T
  <2>. HIDE DEF T, La
  <2>. QED  BY <1>1, <1>4, Descend
<1>. QED  BY <1>5

\* The names of two paths, the second of them absolute, one after the other.
LEMMA ComponentsJoin ==
    ASSUME NEW a \in Strings, NEW b \in Strings, AtSlash(b, 0)
    PROVE  Components(a \o b) = Components(a) \o Components(b)
<1>1. 0 \in 0 .. Len(a)
  BY DEF Strings
<1>. QED  BY <1>1, FollowHead, ComponentsFollow

\* The names of a path are a route.
LEMMA ComponentsType ==
    ASSUME NEW path \in Strings
    PROVE  Components(path) \in Routes
<1>1. 0 \in 0 .. Len(path)
  BY DEF Strings
<1>. QED  BY <1>1, FollowingResult, ComponentsFollow

\* The root, and a slash before a path, have no name.
LEMMA NoName ==
    /\ Components(<<>>) = <<>> /\ Components(<<"/">>) = <<>>
    /\ \A b \in Strings : Components(<<"/">> \o b) = Components(b)
<1>. DEFINE top == <<"/">>
<1>1. top \in Strings /\ Len(top) = 1 /\ top[1] = "/"
  BY StringFacts
<1>. HIDE DEF top
<1>2. AtSlash(top, 0)
  <2>1. Char(top, 0) = top[0 + 1]
    BY <1>1 DEF Char
  <2>. QED  BY <1>1, <2>1 DEF AtSlash
<1>3. Components(<<>>) = <<>>
  <2>. DEFINE none == <<>>
  <2>1. none \in Strings /\ Len(none) = 0
    BY StringFacts
  <2>. HIDE DEF none
  <2>2. Following(none)[0] = <<>>
    BY <2>1, FollowEnd
  <2>3. Components(none) = <<>>
    BY <2>2, ComponentsFollow
  <2>. QED  BY <2>3 DEF none
<1>4. \A b \in Strings : Components(top \o b) = Components(b)
  <2>1. ASSUME NEW b \in Strings PROVE Components(top \o b) = Components(b)
    <3>1. /\ top \o b \in Strings /\ Len(top \o b) = 1 + Len(b) /\ Len(b) \in Nat
          /\ \A i \in Nat : i < Len(top) => Char(top \o b, i) = Char(top, i)
      BY <1>1, CharJoin
    <3>2. 0 \in 0 .. Len(b) /\ 0 \in 0 .. Len(top \o b) /\ 1 + 0 = 0 + 1 /\ 0 < Len(top)
      BY <1>1, <3>1
    <3>3. Following(top \o b)[1 + 0] = Following(b)[0]
      BY <1>1, <3>2, FollowTail
    <3>4. Char(top \o b, 0) = "/"
      BY <1>2, <3>1, <3>2 DEF AtSlash
    <3>5. Following(top \o b)[0] = Following(top \o b)[0 + 1]
      BY <3>1, <3>2, <3>4, FollowingResult DEF NamesFrom
    <3>. QED  BY <3>2, <3>3, <3>5, ComponentsFollow
  <2>. QED  BY <2>1
<1>5. Components(top) = <<>>
  <2>1. <<>> \in Strings /\ top \o <<>> = top
    BY <1>1, StringFacts
  <2>. QED  BY <1>3, <1>4, <2>1
<1>. QED  BY <1>3, <1>4, <1>5 DEF top

\* A plain name is the only one in it.
LEMMA OneName ==
    ASSUME NEW x \in PlainNames
    PROVE  /\ Components(x) = <<x>>
           /\ Components(<<"/">> \o x) = <<x>>
<1>1. /\ x \in Strings /\ x \in Seq(Chars) /\ Len(x) \in Nat \ {0}
      /\ \A k \in 1 .. Len(x) : x[k] # "/" /\ x[k] \in Chars
  <2>1. x \in Strings /\ x # <<>> /\ \A k \in 1 .. Len(x) : x[k] # "/"
    BY DEF PlainNames
  <2>2. Len(x) \in Nat \ {0}
    BY <2>1, StringFacts
  <2>. QED  BY <2>1, <2>2 DEF Strings
<1>2. ASSUME NEW k \in 0 .. Len(x) - 1
      PROVE  ~AtEnd(x, k)
  <2>1. k \in Nat /\ k < Len(x) /\ k + 1 \in 1 .. Len(x)
    BY <1>1
  <2>2. Char(x, k) = x[k + 1] /\ Char(x, k) # ""
    BY <1>1, <2>1, CharType
  <2>. QED  BY <1>1, <2>1, <2>2 DEF AtEnd
<1>3. AtEnd(x, Len(x))
  BY <1>1, CharType DEF AtEnd
<1>4. 0 \in 0 .. Len(x) /\ 0 \in 0 .. Len(x) - 1 /\ Len(x) \in 0 .. Len(x)
  BY <1>1
<1>5. NameEnd(x, 0) = Len(x)
  BY <1>1, <1>2, <1>3, <1>4, EndIs
<1>6. SubSeq(x, 0 + 1, Len(x)) = x
  BY <1>1
<1>7. Components(x) = <<x>>
  <2>1. Following(x)[0] = <<x>> \o Following(x)[Len(x)]
    BY <1>1, <1>2, <1>4, <1>5, <1>6, FollowName
  <2>2. Following(x)[Len(x)] = <<>>
    BY <1>1, FollowEnd
  <2>3. <<x>> \o <<>> = <<x>>
    BY <1>1, RouteFacts
  <2>. QED  BY <2>1, <2>2, <2>3, ComponentsFollow
<1>. QED  BY <1>1, <1>7, NoName

\* A path that has been written from names has these names.
LEMMA ComponentsClosed ==
    ASSUME NEW names \in PlainRoutes, NEW absolute \in BOOLEAN
    PROVE  Components(Closed(names, absolute)) = names
<1>. DEFINE T == {n \in Nat : \A r \in PlainRoutes :
                                Len(r) = n => Components(Closed(r, absolute)) = r}
<1>2. 0 \in T
  <2>1. ASSUME NEW r \in PlainRoutes, Len(r) = 0
        PROVE  Components(Closed(r, absolute)) = r
    <3>1. r = <<>>
      BY <2>1, RouteFacts DEF PlainRoutes
    <3>2. Parts(r) = <<>>
      BY <3>1 DEF Parts
    <3>3. FlattenSeq(Parts(r)) = <<>>
      BY <3>2 DEF FlattenSeq
    <3>4. Closed(r, absolute) = Top(absolute)
      BY <3>3, StringFacts DEF Closed, Top
    <3>. QED  BY <3>1, <3>4, NoName DEF Top
  <2>. QED  BY <2>1
<1>3. ASSUME NEW n \in 1 .. Len(names), n - 1 \in T
      PROVE  n \in T
  <2>1. ASSUME NEW r \in PlainRoutes, Len(r) = n
        PROVE  Components(Closed(r, absolute)) = r
    <3>1. r # <<>> /\ r \in Routes
      <4>1. Len(r) # 0
        BY <2>1
      <4>. QED  BY <4>1, RouteFacts DEF PlainRoutes
    <3>2. PICK up \in PlainRoutes, x \in PlainNames : r = Append(up, x)
      BY <3>1, PlainSplit
    <3>3. up \in Routes /\ x \in Strings
      BY DEF PlainRoutes, PlainNames
    <3>4. Len(up) = n - 1
      BY <2>1, <3>2, <3>3, RouteAppend
    <3>5. Components(Closed(up, absolute)) = up
      BY <1>3, <3>4
    <3>6. Closed(r, absolute) = Opened(up, absolute) \o x /\ Closed(up, absolute) \in Strings
      BY <3>2, <3>3, ClosedAppend
    <3>7. r = up \o <<x>>
      BY <3>2, <3>3, RouteFacts
    <3>8. CASE up = <<>>
      <4>1. Closed(r, absolute) = Top(absolute) \o x
        BY <3>6, <3>8 DEF Opened
      <4>2. Top(absolute) \o x = IF absolute THEN <<"/">> \o x ELSE x
        BY <3>3, StringFacts DEF Top
      <4>3. r = <<x>>
        BY <3>3, <3>7, <3>8, RouteFacts
      <4>. QED  BY <4>1, <4>2, <4>3, OneName
    <3>9. CASE up # <<>>
      <4>. DEFINE c == Closed(up, absolute)
                  slash == <<"/">>
                  b == slash \o x
      <4>1. slash \in Strings /\ Len(slash) = 1 /\ slash[1] = "/"
        BY StringFacts
      <4>2. Opened(up, absolute) = c \o slash
        BY <3>6, <3>9, StringFacts DEF Opened
      <4>. HIDE DEF c, slash
      <4>3. Closed(r, absolute) = c \o (slash \o x)
        BY <3>3, <3>6, <4>1, <4>2, Regroup DEF c
      <4>4. b \in Strings /\ AtSlash(b, 0)
        <5>1. /\ b \in Strings
              /\ \A i \in Nat : i < Len(slash) => Char(b, i) = Char(slash, i)
          BY <3>3, <4>1, CharJoin
        <5>2. 0 < Len(slash) /\ 0 \in Nat /\ Char(slash, 0) = slash[0 + 1]
          BY <4>1 DEF Char
        <5>3. Char(b, 0) = "/"
          BY <4>1, <5>1, <5>2
        <5>. QED  BY <5>1, <5>3 DEF AtSlash
      <4>5. Components(b) = <<x>>
        BY OneName DEF slash
      <4>. HIDE DEF b
      <4>6. Components(c \o b) = Components(c) \o Components(b)
        BY <3>6, <4>4, ComponentsJoin DEF c
      <4>. QED  BY <3>5, <3>7, <4>3, <4>5, <4>6 DEF b, c
    <3>. QED  BY <3>8, <3>9
  <2>2. n \in Nat
    OBVIOUS
  <2>. QED  BY <2>1, <2>2
<1>4. Len(names) \in Nat /\ Len(names) \in 0 .. Len(names)
  <2>1. Len(names) \in Nat
    BY RouteFacts DEF PlainRoutes
  <2>. QED  BY <2>1
<1>5. Len(names) \in T
  <2>. HIDE DEF T
  <2>. QED  BY <1>2, <1>3, <1>4, Climb
<1>. QED  BY <1>5

\* The first name of a route, and the rest of it.
LEMMA RouteHead ==
    ASSUME NEW names \in Routes, names # <<>>
    PROVE  \E x \in Strings, rest \in Routes :
            names = <<x>> \o rest /\ Len(names) = Len(rest) + 1
<1>1. \A S : \A s \in Seq(S) : s # <<>> =>
        /\ s[1] \in S /\ Tail(s) \in Seq(S)
        /\ s = <<s[1]>> \o Tail(s) /\ Len(s) = Len(Tail(s)) + 1
  OBVIOUS
<1>2. names \in Seq(Strings)
  BY DEF Routes
<1>3. /\ names[1] \in Strings /\ Tail(names) \in Seq(Strings)
      /\ names = <<names[1]>> \o Tail(names) /\ Len(names) = Len(Tail(names)) + 1
  BY <1>1, <1>2
<1>. QED  BY <1>3 DEF Routes

\* Nowhere, anywhere and one step.
LEMMA WalkFacts ==
    /\ \A from \in Routes : Walk(from, <<>>) = from
    /\ \A from, names \in Routes : Walk(from, names) \in Routes
    /\ \A from, rest \in Routes : \A x \in Strings :
        Step(from, x) \in Routes /\ Walk(from, <<x>> \o rest) = Walk(Step(from, x), rest)
<1>1. \A from \in Routes : Walk(from, <<>>) = from
  BY WalkNowhere
<1>2. \A from, names \in Routes : Walk(from, names) \in Routes
  BY WalkType
<1>3. \A from, rest \in Routes : \A x \in Strings :
        Step(from, x) \in Routes /\ Walk(from, <<x>> \o rest) = Walk(Step(from, x), rest)
  BY WalkOn, StepType
<1>. QED  BY <1>1, <1>2, <1>3

\* One way after another.
LEMMA WalkConcat ==
    ASSUME NEW from \in Routes, NEW r \in Routes, NEW s \in Routes
    PROVE  Walk(from, r \o s) = Walk(Walk(from, r), s)
<1>. DEFINE T == {n \in Nat : \A f, q \in Routes :
                    Len(q) = n => Walk(f, q \o s) = Walk(Walk(f, q), s)}
<1>1. 0 \in T
  <2>1. ASSUME NEW f \in Routes, NEW q \in Routes, Len(q) = 0
        PROVE  Walk(f, q \o s) = Walk(Walk(f, q), s)
    <3>1. q = <<>> /\ <<>> \o s = s
      BY <2>1, RouteFacts
    <3>. QED  BY <3>1, WalkFacts
  <2>. QED  BY <2>1
<1>2. ASSUME NEW n \in 1 .. Len(r), n - 1 \in T
      PROVE  n \in T
  <2>1. ASSUME NEW f \in Routes, NEW q \in Routes, Len(q) = n
        PROVE  Walk(f, q \o s) = Walk(Walk(f, q), s)
    <3>1. q # <<>>
      BY <2>1, RouteFacts
    <3>2. PICK x \in Strings, rest \in Routes : q = <<x>> \o rest /\ Len(q) = Len(rest) + 1
      BY <3>1, RouteHead
    <3>3. Len(rest) = n - 1
      BY <2>1, <3>2, RouteFacts
    <3>. DEFINE one == <<x>>
    <3>4. one \in Routes
      BY RouteFacts
    <3>5. /\ Step(f, x) \in Routes
          /\ Walk(f, one \o rest) = Walk(Step(f, x), rest)
          /\ Walk(f, one \o (rest \o s)) = Walk(Step(f, x), rest \o s)
      <4>1. rest \o s \in Routes
        BY RouteFacts
      <4>. QED  BY <4>1, WalkFacts
    <3>. HIDE DEF one
    <3>6. q \o s = one \o (rest \o s)
      BY <3>2, <3>4, RouteRegroup DEF one
    <3>7. Walk(Step(f, x), rest \o s) = Walk(Walk(Step(f, x), rest), s)
      BY <1>2, <3>3, <3>5
    <3>. QED  BY <3>2, <3>5, <3>6, <3>7 DEF one
  <2>2. n \in Nat
    OBVIOUS
  <2>. QED  BY <2>1, <2>2
<1>3. Len(r) \in Nat /\ Len(r) \in 0 .. Len(r)
  <2>1. Len(r) \in Nat
    BY RouteFacts
  <2>. QED  BY <2>1
<1>4. Len(r) \in T
  <2>. HIDE DEF T
  <2>. QED  BY <1>1, <1>2, <1>3, Climb
<1>. QED  BY <1>4

\* PlainNames names lead down.
LEMMA WalkPlain ==
    ASSUME NEW from \in Routes, NEW names \in PlainRoutes
    PROVE  Walk(from, names) = from \o names
<1>. DEFINE T == {n \in Nat : \A r \in PlainRoutes : Len(r) = n => Walk(from, r) = from \o r}
<1>1. 0 \in T
  <2>1. ASSUME NEW r \in PlainRoutes, Len(r) = 0
        PROVE  Walk(from, r) = from \o r
    <3>1. r = <<>> /\ from \o <<>> = from
      BY <2>1, RouteFacts DEF PlainRoutes
    <3>. QED  BY <3>1, WalkFacts
  <2>. QED  BY <2>1
<1>2. ASSUME NEW n \in 1 .. Len(names), n - 1 \in T
      PROVE  n \in T
  <2>1. ASSUME NEW r \in PlainRoutes, Len(r) = n
        PROVE  Walk(from, r) = from \o r
    <3>1. r # <<>>
      <4>1. Len(r) # 0
        BY <2>1
      <4>. QED  BY <4>1, RouteFacts DEF PlainRoutes
    <3>2. PICK up \in PlainRoutes, x \in PlainNames : r = Append(up, x)
      BY <3>1, PlainSplit
    <3>3. up \in Routes /\ x \in Strings /\ x # <<".">> /\ x # <<".", ".">>
      BY DEF PlainRoutes, PlainNames
    <3>. DEFINE one == <<x>>
    <3>4. one \in Routes /\ r = up \o one /\ <<>> \in Routes /\ one \o <<>> = one
      BY <3>2, <3>3, RouteFacts
    <3>5. Len(up) = n - 1
      BY <2>1, <3>2, <3>3, RouteAppend
    <3>6. Walk(from, up) = from \o up
      BY <1>2, <3>5
    <3>7. from \o up \in Routes
      BY <3>3, RouteFacts
    <3>8. Walk(from \o up, one) = Append(from \o up, x)
      <4>1. Walk(from \o up, one \o <<>>) = Walk(Step(from \o up, x), <<>>)
        BY <3>3, <3>4, <3>7, WalkFacts
      <4>2. Step(from \o up, x) = Append(from \o up, x)
        BY <3>3 DEF Step
      <4>3. Step(from \o up, x) \in Routes
        BY <3>3, <3>4, <3>7, WalkFacts
      <4>. QED  BY <3>4, <4>1, <4>2, <4>3, WalkFacts
    <3>9. Append(from \o up, x) = (from \o up) \o one
      BY <3>3, <3>7, RouteFacts
    <3>. HIDE DEF one
    <3>10. Walk(from, up \o one) = Walk(Walk(from, up), one)
      BY <3>3, <3>4, WalkConcat
    <3>11. from \o (up \o one) = (from \o up) \o one
      BY <3>3, <3>4, RouteRegroup
    <3>. QED  BY <3>4, <3>6, <3>8, <3>9, <3>10, <3>11
  <2>2. n \in Nat
    OBVIOUS
  <2>. QED  BY <2>1, <2>2
<1>3. Len(names) \in Nat /\ Len(names) \in 0 .. Len(names)
  <2>1. Len(names) \in Nat
    BY RouteFacts DEF PlainRoutes
  <2>. QED  BY <2>1
<1>4. Len(names) \in T
  <2>. HIDE DEF T
  <2>. QED  BY <1>1, <1>2, <1>3, Climb
<1>. QED  BY <1>4

\* A path with a slash before it.
LEMMA SlashFirst ==
    ASSUME NEW rel \in Strings
    PROVE  /\ <<"/">> \o rel \in Strings /\ <<"/">> \o rel # <<>>
           /\ AtSlash(<<"/">> \o rel, 0) /\ IsAbsolute(<<"/">> \o rel)
           /\ Components(<<"/">> \o rel) = Components(rel)
<1>. DEFINE slash == <<"/">>
            b == slash \o rel
<1>1. slash \in Strings /\ Len(slash) = 1 /\ slash[1] = "/"
  BY StringFacts
<1>2. Components(b) = Components(rel)
  BY NoName
<1>. HIDE DEF slash
<1>3. /\ b \in Strings /\ Len(b) = Len(slash) + Len(rel) /\ Len(rel) \in Nat
      /\ \A i \in Nat : i < Len(slash) => Char(b, i) = Char(slash, i)
  BY <1>1, CharJoin
<1>4. Char(slash, 0) = slash[0 + 1]
  BY <1>1 DEF Char
<1>5. 0 < Len(slash) /\ Len(b) # 0
  <2>. HIDE DEF b
  <2>. QED  BY <1>1, <1>3
<1>6. Char(b, 0) = "/"
  BY <1>1, <1>3, <1>4, <1>5
<1>7. b # <<>>
  BY <1>3, <1>5, StringFacts
<1>. QED  BY <1>2, <1>3, <1>6, <1>7 DEF slash, AtSlash, IsAbsolute

\* What begins with a path is absolute if that is.
LEMMA AbsoluteFirst ==
    ASSUME NEW a \in Strings, NEW b \in Strings, a # <<>>
    PROVE  /\ a \o b \in Strings /\ a \o b # <<>>
           /\ IsAbsolute(a \o b) = IsAbsolute(a)
<1>1. /\ a \o b \in Strings /\ Len(a \o b) = Len(a) + Len(b) /\ Len(a) \in Nat /\ Len(b) \in Nat
      /\ \A i \in Nat : i < Len(a) => Char(a \o b, i) = Char(a, i)
  BY CharJoin
<1>2. Len(a) # 0
  BY StringFacts
<1>3. 0 < Len(a) /\ Len(a \o b) # 0
  BY <1>1, <1>2
<1>4. Char(a \o b, 0) = Char(a, 0)
  BY <1>1, <1>3
<1>5. a \o b # <<>>
  BY <1>1, <1>3, StringFacts
<1>. QED  BY <1>1, <1>4, <1>5 DEF IsAbsolute

\* An absolute path is not empty.
LEMMA AbsoluteIsNone ==
    /\ ~IsAbsolute(<<>>)
    /\ \A path \in Strings : IsAbsolute(path) => path # <<>> /\ AtSlash(path, 0)
<1>1. ~IsAbsolute(<<>>)
  <2>1. Char(<<>>, 0) = ""
    BY DEF Char
  <2>. QED  BY <2>1 DEF IsAbsolute
<1>. QED  BY <1>1 DEF IsAbsolute, AtSlash

\* The text of a route from the root.
LEMMA TextFacts ==
    ASSUME NEW names \in PlainRoutes
    PROVE  /\ Text(names, TRUE) = Closed(names, TRUE)
           /\ Closed(names, TRUE) \in Strings
           /\ IsAbsolute(Closed(names, TRUE))
           /\ Components(Closed(names, TRUE)) = names
<1>1. names \in Routes
  BY DEF PlainRoutes
<1>2. Text(names, TRUE) = Closed(names, TRUE)
  BY DEF Text, Closed, Top, Parts
<1>. DEFINE body == FlattenSeq(Parts(names))
<1>3. body \in Strings
  <2>1. <<>> \in Strings
    BY StringFacts
  <2>. QED  BY <1>1, <2>1, PartsAppend, FlattenType
<1>. HIDE DEF body
<1>4. Closed(names, TRUE) = <<"/">> \o body
  BY DEF Closed, Top, body
<1>5. Components(Closed(names, TRUE)) = names
  BY ComponentsClosed
<1>. QED  BY <1>2, <1>3, <1>4, <1>5, SlashFirst

\* From a directory with plain names one gets only to such directories.
LEMMA WalkClean ==
    ASSUME NEW from \in PlainRoutes, NEW path \in Strings
    PROVE  Walk(from, Components(path)) \in PlainRoutes
<1>. DEFINE b == <<"/">> \o path
            c == Closed(from, TRUE) \o b
<1>1. b \in Strings /\ AtSlash(b, 0) /\ Components(b) = Components(path)
  BY SlashFirst
<1>2. Closed(from, TRUE) \in Strings /\ Components(Closed(from, TRUE)) = from
  BY TextFacts
<1>. HIDE DEF b
<1>3. c \in Strings /\ Components(c) = from \o Components(path)
  <2>. DEFINE a == Closed(from, TRUE)
  <2>. HIDE DEF a
  <2>1. Components(a \o b) = Components(a) \o Components(b)
    BY <1>1, <1>2, ComponentsJoin DEF a
  <2>2. a \o b \in Strings
    BY <1>1, <1>2, StringFacts DEF a
  <2>. QED  BY <1>1, <1>2, <2>1, <2>2 DEF a
<1>. HIDE DEF c
<1>4. from \in Routes /\ <<>> \in Routes /\ Components(path) \in Routes /\ <<>> \o from = from
  BY ComponentsType, RouteFacts DEF PlainRoutes
<1>5. Walk(<<>>, Components(c)) = Walk(from, Components(path))
  <2>. DEFINE none == <<>>
              more == Components(path)
  <2>1. none \in Routes /\ more \in Routes
    BY <1>4
  <2>2. Walk(none, from) = none \o from
    BY <2>1, WalkPlain
  <2>. HIDE DEF none, more
  <2>3. Walk(none, from \o more) = Walk(Walk(none, from), more)
    BY <1>4, <2>1, WalkConcat
  <2>. QED  BY <1>3, <1>4, <2>2, <2>3 DEF none, more
<1>6. Walk(<<>>, Components(c)) \in PlainRoutes
  <2>1. PICK names : Between(c, Loop(c), names) /\ Loop(c).src = Len(c)
    BY <1>3, LoopEnds
  <2>2. names \in PlainRoutes /\ Walk(names, Following(c)[Len(c)]) = Walk(<<>>, Components(c))
    BY <2>1 DEF Between, Follows
  <2>3. Following(c)[Len(c)] = <<>> /\ names \in Routes
    BY <1>3, <2>2, FollowEnd DEF PlainRoutes
  <2>. QED  BY <2>2, <2>3, WalkFacts
<1>. QED  BY <1>5, <1>6

\* A slash at the end leads nowhere else.
LEMMA NamesFacts ==
    ASSUME NEW path \in Strings
    PROVE  /\ Names(path) \in Routes /\ Components(path) \in Routes
           /\ \A from \in Routes : Walk(from, Names(path)) = Walk(from, Components(path))
<1>1. Components(path) \in Routes
  BY ComponentsType
<1>. DEFINE dot == <<".">>
            tail == <<dot>>
<1>2. dot \in Strings /\ tail \in Routes
  <2>1. dot \in Strings
    BY DEF Strings, Chars
  <2>. HIDE DEF dot
  <2>. QED  BY <2>1, RouteFacts
<1>3. \A from \in Routes : Walk(from, tail) = from
  <2>1. ASSUME NEW from \in Routes PROVE Walk(from, tail) = from
    <3>1. Step(from, dot) = from
      BY DEF Step
    <3>2. tail \o <<>> = tail /\ <<>> \in Routes
      BY <1>2, RouteFacts
    <3>. HIDE DEF dot
    <3>3. Walk(from, <<dot>> \o <<>>) = Walk(Step(from, dot), <<>>)
      BY <1>2, <3>2, WalkFacts
    <3>. QED  BY <3>1, <3>2, <3>3, WalkFacts
  <2>. QED  BY <2>1
<1>4. Names(path) = Components(path) \o <<>> \/ Names(path) = Components(path) \o tail
  BY DEF Names
<1>. HIDE DEF tail
<1>5. Components(path) \o <<>> = Components(path)
  BY <1>1, RouteFacts
<1>6. Components(path) \o tail \in Routes
  BY <1>1, <1>2, RouteFacts
<1>7. \A from \in Routes : Walk(from, Components(path) \o tail) = Walk(from, Components(path))
  <2>1. ASSUME NEW from \in Routes
        PROVE  Walk(from, Components(path) \o tail) = Walk(from, Components(path))
    <3>1. Walk(from, Components(path)) \in Routes
      BY <1>1, WalkFacts
    <3>. QED  BY <1>1, <1>2, <1>3, <3>1, WalkConcat
  <2>. QED  BY <2>1
<1>. QED  BY <1>1, <1>4, <1>5, <1>6, <1>7

\* What normpath_no_escape() makes of an absolute path.
LEMMA NormalFacts ==
    ASSUME NEW path \in Strings, IsAbsolute(path)
    PROVE  LET n == normpath_no_escape(path) IN
           /\ n \in Strings /\ IsAbsolute(n)
           /\ Components(n) = Walk(<<>>, Components(path))
           /\ Components(n) \in PlainRoutes
<1>. DEFINE names == Walk(<<>>, Components(path))
<1>1. <<>> \in PlainRoutes
  BY RouteFacts DEF PlainRoutes
<1>2. names \in PlainRoutes
  BY <1>1, WalkClean
<1>3. normpath_no_escape(path) = Text(names, TRUE)
  <2>1. IsAbsolute(path) = TRUE
    BY DEF IsAbsolute
  <2>. QED  BY <2>1, PathNormal DEF Normal
<1>. HIDE DEF names
<1>. QED  BY <1>2, <1>3, TextFacts DEF names

\* A string is its front and its last character.
LEMMA LastSplit ==
    ASSUME NEW s \in Strings, s # <<>>
    PROVE  /\ SubSeq(s, 1, Len(s) - 1) \in Strings
           /\ s = SubSeq(s, 1, Len(s) - 1) \o <<Last(s)>>
<1>1. \A S : \A q \in Seq(S) : q # <<>> =>
        /\ SubSeq(q, 1, Len(q) - 1) \in Seq(S)
        /\ q = SubSeq(q, 1, Len(q) - 1) \o <<q[Len(q)]>>
  OBVIOUS
<1>. QED  BY <1>1 DEF Strings, Last

-----------------------------------------------------------------------------
(* join_path() and dirend().                                               *)

\* join_path() joins the names, whether there is a slash between or not.
LEMMA JoinFacts ==
    ASSUME NEW base \in Strings, base # <<>>, NEW rel \in Strings, rel # <<>>
    PROVE  LET j == join_path(base, rel) IN
           /\ j \in Strings /\ j # <<>>
           /\ IsAbsolute(j) = IsAbsolute(base)
           /\ Components(j) = Components(base) \o Components(rel)
<1>. DEFINE slash == <<"/">>
            b == slash \o rel
<1>1. /\ b \in Strings /\ b # <<>> /\ AtSlash(b, 0) /\ Components(b) = Components(rel)
      /\ slash \in Strings
  BY SlashFirst, StringFacts
<1>2. Components(slash) = <<>> /\ AtSlash(slash, 0)
  <2>1. slash \o <<>> = slash /\ <<>> \in Strings
    BY StringFacts
  <2>2. AtSlash(slash \o <<>>, 0)
    BY <2>1, SlashFirst
  <2>. QED  BY <2>1, <2>2, NoName
<1>3. Components(base) \in Routes /\ Components(rel) \in Routes
  BY ComponentsType
<1>. HIDE DEF slash
<1>4. CASE Last(base) # "/" /\ rel[1] # "/"
  <2>1. join_path(base, rel) = (base \o slash) \o rel
    BY <1>4 DEF join_path, slash
  <2>2. (base \o slash) \o rel = base \o b
    BY <1>1, Regroup
  <2>. HIDE DEF b
  <2>3. Components(base \o b) = Components(base) \o Components(b)
    BY <1>1, ComponentsJoin
  <2>. QED  BY <1>1, <2>1, <2>2, <2>3, AbsoluteFirst
<1>5. CASE rel[1] = "/"
  <2>1. join_path(base, rel) = base \o rel
    BY <1>5 DEF join_path
  <2>2. AtSlash(rel, 0)
    <3>1. Len(rel) \in Nat /\ Len(rel) # 0
      BY StringFacts
    <3>2. 0 < Len(rel) /\ 0 + 1 = 1
      BY <3>1
    <3>. QED  BY <1>5, <3>2 DEF AtSlash, Char
  <2>3. Components(base \o rel) = Components(base) \o Components(rel)
    BY <2>2, ComponentsJoin
  <2>. QED  BY <2>1, <2>3, AbsoluteFirst
<1>6. CASE Last(base) = "/" /\ rel[1] # "/"
  <2>. DEFINE front == SubSeq(base, 1, Len(base) - 1)
  <2>1. join_path(base, rel) = base \o rel
    BY <1>6 DEF join_path
  <2>2. front \in Strings /\ base = front \o slash
    BY <1>6, LastSplit DEF slash
  <2>. HIDE DEF front
  <2>3. base \o rel = front \o b
    BY <1>1, <2>2, Regroup
  <2>4. Components(front) \in Routes /\ Components(front) \o <<>> = Components(front)
    BY <2>2, ComponentsType, RouteFacts
  <2>5. Components(front \o slash) = Components(front) \o Components(slash)
    BY <1>1, <1>2, <2>2, ComponentsJoin
  <2>. HIDE DEF b
  <2>6. Components(front \o b) = Components(front) \o Components(b)
    BY <1>1, <2>2, ComponentsJoin
  <2>7. Components(base \o rel) = Components(base) \o Components(rel)
    BY <1>1, <1>2, <2>2, <2>3, <2>4, <2>5, <2>6
  <2>. QED  BY <2>1, <2>7, AbsoluteFirst
<1>. QED  BY <1>4, <1>5, <1>6

\* Back over the slashes.
LEMMA BackOverSlashesResult ==
    ASSUME NEW p, NEW i \in Nat
    PROVE  LET j == BackOverSlashes(p, i) IN
           j \in 0 .. i /\ (j = 0 \/ ~AtSlash(p, j))
<1>. DEFINE T == {j \in 0 .. i : j = 0 \/ ~AtSlash(p, j)}
<1>1. PICK j \in T : \A k \in j + 1 .. i : k \notin T
  <2>1. 0 \in T
    OBVIOUS
  <2>. QED  BY <2>1, LastPlace
<1>2. \A k \in j + 1 .. i : AtSlash(p, k)
  <2>1. \A k \in j + 1 .. i : k \in 0 .. i
    BY <1>1
  <2>. QED  BY <1>1, <2>1
<1>3. \E m \in 0 .. i : /\ m = 0 \/ Char(p, m) # "/"
                        /\ \A k \in m + 1 .. i : Char(p, k) = "/"
  BY <1>1, <1>2 DEF AtSlash
<1>. QED  BY <1>3 DEF BackOverSlashes, AtSlash

\* Back over a name.
LEMMA BackOverNameResult ==
    ASSUME NEW p, NEW i \in Nat
    PROVE  LET j == BackOverName(p, i) IN
           j \in 0 .. i /\ (j = 0 \/ AtSlash(p, j))
<1>. DEFINE T == {j \in 0 .. i : j = 0 \/ AtSlash(p, j)}
<1>1. PICK j \in T : \A k \in j + 1 .. i : k \notin T
  <2>1. 0 \in T
    OBVIOUS
  <2>. QED  BY <2>1, LastPlace
<1>2. \A k \in j + 1 .. i : ~AtSlash(p, k)
  <2>1. \A k \in j + 1 .. i : k \in 0 .. i
    BY <1>1
  <2>. QED  BY <1>1, <2>1
<1>3. \E m \in 0 .. i : /\ m = 0 \/ Char(p, m) = "/"
                        /\ \A k \in m + 1 .. i : Char(p, k) # "/"
  BY <1>1, <1>2 DEF AtSlash
<1>. QED  BY <1>3 DEF BackOverName, AtSlash

\* Back over the slashes before a slash.
LEMMA BackOverDoubledResult ==
    ASSUME NEW p, NEW i \in Nat
    PROVE  LET j == BackOverDoubled(p, i) IN
           j \in 0 .. i /\ \A k \in j .. i - 1 : AtSlash(p, k)
<1>. DEFINE T == {j \in 0 .. i : j = 0 \/ ~AtSlash(p, j - 1)}
<1>1. PICK j \in T : \A k \in j + 1 .. i : k \notin T
  <2>1. 0 \in T
    OBVIOUS
  <2>. QED  BY <2>1, LastPlace
<1>2. ASSUME NEW k \in j .. i - 1 PROVE AtSlash(p, k)
  <2>1. k + 1 \in j + 1 .. i /\ k + 1 \in 0 .. i /\ k + 1 # 0 /\ (k + 1) - 1 = k
    BY <1>1
  <2>. QED  BY <1>1, <2>1
<1>3. \E m \in 0 .. i : /\ m = 0 \/ Char(p, m - 1) # "/"
                        /\ \A k \in m .. i - 1 : Char(p, k) = "/"
  BY <1>1, <1>2 DEF AtSlash
<1>. QED  BY <1>3 DEF BackOverDoubled, AtSlash

\* The directory part ends before a slash, behind which there is, unless the path begins with
\* slashes, a name.
LEMMA DirendResult ==
    ASSUME NEW p \in Strings
    PROVE  /\ dirend(p) \in 0 .. Len(p)
           /\ p # <<>> => dirend(p) < Len(p)
           /\ dirend(p) # 0 =>
                /\ AtSlash(p, dirend(p))
                /\ ~AtSlash(p, 0) => \E j \in dirend(p) + 1 .. Len(p) - 1 : ~AtSlash(p, j)
<1>1. Len(p) \in Nat /\ (Len(p) = 0 <=> p = <<>>)
  BY StringFacts
<1>2. CASE p = <<>>
  BY <1>1, <1>2 DEF dirend
<1>3. CASE p # <<>>
  <2>. DEFINE N == Len(p)
              a == BackOverSlashes(p, N - 1)
              b == BackOverName(p, a)
              c == BackOverDoubled(p, b)
  <2>1. N \in Nat /\ N - 1 \in Nat
    BY <1>1, <1>3
  <2>2. a \in 0 .. N - 1 /\ (a = 0 \/ ~AtSlash(p, a))
    BY <2>1, BackOverSlashesResult
  <2>3. b \in 0 .. a /\ (b = 0 \/ AtSlash(p, b))
    <3>1. a \in Nat
      BY <2>2
    <3>. HIDE DEF a
    <3>. QED  BY <3>1, BackOverNameResult
  <2>4. c \in 0 .. b /\ \A k \in c .. b - 1 : AtSlash(p, k)
    <3>1. b \in Nat
      BY <2>3
    <3>. HIDE DEF b
    <3>. QED  BY <3>1, BackOverDoubledResult
  <2>5. dirend(p) = c
    BY <1>3 DEF dirend
  <2>. HIDE DEF a, b, c, N
  <2>6. c \in 0 .. N /\ c < N
    BY <2>1, <2>2, <2>3, <2>4
  <2>7. c # 0 => AtSlash(p, c)
    <3>1. c # 0 => (c = b /\ b # 0) \/ c \in c .. b - 1
      BY <2>1, <2>2, <2>3, <2>4
    <3>. QED  BY <2>3, <2>4, <3>1
  <2>8. ASSUME c # 0, ~AtSlash(p, 0)
        PROVE  \E j \in c + 1 .. N - 1 : ~AtSlash(p, j)
    <3>1. ~AtSlash(p, a)
      BY <2>2, <2>8
    <3>2. b # 0
      BY <2>2, <2>3, <2>4, <2>8
    <3>3. a # b
      BY <2>3, <3>1, <3>2
    <3>4. a \in c + 1 .. N - 1
      BY <2>1, <2>2, <2>3, <2>4, <3>3
    <3>. QED  BY <3>1, <3>4
  <2>. QED  BY <2>5, <2>6, <2>7, <2>8 DEF N
<1>. QED  BY <1>2, <1>3

\* What abspath() makes of a path that is not there.
AtCut(path, new, index) ==
    /\ index \in 1 .. Len(path) - 1
    /\ AtSlash(path, index)
    /\ ~AtSlash(path, 0) => \E j \in index + 1 .. Len(path) - 1 : ~AtSlash(path, j)
    /\ Found(SubSeq(path, 1, index), new)

\* abspath() appends the rest to a part that is there, if it does not give up.
LEMMA ParentResult ==
    ASSUME NEW path \in Strings, NEW new
    PROVE  \/ Parent(path, new) \in {NULL, UnderCwd(path)}
           \/ \E index : /\ AtCut(path, new, index)
                         /\ Parent(path, new) = realpath(SubSeq(path, 1, index))
                                                    \o <<"/">> \o Rest(path, index)
<1>. DEFINE N == Len(path)
            back == [c \in 0 .. N |-> dirend(SubSeq(path, 1, c))]
            Dir(c) == SubSeq(path, 1, back[c])
            stops == {c \in 0 .. N : \/ back[c] = 0 \/ Found(Dir(c), new)
                                     \/ ThroughFile(Dir(c), new)}
            result == [c \in 0 .. N |->
                        IF back[c] = 0 THEN UnderCwd(path)
                        ELSE IF Found(Dir(c), new)
                             THEN realpath(Dir(c)) \o <<"/">> \o Rest(path, back[c])
                        ELSE NULL]
            from == CHOOSE f : f = [cut \in 0 .. Len(path) |->
                LET index == dirend(SubSeq(path, 1, cut))
                    dir   == SubSeq(path, 1, index) IN
                IF index = 0 THEN UnderCwd(path)
                ELSE IF Found(dir, new) THEN realpath(dir) \o <<"/">> \o Rest(path, index)
                ELSE IF ThroughFile(dir, new) THEN NULL
                ELSE f[index]]
<1>1. N \in Nat /\ path \in Seq(Chars)
  BY DEF Strings
<1>2. ASSUME NEW c \in 0 .. N
      PROVE  /\ back[c] \in 0 .. c
             /\ c # 0 => back[c] < c
             /\ back[c] # 0 =>
                  /\ back[c] \in 1 .. N - 1
                  /\ AtSlash(path, back[c])
                  /\ ~AtSlash(path, 0) => \E j \in back[c] + 1 .. N - 1 : ~AtSlash(path, j)
  <2>. DEFINE p == SubSeq(path, 1, c)
              i == dirend(p)
  <2>1. p \in Strings /\ Len(p) = c /\ \A k \in 1 .. c : p[k] = path[k]
    BY <1>1, FrontFacts DEF Strings
  <2>2. \A k \in 0 .. c - 1 : AtSlash(p, k) <=> AtSlash(path, k)
    <3>1. ASSUME NEW k \in 0 .. c - 1 PROVE Char(p, k) = Char(path, k)
      <4>1. k < Len(p) /\ k < Len(path) /\ k + 1 \in 1 .. c
        <5>. HIDE DEF p
        <5>. QED  BY <1>1, <2>1
      <4>. HIDE DEF p
      <4>. QED  BY <2>1, <4>1 DEF Char
    <3>. HIDE DEF p
    <3>. QED  BY <3>1 DEF AtSlash
  <2>. HIDE DEF p
  <2>3. /\ i \in 0 .. c
        /\ p # <<>> => i < c
        /\ i # 0 => /\ AtSlash(p, i)
                    /\ ~AtSlash(p, 0) => \E j \in i + 1 .. c - 1 : ~AtSlash(p, j)
    BY <2>1, DirendResult
  <2>4. (c = 0 <=> p = <<>>) /\ back[c] = i
    BY <2>1, StringFacts DEF p
  <2>. HIDE DEF i, back
  <2>5. i # 0 => i \in 1 .. N - 1 /\ i \in 0 .. c - 1 /\ 0 \in 0 .. c - 1
    BY <1>1, <2>3, <2>4
  <2>6. i # 0 => /\ AtSlash(path, i)
                 /\ ~AtSlash(path, 0) => \E j \in i + 1 .. N - 1 : ~AtSlash(path, j)
    <3>1. ASSUME i # 0, ~AtSlash(path, 0)
          PROVE  \E j \in i + 1 .. N - 1 : ~AtSlash(path, j)
      <4>1. PICK j \in i + 1 .. c - 1 : ~AtSlash(p, j)
        BY <2>2, <2>3, <2>5, <3>1
      <4>2. j \in 0 .. c - 1 /\ j \in i + 1 .. N - 1
        BY <1>1, <2>3
      <4>. QED  BY <2>2, <4>1, <4>2
    <3>. QED  BY <2>2, <2>3, <2>5, <3>1
  <2>. QED  BY <2>3, <2>4, <2>5, <2>6
<1>3. \A c \in 0 .. N : c \notin stops => back[c] \in 0 .. c - 1
  <2>1. ASSUME NEW c \in 0 .. N, c \notin stops
        PROVE  back[c] \in 0 .. c - 1
    <3>1. back[c] # 0
      BY <2>1
    <3>. HIDE DEF back, N
    <3>. QED  BY <1>1, <1>2, <3>1
  <2>. QED  BY <2>1
<1>4. \A f : (f = [cut \in 0 .. Len(path) |->
                LET index == dirend(SubSeq(path, 1, cut))
                    dir   == SubSeq(path, 1, index) IN
                IF index = 0 THEN UnderCwd(path)
                ELSE IF Found(dir, new) THEN realpath(dir) \o <<"/">> \o Rest(path, index)
                ELSE IF ThroughFile(dir, new) THEN NULL
                ELSE f[index]])
        <=> Backward(f, N, stops, result, back)
  BY DEF Backward
<1>5. Backward(from, N, stops, result, back)
  <2>1. \E f : Backward(f, N, stops, result, back)
    <3>. HIDE DEF N, stops, result, back
    <3>. QED  BY <1>1, <1>3, BackwardExists
  <2>. QED  BY <1>4, <2>1
<1>6. Parent(path, new) = from[N]
  BY DEF Parent
<1>7. PICK d \in 0 .. N : d \in stops /\ from[N] = result[d]
  <2>1. N \in Nat /\ N \in 0 .. N
    BY <1>1
  <2>. HIDE DEF N, stops, result, back, from, Dir
  <2>. QED  BY <1>3, <1>5, <2>1, BackwardStops
<1>. HIDE DEF from
<1>8. CASE back[d] = 0
  BY <1>6, <1>7, <1>8
<1>9. CASE back[d] # 0 /\ Found(Dir(d), new)
  <2>1. AtCut(path, new, back[d])
    BY <1>2, <1>9 DEF AtCut
  <2>. QED  BY <1>6, <1>7, <1>9, <2>1
<1>10. CASE back[d] # 0 /\ ~Found(Dir(d), new)
  BY <1>6, <1>7, <1>10
<1>. QED  BY <1>8, <1>9, <1>10

-----------------------------------------------------------------------------
(* abspath() and realpath().                                               *)

\* The names of directories and files are plain.
LEMMA CwdPlain ==
    Cwd \in PlainRoutes /\ <<>> \in PlainRoutes
<1>1. Cwd \in Seq(PlainNames)
  BY AbsPathAssumption
<1>2. \A n \in PlainNames : n \in Strings
  BY DEF PlainNames
<1>3. Cwd \in Seq(Strings) /\ \A k \in 1 .. Len(Cwd) : Cwd[k] \in PlainNames
  <2>1. \A S, R : \A s \in Seq(R) : (\A n \in R : n \in S) =>
            s \in Seq(S) /\ \A k \in 1 .. Len(s) : s[k] \in R
    OBVIOUS
  <2>. QED  BY <1>1, <1>2, <2>1
<1>4. <<>> \in PlainRoutes
  BY RouteFacts DEF PlainRoutes
<1>. QED  BY <1>3, <1>4 DEF PlainRoutes, Routes

\* Where a path leads depends on its names, and on whether it is absolute.
LEMMA LeadsFacts ==
    ASSUME NEW path \in Strings
    PROVE  /\ Base(path) \in PlainRoutes
           /\ Leads(path) = Walk(Base(path), Components(path))
           /\ Leads(path) \in PlainRoutes
<1>1. Base(path) \in PlainRoutes
  BY CwdPlain DEF Base
<1>2. Base(path) \in Routes
  BY <1>1 DEF PlainRoutes
<1>3. Leads(path) = Walk(Base(path), Components(path))
  BY <1>2, NamesFacts DEF Leads
<1>. QED  BY <1>1, <1>3, WalkClean

\* An absolute path leads from the root.
LEMMA AbsoluteLeads ==
    ASSUME NEW path \in Strings, IsAbsolute(path)
    PROVE  /\ Leads(path) = Walk(<<>>, Components(path))
           /\ Components(path) \in PlainRoutes => Leads(path) = Components(path)
<1>1. Leads(path) = Walk(<<>>, Components(path))
  BY LeadsFacts DEF Base
<1>2. ASSUME Components(path) \in PlainRoutes
      PROVE  Leads(path) = Components(path)
  <2>. DEFINE names == Components(path)
              none == <<>>
  <2>1. none \in Routes /\ names \in Routes /\ none \o names = names
    BY RouteFacts, ComponentsType
  <2>. HIDE DEF names, none
  <2>2. names \in PlainRoutes
    BY <1>2 DEF names
  <2>3. Walk(none, names) = names
    BY <2>1, <2>2, WalkPlain
  <2>. QED  BY <1>1, <2>3 DEF names, none
<1>. QED  BY <1>1, <1>2

\* realpath() leads to the same place.
LEMMA RealpathFacts ==
    ASSUME NEW path \in Strings
    PROVE  /\ realpath(path) \in Strings /\ realpath(path) # <<>>
           /\ IsAbsolute(realpath(path))
           /\ Components(realpath(path)) = Leads(path)
           /\ Leads(realpath(path)) = Leads(path)
<1>1. Leads(path) \in PlainRoutes
  BY LeadsFacts
<1>2. /\ realpath(path) \in Strings /\ IsAbsolute(realpath(path))
      /\ Components(realpath(path)) = Leads(path)
  <2>1. realpath(path) = Text(Leads(path), TRUE)
    BY DEF realpath
  <2>. QED  BY <1>1, <2>1, TextFacts
<1>3. realpath(path) # <<>>
  BY <1>2, AbsoluteIsNone
<1>4. Leads(realpath(path)) = Components(realpath(path))
  BY <1>1, <1>2, AbsoluteLeads
<1>. QED  BY <1>2, <1>3, <1>4

\* A path cut at a slash.
LEMMA CutFacts ==
    ASSUME NEW path \in Strings, NEW index \in 1 .. Len(path) - 1, AtSlash(path, index)
    PROVE  LET dir == SubSeq(path, 1, index)
               tail == SubSeq(path, index + 1, Len(path)) IN
           /\ dir \in Strings /\ dir # <<>> /\ Len(dir) = index
           /\ tail \in Strings /\ path = dir \o tail /\ AtSlash(tail, 0)
           /\ IsAbsolute(dir) = IsAbsolute(path)
           /\ Components(path) = Components(dir) \o Components(tail)
           /\ Rest(path, index) \in Strings
           /\ Components(Rest(path, index)) = Components(tail)
<1>. DEFINE dir == SubSeq(path, 1, index)
            tail == SubSeq(path, index + 1, Len(path))
            skip == SkipSlashes(path, index)
            rest == SubSeq(path, skip + 1, Len(path))
            before == SubSeq(path, 1, skip)
<1>1. path \in Seq(Chars) /\ Len(path) \in Nat /\ index \in 0 .. Len(path) /\ index \in Nat
  BY DEF Strings
<1>2. skip \in index .. Len(path) /\ Following(path)[skip] = Following(path)[index]
  BY <1>1, FollowSkip
<1>3. skip \in 0 .. Len(path)
  BY <1>1, <1>2
<1>. HIDE DEF skip
<1>4. \A k \in 0 .. Len(path) :
        /\ SubSeq(path, 1, k) \in Strings /\ Len(SubSeq(path, 1, k)) = k
        /\ SubSeq(path, k + 1, Len(path)) \in Strings
        /\ path = SubSeq(path, 1, k) \o SubSeq(path, k + 1, Len(path))
  <2>1. ASSUME NEW k \in 0 .. Len(path)
        PROVE  /\ SubSeq(path, 1, k) \in Seq(Chars) /\ Len(SubSeq(path, 1, k)) = k
               /\ SubSeq(path, k + 1, Len(path)) \in Seq(Chars)
               /\ path = SubSeq(path, 1, k) \o SubSeq(path, k + 1, Len(path))
    BY <1>1, FrontFacts, RestFacts, CutSequence
  <2>. QED  BY <2>1 DEF Strings
<1>5. /\ dir \in Strings /\ Len(dir) = index /\ tail \in Strings /\ path = dir \o tail
      /\ before \in Strings /\ Len(before) = skip /\ rest \in Strings /\ path = before \o rest
  BY <1>1, <1>3, <1>4
<1>. HIDE DEF dir, tail, before, rest
<1>6. dir # <<>>
  <2>1. Len(dir) # 0
    BY <1>5
  <2>. QED  BY <1>5, <2>1, StringFacts
<1>7. AtSlash(tail, 0)
  <2>1. \A j \in Nat : Char(dir \o tail, Len(dir) + j) = Char(tail, j)
    BY <1>5, CharJoin
  <2>2. Char(dir \o tail, index + 0) = Char(tail, 0) /\ index + 0 = index
    BY <1>1, <1>5, <2>1
  <2>. QED  BY <1>5, <2>1, <2>2 DEF AtSlash
<1>8. Components(dir \o tail) = Components(dir) \o Components(tail)
  BY <1>5, <1>7, ComponentsJoin
<1>9. IsAbsolute(dir \o tail) = IsAbsolute(dir)
  BY <1>5, <1>6, AbsoluteFirst
<1>10. Components(rest) = Components(tail)
  <2>1. 0 \in 0 .. Len(rest) /\ 0 \in 0 .. Len(tail) /\ skip + 0 = skip /\ index + 0 = index
    <3>1. Len(rest) \in Nat /\ Len(tail) \in Nat
      BY <1>5, StringFacts
    <3>. QED  BY <1>1, <1>3, <3>1
  <2>2. Following(before \o rest)[Len(before) + 0] = Following(rest)[0]
    BY <1>5, <2>1, FollowTail
  <2>3. Following(dir \o tail)[Len(dir) + 0] = Following(tail)[0]
    BY <1>5, <2>1, FollowTail
  <2>. QED  BY <1>2, <1>5, <2>1, <2>2, <2>3, ComponentsFollow
<1>11. Rest(path, index) = rest
  BY DEF Rest, rest, skip
<1>. QED  BY <1>5, <1>6, <1>7, <1>8, <1>9, <1>10, <1>11 DEF dir, tail

\* Below an absolute path.
LEMMA BelowFacts ==
    ASSUME NEW base \in Strings, IsAbsolute(base), NEW rel \in Strings
    PROVE  LET under == base \o <<"/">> \o rel IN
           /\ under \in Strings /\ under # <<>> /\ IsAbsolute(under)
           /\ Components(under) = Components(base) \o Components(rel)
           /\ Components(base) \in PlainRoutes =>
                Leads(under) = Walk(Components(base), Components(rel))
<1>. DEFINE slash == <<"/">>
            b == slash \o rel
            names == Components(base)
            more == Components(rel)
            none == <<>>
<1>1. b \in Strings /\ AtSlash(b, 0) /\ Components(b) = more /\ slash \in Strings
  BY SlashFirst, StringFacts
<1>2. base # <<>>
  BY AbsoluteIsNone
<1>. HIDE DEF slash
<1>3. (base \o slash) \o rel = base \o b
  BY <1>1, Regroup
<1>. HIDE DEF b
<1>4. Components(base \o b) = names \o Components(b)
  BY <1>1, ComponentsJoin
<1>5. base \o b \in Strings /\ base \o b # <<>> /\ IsAbsolute(base \o b)
  BY <1>1, <1>2, AbsoluteFirst
<1>6. ASSUME names \in PlainRoutes
      PROVE  Leads(base \o b) = Walk(names, more)
  <2>1. names \in Routes /\ more \in Routes /\ none \in Routes /\ none \o names = names
    BY ComponentsType, RouteFacts
  <2>2. Leads(base \o b) = Walk(none, Components(base \o b))
    BY <1>5, AbsoluteLeads
  <2>. HIDE DEF names, more, none
  <2>3. Walk(none, names \o more) = Walk(Walk(none, names), more)
    BY <2>1, WalkConcat
  <2>4. Walk(none, names) = names
    BY <1>6, <2>1, WalkPlain
  <2>. QED  BY <1>1, <1>4, <2>2, <2>3, <2>4
<1>. QED  BY <1>1, <1>3, <1>4, <1>5, <1>6 DEF slash

\* Below the working directory.
LEMMA UnderCwdFacts ==
    ASSUME NEW path \in Strings
    PROVE  /\ UnderCwd(path) \in Strings /\ UnderCwd(path) # <<>> /\ IsAbsolute(UnderCwd(path))
           /\ Components(UnderCwd(path)) = Cwd \o Components(path)
           /\ Leads(UnderCwd(path)) = Walk(Cwd, Components(path))
<1>. DEFINE base == Text(Cwd, TRUE)
<1>1. Cwd \in PlainRoutes
  BY CwdPlain
<1>2. base \in Strings /\ IsAbsolute(base) /\ Components(base) = Cwd
  BY <1>1, TextFacts
<1>3. UnderCwd(path) = base \o <<"/">> \o path
  BY DEF UnderCwd
<1>. HIDE DEF base
<1>4. /\ base \o <<"/">> \o path \in Strings /\ base \o <<"/">> \o path # <<>>
      /\ IsAbsolute(base \o <<"/">> \o path)
      /\ Components(base \o <<"/">> \o path) = Components(base) \o Components(path)
  BY <1>2, BelowFacts
<1>5. Leads(base \o <<"/">> \o path) = Walk(Components(base), Components(path))
  BY <1>1, <1>2, BelowFacts
<1>. QED  BY <1>2, <1>3, <1>4, <1>5

\* What is resolved up to a slash leads where it did.
LEMMA ResolvedFacts ==
    ASSUME NEW path \in Strings, NEW index \in 1 .. Len(path) - 1, AtSlash(path, index)
    PROVE  LET dir == SubSeq(path, 1, index)
               resolved == realpath(dir) \o <<"/">> \o Rest(path, index) IN
           /\ resolved \in Strings /\ resolved # <<>> /\ IsAbsolute(resolved)
           /\ Components(resolved) = Leads(dir) \o Components(Rest(path, index))
           /\ Leads(resolved) = Leads(path)
<1>. DEFINE dir == SubSeq(path, 1, index)
            tail == SubSeq(path, index + 1, Len(path))
            rest == Rest(path, index)
            base == realpath(dir)
<1>1. /\ dir \in Strings /\ tail \in Strings /\ rest \in Strings
      /\ IsAbsolute(dir) = IsAbsolute(path)
      /\ Components(path) = Components(dir) \o Components(tail)
      /\ Components(rest) = Components(tail)
  BY CutFacts
<1>. HIDE DEF dir, tail, rest
<1>2. base \in Strings /\ IsAbsolute(base) /\ Components(base) = Leads(dir)
  BY <1>1, RealpathFacts
<1>3. /\ Leads(dir) \in PlainRoutes /\ Base(dir) = Base(path)
      /\ Leads(dir) = Walk(Base(dir), Components(dir))
      /\ Leads(path) = Walk(Base(path), Components(path))
      /\ Base(path) \in Routes
  BY <1>1, LeadsFacts DEF Base, PlainRoutes
<1>. HIDE DEF base
<1>4. Leads(base \o <<"/">> \o rest) = Walk(Leads(dir), Components(rest))
  BY <1>1, <1>2, <1>3, BelowFacts
<1>5. Walk(Base(path), Components(dir) \o Components(tail))
        = Walk(Walk(Base(path), Components(dir)), Components(tail))
  <2>. DEFINE a == Components(dir)
              b == Components(tail)
  <2>1. a \in Routes /\ b \in Routes
    BY <1>1, ComponentsType
  <2>. HIDE DEF a, b
  <2>2. Walk(Base(path), a \o b) = Walk(Walk(Base(path), a), b)
    BY <1>3, <2>1, WalkConcat
  <2>. QED  BY <2>2 DEF a, b
<1>6. Leads(base \o <<"/">> \o rest) = Leads(path)
  BY <1>1, <1>3, <1>4, <1>5
<1>7. /\ base \o <<"/">> \o rest \in Strings /\ base \o <<"/">> \o rest # <<>>
      /\ IsAbsolute(base \o <<"/">> \o rest)
      /\ Components(base \o <<"/">> \o rest) = Components(base) \o Components(rest)
  BY <1>1, <1>2, BelowFacts
<1>. QED  BY <1>2, <1>6, <1>7 DEF dir, rest, base

\* An absolute path that leads to the same place; but for an absolute path of which nothing is
\* there, since that is taken for one below the working directory.
LEMMA AbsPathFacts ==
    ASSUME NEW path \in Strings, NEW new, abspath(path, new) # NULL
    PROVE  LET absolute == abspath(path, new) IN
           /\ absolute \in Strings /\ absolute # <<>> /\ IsAbsolute(absolute)
           /\ ~IsAbsolute(path) \/ Found(path, new) => Leads(absolute) = Leads(path)
<1>1. CASE Found(path, new)
  <2>1. abspath(path, new) = realpath(path)
    BY <1>1 DEF abspath
  <2>. QED  BY <2>1, RealpathFacts
<1>2. CASE ~Found(path, new)
  <2>1. abspath(path, new) = Parent(path, new)
    BY <1>2 DEF abspath
  <2>2. CASE Parent(path, new) = UnderCwd(path)
    <3>1. ASSUME ~IsAbsolute(path) PROVE Leads(path) = Walk(Cwd, Components(path))
      BY <3>1, LeadsFacts DEF Base
    <3>. QED  BY <1>2, <2>1, <2>2, <3>1, UnderCwdFacts
  <2>3. CASE Parent(path, new) # UnderCwd(path)
    <3>1. PICK index : /\ AtCut(path, new, index)
                       /\ Parent(path, new) = realpath(SubSeq(path, 1, index))
                                                  \o <<"/">> \o Rest(path, index)
      BY <2>1, <2>3, ParentResult
    <3>2. index \in 1 .. Len(path) - 1 /\ AtSlash(path, index)
      BY <3>1 DEF AtCut
    <3>. QED  BY <2>1, <3>1, <3>2, ResolvedFacts
  <2>. QED  BY <2>2, <2>3
<1>. QED  BY <1>1, <1>2

-----------------------------------------------------------------------------
(* The paths of start.                                                     *)

\* What is asked for are strings.
LEMMA AskedTypes ==
    ASSUME asked \in Asked
    PROVE  /\ asked.chroot_path \in Strings /\ asked.chdir_path \in Strings
           /\ asked.command \in Strings /\ asked.command # <<>>
           /\ asked.pidfile \in Strings
BY AskedAssumption DEF NULL

\* A path within the new root.
LEMMA FromRootFacts ==
    ASSUME NEW rel \in Strings, rel # <<>>
    PROVE  LET path == FromRoot(rel) IN
           /\ path \in Strings /\ IsAbsolute(path)
           /\ Components(path) = Components(rel)
           /\ normpath_no_escape(path) \in Strings /\ normpath_no_escape(path) # <<>>
           /\ IsAbsolute(normpath_no_escape(path))
           /\ Components(normpath_no_escape(path)) = Walk(<<>>, Components(rel))
           /\ Components(normpath_no_escape(path)) \in PlainRoutes
<1>. DEFINE path == FromRoot(rel)
            top == <<"/">>
<1>1. path \in Strings /\ IsAbsolute(path) /\ Components(path) = Components(rel)
  <2>1. CASE IsAbsolute(rel)
    BY <2>1 DEF FromRoot
  <2>2. CASE ~IsAbsolute(rel)
    <3>1. path = join_path(top, rel)
      BY <2>2 DEF FromRoot
    <3>2. top \in Strings /\ top # <<>> /\ Components(top) = <<>>
      BY StringFacts, NoName
    <3>3. IsAbsolute(top)
      <4>1. top \o <<>> = top /\ <<>> \in Strings
        BY StringFacts
      <4>2. IsAbsolute(top \o <<>>)
        BY <4>1, SlashFirst
      <4>. QED  BY <4>1, <4>2
    <3>4. <<>> \o Components(rel) = Components(rel)
      BY ComponentsType, RouteFacts
    <3>. HIDE DEF top, path
    <3>5. /\ join_path(top, rel) \in Strings
          /\ IsAbsolute(join_path(top, rel)) = IsAbsolute(top)
          /\ Components(join_path(top, rel)) = Components(top) \o Components(rel)
      BY <3>2, JoinFacts
    <3>. QED  BY <3>1, <3>2, <3>3, <3>4, <3>5
  <2>. QED  BY <2>1, <2>2
<1>. HIDE DEF path
<1>2. /\ normpath_no_escape(path) \in Strings /\ IsAbsolute(normpath_no_escape(path))
      /\ Components(normpath_no_escape(path)) = Walk(<<>>, Components(path))
      /\ Components(normpath_no_escape(path)) \in PlainRoutes
  BY <1>1, NormalFacts
<1>3. normpath_no_escape(path) # <<>>
  BY <1>2, AbsoluteIsNone
<1>. QED  BY <1>1, <1>2, <1>3 DEF path

\* The new root is known by an absolute path.
LEMMA ChrootFacts ==
    ASSUME AsToChroot, chroot_path # NULL
    PROVE  /\ chroot_path \in Strings /\ chroot_path # <<>> /\ IsAbsolute(chroot_path)
           /\ asked.chroot_path # NULL
           /\ Found(asked.chroot_path, {}) =>
                /\ Leads(chroot_path) = Leads(asked.chroot_path)
           /\ Leads(chroot_path) \in PlainRoutes
           /\ Leads(chroot_path) = Walk(<<>>, Components(chroot_path))
<1>1. asked.chroot_path \in Strings
  BY AskedTypes DEF AsToChroot
<1>2. chroot_path = abspath(asked.chroot_path, {})
  BY DEF AsToChroot
<1>3. asked.chroot_path # NULL
  BY <1>2 DEF abspath, NULL
<1>. QED  BY <1>1, <1>2, <1>3, AbsPathFacts, LeadsFacts, AbsoluteLeads

\* The directory to change to is known by an absolute path.
LEMMA ChdirFacts ==
    ASSUME AsToChroot, AsToChdir, chdir_path # NULL,
           pc \in Built \union {"command"} \/ checked # NULL
    PROVE  /\ chdir_path \in Strings /\ chdir_path # <<>> /\ IsAbsolute(chdir_path)
           /\ asked.chdir_path \in Strings /\ asked.chdir_path # NULL
           /\ chroot_path # NULL =>
                /\ Components(chdir_path) = Walk(<<>>, Components(asked.chdir_path))
                /\ Components(chdir_path) \in PlainRoutes
<1>1. asked.chdir_path \in Strings /\ asked.chdir_path # NULL
  BY AskedTypes DEF AsToChroot, AsToChdir
<1>2. CASE chroot_path # NULL
  <2>1. chdir_path = normpath_no_escape(FromRoot(asked.chdir_path))
    BY <1>1, <1>2 DEF AsToChdir
  <2>. QED  BY <1>1, <1>2, <2>1, FromRootFacts DEF NULL
<1>3. CASE chroot_path = NULL
  <2>1. chdir_path = abspath(asked.chdir_path, {})
    BY <1>1, <1>3 DEF AsToChdir
  <2>. QED  BY <1>1, <1>3, <2>1, AbsPathFacts
<1>. QED  BY <1>2, <1>3

\* The command as the service will see it.
LEMMA JoinedFacts ==
    ASSUME AsToChroot, AsToChdir, chroot_path # NULL,
           pc \in Built \union {"command"} \/ checked # NULL
    PROVE  LET path == Joined(asked.command) IN
           /\ path \in Strings /\ IsAbsolute(path)
           /\ Components(path) =
                IF IsAbsolute(asked.command) \/ chdir_path = NULL THEN Components(asked.command)
                ELSE Components(chdir_path) \o Components(asked.command)
           /\ normpath_no_escape(path) \in Strings /\ normpath_no_escape(path) # <<>>
           /\ IsAbsolute(normpath_no_escape(path))
           /\ Components(normpath_no_escape(path)) = Walk(<<>>, Components(path))
           /\ Components(normpath_no_escape(path)) \in PlainRoutes
<1>. DEFINE path == Joined(asked.command)
            rel == asked.command
<1>1. rel \in Strings /\ rel # <<>>
  BY AskedTypes DEF AsToChroot
<1>2. /\ path \in Strings /\ IsAbsolute(path)
      /\ Components(path) = IF IsAbsolute(rel) \/ chdir_path = NULL THEN Components(rel)
                            ELSE Components(chdir_path) \o Components(rel)
  <2>1. CASE IsAbsolute(rel)
    BY <1>1, <2>1 DEF Joined
  <2>2. CASE ~IsAbsolute(rel) /\ chdir_path = NULL
    <3>1. path = FromRoot(rel)
      BY <2>2 DEF Joined, FromRoot
    <3>. HIDE DEF rel, path
    <3>. QED  BY <1>1, <2>2, <3>1, FromRootFacts
  <2>3. CASE ~IsAbsolute(rel) /\ chdir_path # NULL
    <3>1. path = join_path(chdir_path, rel)
      BY <2>3 DEF Joined
    <3>2. chdir_path \in Strings /\ chdir_path # <<>> /\ IsAbsolute(chdir_path)
      BY <2>3, ChdirFacts
    <3>. HIDE DEF rel, path
    <3>3. /\ join_path(chdir_path, rel) \in Strings
          /\ IsAbsolute(join_path(chdir_path, rel)) = IsAbsolute(chdir_path)
          /\ Components(join_path(chdir_path, rel)) = Components(chdir_path) \o Components(rel)
      BY <1>1, <3>2, JoinFacts
    <3>. QED  BY <2>3, <3>1, <3>2, <3>3
  <2>. QED  BY <2>1, <2>2, <2>3
<1>. HIDE DEF path
<1>3. /\ normpath_no_escape(path) \in Strings /\ IsAbsolute(normpath_no_escape(path))
      /\ Components(normpath_no_escape(path)) = Walk(<<>>, Components(path))
      /\ Components(normpath_no_escape(path)) \in PlainRoutes
  BY <1>2, NormalFacts
<1>4. normpath_no_escape(path) # <<>>
  BY <1>3, AbsoluteIsNone
<1>. QED  BY <1>2, <1>3, <1>4 DEF path

\* At each place, the variables are what has been made of the options.
LEMMA Inductively ==
    Spec => []Inductive
<1>. USE DEF NULL
<1>1. Init => Inductive
  BY DEF Init, NotYet, Inductive, AsToChroot, AsToChdir, AsToCommand, AsToPidfile, AsToPlace,
         Places, Entering, Approved, Built
<1>2. Inductive /\ [Next]_vars => Inductive'
  <2>. SUFFICES ASSUME Inductive, [Next]_vars
                PROVE  Inductive'
    OBVIOUS
  <2>. USE DEF Inductive, Places, Entering, Approved, Built
  <2>1. CASE Options
    <3>1. AsToChroot'
      BY <2>1 DEF Options, AsToChroot, where, paths
    <3>2. AsToChdir' /\ AsToCommand' /\ AsToPidfile'
      BY <2>1 DEF Options, AsToChdir, AsToCommand, AsToPidfile, where
    <3>3. AsToPlace'
      BY <2>1 DEF Options, AsToPlace, where
    <3>. QED  BY <2>1, <3>1, <3>2, <3>3 DEF Options
  <2>2. CASE Chroot
    <3>1. AsToChroot'
      BY <2>2 DEF Chroot, AsToChroot, where, paths, Listable
    <3>2. AsToChdir' /\ AsToCommand' /\ AsToPidfile'
      BY <2>2 DEF Chroot, AsToChdir, AsToCommand, AsToPidfile, where, paths
    <3>3. AsToPlace'
      BY <2>2 DEF Chroot, AsToPlace, where, paths
    <3>. QED  BY <2>2, <3>1, <3>2, <3>3 DEF Chroot
  <2>3. CASE NoChdir
    <3>1. AsToChroot'
      BY <2>3 DEF NoChdir, AsToChroot, where, paths, Listable
    <3>2. AsToChdir' /\ AsToCommand' /\ AsToPidfile'
      BY <2>3 DEF NoChdir, AsToChdir, AsToCommand, AsToPidfile, where, paths
    <3>3. AsToPlace'
      BY <2>3 DEF NoChdir, AsToPlace, where, paths
    <3>. QED  BY <2>3, <3>1, <3>2, <3>3 DEF NoChdir
  <2>4. CASE ChdirInRoot
    <3>1. AsToChroot'
      BY <2>4 DEF ChdirInRoot, AsToChroot, where, Listable
    <3>2. AsToChdir'
      <4>1. asked.chdir_path # <<>> /\ chdir_path = asked.chdir_path /\ asked \in Asked
        BY <2>4 DEF ChdirInRoot, AsToChdir, AsToChroot
      <4>2. asked.chdir_path \in Strings
        BY <4>1, AskedTypes
      <4>3. normpath_no_escape(FromRoot(asked.chdir_path)) # <<>>
        BY <4>1, <4>2, FromRootFacts
      <4>4. checked' = <<>>
        BY <2>4 DEF ChdirInRoot, AsToCommand
      <4>. QED  BY <2>4, <4>1, <4>3, <4>4 DEF ChdirInRoot, AsToChdir, where, Listable
    <3>3. AsToCommand' /\ AsToPidfile'
      BY <2>4 DEF ChdirInRoot, AsToCommand, AsToPidfile, where
    <3>4. AsToPlace'
      BY <2>4 DEF ChdirInRoot, AsToPlace, where
    <3>. QED  BY <2>4, <3>1, <3>2, <3>3, <3>4 DEF ChdirInRoot
  <2>5. CASE Chdir
    <3>1. AsToChroot'
      BY <2>5 DEF Chdir, AsToChroot, where, Listable
    <3>2. AsToChdir'
      <4>1. checked' = <<>>
        BY <2>5 DEF Chdir, AsToCommand
      <4>. QED  BY <2>5, <4>1 DEF Chdir, AsToChdir, where, Listable
    <3>3. AsToCommand' /\ AsToPidfile'
      BY <2>5 DEF Chdir, AsToCommand, AsToPidfile, where
    <3>4. AsToPlace'
      BY <2>5 DEF Chdir, AsToPlace, where
    <3>. QED  BY <2>5, <3>1, <3>2, <3>3, <3>4 DEF Chdir
  <2>6. CASE CommandInRoot
    <3>1. AsToChroot'
      BY <2>6 DEF CommandInRoot, AsToChroot, where, Listable
    <3>2. AsToChdir'
      BY <2>6 DEF CommandInRoot, AsToChdir, where, Listable
    <3>3. AsToCommand'
      <4>1. command = asked.command
        BY <2>6 DEF CommandInRoot, AsToCommand
      <4>2. InRoot(asked.command) \in Strings /\ InRoot(asked.command) # <<>>
        BY <2>6, JoinedFacts DEF CommandInRoot, InRoot
      <4>3. chroot_path \in Strings /\ chroot_path # <<>>
        BY <2>6, ChrootFacts DEF CommandInRoot
      <4>. DEFINE cmd == InRoot(asked.command)
      <4>. HIDE DEF cmd
      <4>4. join_path(chroot_path, cmd) # <<>>
        BY <4>2, <4>3, JoinFacts DEF cmd
      <4>. QED  BY <2>6, <4>1, <4>4 DEF CommandInRoot, AsToCommand, InRoot, Joined, cmd
    <3>4. AsToPidfile' /\ AsToPlace'
      BY <2>6 DEF CommandInRoot, AsToPidfile, AsToPlace, where
    <3>. QED  BY <2>6, <3>1, <3>2, <3>3, <3>4 DEF CommandInRoot
  <2>7. CASE Command
    <3>1. AsToChroot'
      BY <2>7 DEF Command, AsToChroot, where, Listable
    <3>2. AsToChdir'
      BY <2>7 DEF Command, AsToChdir, where, Listable
    <3>3. AsToCommand'
      BY <2>7 DEF Command, AsToCommand, InDir
    <3>4. AsToPidfile' /\ AsToPlace'
      BY <2>7 DEF Command, AsToPidfile, AsToPlace, where
    <3>. QED  BY <2>7, <3>1, <3>2, <3>3, <3>4 DEF Command
  <2>8. CASE Check
    <3>1. AsToChroot'
      BY <2>8 DEF Check, AsToChroot, where, paths, Listable
    <3>2. AsToChdir'
      BY <2>8 DEF Check, AsToChdir, where, paths, Listable
    <3>3. AsToCommand'
      BY <2>8 DEF Check, AsToCommand, paths, InRoot, Joined, InDir, Executable
    <3>4. AsToPidfile' /\ AsToPlace'
      BY <2>8 DEF Check, AsToPidfile, AsToPlace, where, paths
    <3>. QED  BY <2>8, <3>1, <3>2, <3>3, <3>4 DEF Check
  <2>9. CASE Pidfile
    <3>1. AsToChroot'
      BY <2>9 DEF Pidfile, AsToChroot, where, Listable
    <3>2. AsToChdir'
      BY <2>9 DEF Pidfile, AsToChdir, where, Listable
    <3>3. AsToCommand'
      BY <2>9 DEF Pidfile, AsToCommand, InRoot, Joined, InDir, Executable
    <3>4. AsToPidfile' /\ AsToPlace'
      BY <2>9 DEF Pidfile, AsToPidfile, AsToPlace, where
    <3>. QED  BY <2>9, <3>1, <3>2, <3>3, <3>4 DEF Pidfile
  <2>10. CASE EnterRoot
    <3>1. AsToChroot'
      BY <2>10 DEF EnterRoot, AsToChroot, paths, Listable
    <3>2. AsToChdir'
      BY <2>10 DEF EnterRoot, AsToChdir, paths, Listable
    <3>3. AsToCommand'
      BY <2>10 DEF EnterRoot, AsToCommand, paths, InRoot, Joined, InDir, Executable
    <3>4. AsToPidfile' /\ AsToPlace'
      BY <2>10 DEF EnterRoot, AsToPidfile, AsToPlace, paths
    <3>. QED  BY <2>10, <3>1, <3>2, <3>3, <3>4 DEF EnterRoot
  <2>11. CASE EnterDir
    <3>1. AsToChroot'
      BY <2>11 DEF EnterDir, AsToChroot, paths, Listable
    <3>2. AsToChdir'
      BY <2>11 DEF EnterDir, AsToChdir, paths, Listable
    <3>3. AsToCommand'
      BY <2>11 DEF EnterDir, AsToCommand, paths, InRoot, Joined, InDir, Executable
    <3>4. AsToPidfile' /\ AsToPlace'
      BY <2>11 DEF EnterDir, AsToPidfile, AsToPlace, paths, Inside
    <3>. QED  BY <2>11, <3>1, <3>2, <3>3, <3>4 DEF EnterDir
  <2>12. CASE Exec
    <3>1. AsToChroot'
      BY <2>12 DEF Exec, AsToChroot, paths, Listable
    <3>2. AsToChdir'
      BY <2>12 DEF Exec, AsToChdir, paths, Listable
    <3>3. AsToCommand'
      BY <2>12 DEF Exec, AsToCommand, paths, InRoot, Joined, InDir, Executable
    <3>4. AsToPidfile' /\ AsToPlace'
      BY <2>12 DEF Exec, AsToPidfile, AsToPlace, paths, Inside
    <3>. QED  BY <2>12, <3>1, <3>2, <3>3, <3>4 DEF Exec
  <2>13. CASE UNCHANGED vars
    <3>1. AsToChroot'
      BY <2>13 DEF vars, AsToChroot, paths, Listable
    <3>2. AsToChdir'
      BY <2>13 DEF vars, AsToChdir, paths, Listable
    <3>3. AsToCommand'
      BY <2>13 DEF vars, AsToCommand, paths, InRoot, Joined, InDir, Executable
    <3>4. AsToPidfile' /\ AsToPlace'
      BY <2>13 DEF vars, where, AsToPidfile, AsToPlace, paths, Inside
    <3>. QED  BY <2>13, <3>1, <3>2, <3>3, <3>4 DEF vars
  <2>14. CASE Done
    BY <2>13, <2>14 DEF Done
  <2>. QED  BY <2>1, <2>2, <2>3, <2>4, <2>5, <2>6, <2>7, <2>8, <2>9, <2>10, <2>11, <2>12, <2>13,
               <2>14 DEF Next
<1>. QED  BY <1>1, <1>2, PTL DEF Spec

\* A path in the root of the process.
LEMMA InsideFacts ==
    ASSUME NEW path \in Strings
    PROVE  /\ Inside(path) = root \o Walk(<<>>, Components(path))
           /\ Walk(<<>>, Components(path)) \in PlainRoutes
           /\ Components(path) \in PlainRoutes => Walk(<<>>, Components(path)) = Components(path)
<1>1. Inside(path) = root \o Walk(<<>>, Components(path))
  BY NamesFacts, RouteFacts DEF Inside
<1>2. Walk(<<>>, Components(path)) \in PlainRoutes
  BY CwdPlain, WalkClean
<1>3. ASSUME Components(path) \in PlainRoutes
      PROVE  Walk(<<>>, Components(path)) = Components(path)
  <2>1. <<>> \in Routes /\ <<>> \o Components(path) = Components(path)
    BY RouteFacts, ComponentsType
  <2>. DEFINE none == <<>>
  <2>. HIDE DEF none
  <2>2. Walk(none, Components(path)) = none \o Components(path)
    BY <1>3, <2>1, WalkPlain DEF none
  <2>. QED  BY <2>1, <2>2 DEF none
<1>. QED  BY <1>1, <1>2, <1>3

\* The command as the child will see it, and as it is checked before.
LEMMA CommandFacts ==
    ASSUME AsToChroot, AsToChdir, AsToCommand, checked # NULL
    PROVE  /\ command \in Strings /\ command # <<>> /\ IsAbsolute(command)
           /\ chroot_path = NULL => checked = command
           /\ chroot_path # NULL =>
                /\ Components(command) = Walk(<<>>, Components(Joined(asked.command)))
                /\ Components(command) \in PlainRoutes
                /\ Leads(checked) = Leads(chroot_path) \o Components(command)
<1>1. asked.command \in Strings /\ asked.command # <<>>
  BY AskedTypes DEF AsToChroot
<1>2. CASE chroot_path # NULL
  <2>1. command = normpath_no_escape(Joined(asked.command))
        /\ checked = join_path(chroot_path, command)
    BY <1>2 DEF AsToCommand, InRoot
  <2>2. /\ command \in Strings /\ command # <<>> /\ IsAbsolute(command)
        /\ Components(command) = Walk(<<>>, Components(Joined(asked.command)))
        /\ Components(command) \in PlainRoutes
    BY <1>2, <2>1, JoinedFacts
  <2>3. /\ chroot_path \in Strings /\ chroot_path # <<>> /\ IsAbsolute(chroot_path)
        /\ Leads(chroot_path) \in PlainRoutes
        /\ Leads(chroot_path) = Walk(<<>>, Components(chroot_path))
    BY <1>2, ChrootFacts
  <2>4. /\ checked \in Strings /\ IsAbsolute(checked)
        /\ Components(checked) = Components(chroot_path) \o Components(command)
    <3>1. LET j == join_path(chroot_path, command) IN
          /\ j \in Strings /\ j # <<>>
          /\ IsAbsolute(j) = IsAbsolute(chroot_path)
          /\ Components(j) = Components(chroot_path) \o Components(command)
      BY <2>2, <2>3, JoinFacts
    <3>. QED  BY <2>1, <2>3, <3>1
  <2>5. Leads(checked) = Leads(chroot_path) \o Components(command)
    <3>1. Leads(checked) = Walk(<<>>, Components(chroot_path) \o Components(command))
      BY <2>4, AbsoluteLeads
    <3>2. <<>> \in Routes /\ Components(chroot_path) \in Routes /\ Components(command) \in Routes
          /\ Leads(chroot_path) \in Routes
      BY <2>2, <2>3, RouteFacts, ComponentsType DEF PlainRoutes
    <3>. DEFINE none == <<>>
    <3>. HIDE DEF none
    <3>3. Walk(none, Components(chroot_path) \o Components(command))
            = Walk(Walk(none, Components(chroot_path)), Components(command))
      BY <3>2, WalkConcat DEF none
    <3>4. Walk(Leads(chroot_path), Components(command))
            = Leads(chroot_path) \o Components(command)
      BY <2>2, <3>2, WalkPlain
    <3>. QED  BY <2>3, <3>1, <3>3, <3>4 DEF none
  <2>. QED  BY <1>2, <2>2, <2>5
<1>3. CASE chroot_path = NULL
  <2>1. command = InDir(asked.command) /\ checked = command
    BY <1>3 DEF AsToCommand
  <2>2. command \in Strings /\ command # <<>> /\ IsAbsolute(command)
    <3>1. CASE chdir_path # NULL
      <4>1. chdir_path \in Strings /\ chdir_path # <<>> /\ IsAbsolute(chdir_path)
        BY <3>1, ChdirFacts
      <4>2. LET j == join_path(chdir_path, asked.command) IN
            /\ j \in Strings /\ j # <<>> /\ IsAbsolute(j) = IsAbsolute(chdir_path)
        BY <1>1, <4>1, JoinFacts
      <4>. QED  BY <2>1, <3>1, <4>1, <4>2 DEF InDir
    <3>2. CASE chdir_path = NULL /\ IsAbsolute(asked.command)
      BY <1>1, <2>1, <3>2 DEF InDir
    <3>3. CASE chdir_path = NULL /\ ~IsAbsolute(asked.command)
      <4>1. command = abspath(asked.command, {})
        BY <2>1, <3>3 DEF InDir
      <4>2. command # NULL
        BY <2>1
      <4>. QED  BY <1>1, <4>1, <4>2, AbsPathFacts
    <3>. QED  BY <3>1, <3>2, <3>3
  <2>. QED  BY <1>3, <2>1, <2>2
<1>. QED  BY <1>2, <1>3

\* Which file runs.
LEMMA RunsFacts ==
    ASSUME Inductive, pc = "running"
    PROVE  /\ checked # NULL
           /\ runs = root \o Walk(<<>>, Components(command))
           /\ runs = Leads(checked)
<1>1. checked # NULL /\ AsToChroot /\ AsToChdir /\ AsToCommand
  BY DEF Inductive, AsToCommand, Built, Approved, Entering
<1>2. command \in Strings /\ IsAbsolute(command)
  BY <1>1, CommandFacts
<1>3. runs = root \o Walk(<<>>, Components(command))
  <2>1. runs = Inside(command)
    BY <1>2 DEF Inductive, AsToPlace
  <2>. QED  BY <1>2, <2>1, InsideFacts
<1>4. CASE chroot_path # NULL
  <2>1. Leads(checked) = Leads(chroot_path) \o Components(command)
        /\ Components(command) \in PlainRoutes
    BY <1>1, <1>4, CommandFacts
  <2>2. Walk(<<>>, Components(command)) = Components(command)
    BY <1>2, <2>1, InsideFacts
  <2>3. root = Leads(chroot_path)
    BY <1>4 DEF Inductive, AsToPlace
  <2>. QED  BY <1>1, <1>3, <2>1, <2>2, <2>3
<1>5. CASE chroot_path = NULL
  <2>1. root = <<>>
    BY <1>5 DEF Inductive, AsToPlace
  <2>2. Leads(command) = Walk(<<>>, Components(command)) /\ checked = command
    BY <1>1, <1>2, <1>5, AbsoluteLeads, CommandFacts
  <2>3. <<>> \o Walk(<<>>, Components(command)) = Walk(<<>>, Components(command))
    <3>1. Walk(<<>>, Components(command)) \in Routes
      BY <1>2, InsideFacts DEF PlainRoutes
    <3>. QED  BY <3>1, RouteFacts
  <2>. QED  BY <1>1, <1>3, <2>1, <2>2, <2>3
<1>. QED  BY <1>4, <1>5, <1>1, <1>3

\* Whatever the options are and whatever exists: the file that runs, in another root and from
\* another directory, is the one that has been checked (start.c:1578-1711, 2065-2117).
THEOREM CheckedRuns ==
    Spec => []RunsWhatWasChecked
<1>1. Inductive => RunsWhatWasChecked
  BY RunsFacts DEF RunsWhatWasChecked
<1>. QED  BY <1>1, Inductively, PTL

\* What is below a directory begins with it.
LEMMA PrefixFacts ==
    ASSUME NEW s \in PlainRoutes, NEW t \in PlainRoutes
    PROVE  IsPrefix(s, s \o t)
<1>1. s \in Seq(Strings) /\ t \in Seq(Strings)
  BY DEF PlainRoutes, Routes
<1>. DEFINE u == s \o t
<1>2. Len(u) = Len(s) + Len(t) /\ Len(s) \in Nat /\ Len(t) \in Nat
  BY <1>1, RouteFacts DEF Routes
<1>3. u \in Seq(Strings) /\ \A k \in 1 .. Len(s) : u[k] = s[k]
  BY <1>1, ConcatFacts
<1>. QED  BY <1>1, <1>2, <1>3 DEF IsPrefix

\* Neither what is checked nor what runs, nor the working directory, is outside of the new root,
\* with any number of ".." in --chdir and in the command (start.c:1578-1671).
THEOREM Caged ==
    Spec => []StaysInside
<1>1. Inductive => StaysInside
  <2>. SUFFICES ASSUME Inductive, chroot_path # NULL
                PROVE  LET In(f) == IsPrefix(Leads(chroot_path), f) IN
                       /\ checked # NULL => In(Leads(checked))
                       /\ pc = "running" => In(runs) /\ (chdir_path # NULL => In(cwd))
    BY DEF StaysInside
  <2>1. AsToChroot /\ AsToChdir /\ AsToCommand
    BY DEF Inductive
  <2>2. Leads(chroot_path) \in PlainRoutes
    BY <2>1, ChrootFacts
  <2>3. checked # NULL => IsPrefix(Leads(chroot_path), Leads(checked))
    BY <2>1, <2>2, CommandFacts, PrefixFacts
  <2>4. pc = "running" => IsPrefix(Leads(chroot_path), runs)
    BY <2>3, RunsFacts
  <2>5. ASSUME pc = "running", chdir_path # NULL
        PROVE  IsPrefix(Leads(chroot_path), cwd)
    <3>1. chdir_path \in Strings
      BY <2>1, <2>5, ChdirFacts DEF Built, Approved, Entering
    <3>2. cwd = Inside(chdir_path) /\ root = Leads(chroot_path)
      BY <2>5 DEF Inductive, AsToPlace
    <3>. QED  BY <2>2, <3>1, <3>2, InsideFacts, PrefixFacts
  <2>. QED  BY <2>3, <2>4, <2>5
<1>. QED  BY <1>1, Inductively, PTL

\* For all that start gives it, normpath_no_escape() keeps its assert()s, stays within its buffer
\* and returns the normal form (util.c:289-371, start.c:1586-1664).
THEOREM Normalised ==
    Spec => []Normalises
<1>1. Inductive => Normalises
  <2>. SUFFICES ASSUME Inductive, chroot_path # NULL
                PROVE  /\ pc = "chdir" /\ chdir_path # NULL => FromRoot(chdir_path) \in Strings
                       /\ pc = "command" => Joined(command) \in Strings
    BY PathNormal DEF Normalises
  <2>1. pc = "chdir" /\ chdir_path # NULL => FromRoot(chdir_path) \in Strings
    BY AskedTypes, FromRootFacts DEF Inductive, AsToChroot, AsToChdir, NULL
  <2>2. pc = "command" => Joined(command) \in Strings
    BY JoinedFacts DEF Inductive, AsToCommand, Places, Built, Approved, Entering
  <2>. QED  BY <2>1, <2>2
<1>. QED  BY <1>1, Inductively, PTL

\* The service of a new root.
LEMMA AskedInRoot ==
    ASSUME Inductive, pc = "running", asked.chroot_path # NULL, Found(asked.chroot_path, {})
    PROVE  runs = Wanted
<1>. DEFINE rel == asked.command
            to  == asked.chdir_path
<1>1. AsToChroot /\ AsToChdir /\ AsToCommand /\ checked # NULL
  BY RunsFacts DEF Inductive
<1>2. chroot_path # NULL
  BY DEF Inductive, AsToChroot
<1>3. Leads(chroot_path) = Leads(asked.chroot_path)
  BY <1>1, <1>2, ChrootFacts
<1>4. rel \in Strings /\ to \in Strings
  BY <1>1, AskedTypes DEF AsToChroot
<1>5. runs = Leads(asked.chroot_path) \o Walk(<<>>, Components(Joined(rel)))
  <2>1. Leads(checked) = Leads(chroot_path) \o Components(command)
        /\ Components(command) = Walk(<<>>, Components(Joined(rel)))
    BY <1>1, <1>2, CommandFacts
  <2>. QED  BY <1>3, <2>1, RunsFacts
<1>6. chdir_path = NULL <=> to = NULL
  BY <1>1, <1>2 DEF AsToChdir, Built, Approved, Entering
<1>7. Components(Joined(rel)) =
        IF IsAbsolute(rel) \/ chdir_path = NULL THEN Components(rel)
        ELSE Components(chdir_path) \o Components(rel)
  BY <1>1, <1>2, JoinedFacts
<1>8. <<>> \in Routes
  BY RouteFacts
<1>9. CASE IsAbsolute(rel) \/ to = NULL
  <2>1. Walk(<<>>, Names(rel)) = Walk(<<>>, Components(rel))
    BY <1>4, <1>8, NamesFacts
  <2>2. Wanted = Leads(asked.chroot_path) \o Walk(<<>>, Names(rel))
    BY <1>9 DEF Wanted
  <2>. QED  BY <1>5, <1>6, <1>7, <1>9, <2>1, <2>2
<1>10. CASE ~IsAbsolute(rel) /\ to # NULL
  <2>. DEFINE dir == Walk(<<>>, Names(to))
  <2>1. /\ chdir_path \in Strings
        /\ Components(chdir_path) = Walk(<<>>, Components(to))
        /\ Components(chdir_path) \in PlainRoutes
    BY <1>1, <1>2, <1>6, <1>10, ChdirFacts
  <2>2. dir = Components(chdir_path) /\ dir \in Routes
    BY <1>4, <1>8, <2>1, NamesFacts DEF PlainRoutes
  <2>3. Walk(<<>>, Components(Joined(rel))) = Walk(dir, Components(rel))
    <3>. DEFINE none == <<>>
    <3>1. Walk(none, Components(chdir_path)) = dir
      BY <2>1, <2>2, InsideFacts
    <3>2. none \in Routes /\ Components(rel) \in Routes
      BY <1>4, <1>8, ComponentsType
    <3>. HIDE DEF none, dir
    <3>3. Walk(none, dir \o Components(rel)) = Walk(Walk(none, dir), Components(rel))
      BY <2>2, <3>2, WalkConcat
    <3>4. Components(Joined(rel)) = dir \o Components(rel)
      BY <1>6, <1>7, <1>10, <2>2
    <3>. QED  BY <2>2, <3>1, <3>3, <3>4 DEF none
  <2>4. Walk(dir, Names(rel)) = Walk(dir, Components(rel))
    BY <1>4, <2>2, NamesFacts
  <2>5. Wanted = Leads(asked.chroot_path) \o Walk(dir, Names(rel))
    BY <1>10 DEF Wanted
  <2>. QED  BY <1>5, <2>3, <2>4, <2>5
<1>. QED  BY <1>9, <1>10

\* The service without a new root.
LEMMA AskedOutside ==
    ASSUME Inductive, pc = "running", asked.chroot_path = NULL,
           asked.chdir_path # NULL => Found(asked.chdir_path, {})
    PROVE  runs = Wanted
<1>. DEFINE rel == asked.command
            to  == asked.chdir_path
<1>1. AsToChroot /\ AsToChdir /\ AsToCommand /\ checked # NULL
  BY RunsFacts DEF Inductive
<1>2. chroot_path = NULL
  BY <1>1, ChrootFacts
<1>3. rel \in Strings /\ rel # <<>> /\ to \in Strings
  BY <1>1, AskedTypes DEF AsToChroot
<1>4. command = InDir(rel) /\ checked = command /\ command \in Strings /\ IsAbsolute(command)
      /\ command # NULL
  BY <1>1, <1>2, CommandFacts DEF AsToCommand
<1>5. runs = Leads(command)
  BY <1>4, RunsFacts
<1>6. chdir_path = NULL <=> to = NULL
  BY <1>1, <1>2 DEF AsToChdir, Built, Approved, Entering
<1>. DEFINE dir == IF to = NULL THEN Cwd ELSE Leads(to)
            from == IF IsAbsolute(rel) /\ to = NULL THEN <<>> ELSE dir
<1>7. dir \in Routes /\ <<>> \in Routes
  BY <1>3, CwdPlain, LeadsFacts DEF PlainRoutes
<1>8. Wanted = Walk(from, Components(rel))
  <2>1. Wanted = <<>> \o Walk(from, Names(rel))
    BY DEF Wanted
  <2>2. from \in Routes
    BY <1>7
  <2>. HIDE DEF from
  <2>3. Walk(from, Names(rel)) = Walk(from, Components(rel))
        /\ Walk(from, Components(rel)) \in Routes
    BY <1>3, <2>2, NamesFacts, WalkType
  <2>. QED  BY <2>1, <2>3, RouteFacts
<1>9. CASE to = NULL /\ IsAbsolute(rel)
  BY <1>3, <1>4, <1>5, <1>6, <1>8, <1>9, AbsoluteLeads DEF InDir
<1>10. CASE to = NULL /\ ~IsAbsolute(rel)
  <2>1. command = abspath(rel, {})
    BY <1>4, <1>6, <1>10 DEF InDir
  <2>2. Leads(command) = Leads(rel)
    BY <1>3, <1>4, <1>10, <2>1, AbsPathFacts
  <2>3. Leads(rel) = Walk(Cwd, Components(rel))
    BY <1>3, <1>10, LeadsFacts DEF Base
  <2>. QED  BY <1>5, <1>8, <1>10, <2>2, <2>3
<1>11. CASE to # NULL
  <2>1. chdir_path = abspath(to, {}) /\ chdir_path # NULL
    BY <1>1, <1>2, <1>6, <1>11 DEF AsToChdir, Built, Approved, Entering
  <2>2. chdir_path \in Strings /\ chdir_path # <<>> /\ IsAbsolute(chdir_path)
        /\ Leads(chdir_path) = Leads(to)
    BY <1>3, <1>11, <2>1, AbsPathFacts
  <2>3. Components(command) = Components(chdir_path) \o Components(rel)
    <3>1. command = join_path(chdir_path, rel)
      BY <1>4, <1>6, <1>11 DEF InDir
    <3>2. LET j == join_path(chdir_path, rel) IN
          Components(j) = Components(chdir_path) \o Components(rel)
      BY <1>3, <2>2, JoinFacts
    <3>. QED  BY <3>1, <3>2
  <2>4. Leads(command) = Walk(Leads(to), Components(rel))
    <3>1. Leads(command) = Walk(<<>>, Components(chdir_path) \o Components(rel))
      BY <1>4, <2>3, AbsoluteLeads
    <3>2. Walk(<<>>, Components(chdir_path)) = Leads(to)
      BY <2>2, AbsoluteLeads
    <3>3. Components(chdir_path) \in Routes /\ Components(rel) \in Routes
      BY <1>3, <2>2, ComponentsType
    <3>. DEFINE none == <<>>
    <3>. HIDE DEF none
    <3>4. Walk(none, Components(chdir_path) \o Components(rel))
            = Walk(Walk(none, Components(chdir_path)), Components(rel))
      BY <1>7, <3>3, WalkConcat DEF none
    <3>. QED  BY <3>1, <3>2, <3>4 DEF none
  <2>. QED  BY <1>5, <1>8, <1>11, <2>4
<1>. QED  BY <1>9, <1>10, <1>11

\* The file that runs is the one that --chroot, --chdir and the command name together, provided
\* that the directories of these options exist (start.c:1578-1711, 2065-2117).
THEOREM AskedRuns ==
    Spec => []RunsWhatWasAsked
<1>1. Inductive => RunsWhatWasAsked
  BY AskedInRoot, AskedOutside DEF RunsWhatWasAsked
<1>. QED  BY <1>1, Inductively, PTL

\* Every directory is below the root, and the root is one.
LEMMA RootIsDir ==
    <<>> \in Dirs
<1>. DEFINE T == {n \in Nat : \E d \in Dirs : Len(d) = n}
<1>1. \A d \in Dirs : Len(d) \in Nat /\ (Len(d) = 0 <=> d = <<>>)
  BY AbsPathAssumption
<1>2. Cwd \in Dirs
  BY AbsPathAssumption
<1>3. T # {} /\ T \subseteq Nat
  BY <1>1, <1>2
<1>4. PICK n \in T : \A m \in T : n <= m
  <2>. HIDE DEF T
  <2>. QED  BY <1>3, LeastNumber
<1>5. PICK d \in Dirs : Len(d) = n
  BY <1>4
<1>6. CASE d = <<>>
  BY <1>6
<1>7. CASE d # <<>>
  <2>1. SubSeq(d, 1, Len(d) - 1) \in Dirs
    BY <1>7, AbsPathAssumption
  <2>2. Len(SubSeq(d, 1, Len(d) - 1)) = Len(d) - 1
    <3>1. d \in Seq(PlainNames) /\ Len(d) - 1 \in 0 .. Len(d)
      BY <1>1, <1>7, AbsPathAssumption
    <3>. QED  BY <3>1, FrontFacts
  <2>3. Len(d) - 1 \in T
    BY <1>1, <1>7, <2>1, <2>2
  <2>. QED  BY <1>1, <1>4, <1>5, <2>3
<1>. QED  BY <1>6, <1>7

\* The root and the working directory are directories, the service is a file that is there, and
\* all paths of a running service are absolute (start.c:1578-1750, 2065-2117).
THEOREM PlacesCorrect ==
    Spec => []TypeOK
<1>1. Inductive => TypeOK
  <2>. SUFFICES ASSUME Inductive
                PROVE  TypeOK
    OBVIOUS
  <2>1. AsToChroot /\ AsToChdir /\ AsToCommand /\ AsToPidfile /\ AsToPlace
    BY DEF Inductive
  <2>2. asked \in Asked /\ pc \in Places \union {"failed", "running"}
    BY DEF Inductive, AsToChroot
  <2>3. chroot_path # NULL => IsAbsolute(chroot_path)
    BY <2>1, ChrootFacts
  <2>4. root \in Dirs
    <3>1. CASE pc \in {"enter_dir", "exec", "running"} /\ chroot_path # NULL
      <4>1. Listable(chroot_path)
        BY <2>1, <3>1 DEF AsToChroot
      <4>. QED  BY <2>1, <3>1, <4>1 DEF AsToPlace, Listable
    <3>2. CASE ~(pc \in {"enter_dir", "exec", "running"} /\ chroot_path # NULL)
      BY <2>1, <3>2, RootIsDir DEF AsToPlace
    <3>. QED  BY <3>1, <3>2
  <2>5. cwd \in Dirs
    <3>1. CASE pc \in {"exec", "running"} /\ chdir_path # NULL
      <4>1. cwd = Inside(chdir_path)
        BY <2>1, <3>1 DEF AsToPlace
      <4>2. /\ chdir_path \in Strings /\ chdir_path # <<>> /\ IsAbsolute(chdir_path)
            /\ chroot_path # NULL => Components(chdir_path) \in PlainRoutes
        BY <2>1, <3>1, ChdirFacts DEF Built, Approved, Entering
      <4>3. Inside(chdir_path) = root \o Walk(<<>>, Components(chdir_path))
        BY <4>2, InsideFacts
      <4>4. CASE chroot_path # NULL
        <5>1. Listable(join_path(chroot_path, chdir_path))
          BY <2>1, <3>1, <4>4, ChdirFacts DEF AsToChdir, Built, Approved, Entering
        <5>2. root = Leads(chroot_path)
          BY <2>1, <3>1, <4>4 DEF AsToPlace
        <5>3. chroot_path \in Strings /\ chroot_path # <<>> /\ IsAbsolute(chroot_path)
              /\ Leads(chroot_path) \in PlainRoutes
              /\ Leads(chroot_path) = Walk(<<>>, Components(chroot_path))
          BY <2>1, <4>4, ChrootFacts
        <5>. DEFINE j == join_path(chroot_path, chdir_path)
                    none == <<>>
        <5>4. /\ j \in Strings /\ IsAbsolute(j) = IsAbsolute(chroot_path)
              /\ Components(j) = Components(chroot_path) \o Components(chdir_path)
          BY <4>2, <5>3, JoinFacts
        <5>5. Leads(j) \in Dirs
          BY <5>1 DEF Listable
        <5>6. Walk(<<>>, Components(chdir_path)) = Components(chdir_path)
          BY <4>2, <4>4, InsideFacts
        <5>7. none \in Routes /\ Components(chroot_path) \in Routes
              /\ Components(chdir_path) \in Routes /\ Leads(chroot_path) \in Routes
          BY <4>2, <5>3, RouteFacts, ComponentsType DEF PlainRoutes
        <5>. HIDE DEF j, none
        <5>8. Leads(j) = Walk(none, Components(j))
          BY <5>3, <5>4, AbsoluteLeads DEF none
        <5>9. Walk(none, Components(chroot_path) \o Components(chdir_path))
                = Walk(Walk(none, Components(chroot_path)), Components(chdir_path))
          BY <5>7, WalkConcat
        <5>10. Walk(Leads(chroot_path), Components(chdir_path))
                 = Leads(chroot_path) \o Components(chdir_path)
          BY <4>2, <4>4, <5>7, WalkPlain
        <5>. QED  BY <4>1, <4>3, <5>2, <5>3, <5>4, <5>5, <5>6, <5>8, <5>9, <5>10 DEF none
      <4>5. CASE chroot_path = NULL
        <5>1. Leads(chdir_path) \in Dirs
          BY <2>1, <3>1, <4>5, ChdirFacts DEF AsToChdir, Built, Approved, Entering, Listable
        <5>2. Leads(chdir_path) = Walk(<<>>, Components(chdir_path))
          BY <4>2, AbsoluteLeads
        <5>3. root = <<>>
          BY <2>1, <4>5 DEF AsToPlace
        <5>4. Walk(<<>>, Components(chdir_path)) \in Routes
          BY <4>2, InsideFacts DEF PlainRoutes
        <5>. QED  BY <4>1, <4>3, <5>1, <5>2, <5>3, <5>4, RouteFacts
      <4>. QED  BY <4>4, <4>5
    <3>2. CASE ~(pc \in {"exec", "running"} /\ chdir_path # NULL)
      BY <2>1, <3>2, AbsPathAssumption DEF AsToPlace
    <3>. QED  BY <3>1, <3>2
  <2>6. runs # NULL => runs \in Files
    <3>1. ASSUME pc = "running"
          PROVE  runs \in Files
      <4>1. Executable(checked)
        BY <2>1, <3>1 DEF AsToCommand, Approved, Entering
      <4>. QED  BY <3>1, <4>1, RunsFacts DEF Executable
    <3>. QED  BY <2>1, <3>1 DEF AsToPlace
  <2>7. ASSUME pc = "running", NEW path \in {chdir_path, command, pidfile}, path # NULL
        PROVE  IsAbsolute(path)
    <3>1. CASE path = chdir_path
      BY <2>1, <2>7, <3>1, ChdirFacts DEF Built, Approved, Entering
    <3>2. CASE path = command
      BY <2>1, <2>7, <3>2, CommandFacts, RunsFacts
    <3>3. CASE path = pidfile
      <4>1. asked.pidfile \in Strings
        BY <2>2, AskedTypes
      <4>2. pidfile = get_pidfile_abspath(asked.pidfile, {})
        BY <2>1, <2>7 DEF AsToPidfile, Entering
      <4>. QED  BY <2>7, <3>3, <4>1, <4>2, AbsPathFacts DEF get_pidfile_abspath
    <3>. QED  BY <2>7, <3>1, <3>2, <3>3
  <2>. QED  BY <2>2, <2>3, <2>4, <2>5, <2>6, <2>7 DEF TypeOK
<1>. QED  BY <1>1, Inductively, PTL

-----------------------------------------------------------------------------
(* The pidfile, before and after it is there.                              *)

\* What is left of the concatenation of two routes.
LEMMA CutConcat ==
    ASSUME NEW r \in Routes, NEW s \in Routes
    PROVE  /\ Len(r) \in Nat /\ Len(s) \in Nat /\ Len(r \o s) = Len(r) + Len(s)
           /\ \A n \in 0 .. Len(r) : SubSeq(r \o s, 1, n) = SubSeq(r, 1, n)
           /\ \A m \in 0 .. Len(s) : SubSeq(r \o s, 1, Len(r) + m) = r \o SubSeq(s, 1, m)
           /\ \A m \in 0 .. Len(s) : SubSeq(s, 1, m) \in Routes
<1>1. r \in Seq(Strings) /\ s \in Seq(Strings) /\ Len(r) \in Nat /\ Len(s) \in Nat
  BY DEF Routes
<1>2. /\ r \o s \in Seq(Strings) /\ Len(r \o s) = Len(r) + Len(s)
      /\ \A i \in 1 .. Len(r) : (r \o s)[i] = r[i]
      /\ \A i \in Len(r) + 1 .. Len(r) + Len(s) : (r \o s)[i] = s[i - Len(r)]
  BY <1>1, ConcatFacts
<1>3. ASSUME NEW n \in 0 .. Len(r)
      PROVE  SubSeq(r \o s, 1, n) = SubSeq(r, 1, n)
  <2>. DEFINE t == r \o s
  <2>1. n \in 0 .. Len(t) /\ t \in Seq(Strings) /\ \A i \in 1 .. Len(r) : t[i] = r[i]
    BY <1>1, <1>2
  <2>. HIDE DEF t
  <2>2. /\ SubSeq(t, 1, n) \in Seq(Strings) /\ Len(SubSeq(t, 1, n)) = n
        /\ \A i \in 1 .. n : SubSeq(t, 1, n)[i] = t[i]
    BY <2>1, FrontFacts
  <2>3. /\ SubSeq(r, 1, n) \in Seq(Strings) /\ Len(SubSeq(r, 1, n)) = n
        /\ \A i \in 1 .. n : SubSeq(r, 1, n)[i] = r[i]
    BY <1>1, FrontFacts
  <2>4. \A i \in 1 .. n : SubSeq(t, 1, n)[i] = SubSeq(r, 1, n)[i]
    BY <1>1, <2>1, <2>2, <2>3
  <2>5. SubSeq(t, 1, n) = SubSeq(r, 1, n)
    BY <2>2, <2>3, <2>4, SameSequence
  <2>. QED  BY <2>5 DEF t
<1>4. ASSUME NEW m \in 0 .. Len(s)
      PROVE  /\ SubSeq(r \o s, 1, Len(r) + m) = r \o SubSeq(s, 1, m)
             /\ SubSeq(s, 1, m) \in Seq(Strings)
  <2>. DEFINE t == r \o s
              u == SubSeq(s, 1, m)
              k == Len(r) + m
  <2>1. k \in 0 .. Len(t) /\ t \in Seq(Strings)
    BY <1>1, <1>2
  <2>2. u \in Seq(Strings) /\ Len(u) = m /\ \A i \in 1 .. m : u[i] = s[i]
    BY <1>1, FrontFacts
  <2>3. /\ r \o u \in Seq(Strings) /\ Len(r \o u) = Len(r) + m
        /\ \A i \in 1 .. Len(r) : (r \o u)[i] = r[i]
        /\ \A i \in Len(r) + 1 .. Len(r) + m : (r \o u)[i] = u[i - Len(r)]
    <3>. HIDE DEF u, t, k
    <3>4. u \in Seq(Strings)
      BY <2>2
    <3>1. /\ r \o u \in Seq(Strings) /\ Len(r \o u) = Len(r) + Len(u)
          /\ \A i \in 1 .. Len(r) : (r \o u)[i] = r[i]
          /\ \A i \in Len(r) + 1 .. Len(r) + Len(u) : (r \o u)[i] = u[i - Len(r)]
      BY <1>1, <3>4, ConcatFacts
    <3>. QED  BY <2>2, <3>1
  <2>4. /\ SubSeq(t, 1, k) \in Seq(Strings) /\ Len(SubSeq(t, 1, k)) = k
        /\ \A i \in 1 .. k : SubSeq(t, 1, k)[i] = t[i]
    <3>. HIDE DEF t, k
    <3>. QED  BY <2>1, FrontFacts
  <2>5. ASSUME NEW i \in 1 .. k
        PROVE  SubSeq(t, 1, k)[i] = (r \o u)[i]
    <3>1. CASE i \in 1 .. Len(r)
      BY <1>2, <2>3, <2>4, <3>1
    <3>2. CASE i \in Len(r) + 1 .. Len(r) + m
      <4>1. i - Len(r) \in 1 .. m /\ i \in Len(r) + 1 .. Len(r) + Len(s)
        BY <1>1, <3>2
      <4>2. t[i] = s[i - Len(r)] /\ (r \o u)[i] = u[i - Len(r)]
        BY <1>2, <2>3, <3>2, <4>1
      <4>. QED  BY <2>2, <2>4, <4>1, <4>2
    <3>. QED  BY <1>1, <3>1, <3>2
  <2>. HIDE DEF t, u
  <2>6. SubSeq(t, 1, k) = r \o u
    <3>. HIDE DEF k
    <3>1. Len(SubSeq(t, 1, k)) = Len(r \o u)
      BY <2>3, <2>4 DEF k
    <3>. QED  BY <2>3, <2>4, <2>5, <3>1, SameSequence
  <2>. QED  BY <2>2, <2>6 DEF t, u
<1>. QED  BY <1>1, <1>2, <1>3, <1>4 DEF Routes

\* A path that is written behind another one, with a slash between, ends as it did.
LEMMA NamesBehind ==
    ASSUME NEW a \in Strings, NEW b \in Strings, AtSlash(b, 0)
    PROVE  Names(a \o b) = Components(a) \o Names(b) /\ Names(b) \in Routes
<1>. DEFINE tail == IF b # <<>> /\ Last(b) = "/" THEN <<<<".">>>> ELSE <<>>
<1>1. b # <<>>
  BY DEF AtSlash, Char
<1>2. a \in Seq(Chars) /\ b \in Seq(Chars) /\ Len(a) \in Nat /\ Len(b) \in Nat \ {0}
      /\ a \o b \in Strings
  BY <1>1, StringFacts DEF Strings
<1>3. /\ Len(a \o b) = Len(a) + Len(b)
      /\ \A i \in Len(a) + 1 .. Len(a) + Len(b) : (a \o b)[i] = b[i - Len(a)]
  BY <1>2, ConcatFacts
<1>4. Last(a \o b) = Last(b)
  <2>1. Len(a) + Len(b) \in Len(a) + 1 .. Len(a) + Len(b) /\ (Len(a) + Len(b)) - Len(a) = Len(b)
    BY <1>2
  <2>2. (a \o b)[Len(a) + Len(b)] = b[Len(b)]
    BY <1>3, <2>1
  <2>. QED  BY <1>3, <2>2 DEF Last
<1>5. a \o b # <<>>
  <2>1. Len(a \o b) # 0
    BY <1>2, <1>3
  <2>. QED  BY <1>2, <2>1, StringFacts
<1>6. Names(a \o b) = Components(a \o b) \o tail /\ Names(b) = Components(b) \o tail
  BY <1>1, <1>4, <1>5 DEF Names
<1>7. Components(a \o b) = Components(a) \o Components(b)
  BY ComponentsJoin
<1>8. tail \in Routes
  <2>. DEFINE dot == <<".">>
  <2>1. dot \in Strings
    BY DEF Strings, Chars
  <2>. HIDE DEF dot
  <2>2. <<dot>> \in Routes /\ <<>> \in Routes
    BY <2>1, RouteFacts
  <2>. QED  BY <2>2 DEF dot
<1>. HIDE DEF tail
<1>9. Components(a) \in Routes /\ Components(b) \in Routes
  BY ComponentsType
<1>10. (Components(a) \o Components(b)) \o tail = Components(a) \o (Components(b) \o tail)
  BY <1>8, <1>9, RouteRegroup
<1>. QED  BY <1>6, <1>7, <1>10, NamesFacts

\* A slash and what begins behind the slashes of a path ends as that does.
LEMMA NamesOfRest ==
    ASSUME NEW path \in Strings, NEW index \in 1 .. Len(path) - 1, AtSlash(path, index)
    PROVE  LET tail == SubSeq(path, index + 1, Len(path)) IN
           Names(<<"/">> \o Rest(path, index)) = Names(tail)
<1>. DEFINE tail == SubSeq(path, index + 1, Len(path))
            skip == SkipSlashes(path, index)
            rest == SubSeq(path, skip + 1, Len(path))
            slash == <<"/">>
<1>1. path \in Seq(Chars) /\ Len(path) \in Nat /\ index \in 0 .. Len(path) /\ index \in Nat
  BY DEF Strings
<1>2. Rest(path, index) = rest
  BY DEF Rest
<1>3. /\ tail \in Strings /\ AtSlash(tail, 0) /\ rest \in Strings
      /\ Components(rest) = Components(tail)
  BY <1>2, CutFacts
<1>4. Components(slash \o rest) = Components(tail) /\ slash \o rest # <<>>
  BY <1>3, SlashFirst
<1>5. skip \in index .. Len(path) /\ \A k \in index .. skip - 1 : AtSlash(path, k)
  BY <1>1, SkipSlashesResult
<1>6. tail # <<>> /\ Last(tail) = path[Len(path)]
  <2>1. tail # <<>>
    <3>. HIDE DEF tail
    <3>. QED  BY <1>3 DEF AtSlash, Char
  <2>2. /\ Len(tail) = Len(path) - index
        /\ \A i \in 1 .. Len(path) - index : tail[i] = path[index + i]
    BY <1>1, RestFacts
  <2>3. Len(path) - index \in 1 .. Len(path) - index /\ index + (Len(path) - index) = Len(path)
    BY <1>1
  <2>. HIDE DEF tail
  <2>4. tail[Len(path) - index] = path[Len(path)]
    BY <2>2, <2>3
  <2>. QED  BY <2>1, <2>2, <2>4 DEF Last
<1>7. Last(slash \o rest) = path[Len(path)]
  <2>1. skip \in 0 .. Len(path)
    BY <1>1, <1>5
  <2>. HIDE DEF skip
  <2>2. /\ Len(rest) = Len(path) - skip
        /\ \A i \in 1 .. Len(path) - skip : rest[i] = path[skip + i]
    BY <1>1, <2>1, RestFacts
  <2>. HIDE DEF rest
  <2>3. slash \in Seq(Chars) /\ Len(slash) = 1 /\ slash[1] = "/"
    BY DEF Chars
  <2>. HIDE DEF slash
  <2>4. /\ Len(slash \o rest) = 1 + Len(rest)
        /\ \A i \in 1 .. 1 : (slash \o rest)[i] = slash[i]
        /\ \A i \in 2 .. 1 + Len(rest) : (slash \o rest)[i] = rest[i - 1]
    <3>1. rest \in Seq(Chars)
      BY <1>3 DEF Strings
    <3>2. /\ Len(slash \o rest) = Len(slash) + Len(rest)
          /\ \A i \in 1 .. Len(slash) : (slash \o rest)[i] = slash[i]
          /\ \A i \in Len(slash) + 1 .. Len(slash) + Len(rest) :
               (slash \o rest)[i] = rest[i - Len(slash)]
      BY <2>3, <3>1, ConcatFacts
    <3>. QED  BY <2>3, <3>2
  <2>5. CASE skip = Len(path)
    <3>1. AtSlash(path, Len(path) - 1)
      BY <1>1, <1>5, <2>5
    <3>2. path[Len(path)] = "/"
      <4>1. Len(path) - 1 < Len(path) /\ (Len(path) - 1) + 1 = Len(path)
        BY <1>1
      <4>2. AtSlash(path, Len(path) - 1) <=> path[Len(path)] = "/"
        BY <4>1 DEF AtSlash, Char
      <4>. QED  BY <3>1, <4>2
    <3>3. Len(slash \o rest) = 1
      BY <1>1, <2>2, <2>4, <2>5
    <3>4. (slash \o rest)[1] = "/"
      BY <2>3, <2>4
    <3>. QED  BY <3>2, <3>3, <3>4 DEF Last
  <2>6. CASE skip # Len(path)
    <3>1. Len(path) - skip \in 1 .. Len(path) - skip /\ skip + (Len(path) - skip) = Len(path)
      BY <1>1, <2>1, <2>6
    <3>2. rest[Len(path) - skip] = path[Len(path)]
      BY <2>2, <3>1
    <3>3. 1 + Len(rest) \in 2 .. 1 + Len(rest) /\ (1 + Len(rest)) - 1 = Len(path) - skip
      <4>1. Len(rest) = Len(path) - skip
        BY <2>2
      <4>. QED  BY <1>1, <2>1, <2>6, <4>1
    <3>4. (slash \o rest)[1 + Len(rest)] = rest[Len(path) - skip]
      BY <2>4, <3>3
    <3>. QED  BY <2>4, <3>2, <3>4 DEF Last
  <2>. QED  BY <2>5, <2>6
<1>. HIDE DEF tail, rest, slash
<1>. QED  BY <1>2, <1>4, <1>6, <1>7 DEF Names, tail, slash

\* Two ways that have their last part in common: where the one passes through directories, the
\* other does, if its first part does.
LEMMA SameWays ==
    ASSUME NEW path \in Strings, NEW absolute \in Strings, IsAbsolute(absolute),
           NEW first \in Routes, NEW top \in Routes, NEW rest \in Routes,
           Names(path) = first \o rest, Names(absolute) = top \o rest,
           Walk(Base(path), first) = Walk(<<>>, top),
           \A n \in 0 .. Len(first) - 1 : Walk(Base(path), SubSeq(first, 1, n)) \in Dirs,
           \A n \in 0 .. Len(Names(absolute)) - 1 : Way(absolute, n) \in Dirs
    PROVE  \A n \in 0 .. Len(Names(path)) - 1 : Way(path, n) \in Dirs
<1>. DEFINE none == <<>>
<1>1. Base(path) \in Routes /\ none \in Routes /\ Base(absolute) = none
  BY LeadsFacts, RouteFacts DEF Base, PlainRoutes
<1>. HIDE DEF none
<1>2. /\ Len(first) \in Nat /\ Len(rest) \in Nat /\ Len(Names(path)) = Len(first) + Len(rest)
      /\ \A n \in 0 .. Len(first) : SubSeq(Names(path), 1, n) = SubSeq(first, 1, n)
      /\ \A m \in 0 .. Len(rest) :
           /\ SubSeq(Names(path), 1, Len(first) + m) = first \o SubSeq(rest, 1, m)
           /\ SubSeq(rest, 1, m) \in Routes
  <2>. DEFINE both == first \o rest
  <2>1. /\ Len(first) \in Nat /\ Len(rest) \in Nat /\ Len(both) = Len(first) + Len(rest)
        /\ \A n \in 0 .. Len(first) : SubSeq(both, 1, n) = SubSeq(first, 1, n)
        /\ \A m \in 0 .. Len(rest) :
             /\ SubSeq(both, 1, Len(first) + m) = first \o SubSeq(rest, 1, m)
             /\ SubSeq(rest, 1, m) \in Routes
    BY CutConcat
  <2>2. Names(path) = both
    OBVIOUS
  <2>. HIDE DEF both
  <2>. QED  BY <2>1, <2>2
<1>3. /\ Len(top) \in Nat /\ Len(Names(absolute)) = Len(top) + Len(rest)
      /\ \A m \in 0 .. Len(rest) :
           SubSeq(Names(absolute), 1, Len(top) + m) = top \o SubSeq(rest, 1, m)
  <2>. DEFINE both == top \o rest
  <2>1. /\ Len(top) \in Nat /\ Len(both) = Len(top) + Len(rest)
        /\ \A m \in 0 .. Len(rest) :
             SubSeq(both, 1, Len(top) + m) = top \o SubSeq(rest, 1, m)
    BY CutConcat
  <2>2. Names(absolute) = both
    OBVIOUS
  <2>. HIDE DEF both
  <2>. QED  BY <2>1, <2>2
<1>4. SUFFICES ASSUME NEW n \in 0 .. Len(Names(path)) - 1
               PROVE  Way(path, n) \in Dirs
  OBVIOUS
<1>5. CASE n < Len(first)
  <2>1. n \in 0 .. Len(first) - 1 /\ n \in 0 .. Len(first)
    BY <1>2, <1>5
  <2>. QED  BY <1>2, <2>1 DEF Way
<1>6. CASE ~(n < Len(first))
  <2>. DEFINE m == n - Len(first)
  <2>1. m \in 0 .. Len(rest) - 1 /\ m \in 0 .. Len(rest) /\ n = Len(first) + m
    BY <1>2, <1>6
  <2>. HIDE DEF m
  <2>. DEFINE part == SubSeq(rest, 1, m)
  <2>2. /\ SubSeq(Names(path), 1, n) = first \o part /\ part \in Routes
        /\ SubSeq(Names(absolute), 1, Len(top) + m) = top \o part
    BY <1>2, <1>3, <2>1
  <2>. HIDE DEF part
  <2>3. Way(path, n) = Walk(Walk(Base(path), first), part)
    <3>1. Walk(Base(path), first \o part) = Walk(Walk(Base(path), first), part)
      BY <1>1, <2>2, WalkConcat
    <3>2. Way(path, n) = Walk(Base(path), first \o part)
      BY <2>2 DEF Way
    <3>. QED  BY <3>1, <3>2
  <2>4. Way(absolute, Len(top) + m) = Walk(Walk(none, top), part)
    <3>1. Walk(none, top \o part) = Walk(Walk(none, top), part)
      BY <1>1, <2>2, WalkConcat
    <3>2. Way(absolute, Len(top) + m) = Walk(none, top \o part)
      BY <1>1, <2>2 DEF Way
    <3>. QED  BY <3>1, <3>2
  <2>5. Way(absolute, Len(top) + m) \in Dirs
    <3>1. Len(top) + m \in 0 .. Len(Names(absolute)) - 1
      BY <1>2, <1>3, <2>1
    <3>. QED  BY <3>1
  <2>. QED  BY <2>3, <2>4, <2>5 DEF none
<1>. QED  BY <1>5, <1>6

\* What can be created below the working directory can be by its relative path.
LEMMA WaysUnderCwd ==
    ASSUME NEW path \in Strings, path # <<>>, ~IsAbsolute(path),
           \A n \in 0 .. Len(Names(UnderCwd(path))) - 1 : Way(UnderCwd(path), n) \in Dirs
    PROVE  \A n \in 0 .. Len(Names(path)) - 1 : Way(path, n) \in Dirs
<1>. DEFINE slash == <<"/">>
            top == Text(Cwd, TRUE)
            none == <<>>
<1>1. top \in Strings /\ Components(top) = Cwd /\ Cwd \in Routes /\ none \in Routes
  BY CwdPlain, TextFacts, RouteFacts DEF PlainRoutes
<1>2. /\ slash \o path \in Strings /\ AtSlash(slash \o path, 0)
      /\ Components(slash \o path) = Components(path) /\ slash \o path # <<>>
  BY SlashFirst
<1>3. UnderCwd(path) = top \o (slash \o path)
      /\ UnderCwd(path) \in Strings /\ IsAbsolute(UnderCwd(path))
  <2>1. slash \in Strings
    BY StringFacts
  <2>2. UnderCwd(path) = (top \o slash) \o path
    BY DEF UnderCwd
  <2>. HIDE DEF top, slash
  <2>3. (top \o slash) \o path = top \o (slash \o path)
    BY <1>1, <2>1, StringFacts
  <2>. QED  BY <2>2, <2>3, UnderCwdFacts
<1>4. Names(slash \o path) = Names(path) /\ Names(path) \in Routes
  <2>1. Last(slash \o path) = Last(path)
    <3>1. path \in Seq(Chars) /\ slash \in Seq(Chars) /\ Len(slash) = 1
      BY DEF Strings, Chars
    <3>2. Len(path) \in Nat \ {0}
      BY StringFacts
    <3>. HIDE DEF slash
    <3>3. /\ Len(slash \o path) = Len(slash) + Len(path)
          /\ \A i \in Len(slash) + 1 .. Len(slash) + Len(path) :
               (slash \o path)[i] = path[i - Len(slash)]
      BY <3>1, ConcatFacts
    <3>4. /\ Len(slash) + Len(path) \in Len(slash) + 1 .. Len(slash) + Len(path)
          /\ (Len(slash) + Len(path)) - Len(slash) = Len(path)
      BY <3>1, <3>2
    <3>5. (slash \o path)[Len(slash) + Len(path)] = path[Len(path)]
      BY <3>3, <3>4
    <3>. QED  BY <3>3, <3>5 DEF Last
  <2>. HIDE DEF slash
  <2>. QED  BY <1>2, <2>1, NamesFacts DEF Names
<1>. HIDE DEF slash, top
<1>5. Names(UnderCwd(path)) = Cwd \o Names(path)
  BY <1>1, <1>2, <1>3, <1>4, NamesBehind
<1>6. Names(path) = none \o Names(path)
  BY <1>4, RouteFacts DEF none
<1>7. Walk(Base(path), none) = Walk(<<>>, Cwd)
  <2>1. Base(path) = Cwd
    BY DEF Base
  <2>2. Walk(Cwd, none) = Cwd
    BY <1>1, WalkFacts
  <2>3. Walk(none, Cwd) = none \o Cwd
    <3>. HIDE DEF none
    <3>. QED  BY <1>1, CwdPlain, WalkPlain
  <2>4. none \o Cwd = Cwd
    BY <1>1, RouteFacts
  <2>. QED  BY <2>1, <2>2, <2>3, <2>4
<1>8. Len(none) = 0
  OBVIOUS
<1>. HIDE DEF none
<1>9. \A n \in 0 .. Len(none) - 1 : Walk(Base(path), SubSeq(none, 1, n)) \in Dirs
  BY <1>8
<1>. QED  BY <1>1, <1>3, <1>4, <1>5, <1>6, <1>7, <1>9, SameWays

\* The path that is resolved up to a slash.
ResolvedAt(path, index) == realpath(SubSeq(path, 1, index)) \o <<"/">> \o Rest(path, index)

\* What can be created by the path that is resolved up to a slash can be by the path that was.
LEMMA WaysResolved ==
    ASSUME NEW path \in Strings, NEW index \in 1 .. Len(path) - 1, AtSlash(path, index),
           Found(SubSeq(path, 1, index), {}), NEW resolved, resolved = ResolvedAt(path, index)
    PROVE  (\A n \in 0 .. Len(Names(resolved)) - 1 : Way(resolved, n) \in Dirs) =>
             \A n \in 0 .. Len(Names(path)) - 1 : Way(path, n) \in Dirs
<1>. SUFFICES ASSUME \A n \in 0 .. Len(Names(resolved)) - 1 : Way(resolved, n) \in Dirs
              PROVE  \A n \in 0 .. Len(Names(path)) - 1 : Way(path, n) \in Dirs
  OBVIOUS
<1>. DEFINE dir == SubSeq(path, 1, index)
            tail == SubSeq(path, index + 1, Len(path))
            slash == <<"/">>
            none == <<>>
<1>1. /\ dir \in Strings /\ tail \in Strings /\ path = dir \o tail /\ AtSlash(tail, 0)
      /\ IsAbsolute(dir) = IsAbsolute(path)
      /\ Rest(path, index) \in Strings
  BY CutFacts
<1>2. Names(slash \o Rest(path, index)) = Names(tail)
  BY NamesOfRest
<1>3. resolved \in Strings /\ IsAbsolute(resolved)
  BY ResolvedFacts DEF ResolvedAt
<1>4. Found(dir, {})
  OBVIOUS
<1>5. resolved = (realpath(dir) \o slash) \o Rest(path, index) /\ slash \in Strings
  BY StringFacts DEF ResolvedAt
<1>6. none \in Routes
  BY RouteFacts
<1>. HIDE DEF dir, tail, slash, none
<1>7. /\ realpath(dir) \in Strings /\ Components(realpath(dir)) = Leads(dir)
      /\ Leads(dir) \in PlainRoutes /\ Leads(dir) \in Routes
      /\ Leads(dir) = Walk(Base(dir), Components(dir)) /\ Base(dir) = Base(path)
  BY <1>1, RealpathFacts, LeadsFacts DEF PlainRoutes, Base
<1>8. slash \o Rest(path, index) \in Strings /\ AtSlash(slash \o Rest(path, index), 0)
  BY <1>1, SlashFirst DEF slash
<1>9. resolved = realpath(dir) \o (slash \o Rest(path, index))
  <2>1. (realpath(dir) \o slash) \o Rest(path, index)
          = realpath(dir) \o (slash \o Rest(path, index))
    BY <1>1, <1>5, <1>7, Regroup
  <2>. QED  BY <1>5, <2>1
<1>10. Names(resolved) = Leads(dir) \o Names(tail) /\ Names(tail) \in Routes
  <2>. DEFINE behind == slash \o Rest(path, index)
  <2>. HIDE DEF behind
  <2>1. /\ Names(realpath(dir) \o behind) = Components(realpath(dir)) \o Names(behind)
        /\ Names(behind) \in Routes
    BY <1>7, <1>8, NamesBehind DEF behind
  <2>. QED  BY <1>2, <1>7, <1>9, <2>1 DEF behind
<1>11. Names(path) = Components(dir) \o Names(tail) /\ Components(dir) \in Routes
  BY <1>1, NamesBehind, ComponentsType
<1>12. Walk(none, Leads(dir)) = Leads(dir)
  <2>1. Walk(none, Leads(dir)) = none \o Leads(dir)
    BY <1>6, <1>7, WalkPlain
  <2>2. none \o Leads(dir) = Leads(dir)
    BY <1>7, RouteFacts DEF none
  <2>. QED  BY <2>1, <2>2
<1>13. \A n \in 0 .. Len(Components(dir)) - 1 :
         Walk(Base(path), SubSeq(Components(dir), 1, n)) \in Dirs
  <2>. DEFINE end == IF dir # <<>> /\ Last(dir) = "/" THEN <<<<".">>>> ELSE <<>>
  <2>1. Names(dir) = Components(dir) \o end
    BY DEF Names
  <2>2. end \in Routes
    <3>. DEFINE dot == <<".">>
    <3>1. dot \in Strings
      BY DEF Strings, Chars
    <3>. HIDE DEF dot
    <3>2. <<dot>> \in Routes /\ <<>> \in Routes
      BY <3>1, RouteFacts
    <3>. QED  BY <3>2 DEF dot
  <2>. HIDE DEF end
  <2>3. /\ Len(Components(dir)) \in Nat /\ Len(end) \in Nat
        /\ Len(Names(dir)) = Len(Components(dir)) + Len(end)
        /\ \A n \in 0 .. Len(Components(dir)) :
             SubSeq(Names(dir), 1, n) = SubSeq(Components(dir), 1, n)
    BY <1>11, <2>1, <2>2, CutConcat
  <2>4. SUFFICES ASSUME NEW n \in 0 .. Len(Components(dir)) - 1
                 PROVE  Walk(Base(path), SubSeq(Components(dir), 1, n)) \in Dirs
    OBVIOUS
  <2>5. n \in 0 .. Len(Names(dir)) - 1 /\ n \in 0 .. Len(Components(dir))
    BY <2>3
  <2>6. Way(dir, n) \in Dirs
    BY <1>4, <2>5 DEF Found
  <2>7. Way(dir, n) = Walk(Base(path), SubSeq(Components(dir), 1, n))
    BY <1>7, <2>3, <2>5 DEF Way
  <2>. QED  BY <2>6, <2>7
<1>14. Walk(Base(path), Components(dir)) = Walk(<<>>, Leads(dir))
  BY <1>7, <1>12 DEF none
<1>. QED  BY <1>3, <1>7, <1>10, <1>11, <1>13, <1>14, SameWays

\* A relative path is resolved to the same place once there is the file, as before.
LEMMA SameOnceThere ==
    ASSUME NEW path \in Strings, ~IsAbsolute(path), abspath(path, {}) # NULL,
           Creatable(abspath(path, {}))
    PROVE  Leads(abspath(path, {Leads(path)})) = Leads(path)
<1>. DEFINE absolute == abspath(path, {})
            new == {Leads(path)}
<1>1. path # <<>> /\ ~ThroughFile(path, {})
  BY DEF abspath
<1>2. Leads(absolute) = Leads(path)
  BY AbsPathFacts
<1>3. Leads(path) \notin Dirs
        /\ \A n \in 0 .. Len(Names(absolute)) - 1 : Way(absolute, n) \in Dirs
  BY <1>2 DEF Creatable
<1>4. Found(path, new) /\ ~ThroughFile(path, new)
  <2>1. CASE Found(path, {})
    <3>1. Leads(path) \in Files
      BY <1>3, <2>1 DEF Found
    <3>. QED  BY <1>1, <2>1, <3>1 DEF Found, ThroughFile
  <2>2. CASE ~Found(path, {})
    <3>1. absolute = Parent(path, {})
      BY <1>1, <2>2 DEF abspath
    <3>2. \A n \in 0 .. Len(Names(path)) - 1 : Way(path, n) \in Dirs
      <4>1. CASE absolute = UnderCwd(path)
        BY <1>1, <1>3, <4>1, WaysUnderCwd
      <4>2. CASE absolute # UnderCwd(path)
        <5>1. PICK index : /\ AtCut(path, {}, index)
                           /\ absolute = realpath(SubSeq(path, 1, index))
                                             \o <<"/">> \o Rest(path, index)
          BY <3>1, <4>2, ParentResult
        <5>. HIDE DEF absolute
        <5>2. index \in 1 .. Len(path) - 1 /\ AtSlash(path, index)
              /\ Found(SubSeq(path, 1, index), {})
          BY <5>1 DEF AtCut
        <5>3. absolute = ResolvedAt(path, index)
          BY <5>1 DEF ResolvedAt
        <5>4. \A n \in 0 .. Len(Names(absolute)) - 1 : Way(absolute, n) \in Dirs
          BY <1>3
        <5>5. (\A n \in 0 .. Len(Names(absolute)) - 1 : Way(absolute, n) \in Dirs) =>
                \A n \in 0 .. Len(Names(path)) - 1 : Way(path, n) \in Dirs
          BY <5>2, <5>3, WaysResolved
        <5>. QED  BY <5>4, <5>5
      <4>. QED  BY <4>1, <4>2
    <3>3. Dirs \intersect Files = {}
      BY AbsPathAssumption
    <3>. QED  BY <1>3, <3>2, <3>3 DEF Found, ThroughFile
  <2>. QED  BY <2>1, <2>2
<1>5. abspath(path, new) = realpath(path)
  BY <1>1, <1>4 DEF abspath
<1>. QED  BY <1>5, RealpathFacts

\* The other commands, given the same --pidfile, look at the file that start writes, although the
\* path was resolved when there was none (start.c:1739-1750, util.c:43-143).
THEOREM PidfileFound ==
    Spec => []SamePidfile
<1>1. Inductive => SamePidfile
  <2>. SUFFICES ASSUME Inductive, pc = "running", pidfile # NULL, Creatable(pidfile)
                PROVE  /\ Leads(get_pidfile_abspath(asked.pidfile, {Leads(pidfile)}))
                            = Leads(pidfile)
                       /\ Leads(pidfile) = Leads(asked.pidfile)
    BY DEF SamePidfile
  <2>1. asked.pidfile \in Strings /\ pidfile = get_pidfile_abspath(asked.pidfile, {})
    BY AskedTypes DEF Inductive, AsToChroot, AsToPidfile, Entering
  <2>2. CASE asked.pidfile = NULL \/ IsAbsolute(asked.pidfile)
    BY <2>1, <2>2 DEF get_pidfile_abspath
  <2>3. CASE ~(asked.pidfile = NULL \/ IsAbsolute(asked.pidfile))
    <3>1. pidfile = abspath(asked.pidfile, {})
      BY <2>1, <2>3 DEF get_pidfile_abspath
    <3>2. Leads(pidfile) = Leads(asked.pidfile)
      BY <2>1, <2>3, <3>1, AbsPathFacts
    <3>3. Leads(abspath(asked.pidfile, {Leads(asked.pidfile)})) = Leads(asked.pidfile)
      BY <2>1, <2>3, <3>1, SameOnceThere
    <3>. QED  BY <2>3, <3>2, <3>3 DEF get_pidfile_abspath
  <2>. QED  BY <2>2, <2>3
<1>. QED  BY <1>1, Inductively, PTL
=============================================================================
