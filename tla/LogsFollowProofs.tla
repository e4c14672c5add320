--------------------------- MODULE LogsFollowProofs ---------------------------
(* Theorems about LogsFollow, for every value of its constants.            *)
EXTENDS LogsFollow, SequenceFacts

USE DEF NoFile

\* The log files: a line is in one of them, in the order of the files and of writing.
Logged ==
    /\ MaxFiles \in Nat \ {0} /\ current \in Files /\ lines \in Nat
    /\ content \in [Files -> Seq(Nat)]
    /\ \A f \in Files : current < f => content[f] = <<>>
    /\ \A f \in Files : \A i \in 1 .. Len(content[f]) : content[f][i] <= lines
    /\ \A f \in Files : \A i, j \in 1 .. Len(content[f]) :
        i < j => content[f][i] < content[f][j]
    /\ \A f, g \in Files : \A i \in 1 .. Len(content[f]), j \in 1 .. Len(content[g]) :
        f < g => content[f][i] < content[g][j]

\* Which file the command is at.  It has none only before its first one, or when there is a
\* newer one to open, or none any more; and it only looks for a new file then.
At ==
    /\ "create" \notin events /\ "create" \notin noted
    /\ logfile_meta \in 0 .. current
    /\ logfile_fd # NoFile => logfile_fd \in Files /\ logfile_meta = logfile_fd
    /\ offset \in Nat /\ (logfile_fd # NoFile => offset <= Len(content[logfile_fd]))
    /\ logfile_fd = NoFile /\ runner = "up" =>
        pc \in {"top", "open"} /\ modified /\ ~newfile /\ logfile_meta < current
    /\ newfile /\ runner = "up" => logfile_meta < current
    /\ pc = "open" => logfile_fd = NoFile

\* What has been printed comes before all that is still to be printed.
Before ==
    /\ printed \in Seq(Nat)
    /\ \A i, j \in 1 .. Len(printed) : i < j => printed[i] < printed[j]
    /\ \A i \in 1 .. Len(printed) :
        /\ printed[i] <= lines
        /\ \A f \in Files : logfile_meta < f =>
            \A j \in 1 .. Len(content[f]) : printed[i] < content[f][j]
        /\ logfile_fd # NoFile =>
            \A j \in offset + 1 .. Len(content[logfile_fd]) : printed[i] < content[logfile_fd][j]

\* Without events from /proc, each of them holds.
InOrder == ~ProcEvents => Logged /\ At /\ Before

\* At first nothing has been written or printed.
LEMMA InOrderInit == Init => InOrder
<1> SUFFICES ASSUME Init, ~ProcEvents PROVE Logged /\ At /\ Before
  BY DEF InOrder
<1> USE LogsFollowAssumption DEF Init
<1>1. \A f \in Files : content[f] = <<>> /\ Len(content[f]) = 0
  OBVIOUS
<1>2. Logged
  <2>1. content \in [Files -> Seq(Nat)] /\ current \in Files /\ lines \in Nat
    BY DEF Files
  <2> QED
    BY <1>1, <2>1 DEF Logged
<1>3. At
  BY DEF At
<1>4. Before
  <2>1. printed \in Seq(Nat) /\ Len(printed) = 0
    OBVIOUS
  <2> QED
    BY <2>1 DEF Before
<1> QED
  BY <1>2, <1>3, <1>4

\* A line that is written is behind all others, and behind all that is printed.
LEMMA WriteKeeps ==
    ASSUME Logged, At, Before, Write, ~ProcEvents
    PROVE  Logged' /\ At' /\ Before'
<1> DEFINE line == lines + 1
<1>1. /\ lines' = line /\ content' = [content EXCEPT ![current] = Append(@, line)]
      /\ UNCHANGED <<runner, current, pc, opened, noted, flags, printed>>
      /\ events' \subseteq events \union {"modify"}
  BY DEF Write, Report, Command
<1>2. /\ lines \in Nat /\ line \in Nat /\ current \in Files /\ Files \subseteq Nat
      /\ content \in [Files -> Seq(Nat)]
  BY DEF Logged, Files
<1>3. /\ content'[current] \in Seq(Nat) /\ Len(content'[current]) = Len(content[current]) + 1
      /\ Len(content[current]) \in Nat
      /\ \A i \in 1 .. Len(content[current]) : content'[current][i] = content[current][i]
      /\ content'[current][Len(content[current]) + 1] = line
  BY <1>1, <1>2, AppendFacts
<1>4. /\ content' \in [Files -> Seq(Nat)]
      /\ \A f \in Files : f # current => content'[f] = content[f]
  BY <1>1, <1>2, <1>3
<1> HIDE DEF line
<1>5. ASSUME NEW f \in Files, NEW i \in 1 .. Len(content'[f])
      PROVE  \/ i \in 1 .. Len(content[f]) /\ content'[f][i] = content[f][i]
             \/ f = current /\ i = Len(content[f]) + 1 /\ content'[f][i] = line
  BY <1>3, <1>4
<1>6. Logged'
  <2>1. \A f \in Files : current' < f => content'[f] = <<>>
    BY <1>1, <1>2, <1>4 DEF Logged
  <2>2. ASSUME NEW f \in Files, NEW i \in 1 .. Len(content'[f]) PROVE content'[f][i] <= lines'
    <3>1. i \in 1 .. Len(content[f]) => content[f][i] <= lines /\ content[f][i] \in Nat
      BY <1>2 DEF Logged
    <3> QED
      BY <1>1, <1>2, <1>5, <3>1 DEF line
  <2>3. ASSUME NEW f \in Files, NEW i \in 1 .. Len(content'[f]), NEW j \in 1 .. Len(content'[f]), i < j
        PROVE  content'[f][i] < content'[f][j]
    <3>1. i \in 1 .. Len(content[f]) /\ content'[f][i] = content[f][i]
      <4>1. ASSUME f = current, i = Len(content[f]) + 1 PROVE FALSE
        <5>1. Len(content'[f]) = Len(content[f]) + 1 /\ Len(content[f]) \in Nat
          BY <1>3, <4>1
        <5> QED
          BY <2>3, <4>1, <5>1
      <4> QED
        BY <1>5, <4>1
    <3>2. CASE j \in 1 .. Len(content[f]) /\ content'[f][j] = content[f][j]
      BY <2>3, <3>1, <3>2 DEF Logged
    <3>3. CASE content'[f][j] = line
      <4>1. content[f][i] <= lines /\ content[f][i] \in Nat
        BY <1>2, <3>1 DEF Logged
      <4> QED
        BY <1>2, <3>1, <3>3, <4>1 DEF line
    <3> QED
      BY <1>5, <3>2, <3>3
  <2>4. ASSUME NEW f \in Files, NEW g \in Files, NEW i \in 1 .. Len(content'[f]),
               NEW j \in 1 .. Len(content'[g]), f < g
        PROVE  content'[f][i] < content'[g][j]
    <3>1. CASE content'[g][j] = line
      <4>1. ~(current < g)
        BY <1>2, <1>3, <1>4, <1>5 DEF Logged
      <4>2. f # current
        BY <1>2, <2>4, <4>1
      <4>3. i \in 1 .. Len(content[f]) /\ content'[f][i] = content[f][i]
        BY <1>4, <4>2
      <4>4. content[f][i] <= lines /\ content[f][i] \in Nat
        BY <1>2, <4>3 DEF Logged
      <4> QED
        BY <1>2, <3>1, <4>3, <4>4 DEF line
    <3>2. CASE j \in 1 .. Len(content[g]) /\ content'[g][j] = content[g][j]
      <4>1. f # current
        <5>1. ~(current < g)
          BY <1>2, <3>2 DEF Logged
        <5> QED
          BY <1>2, <2>4, <5>1
      <4>2. i \in 1 .. Len(content[f]) /\ content'[f][i] = content[f][i]
        BY <1>4, <4>1
      <4> QED
        BY <2>4, <3>2, <4>2 DEF Logged
    <3> QED
      BY <1>5, <3>1, <3>2
  <2> QED
    BY <1>1, <1>2, <1>4, <2>1, <2>2, <2>3, <2>4 DEF Logged, Files, line
<1>7. At'
  <2>1. logfile_fd # NoFile => offset <= Len(content'[logfile_fd])
    <3> SUFFICES ASSUME logfile_fd # NoFile PROVE offset <= Len(content'[logfile_fd])
      OBVIOUS
    <3>1. logfile_fd \in Files /\ offset \in Nat /\ offset <= Len(content[logfile_fd])
      BY DEF At
    <3>2. CASE logfile_fd = current
      BY <1>3, <3>1, <3>2
    <3>3. CASE logfile_fd # current
      BY <1>4, <3>1, <3>3
    <3> QED
      BY <3>2, <3>3
  <2> QED
    BY <1>1, <2>1 DEF At, opened, flags
<1>8. Before'
  <2>1. ASSUME NEW i \in 1 .. Len(printed) PROVE printed[i] \in Nat /\ printed[i] < line
    BY <1>2 DEF Before, line
  <2>2. ASSUME NEW i \in 1 .. Len(printed), NEW f \in Files, logfile_meta < f,
               NEW j \in 1 .. Len(content'[f])
        PROVE  printed[i] < content'[f][j]
    BY <1>5, <2>1, <2>2 DEF Before
  <2>3. ASSUME NEW i \in 1 .. Len(printed), logfile_fd # NoFile,
               NEW j \in offset + 1 .. Len(content'[logfile_fd])
        PROVE  printed[i] < content'[logfile_fd][j]
    <3>1. logfile_fd \in Files /\ j \in 1 .. Len(content'[logfile_fd])
      BY <1>2, <1>4, <2>3 DEF At
    <3>2. CASE content'[logfile_fd][j] = line
      BY <2>1, <3>2
    <3>3. CASE j \in 1 .. Len(content[logfile_fd]) /\ content'[logfile_fd][j] = content[logfile_fd][j]
      <4>1. j \in offset + 1 .. Len(content[logfile_fd])
        BY <2>3, <3>3
      <4> QED
        BY <2>3, <3>3, <4>1 DEF Before
    <3> QED
      BY <1>5, <3>1, <3>2, <3>3
  <2>4. \A i \in 1 .. Len(printed) : printed[i] <= lines'
    BY <1>1, <1>2, <2>1 DEF line
  <2> QED
    BY <1>1, <2>2, <2>3, <2>4 DEF Before, opened
<1> QED
  BY <1>6, <1>7, <1>8

\* Printing the rest of a file keeps the order.
LEMMA ReadKeeps ==
    ASSUME Logged, At, Before, Read
    PROVE  Logged' /\ At' /\ Before'
<1> USE DEF Read, world
<1>1. Logged'
  BY DEF Logged
<1>2. /\ current \in Nat /\ Files \subseteq Nat /\ content \in [Files -> Seq(Nat)] /\ lines \in Nat
      /\ UNCHANGED <<runner, current, content, lines, logfile_meta, events, noted>>
  BY DEF Logged, Files
<1>3. CASE ~(logfile_fd # NoFile /\ modified)
  <2>1. UNCHANGED <<printed, offset>> /\ logfile_fd' \in {logfile_fd, NoFile}
    BY <1>3
  <2>2. At'
    BY <1>2, <1>3, <2>1 DEF At
  <2>3. Before'
    BY <1>2, <2>1 DEF Before
  <2> QED
    BY <1>1, <2>2, <2>3
<1>4. CASE logfile_fd # NoFile /\ modified
  <2>1. /\ printed' = printed \o Rest /\ offset' = Len(content[logfile_fd])
        /\ logfile_fd' \in {logfile_fd, NoFile}
    BY <1>4
  <2>2. /\ logfile_fd \in Files /\ logfile_meta = logfile_fd
        /\ content[logfile_fd] \in Seq(Nat) /\ Len(content[logfile_fd]) \in Nat
        /\ offset \in 0 .. Len(content[logfile_fd])
    BY <1>2, <1>4 DEF At
  <2> DEFINE n == Len(content[logfile_fd]) - offset
             old == Len(printed)
  <2>3. /\ Rest \in Seq(Nat) /\ Len(Rest) = n
        /\ \A i \in 1 .. n : Rest[i] = content[logfile_fd][offset + i]
    BY <2>2, RestFacts DEF Rest
  <2>4. printed \in Seq(Nat) /\ Len(printed) = old /\ old \in Nat /\ n \in Nat
    BY <2>2 DEF Before
  <2> HIDE DEF n, old
  <2>5. /\ printed' \in Seq(Nat) /\ Len(printed') = old + n
        /\ \A i \in 1 .. old : printed'[i] = printed[i]
        /\ \A i \in old + 1 .. old + n : printed'[i] = Rest[i - old]
    <3> DEFINE rest == Rest
    <3>1. rest \in Seq(Nat) /\ Len(rest) = n /\ printed' = printed \o rest
      BY <2>1, <2>3
    <3> HIDE DEF rest
    <3>2. /\ printed' \in Seq(Nat) /\ Len(printed') = old + n
          /\ \A i \in 1 .. old : printed'[i] = printed[i]
          /\ \A i \in old + 1 .. old + n : printed'[i] = rest[i - old]
      BY <2>4, <3>1, ConcatFacts
    <3> QED
      BY <3>2 DEF rest
  <2>6. ASSUME NEW i \in old + 1 .. old + n
        PROVE  /\ offset + (i - old) \in offset + 1 .. Len(content[logfile_fd])
               /\ offset + (i - old) \in 1 .. Len(content[logfile_fd])
               /\ printed'[i] = content[logfile_fd][offset + (i - old)]
    <3>1. i - old \in 1 .. n
      BY <2>4
    <3>2. offset + (i - old) \in offset + 1 .. Len(content[logfile_fd])
      BY <2>2, <2>4, <3>1 DEF n
    <3>3. offset + (i - old) \in 1 .. Len(content[logfile_fd])
      BY <2>2, <3>2
    <3>4. printed'[i] = Rest[i - old] /\ Rest[i - old] = content[logfile_fd][offset + (i - old)]
      BY <2>3, <2>5, <3>1
    <3> QED
      BY <3>2, <3>3, <3>4
  <2>7. At'
    BY <1>2, <1>4, <2>1, <2>2 DEF At
  <2>8. ASSUME NEW i \in 1 .. Len(printed'), NEW j \in 1 .. Len(printed'), i < j
        PROVE  printed'[i] < printed'[j]
    <3>0. /\ i \in 1 .. old \/ i \in old + 1 .. old + n
          /\ j \in 1 .. old \/ j \in old + 1 .. old + n
          /\ i \in Nat /\ j \in Nat
      BY <2>4, <2>5
    <3>1. CASE j \in 1 .. old
      <4>1. i \in 1 .. old
        BY <2>4, <2>8, <3>0, <3>1
      <4> QED
        BY <2>5, <2>8, <3>1, <4>1 DEF Before, old
    <3>2. CASE i \in 1 .. old /\ j \in old + 1 .. old + n
      BY <1>4, <2>5, <2>6, <3>2 DEF Before, old
    <3>3. CASE i \in old + 1 .. old + n /\ j \in old + 1 .. old + n
      <4>1. offset + (i - old) < offset + (j - old)
        BY <2>2, <2>4, <2>8, <3>0
      <4> QED
        BY <2>2, <2>6, <3>3, <4>1 DEF Logged
    <3> QED
      BY <2>4, <2>8, <3>0, <3>1, <3>2, <3>3
  <2>9. ASSUME NEW i \in 1 .. Len(printed')
        PROVE  /\ printed'[i] <= lines
               /\ \A f \in Files : logfile_meta < f =>
                   \A j \in 1 .. Len(content[f]) : printed'[i] < content[f][j]
    <3>1. CASE i \in 1 .. old
      BY <2>5, <3>1 DEF Before, old
    <3>2. CASE i \in old + 1 .. old + n
      BY <2>2, <2>6, <3>2 DEF Logged
    <3> QED
      BY <2>4, <2>5, <3>1, <3>2
  <2>10. offset' + 1 .. Len(content[logfile_fd]) = {}
    BY <2>1, <2>2
  <2>11. Before'
    BY <1>2, <2>1, <2>5, <2>8, <2>9, <2>10 DEF Before
  <2> QED
    BY <1>1, <2>7, <2>11
<1> QED
  BY <1>3, <1>4

\* A file that is opened is newer than those of which something has been printed.
LEMMA OpenKeeps ==
    ASSUME Logged, At, Before, Open
    PROVE  Logged' /\ At' /\ Before'
<1> USE DEF Open, world, flags
<1>1. Logged'
  BY DEF Logged
<1>2. current \in Nat /\ current # NoFile /\ current \in Files
      /\ content[current] \in Seq(Nat) /\ Len(content[current]) \in Nat
      /\ UNCHANGED <<runner, current, content, lines, printed>>
  BY DEF Logged, Files
<1>3. CASE runner = "up"
  <2>1. logfile_fd' = current /\ logfile_meta' = current /\ offset' = 0
    BY <1>3
  <2>2. logfile_meta < current /\ ~newfile
    BY <1>3 DEF At
  <2>3. At'
    BY <1>2, <1>3, <2>1, <2>2 DEF At
  <2>4. Before'
    BY <1>2, <2>1, <2>2 DEF Before, At, Files
  <2> QED
    BY <1>1, <2>3, <2>4
<1>4. CASE runner # "up"
  <2>1. UNCHANGED <<logfile_fd, logfile_meta, offset>>
    BY <1>4
  <2> QED
    BY <1>1, <1>2, <1>4, <2>1 DEF At, Before
<1> QED
  BY <1>3, <1>4

\* The other steps of the command print nothing.
LEMMA StepKeeps ==
    ASSUME Logged, At, Before, ~ProcEvents, Step
    PROVE  Logged' /\ At' /\ Before'
<1> USE DEF world, opened, flags
<1>1. current \in Nat /\ Files \subseteq Nat
  BY DEF Logged, Files
<1>2. CASE Top
  BY <1>2 DEF Top, Logged, At, Before
<1>3. CASE Rewatch \/ RewatchFails
  <2>1. /\ UNCHANGED <<world, logfile_fd, offset, logfile_meta, noted, flags, printed>>
        /\ events' \subseteq events /\ pc = "watch" /\ pc' \in {"read", "failed"}
    BY <1>3 DEF Rewatch, RewatchFails
  <2>2. Logged'
    BY <2>1 DEF Logged
  <2>3. At'
    BY <2>1 DEF At
  <2>4. Before'
    BY <2>1 DEF Before
  <2> QED
    BY <2>2, <2>3, <2>4
<1>4. CASE Wait
  BY <1>4 DEF Wait, Logged, At, Before
<1>5. CASE Stat
  <2>1. /\ UNCHANGED <<world, opened, events, modified, printed>> /\ noted' = {}
        /\ pc = "stat" /\ pc' \in {"done", "top"}
    BY <1>5 DEF Stat
  <2>2. newfile' /\ runner = "up" => newfile \/ current # logfile_meta
    BY <1>5 DEF Stat
  <2>3. Logged'
    BY <2>1 DEF Logged
  <2>4. newfile' /\ runner' = "up" => logfile_meta' < current'
    BY <1>1, <2>1, <2>2 DEF At
  <2>5. At'
    BY <2>1, <2>4 DEF At
  <2>6. Before'
    BY <2>1 DEF Before
  <2> QED
    BY <2>3, <2>5, <2>6
<1>6. CASE Finish
  BY <1>6 DEF Finish, Logged, At, Before
<1> QED
  BY <1>2, <1>3, <1>4, <1>5, <1>6, ReadKeeps, OpenKeeps DEF Step

\* So do those of the others, but for the lines that are written.
LEMMA OthersKeep ==
    ASSUME Logged, At, Before, ~ProcEvents, Runner \/ Others
    PROVE  Logged' /\ At' /\ Before'
<1> USE DEF opened, flags, Command, Report, Logged, At, Before
<1>1. current \in Nat /\ Files \subseteq Nat
  BY DEF Files
<1>2. CASE Rotate
  <2>1. current' = current + 1 /\ current' \in Files
    BY <1>2 DEF Rotate, Files
  <2> QED
    BY <1>1, <1>2, <2>1 DEF Rotate, ProcEvents
<1>3. CASE CloseOld
  BY <1>3 DEF CloseOld
<1>4. CASE Exit \/ Reaped
  BY <1>4 DEF Exit, Reaped
<1>5. CASE Unlink
  BY <1>5 DEF Unlink
<1> QED
  BY <1>2, <1>3, <1>4, <1>5, WriteKeeps DEF Runner, Others
-----------------------------------------------------------------------------
\* However often the log is rotated, and whenever the command looks, no line is printed twice or
\* after a later one, as long as rotations are noticed by the end of the old file only
\* (logs.c:157-337).
THEOREM LinesInOrder == Spec => []PrintsInOrder
<1>1. InOrder /\ [Next]_vars => InOrder'
  <2> SUFFICES ASSUME InOrder, [Next]_vars, ~ProcEvents' PROVE Logged' /\ At' /\ Before'
    BY DEF InOrder
  <2>1. ~ProcEvents
    BY DEF ProcEvents, Next, Step, Runner, Others, Idle, vars
  <2>2. CASE UNCHANGED vars
    BY <2>1, <2>2 DEF vars, world, opened, flags, InOrder, Logged, At, Before
  <2> QED
    BY <2>1, <2>2, StepKeeps, OthersKeep DEF InOrder, Next, Idle
<1>2. InOrder => PrintsInOrder
  <2> SUFFICES ASSUME Before PROVE \A i \in 1 .. Len(printed) - 1 : printed[i] < printed[i + 1]
    BY DEF InOrder, PrintsInOrder
  <2> TAKE i \in 1 .. Len(printed) - 1
  <2>1. i \in 1 .. Len(printed) /\ i + 1 \in 1 .. Len(printed) /\ i < i + 1
    BY DEF Before
  <2> QED
    BY <2>1 DEF Before
<1> QED
  BY <1>1, <1>2, InOrderInit, PTL DEF Spec
-----------------------------------------------------------------------------
\* What is printed are lines of a file, in their order.
LEMMA ReadType ==
    ASSUME TypeOK, Read
    PROVE  /\ printed' \in Seq(1 .. MaxLines) /\ offset' \in Nat
           /\ logfile_fd # NoFile => offset' <= Len(content[logfile_fd])
<1> USE DEF TypeOK
<1>1. CASE logfile_fd # NoFile /\ modified
  <2>1. /\ content[logfile_fd] \in Seq(1 .. MaxLines)
        /\ offset \in 0 .. Len(content[logfile_fd])
    BY <1>1, LogsFollowAssumption DEF Files
  <2>2. Rest \in Seq(1 .. MaxLines)
    BY <2>1, RestFacts DEF Rest
  <2>3. printed' = printed \o Rest /\ offset' = Len(content[logfile_fd])
    BY <1>1 DEF Read
  <2>4. printed' \in Seq(1 .. MaxLines)
    BY <2>2, <2>3, ConcatFacts
  <2> QED
    BY <2>1, <2>3, <2>4
<1>2. CASE ~(logfile_fd # NoFile /\ modified)
  BY <1>2 DEF Read
<1> QED
  BY <1>1, <1>2

\* A line that is written has the next number.
LEMMA WriteType ==
    ASSUME TypeOK, Write
    PROVE  /\ lines' \in 0 .. MaxLines /\ content' \in [Files -> Seq(1 .. MaxLines)]
           /\ logfile_fd # NoFile => offset <= Len(content'[logfile_fd])
<1> USE DEF TypeOK
<1>1. lines' = lines + 1 /\ lines' \in 1 .. MaxLines
  BY LogsFollowAssumption DEF Write
<1>2. /\ Append(content[current], lines') \in Seq(1 .. MaxLines)
      /\ Len(Append(content[current], lines')) = Len(content[current]) + 1
      /\ Len(content[current]) \in Nat
  BY <1>1, AppendFacts
<1>3. content' = [content EXCEPT ![current] = Append(content[current], lines')]
  BY DEF Write
<1>4. content' \in [Files -> Seq(1 .. MaxLines)]
  BY <1>2, <1>3
<1>5. \A f \in Files : Len(content[f]) <= Len(content'[f])
  BY <1>2, <1>3
<1>6. logfile_fd # NoFile => logfile_fd \in Files
  BY LogsFollowAssumption DEF Files
<1>7. \A f \in Files : Len(content[f]) \in Nat /\ Len(content'[f]) \in Nat
  BY <1>4
<1> QED
  BY <1>1, <1>4, <1>5, <1>6, <1>7

\* Every step keeps the types.
LEMMA TypeNext == TypeOK /\ [Next]_vars => TypeOK'
<1> SUFFICES ASSUME TypeOK, [Next]_vars PROVE TypeOK'
  OBVIOUS
<1> USE LogsFollowAssumption DEF TypeOK, world, opened, flags, Command, Report
<1>1. CASE UNCHANGED vars
  BY <1>1 DEF vars
<1>2. CASE Step
  <2> USE <1>2 DEF Step
  <2>1. modified' \in BOOLEAN /\ newfile' \in BOOLEAN /\ pidgone' \in BOOLEAN
    BY Zenon DEF Top, Open, Rewatch, RewatchFails, Read, Wait, Stat, Finish
  <2>2. CASE Top
    BY <2>1, <2>2 DEF Top
  <2>3. CASE Open
    <3>1. /\ UNCHANGED <<options, world, stdout_wd, events, noted, printed>>
          /\ pc' \in {"watch", "read", "failed"}
      BY <2>3 DEF Open
    <3>2. \/ logfile_fd' = current /\ logfile_meta' = current /\ offset' = 0
          \/ UNCHANGED <<logfile_fd, logfile_meta, offset>>
      BY <2>3 DEF Open
    <3>3. Len(content[current]) \in Nat
      OBVIOUS
    <3> QED
      BY <2>1, <3>1, <3>2, <3>3 DEF Files
  <2>4. CASE Rewatch
    BY <2>1, <2>4 DEF Rewatch, Files
  <2>5. CASE RewatchFails
    BY <2>1, <2>5 DEF RewatchFails
  <2>6. CASE Read
    <3>1. /\ UNCHANGED <<options, world, logfile_meta, stdout_wd, events, noted, pidgone>>
          /\ pc' \in {"top", "wait"} /\ logfile_fd' \in {logfile_fd, NoFile}
      BY <2>6 DEF Read
    <3>2. /\ printed' \in Seq(1 .. MaxLines) /\ offset' \in Nat
          /\ logfile_fd # NoFile => offset' <= Len(content[logfile_fd])
      BY <2>6, ReadType
    <3> QED
      BY <2>1, <3>1, <3>2 DEF Files
  <2>7. CASE Wait
    BY <2>1, <2>7 DEF Wait
  <2>8. CASE Stat
    BY <2>1, <2>8 DEF Stat
  <2>9. CASE Finish
    BY <2>1, <2>9 DEF Finish
  <2> QED
    BY <2>2, <2>3, <2>4, <2>5, <2>6, <2>7, <2>8, <2>9
<1>3. CASE Write /\ UNCHANGED options
  BY <1>3, WriteType DEF Write
<1>4. CASE Rotate /\ UNCHANGED options
  BY <1>4 DEF Rotate, Files
<1>5. CASE Exit /\ UNCHANGED options
  BY <1>5 DEF Exit
<1>6. CASE Unlink /\ UNCHANGED options
  BY <1>6 DEF Unlink, Files
<1>7. CASE CloseOld /\ UNCHANGED options
  BY <1>7 DEF CloseOld, Files
<1>8. CASE Reaped /\ UNCHANGED options
  BY <1>8 DEF Reaped
<1> QED
  BY <1>1, <1>2, <1>3, <1>4, <1>5, <1>6, <1>7, <1>8 DEF Next, Runner, Others, Idle

\* The command never holds a file that the runner has not had, nor reads beyond its end.
THEOREM TypeCorrect == Spec => []TypeOK
<1>1. Init => TypeOK
  <2> SUFFICES ASSUME Init PROVE TypeOK
    OBVIOUS
  <2>1. modified \in BOOLEAN /\ newfile \in BOOLEAN /\ pidgone \in BOOLEAN
    BY Zenon DEF Init
  <2> QED
    BY <2>1, LogsFollowAssumption DEF Init, TypeOK, Files
<1> QED
  BY <1>1, TypeNext, PTL DEF Spec
-----------------------------------------------------------------------------
\* What the command has been told of, as far as it matters to it: what is missing of the open
\* file, while it follows, has been reported and is not yet taken for the rest of an old one.
Told ==
    /\ pc \in {"open", "watch", "failed"} => modified
    /\ pc # "stat" => noted = {}
    /\ ~Follow => ~newfile /\ pc # "stat"
    /\ logfile_fd # NoFile /\ logfile_fd = current /\ runner = "up" =>
        /\ newfile => modified
        /\ Follow /\ pc \notin {"watch", "failed"} => stdout_wd = current /\ "close" \notin events \union noted
    /\ Follow /\ logfile_fd # NoFile /\ offset < Len(content[logfile_fd]) =>
        modified \/ ("modify" \in events /\ ~newfile /\ "close" \notin noted)
    /\ "attrib" \in events => runner = "reaped"
    /\ "attrib" \in noted \/ pidgone => runner = "reaped" /\ "modify" \notin events

\* What has been read has been printed.
Covered ==
    logfile_fd # NoFile =>
        \A n \in 1 .. offset : \E i \in 1 .. Len(printed) : printed[i] = content[logfile_fd][n]

\* Before the first file is opened, nothing is missing.
LEMMA ToldInit == Init => Told /\ Covered
BY DEF Init, Told, Covered

\* The command forgets an event only together with what it was about.
LEMMA ToldStep ==
    ASSUME TypeOK, Told, Step
    PROVE  Told'
<1> USE LogsFollowAssumption DEF TypeOK, Told, Step, Follow, world, opened, flags
<1>1. \A f \in Files : Len(content[f]) \in Nat
  OBVIOUS
<1>2. CASE Top
  BY <1>2 DEF Top
<1>3. CASE Open
  BY <1>1, <1>3 DEF Open, Files
<1>4. CASE Rewatch
  BY <1>4 DEF Rewatch
<1>5. CASE RewatchFails
  BY <1>5 DEF RewatchFails
<1>6. CASE Read
  <2>1. UNCHANGED <<options, world, logfile_meta, stdout_wd, events, noted, pidgone>>
    BY <1>6 DEF Read
  <2>2. CASE logfile_fd # NoFile /\ newfile
    BY <1>6, <2>1, <2>2 DEF Read
  <2>3. CASE ~(logfile_fd # NoFile /\ newfile)
    <3>1. UNCHANGED <<logfile_fd, newfile>> /\ pc = "read" /\ pc' = "wait"
      BY <1>6, <2>3 DEF Read
    <3>2. CASE logfile_fd # NoFile /\ modified
      <4>1. ~newfile' /\ offset' = Len(content[logfile_fd]) /\ Len(content[logfile_fd]) \in Nat
        BY <1>1, <1>6, <2>3, <3>1, <3>2 DEF Read, Files
      <4> QED
        BY <2>1, <3>1, <4>1
    <3>3. CASE ~(logfile_fd # NoFile /\ modified)
      <4>1. UNCHANGED offset /\ (logfile_fd # NoFile => ~modified /\ ~newfile)
        BY <1>6, <2>3, <3>3 DEF Read
      <4> QED
        BY <2>1, <3>1, <4>1
    <3> QED
      BY <3>2, <3>3
  <2> QED
    BY <2>2, <2>3
<1>7. CASE Wait
  BY <1>7 DEF Wait
<1>8. CASE Stat
  BY <1>8 DEF Stat
<1>9. CASE Finish
  BY <1>9 DEF Finish
<1> QED
  BY <1>2, <1>3, <1>4, <1>5, <1>6, <1>7, <1>8, <1>9

\* Whoever writes to the open file is heard, as long as it is the current one.
LEMMA ToldOthers ==
    ASSUME TypeOK, Told, Runner \/ Others
    PROVE  Told'
<1> USE LogsFollowAssumption DEF TypeOK, Told, Follow, Files, opened, flags, Command, Report
<1>1. CASE Write /\ UNCHANGED options
  <2>1. \A f \in Files : f # current => content'[f] = content[f]
    BY <1>1 DEF Write
  <2> QED
    BY <1>1, <2>1 DEF Write
<1>2. CASE Rotate /\ UNCHANGED options
  BY <1>2 DEF Rotate
<1>3. CASE CloseOld /\ UNCHANGED options
  BY <1>3 DEF CloseOld
<1>4. CASE Exit /\ UNCHANGED options
  BY <1>4 DEF Exit
<1>5. CASE Reaped /\ UNCHANGED options
  BY <1>5 DEF Reaped
<1>6. CASE Unlink /\ UNCHANGED options
  BY <1>6 DEF Unlink
<1> QED
  BY <1>1, <1>2, <1>3, <1>4, <1>5, <1>6 DEF Runner, Others

\* After a read of the file, all of it is printed.
LEMMA ReadPrints ==
    ASSUME TypeOK, Covered, Read, logfile_fd # NoFile, modified,
           NEW n \in 1 .. Len(content[logfile_fd])
    PROVE  \E i \in 1 .. Len(printed') : printed'[i] = content[logfile_fd][n]
<1> DEFINE rest == Rest
           old  == Len(printed)
           new  == Len(content[logfile_fd]) - offset
<1>1. /\ content[logfile_fd] \in Seq(1 .. MaxLines) /\ printed \in Seq(1 .. MaxLines)
      /\ offset \in 0 .. Len(content[logfile_fd]) /\ Len(content[logfile_fd]) \in Nat
  BY LogsFollowAssumption DEF TypeOK, Files
<1>2. /\ rest \in Seq(1 .. MaxLines) /\ Len(rest) = new
      /\ \A i \in 1 .. new : rest[i] = content[logfile_fd][offset + i]
  BY <1>1, RestFacts DEF Rest
<1>3. printed' = printed \o rest
  BY DEF Read
<1> HIDE DEF rest
<1> HIDE DEF new
<1>4. /\ Len(printed') = old + new /\ old \in Nat
      /\ \A i \in 1 .. old : printed'[i] = printed[i]
      /\ \A i \in old + 1 .. old + new : printed'[i] = rest[i - old]
  BY <1>1, <1>2, <1>3, ConcatFacts
<1>5. CASE n <= offset
  <2>1. PICK i \in 1 .. old : printed[i] = content[logfile_fd][n]
    BY <1>1, <1>5 DEF Covered
  <2>2. i \in 1 .. Len(printed') /\ printed'[i] = printed[i]
    BY <1>1, <1>4 DEF new
  <2> QED
    BY <2>1, <2>2
<1>6. CASE n > offset
  <2> DEFINE k == n - offset
  <2>1. k \in 1 .. new /\ offset + k = n /\ new \in Nat
    BY <1>1, <1>6 DEF new
  <2> HIDE DEF old, k
  <2>2. old + k \in old + 1 .. old + new /\ old + k \in 1 .. Len(printed') /\ old + k - old = k
    BY <1>4, <2>1
  <2>3. printed'[old + k] = rest[k] /\ rest[k] = content[logfile_fd][n]
    BY <1>2, <1>4, <2>1, <2>2
  <2> QED
    BY <2>2, <2>3
<1> QED
  BY <1>1, <1>5, <1>6

\* What has been read stays printed.
LEMMA CoveredNext == TypeOK /\ Covered /\ [Next]_vars => Covered'
<1> SUFFICES ASSUME TypeOK, Covered, [Next]_vars PROVE Covered'
  OBVIOUS
<1> USE DEF Covered, world, opened
<1>1. CASE UNCHANGED <<content, logfile_fd, offset, printed>>
  BY <1>1
<1>2. CASE Open
  BY <1>2 DEF Open
<1>3. CASE Write
  <2>1. ASSUME logfile_fd # NoFile, NEW n \in 1 .. offset
        PROVE  content'[logfile_fd][n] = content[logfile_fd][n]
    <3>1. /\ logfile_fd \in Files /\ current \in Files
          /\ content[logfile_fd] \in Seq(1 .. MaxLines) /\ lines' \in 1 .. MaxLines
      BY <1>3, <2>1, LogsFollowAssumption DEF TypeOK, Files, Write
    <3>2. n \in 1 .. Len(content[logfile_fd])
      BY <2>1, <3>1 DEF TypeOK
    <3>3. Append(content[logfile_fd], lines')[n] = content[logfile_fd][n]
      BY <3>1, <3>2, AppendFacts
    <3> QED
      BY <1>3, <3>1, <3>3 DEF Write, TypeOK
  <2> QED
    BY <1>3, <2>1 DEF Write, Command
<1>4. CASE Read
  <2>1. CASE logfile_fd # NoFile /\ modified
    <3>1. /\ offset' = Len(content[logfile_fd]) /\ logfile_fd' \in {logfile_fd, NoFile}
          /\ UNCHANGED content
      BY <1>4, <2>1 DEF Read
    <3> QED
      BY <1>4, <2>1, <3>1, ReadPrints
  <2>2. CASE ~(logfile_fd # NoFile /\ modified)
    BY <1>4, <2>2 DEF Read
  <2> QED
    BY <2>1, <2>2
<1>5. CASE Top \/ Rewatch \/ RewatchFails \/ Wait \/ Stat \/ Finish
  BY <1>1, <1>5 DEF Top, Rewatch, RewatchFails, Wait, Stat, Finish
<1>6. CASE Rotate \/ CloseOld \/ Exit \/ Reaped \/ Unlink
  BY <1>1, <1>6 DEF Rotate, CloseOld, Exit, Reaped, Unlink, Command
<1>7. CASE UNCHANGED vars
  BY <1>1, <1>7 DEF vars
<1> QED
  BY <1>2, <1>3, <1>4, <1>5, <1>6, <1>7 DEF Next, Step, Runner, Others, Idle

\* Only Read turns from a file, and only Stat and Finish end the command; nothing of the file
\* is missing then.
LEMMA LeavingNext ==
    ASSUME TypeOK, Told, Covered, [Next]_vars, NEW f \in Files,
           ~Ended, logfile_fd = f, logfile_fd' = NoFile \/ (Follow /\ pc' = "done")
    PROVE  Printed(f)'
<1>1. f # NoFile /\ Len(content[f]) \in Nat /\ offset \in Nat /\ offset <= Len(content[f])
  BY LogsFollowAssumption DEF Files, TypeOK
<1>2. ASSUME offset >= Len(content[f]), UNCHANGED <<content, printed>> PROVE Printed(f)'
  BY <1>1, <1>2 DEF Covered, Printed
<1>3. CASE Read
  <2>1. UNCHANGED content /\ (~modified => UNCHANGED printed)
    BY <1>3 DEF Read, world
  <2>2. newfile /\ Follow
    BY <1>1, <1>3 DEF Read, Told
  <2>3. CASE modified
    BY <1>1, <1>3, <2>1, <2>3, ReadPrints DEF Printed
  <2>4. CASE ~modified
    BY <1>1, <1>2, <2>1, <2>2, <2>4 DEF Told
  <2> QED
    BY <2>3, <2>4
<1>4. CASE Stat
  <2>1. /\ UNCHANGED <<logfile_fd, content, printed, modified, events>>
        /\ pc' = "done" \/ pc' = "top"
    BY <1>4 DEF Stat, world, opened
  <2>2. Follow /\ pc' = "done"
    BY <1>1, <2>1
  <2>3. pidgone' /\ ~modified
    BY <1>4, <2>2 DEF Stat
  <2>4. "attrib" \in noted
    BY <1>4, <2>3 DEF Stat
  <2> QED
    BY <1>1, <1>2, <2>1, <2>2, <2>3, <2>4 DEF Told
<1>5. CASE Finish
  BY <1>1, <1>2, <1>5 DEF Finish, Told, world, opened
<1>6. ~(Top \/ Open \/ Rewatch \/ RewatchFails \/ Wait)
  BY <1>1 DEF Top, Open, Rewatch, RewatchFails, Wait, opened, TypeOK, Files
<1>7. ~(Runner \/ Others \/ UNCHANGED vars)
  BY <1>1 DEF Runner, Others, Write, Rotate, CloseOld, Exit, Reaped, Unlink, vars, opened,
              Command, Ended
<1> QED
  BY <1>3, <1>4, <1>5, <1>6, <1>7 DEF Next, Step, Idle

\* However the log is rotated, written to and closed while the command looks elsewhere, it has
\* printed all of a file when it closes it for the next one, and of the last one when it ends
\* because the runner has (logs.c:157-337).
THEOREM NothingMissed == Spec => LeavesNothing
<1>1. TypeOK /\ Told /\ Covered /\ [Next]_vars =>
        [\A f \in Files : ~Ended /\ logfile_fd = f /\ (logfile_fd' = NoFile \/ (Follow /\ pc' = "done"))
             => Printed(f)']_vars
  BY LeavingNext
<1>2. TypeOK /\ Told /\ [Next]_vars => Told'
  <2>1. CASE UNCHANGED vars
    BY <2>1 DEF vars, world, opened, flags, Told, Follow
  <2> QED
    BY <2>1, ToldStep, ToldOthers DEF Next, Idle
<1> QED
  BY <1>1, <1>2, ToldInit, CoveredNext, TypeCorrect, PTL DEF Spec, LeavesNothing
=============================================================================
