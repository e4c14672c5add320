---------------------------- MODULE LogPipeProofs ----------------------------
(***************************************************************************)
(* Proofs about what is logged.                                            *)
(*                                                                         *)
(* LogPipe: what the service prints gets into the log, whatever the pipe   *)
(* holds, and however often the log file is moved.                         *)
(*                                                                         *)
(* LogTemplate: whatever the template and the message, what is accepted is *)
(* printed as it reads, and any reader gets the message back.              *)
(***************************************************************************)
EXTENDS LogPipe, LogTemplate, SequenceFacts

USE DEF NoPath, NoFile

\* What the runner knows: how often files have been moved, and when it was asked; and the log
\* file is one opened since, unless there is a request, or its file is about to be opened.
Requests ==
    /\ {moves, asked, handled, logfile_path_buf, period} \subseteq Nat
    /\ new_logfile_path \in Nat \union {NoPath}
    /\ logfile_fd \in (Nat \X Nat) \union {NoFile}
    /\ handled <= asked /\ asked <= moves
    /\ Faults = {} => logfile_fd # NoFile
    /\ ~Pattern /\ ~logrotate_issued /\ logfile_fd # NoFile
         /\ (pc = "open" => new_logfile_path = NoPath)
       => logfile_fd[2] >= handled

\* The pipe holds the last pieces that have been written, and the log only earlier ones, in
\* their order; if no call fails, all of them.
Copied ==
    /\ written \in Nat /\ pipe \in Seq(Nat) /\ log \in Seq(Nat)
    /\ Len(pipe) <= written
    /\ \A i \in 1 .. Len(pipe) : pipe[i] = written - Len(pipe) + i
    /\ \A i \in 1 .. Len(log) : log[i] \in 1 .. written - Len(pipe)
    /\ \A i, j \in 1 .. Len(log) : i < j => log[i] < log[j]
    /\ Faults = {} => Len(log) = written - Len(pipe) /\ \A i \in 1 .. Len(log) : log[i] = i

\* A pipe that has hung up is not written to any more, and read to its end by splice().
HungUp ==
    /\ "HUP" \in revents /\ pc \in {"rotate", "open", "copy"} =>
        ~held /\ (pipe = <<>> \/ "IN" \in revents)
    /\ ("HUP" \in revents /\ pc = "hangup") \/ (pc = "done" /\ Faults = {}) =>
        ~held /\ (Faults = {} /\ CanSplice => pipe = <<>>)

\* Requests holds at first.
LEMMA RequestsInit == Init => Requests
BY DEF Init, Requests

\* Every step keeps Requests.
LEMMA RequestsNext == Requests /\ [Next]_vars => Requests'
<1> SUFFICES ASSUME Requests, [Next]_vars PROVE Requests'
  OBVIOUS
<1> USE DEF Requests, vars, files, rotation, Pattern, Faults
<1>1. ASSUME Poll, UNCHANGED options PROVE Requests'
  BY <1>1 DEF Poll
<1>2. ASSUME handles_logrotate, UNCHANGED options PROVE Requests'
  BY <1>2 DEF handles_logrotate
<1>3. ASSUME Rotate, UNCHANGED options PROVE Requests'
  BY <1>3 DEF Rotate
<1>4. ASSUME Open, UNCHANGED options PROVE Requests'
  <2>1. CASE new_logfile_path = NoPath
    BY <1>4, <2>1 DEF Open
  <2>2. CASE new_logfile_path # NoPath /\ logfile_fd' = <<new_logfile_path, moves>>
    BY <1>4, <2>2 DEF Open
  <2>3. CASE "open" \in Faults /\ logfile_fd' = NoFile
    BY <1>4, <2>3 DEF Open
  <2> QED
    BY <1>4, <2>1, <2>2, <2>3 DEF Open
<1>5. ASSUME Copy, UNCHANGED options PROVE Requests'
  <2>1. UNCHANGED <<logfile_fd, logfile_path_buf, new_logfile_path, rotation, period>> /\ pc' # "open"
    BY <1>5 DEF Copy
  <2>2. pc = "copy"
    BY <1>5 DEF Copy
  <2> QED
    BY <1>5, <2>1, <2>2
<1>6. ASSUME HangUp, UNCHANGED options PROVE Requests'
  BY <1>6 DEF HangUp
<1>7. ASSUME World PROVE Requests'
  <2>1. ASSUME Write \/ Release, UNCHANGED options PROVE Requests'
    BY <2>1 DEF Write, Release
  <2>2. ASSUME MoveFile, UNCHANGED options PROVE Requests'
    BY <2>2 DEF MoveFile
  <2>3. ASSUME AskRotate, UNCHANGED options PROVE Requests'
    BY <2>3 DEF AskRotate
  <2>4. ASSUME NextPeriod, UNCHANGED options PROVE Requests'
    BY <2>4 DEF NextPeriod
  <2> QED
    BY <1>7, <2>1, <2>2, <2>3, <2>4 DEF World
<1>8. CASE UNCHANGED vars
  BY <1>8
<1> QED
  BY <1>1, <1>2, <1>3, <1>4, <1>5, <1>6, <1>7, <1>8 DEF Next, RunnerStep, Done

\* Pieces that leave the pipe, the first k of them for the log.
LEMMA Moved ==
    ASSUME Copied, NEW n \in 0 .. Len(pipe), NEW k \in 0 .. n, Move(n, k)
    PROVE  /\ pipe' \in Seq(Nat) /\ Len(pipe') = Len(pipe) - n
           /\ \A i \in 1 .. Len(pipe') : pipe'[i] = pipe[n + i]
           /\ log' \in Seq(Nat) /\ Len(log') = Len(log) + k
           /\ \A i \in 1 .. Len(log) : log'[i] = log[i]
           /\ \A i \in Len(log) + 1 .. Len(log) + k : log'[i] = pipe[i - Len(log)]
           /\ k = 0 => log' = log
<1>1. pipe \in Seq(Nat) /\ log \in Seq(Nat) /\ Len(pipe) \in Nat /\ Len(log) \in Nat
  BY DEF Copied
<1>2. pipe' = SubSeq(pipe, n + 1, Len(pipe)) /\ log' = log \o SubSeq(pipe, 1, k)
  BY DEF Move
<1>3. k \in 0 .. Len(pipe)
  BY <1>1
<1>4. /\ SubSeq(pipe, 1, k) \in Seq(Nat) /\ Len(SubSeq(pipe, 1, k)) = k
      /\ \A i \in 1 .. k : SubSeq(pipe, 1, k)[i] = pipe[i]
  BY <1>1, <1>3, FrontFacts
<1>5. /\ pipe' \in Seq(Nat) /\ Len(pipe') = Len(pipe) - n
      /\ \A i \in 1 .. Len(pipe') : pipe'[i] = pipe[n + i]
  BY <1>1, <1>2, RestFacts
<1> DEFINE front == SubSeq(pipe, 1, k)
<1> HIDE DEF front
<1>6. /\ log' \in Seq(Nat) /\ Len(log') = Len(log) + k
      /\ \A i \in 1 .. Len(log) : log'[i] = log[i]
      /\ \A i \in Len(log) + 1 .. Len(log) + k : log'[i] = front[i - Len(log)]
  <2>1. front \in Seq(Nat) /\ Len(front) = k /\ log' = log \o front
    BY <1>2, <1>4 DEF front
  <2> QED
    BY <1>1, <2>1, ConcatFacts
<1>7. \A i \in Len(log) + 1 .. Len(log) + k : log'[i] = pipe[i - Len(log)]
  <2> TAKE i \in Len(log) + 1 .. Len(log) + k
  <2>1. i - Len(log) \in 1 .. k
    BY <1>1, <1>3
  <2>2. front[i - Len(log)] = pipe[i - Len(log)]
    BY <1>4, <2>1 DEF front
  <2> QED
    BY <1>6, <2>2
<1>8. k = 0 => log' = log
  <2>1. ASSUME k = 0 PROVE front = <<>>
    BY <1>4, <2>1 DEF front
  <2> QED
    BY <1>1, <1>2, <2>1 DEF front
<1> QED
  BY <1>5, <1>6, <1>7, <1>8

\* After such a move the pipe and the log hold what they should.
LEMMA MoveKeeps ==
    ASSUME Copied, NEW n \in 0 .. Len(pipe), NEW k \in 0 .. n, Move(n, k),
           Faults = {} => k = n, UNCHANGED <<options, written>>
    PROVE  Copied'
<1>1. /\ pipe' \in Seq(Nat) /\ Len(pipe') = Len(pipe) - n
      /\ \A i \in 1 .. Len(pipe') : pipe'[i] = pipe[n + i]
      /\ log' \in Seq(Nat) /\ Len(log') = Len(log) + k
      /\ \A i \in 1 .. Len(log) : log'[i] = log[i]
      /\ \A i \in Len(log) + 1 .. Len(log) + k : log'[i] = pipe[i - Len(log)]
  BY Moved
<1>2. /\ written \in Nat /\ Len(pipe) \in Nat /\ Len(log) \in Nat /\ Len(pipe) <= written
      /\ \A i \in 1 .. Len(pipe) : pipe[i] = written - Len(pipe) + i
      /\ \A i \in 1 .. Len(log) : log[i] \in 1 .. written - Len(pipe)
      /\ \A i, j \in 1 .. Len(log) : i < j => log[i] < log[j]
  BY DEF Copied
<1>3. \A i \in Len(log) + 1 .. Len(log) + k : log'[i] = written - Len(pipe) + (i - Len(log))
  <2> TAKE i \in Len(log) + 1 .. Len(log) + k
  <2>1. i - Len(log) \in 1 .. Len(pipe)
    BY <1>2
  <2> QED
    BY <1>1, <1>2, <2>1
<1>4. \A i \in 1 .. Len(log') : log'[i] \in 1 .. written' - Len(pipe')
  <2> TAKE i \in 1 .. Len(log')
  <2>1. CASE i \in 1 .. Len(log)
    <3>1. log'[i] \in 1 .. written - Len(pipe)
      BY <1>1, <1>2, <2>1
    <3> QED
      BY <1>1, <1>2, <3>1
  <2>2. CASE i \in Len(log) + 1 .. Len(log) + k
    <3>1. log'[i] = written - Len(pipe) + (i - Len(log))
      BY <1>3, <2>2
    <3> QED
      BY <1>1, <1>2, <2>2, <3>1
  <2> QED
    BY <1>1, <1>2, <2>1, <2>2
<1>5. ASSUME NEW i \in 1 .. Len(log'), NEW j \in 1 .. Len(log'), i < j PROVE log'[i] < log'[j]
  <2>0. /\ i \in Nat /\ j \in Nat /\ 1 <= i /\ i < j /\ j <= Len(log) + k
        /\ k \in Nat /\ Len(log) \in Nat
    BY <1>1, <1>2, <1>5
  <2>1. CASE j <= Len(log)
    <3>1. i \in 1 .. Len(log) /\ j \in 1 .. Len(log)
      BY <2>0, <2>1
    <3> QED
      BY <1>1, <1>2, <1>5, <3>1
  <2>2. CASE i \in 1 .. Len(log) /\ j \in Len(log) + 1 .. Len(log) + k
    <3>1. log'[i] \in 1 .. written - Len(pipe) /\ log'[j] = written - Len(pipe) + (j - Len(log))
      BY <1>1, <1>2, <1>3, <2>2
    <3> QED
      BY <1>2, <2>2, <3>1
  <2>3. CASE i \in Len(log) + 1 .. Len(log) + k /\ j \in Len(log) + 1 .. Len(log) + k
    <3>1. /\ log'[i] = written - Len(pipe) + (i - Len(log))
          /\ log'[j] = written - Len(pipe) + (j - Len(log))
      BY <1>3, <2>3
    <3> QED
      BY <1>2, <1>5, <2>3, <3>1
  <2> QED
    BY <2>0, <2>1, <2>2, <2>3
<1>6. \A i \in 1 .. Len(pipe') : pipe'[i] = written' - Len(pipe') + i
  BY <1>1, <1>2
<1>7. ASSUME Faults = {} PROVE Len(log') = written' - Len(pipe') /\ \A i \in 1 .. Len(log') : log'[i] = i
  <2>1. Len(log) = written - Len(pipe) /\ \A i \in 1 .. Len(log) : log[i] = i
    BY <1>7 DEF Copied
  <2>2. \A i \in Len(log) + 1 .. Len(log) + k : log'[i] = i
    BY <1>2, <1>3, <2>1
  <2>3. \A i \in 1 .. Len(log) : log'[i] = i
    BY <1>1, <2>1
  <2>4. \A i \in 1 .. Len(log') : log'[i] = i
    BY <1>1, <1>2, <2>2, <2>3
  <2> QED
    BY <1>1, <1>2, <1>7, <2>1, <2>4
<1>8. written' \in Nat /\ Len(pipe') <= written' /\ Faults' = Faults
  BY <1>1, <1>2 DEF Faults
<1> QED
  BY <1>1, <1>4, <1>5, <1>6, <1>7, <1>8 DEF Copied

\* What Copy does to pipe and log.
LEMMA CopyMoves ==
    ASSUME Copied, Copy
    PROVE  \/ UNCHANGED <<pipe, log>>
           \/ \E n \in 0 .. Len(pipe) : \E k \in 0 .. n : Move(n, k) /\ (Faults = {} => k = n)
<1> DEFINE m == IF Len(pipe) < Buffer THEN Len(pipe) ELSE Buffer
<1>1. Len(pipe) \in Nat /\ m \in 0 .. Len(pipe)
  BY LogPipeAssumption DEF Copied
<1> HIDE DEF m
<1>2. CASE Move(Len(pipe), Len(pipe))
  BY <1>1, <1>2
<1>3. CASE Move(m, m)
  BY <1>1, <1>3
<1>4. ASSUME "write" \in Faults, NEW k \in 0 .. m - 1, Move(m, k)
      PROVE  \E n \in 0 .. Len(pipe) : \E l \in 0 .. n : Move(n, l) /\ (Faults = {} => l = n)
  BY <1>1, <1>4
<1> QED
  BY <1>2, <1>3, <1>4 DEF Copy, m

\* Pipe and log are empty at first.
LEMMA CopiedInit == Init => Copied
<1> SUFFICES ASSUME Init PROVE Copied
  OBVIOUS
<1>1. written = 0
  BY DEF Init
<1>2. pipe = <<>> /\ log = <<>>
  BY DEF Init
<1>3. pipe \in Seq(Nat) /\ log \in Seq(Nat) /\ Len(pipe) = 0 /\ Len(log) = 0
  BY <1>2
<1>4. Len(log) = written - Len(pipe)
  <2>1. Len(pipe) = 0 /\ Len(log) = 0
    BY <1>3
  <2> QED
    BY <1>1, <2>1
<1>5. 1 .. Len(pipe) = {} /\ 1 .. Len(log) = {}
  BY <1>3
<1> QED
  BY <1>1, <1>3, <1>4, <1>5 DEF Copied

\* Every step keeps Copied.
LEMMA CopiedNext == Copied /\ [Next]_vars => Copied'
<1> SUFFICES ASSUME Copied, [Next]_vars PROVE Copied'
  OBVIOUS
<1> USE DEF vars, files
<1>1. ASSUME Copy, UNCHANGED options PROVE Copied'
  <2>1. UNCHANGED written
    BY <1>1 DEF Copy
  <2>2. CASE UNCHANGED <<pipe, log>>
    BY <1>1, <2>1, <2>2 DEF Copied, Faults
  <2>3. CASE \E n \in 0 .. Len(pipe) : \E k \in 0 .. n : Move(n, k) /\ (Faults = {} => k = n)
    BY <1>1, <2>1, <2>3, MoveKeeps
  <2> QED
    BY <1>1, <2>2, <2>3, CopyMoves
<1>2. ASSUME Write, UNCHANGED options PROVE Copied'
  <2>1. /\ pipe' \in Seq(Nat) /\ Len(pipe') = Len(pipe) + 1
        /\ \A i \in 1 .. Len(pipe) : pipe'[i] = pipe[i]
        /\ pipe'[Len(pipe) + 1] = written + 1
    BY <1>2 DEF Write, Copied
  <2>2. written' = written + 1 /\ log' = log
    BY <1>2 DEF Write
  <2>3. /\ written \in Nat /\ Len(pipe) \in Nat /\ log \in Seq(Nat) /\ Len(pipe) <= written
        /\ \A i \in 1 .. Len(pipe) : pipe[i] = written - Len(pipe) + i
    BY DEF Copied
  <2>4. written' - Len(pipe') = written - Len(pipe) /\ Len(pipe') <= written' /\ written' \in Nat
    BY <2>1, <2>2, <2>3
  <2>5. ASSUME NEW i \in 1 .. Len(pipe') PROVE pipe'[i] = written' - Len(pipe') + i
    <3>1. CASE i \in 1 .. Len(pipe)
      <4>1. pipe'[i] = written - Len(pipe) + i
        BY <2>1, <2>3, <3>1
      <4> QED
        BY <2>4, <4>1
    <3>2. CASE i = Len(pipe) + 1
      BY <2>1, <2>2, <2>3, <3>2
    <3> QED
      BY <2>1, <2>3, <3>1, <3>2
  <2>6. Faults' = Faults
    BY <1>2 DEF Faults
  <2> QED
    BY <2>1, <2>2, <2>4, <2>5, <2>6 DEF Copied
<1>3. CASE UNCHANGED <<options, written, pipe, log>>
  BY <1>3 DEF Copied, Faults
<1> QED
  BY <1>1, <1>2, <1>3
  DEF Next, RunnerStep, World, Done, Poll, handles_logrotate, Rotate, Open, HangUp,
      Release, MoveFile, AskRotate, NextPeriod

\* Nothing has hung up at first.
LEMMA HungUpInit == Init => HungUp
BY DEF Init, HungUp

\* Every step keeps HungUp.
LEMMA HungUpNext == Requests /\ Copied /\ HungUp /\ [Next]_vars => HungUp'
<1> SUFFICES ASSUME Requests, Copied, HungUp, [Next]_vars PROVE HungUp'
  OBVIOUS
<1> USE DEF HungUp, vars, files, rotation, Faults, CanSplice
<1>1. ASSUME Poll, UNCHANGED options PROVE HungUp'
  BY <1>1 DEF Poll, Ready
<1>2. ASSUME handles_logrotate, UNCHANGED options PROVE HungUp'
  BY <1>2 DEF handles_logrotate
<1>3. ASSUME Rotate \/ Open \/ HangUp, UNCHANGED options PROVE HungUp'
  BY <1>3 DEF Rotate, Open, HangUp
<1>4. ASSUME Copy, UNCHANGED options PROVE HungUp'
  <2>1. pc = "copy" /\ UNCHANGED <<revents, held>>
    BY <1>4 DEF Copy
  <2>2. CASE pc' = "done"
    BY <1>4, <2>1, <2>2 DEF Copy
  <2>3. CASE pc' = "hangup"
    <3>1. ASSUME "HUP" \in revents, Faults = {}, CanSplice PROVE pipe' = <<>>
      <4>1. CASE "IN" \in revents
        <5>1. Move(Len(pipe), Len(pipe))
          BY <1>4, <3>1, <4>1 DEF Copy, Requests
        <5> QED
          BY <5>1 DEF Move, Copied
      <4>2. CASE "IN" \notin revents
        BY <1>4, <2>1, <3>1, <4>2 DEF Copy
      <4> QED
        BY <4>1, <4>2
    <3> QED
      BY <1>4, <2>1, <2>3, <3>1
  <2> QED
    BY <1>4, <2>2, <2>3 DEF Copy
<1>5. ASSUME World PROVE HungUp'
  BY <1>5 DEF World, Write, Release, MoveFile, AskRotate, NextPeriod
<1>6. CASE UNCHANGED vars
  BY <1>6
<1> QED
  BY <1>1, <1>2, <1>3, <1>4, <1>5, <1>6 DEF Next, RunnerStep, Done
-----------------------------------------------------------------------------
\* A request for rotation is never lost: once it has been handled, the log is written to a
\* file opened after it (start.c:2249-2276).
THEOREM RequestsKept == Spec => []Reopened
<1>1. Requests => Reopened
  BY DEF Requests, Reopened
<1> QED
  BY <1>1, RequestsInit, RequestsNext, PTL DEF Spec

\* The first states of the runner are first states of the contract.
LEMMA ContractInit == Init => Contract!Init
BY DEF Init, Contract!Init

\* What is moved to the log is a step of the contract, or none.
LEMMA MoveIsCopy ==
    ASSUME Copied, Copied', NEW n \in 0 .. Len(pipe), NEW k \in 0 .. n, Move(n, k),
           pc = "copy", pc' = "hangup", UNCHANGED <<options, written>>
    PROVE  [Contract!Next]_(Contract!vars)
<1>1. /\ log' \in Seq(Nat) /\ Len(log') = Len(log) + k
      /\ \A i \in 1 .. Len(log) : log'[i] = log[i]
      /\ k = 0 => log' = log
  BY Moved
<1>2. CASE k = 0
  BY <1>1, <1>2 DEF Contract!vars, Faults, CanSplice
<1>3. CASE k # 0
  <2>1. log \in Seq(Nat) /\ Len(log) \in Nat /\ Len(log) < Len(log')
    BY <1>1, <1>3 DEF Copied
  <2>2. Contract!IsStrictPrefix(log, log')
    <3>1. SubSeq(log', 1, Len(log)) = SubSeq(log, 1, Len(log))
      BY <1>1, <2>1
    <3> QED
      BY <2>1, <3>1 DEF Contract!IsStrictPrefix, Contract!IsPrefix
  <2>3. Contract!InOrder(log')
    <3>1. /\ \A i \in 1 .. Len(log') : log'[i] \in 1 .. written - Len(pipe')
          /\ \A i, j \in 1 .. Len(log') : i < j => log'[i] < log'[j]
          /\ Len(pipe') \in Nat /\ written \in Nat
      BY DEF Copied
    <3>2. DOMAIN log' = 1 .. Len(log')
      BY <1>1
    <3> QED
      BY <3>1, <3>2 DEF Contract!InOrder
  <2>4. Faults = {} => Contract!Last(log') = Len(log')
    BY <1>1, <2>1 DEF Copied, Contract!Last, Faults
  <2> QED
    BY <2>2, <2>3, <2>4 DEF Contract!Next, Contract!Copy, Faults, CanSplice
<1> QED
  BY <1>2, <1>3

\* Every step is one of the contract, or none.
LEMMA ContractNext ==
    Requests /\ Copied /\ HungUp /\ Copied' /\ HungUp' /\ [Next]_vars => [Contract!Next]_(Contract!vars)
<1> SUFFICES ASSUME Requests, Copied, HungUp, Copied', HungUp', [Next]_vars
             PROVE  [Contract!Next]_(Contract!vars)
  OBVIOUS
<1> USE DEF vars, files
<1>1. ASSUME Copy, UNCHANGED options PROVE [Contract!Next]_(Contract!vars)
  <2>1. pc = "copy" /\ UNCHANGED written
    BY <1>1 DEF Copy
  <2>2. CASE pc' = "done"
    <3>1. Faults # {} /\ UNCHANGED log
      BY <1>1, <2>2 DEF Copy
    <3> QED
      BY <1>1, <2>1, <2>2, <3>1 DEF Contract!Next, Contract!Finish, Faults
  <2>3. CASE pc' = "hangup"
    <3>1. CASE UNCHANGED <<pipe, log>>
      BY <1>1, <2>1, <2>3, <3>1 DEF Contract!vars, Faults, CanSplice
    <3>2. CASE \E n \in 0 .. Len(pipe) : \E k \in 0 .. n : Move(n, k) /\ (Faults = {} => k = n)
      BY <1>1, <2>1, <2>3, <3>2, MoveIsCopy
    <3> QED
      BY <1>1, <3>1, <3>2, CopyMoves
  <2> QED
    BY <1>1, <2>2, <2>3 DEF Copy
<1>2. ASSUME Write, UNCHANGED options PROVE [Contract!Next]_(Contract!vars)
  <2>1. UNCHANGED <<pc, log>> /\ written' = written + 1 /\ held
    BY <1>2 DEF Write
  <2>2. pc = "done" => Faults # {}
    BY <2>1 DEF HungUp
  <2> QED
    BY <1>2, <2>1, <2>2 DEF Contract!Next, Contract!Put, Faults, CanSplice
<1>3. ASSUME HangUp, UNCHANGED options PROVE [Contract!Next]_(Contract!vars)
  <2>1. CASE pc' = "poll"
    BY <1>3, <2>1 DEF HangUp, Contract!vars, Faults, CanSplice
  <2>2. CASE pc' = "done"
    <3>1. Faults = {} /\ CanSplice => Len(log) = written
      BY <1>3, <2>2 DEF HangUp, HungUp, Copied
    <3> QED
      BY <1>3, <2>2, <3>1 DEF HangUp, Contract!Next, Contract!Finish, Faults, CanSplice
  <2> QED
    BY <1>3, <2>1, <2>2 DEF HangUp
<1>4. CASE UNCHANGED <<options, written, log>> /\ (pc' = "done" <=> pc = "done")
  BY <1>4 DEF Contract!vars, Faults, CanSplice
<1>5. ASSUME Poll \/ handles_logrotate \/ Rotate \/ Open, UNCHANGED options
      PROVE  UNCHANGED <<written, log>> /\ (pc' = "done" <=> pc = "done")
  BY <1>5 DEF Poll, handles_logrotate, Rotate, Open
<1>6. ASSUME Release \/ MoveFile \/ AskRotate \/ NextPeriod
      PROVE  UNCHANGED <<written, log, pc>>
  BY <1>6 DEF Release, MoveFile, AskRotate, NextPeriod
<1> QED
  BY <1>1, <1>2, <1>3, <1>4, <1>5, <1>6 DEF Next, RunnerStep, World, Done

\* Whatever is rotated and whichever calls fail, the log only grows, in the order of the output;
\* nothing is left out if no call fails, nor at the end where splice() is supported
\* (start.c:2248-2345).
THEOREM LogKept == Spec => KeepsLog
<1>1. Requests /\ Copied /\ HungUp /\ [Next]_vars => (Requests /\ Copied /\ HungUp)'
  BY RequestsNext, CopiedNext, HungUpNext
<1>2. Init => Requests /\ Copied /\ HungUp
  BY RequestsInit, CopiedInit, HungUpInit
<1>3. (Requests /\ Copied /\ HungUp) /\ (Requests /\ Copied /\ HungUp)' /\ [Next]_vars
        => [Contract!Next]_(Contract!vars)
  BY ContractNext
<1> QED
  BY <1>1, <1>2, <1>3, ContractInit, PTL DEF Spec, KeepsLog, Contract!Spec

-----------------------------------------------------------------------------
(* LogTemplate: directives, as they are accepted and as they are known.    *)

\* A template is a C string.
IsTemplate == template \in Seq(Characters)

\* No character is NUL.
LEMMA NoNul == "" \notin Characters
BY DEF Characters

\* What is read at a place.
LEMMA Reads ==
    ASSUME IsTemplate, NEW i \in Nat
    PROVE  /\ i < Len(template) => /\ i + 1 \in 1 .. Len(template)
                                   /\ Char(template, i) = template[i + 1] /\ Char(template, i) # ""
                                   /\ Char(template, i) \in Characters
           /\ ~(i < Len(template)) => Char(template, i) = ""
<1>1. i < Len(template) => i + 1 \in 1 .. Len(template) /\ template[i + 1] \in Characters
  BY DEF IsTemplate
<1>. QED  BY <1>1, NoNul DEF Char

\* The letters after a "%": alone, in GMT, or of a text that is encoded.
Single == {"Y", "m", "d", "H", "M", "S", "z", "t", "T", "f", "n", "l", "L", "h", "a", "b", "s", "%"}
Gmt    == {"Y", "m", "d", "H", "M", "S", "t", "T", "a", "b"}
Fields == {"s", "f", "l", "L"}

\* Two letters that belong together.
Double(c, d) == (c = "g" /\ d \in Gmt) \/ (c \in Encodings /\ d \in Fields)

\* What is accepted.
LEMMA AcceptedIs ==
    ASSUME NEW i
    PROVE  LET c == Char(template, i + 1)
               d == Char(template, i + 2)
           IN /\ c \in Single => Accepted(i) = <<c>>
              /\ Double(c, d) => Accepted(i) = <<c, d>> /\ c \notin Single
              /\ c \notin Single /\ ~Double(c, d) => Accepted(i) = <<>>
<1>. DEFINE c == Char(template, i + 1)
            d == Char(template, i + 2)
<1>1. Accepted(i) = IF c \in Encodings THEN (IF d \in Fields THEN <<c, d>> ELSE <<>>)
                    ELSE IF c = "g" THEN (IF d \in Gmt THEN <<c, d>> ELSE <<>>)
                    ELSE IF c \in Single THEN <<c>> ELSE <<>>
  BY Zenon DEF Accepted, Single, Gmt, Fields
<1>2. c \in Encodings \/ c = "g" => c \notin Single
  BY DEF Encodings, Single
<1>3. c \in Encodings => c # "g"
  BY DEF Encodings
<1>. HIDE DEF c, d
<1>. QED  BY <1>1, <1>2, <1>3 DEF Double, c, d

\* All directives begin with a "%".
LEMMA DirectiveCases ==
    ASSUME NEW p
    PROVE  p \in Directives <=>
            \/ \E l \in Single : p = <<"%", l>>
            \/ \E c, d : p = <<"%", c, d>> /\ Double(c, d)
<1>1. p \in Directives <=>
        \/ \E l \in Single : p = <<"%", l>>
        \/ \E l \in Gmt : p = <<"%", "g", l>>
        \/ \E e \in Encodings, l \in Fields : p = <<"%", e, l>>
  <2>1. Directives = {<<"%", l>> : l \in Single} \union {<<"%", "g", l>> : l \in Gmt}
                       \union {<<"%", e, l>> : e \in Encodings, l \in Fields}
    BY DEF Directives, Single, Gmt, Fields
  <2>. QED  BY <2>1
<1>. QED  BY <1>1, Zenon DEF Double

\* The letters are characters.
LEMMA LettersAre ==
    /\ \A l \in Single : l # ""
    /\ \A c, d : Double(c, d) => c # "" /\ d # "" /\ c \notin Single
    /\ "" \notin Single /\ \A c : ~Double("", c)
    /\ \A c : ~Double(c, "")
BY DEF Single, Double, Gmt, Encodings, Fields

\* The directive that a template has at a place: the one that is accepted there.
LEMMA Heads ==
    ASSUME IsTemplate, NEW i \in 0 .. Len(template) - 1, NEW p \in Directives
    PROVE  IsPrefix(p, SubSeq(template, i + 1, Len(template)))
            <=> /\ template[i + 1] = "%" /\ Accepted(i) # <<>>
                /\ p = <<"%">> \o Accepted(i)
<1>. DEFINE N == Len(template)
            c == Char(template, i + 1)
            d == Char(template, i + 2)
            Match == IsPrefix(p, SubSeq(template, i + 1, N))
            Right == template[i + 1] = "%" /\ Accepted(i) # <<>> /\ p = <<"%">> \o Accepted(i)
<1>1. template \in Seq(Characters) /\ N \in Nat /\ i \in 0 .. N /\ i + 1 \in Nat /\ i + 2 \in Nat
  BY DEF IsTemplate
<1>2. /\ i + 1 < N <=> c # ""
      /\ i + 2 < N <=> d # ""
      /\ i + 1 < N => c = template[i + 2]
      /\ i + 2 < N => d = template[i + 3]
  <2>1. i + 1 + 1 = i + 2 /\ i + 2 + 1 = i + 3
    OBVIOUS
  <2>2. /\ i + 1 < N => c = template[i + 1 + 1] /\ c # ""
        /\ ~(i + 1 < N) => c = ""
    BY <1>1, Reads
  <2>3. /\ i + 2 < N => d = template[i + 2 + 1] /\ d # ""
        /\ ~(i + 2 < N) => d = ""
    BY <1>1, Reads
  <2>. QED  BY <2>1, <2>2, <2>3
<1>3. /\ c \in Single => Accepted(i) = <<c>>
      /\ Double(c, d) => Accepted(i) = <<c, d>> /\ c \notin Single
      /\ c \notin Single /\ ~Double(c, d) => Accepted(i) = <<>>
  BY AcceptedIs
<1>4. /\ <<"%">> \o <<c>> = <<"%", c>>
      /\ <<"%">> \o <<c, d>> = <<"%", c, d>>
      /\ <<c>> # <<>> /\ <<c, d>> # <<>>
  <2>. HIDE DEF c, d
  <2>1. <<c>> # <<>> /\ <<c, d>> # <<>>
    OBVIOUS
  <2>. QED  BY <2>1, PairConcat, TripleConcat
<1>5. Right <=> \/ template[i + 1] = "%" /\ c \in Single /\ p = <<"%", c>>
                \/ template[i + 1] = "%" /\ Double(c, d) /\ p = <<"%", c, d>>
  <2>. HIDE DEF c, d
  <2>. QED  BY <1>3, <1>4
<1>. HIDE DEF c, d, Right
<1>6. ASSUME NEW l \in Single, p = <<"%", l>>
      PROVE  Match <=> Right
  <2>1. Match <=> i + 1 < N /\ "%" = template[i + 1] /\ l = template[i + 2]
    BY <1>1, <1>6, PairPrefix
  <2>2. Match <=> "%" = template[i + 1] /\ l = c
    <3>. HIDE DEF N, Match
    <3>1. l # ""
      BY LettersAre
    <3>. QED  BY <1>2, <2>1, <3>1, Zenon
  <2>3. <<"%", c, d>> # p /\ (p = <<"%", c>> <=> l = c)
    BY <1>6
  <2>. HIDE DEF Match
  <2>. QED  BY <1>5, <2>2, <2>3, Zenon
<1>7. ASSUME NEW e, NEW l, p = <<"%", e, l>>, Double(e, l)
      PROVE  Match <=> Right
  <2>1. Match <=> i + 2 < N /\ "%" = template[i + 1] /\ e = template[i + 2] /\ l = template[i + 3]
    BY <1>1, <1>7, TriplePrefix
  <2>2. Match <=> "%" = template[i + 1] /\ e = c /\ l = d
    <3>1. i + 2 < N => i + 1 < N
      BY <1>1
    <3>. HIDE DEF N, Match
    <3>2. l # ""
      BY <1>7, LettersAre
    <3>. QED  BY <1>2, <2>1, <3>1, <3>2, Zenon
  <2>3. <<"%", c>> # p /\ (p = <<"%", c, d>> <=> e = c /\ l = d)
    BY <1>7
  <2>. HIDE DEF Match
  <2>. QED  BY <1>5, <1>7, <2>2, <2>3, Zenon
<1>. HIDE DEF Match
<1>8. (\E l \in Single : p = <<"%", l>>) \/ (\E e, l : p = <<"%", e, l>> /\ Double(e, l))
  BY DirectiveCases, Zenon
<1>9. Match <=> Right
  BY <1>6, <1>7, <1>8, Zenon
<1>. QED  BY <1>9 DEF Match, Right

-----------------------------------------------------------------------------
(* What is printed for a directive.                                        *)

\* What is printed for a piece of a template: days and months are exchanged.
Shown(piece) == IF Len(piece) = 2 THEN <<piece[1], Swapped(piece[2])>> ELSE piece

\* The pieces there are, and those that have the message.
Pairs == (Encodings \union {"", "g"}) \X Single
Items == {<<c>> : c \in Characters} \union Pairs \union {Unknown}

TheMessage == {<<"s">>} \union {<<e, "s">> : e \in Encodings}
MessagePieces == {<<e, "s">> : e \in Encodings \union {""}}

\* What becomes of the letters of a directive.
LEMMA LetterFacts ==
    /\ \A l \in Single : Swapped(l) \in Single
    /\ \A l \in Gmt : l \in Single /\ Swapped(l) \in Single
    /\ \A l \in Fields : l \in Single /\ Swapped(l) = l
    /\ Swapped("%") = "%" /\ "s" \in Single /\ Swapped("s") = "s"
    /\ "%" \notin Gmt /\ "g" \notin Encodings /\ "" \notin Encodings /\ "%" \notin Encodings
    /\ "unknown" \notin Single
BY DEF Single, Gmt, Fields, Encodings, Swapped

\* A directive of two characters.
LEMMA MeaningOfSingle ==
    ASSUME NEW l \in Single, l # "%"
    PROVE  /\ Meaning(<<"%", l>>) = <<"", l>>
           /\ Shown(<<"", l>>) = <<"", Swapped(l)>>
<1>1. Len(<<"%", l>>) = 2 /\ <<"%", l>>[2] = l /\ <<"%", l>> # <<"%", "%">>
  OBVIOUS
<1>2. Len(<<"", l>>) = 2 /\ <<"", l>>[1] = "" /\ <<"", l>>[2] = l
  OBVIOUS
<1>. QED  BY <1>1, <1>2 DEF Meaning, Shown

\* The percent sign itself.
LEMMA MeaningOfPercent ==
    Meaning(<<"%", "%">>) = <<"%">> /\ Shown(<<"%">>) = <<"%">>
<1>1. Len(<<"%">>) = 1
  OBVIOUS
<1>. QED  BY <1>1 DEF Meaning, Shown

\* A directive of three.
LEMMA MeaningOfDouble ==
    ASSUME NEW c, NEW d
    PROVE  /\ Meaning(<<"%", c, d>>) = <<c, d>>
           /\ Shown(<<c, d>>) = <<c, Swapped(d)>>
<1>1. /\ Len(<<"%", c, d>>) = 3 /\ <<"%", c, d>>[2] = c /\ <<"%", c, d>>[3] = d
      /\ <<"%", c, d>> # <<"%", "%">>
  OBVIOUS
<1>2. Len(<<c, d>>) = 2 /\ <<c, d>>[1] = c /\ <<c, d>>[2] = d
  OBVIOUS
<1>. QED  BY <1>1, <1>2 DEF Meaning, Shown

\* What is printed for a "%" that is followed by a letter.
LEMMA DirectiveIs ==
    ASSUME NEW i
    PROVE  LET c == Char(template, i + 1)
               d == Char(template, i + 2)
               is == Directive(i)
           IN /\ c = "" => is.out = <<<<"%">>>> /\ is.used = 0
              /\ c = "%" => is.out = <<<<"%">>>> /\ is.used = 1
              /\ c \in Single /\ c # "%" => is.out = <<<<"", Swapped(c)>>>> /\ is.used = 1
              /\ c = "g" /\ d \in Gmt => is.out = <<<<c, Swapped(d)>>>> /\ is.used = 2
              /\ c \in Encodings /\ d \in Fields => is.out = <<<<c, d>>>> /\ is.used = 2
              /\ c # "" /\ c \notin Single /\ ~Double(c, d)
                    => is.out = <<<<"%">>, <<c>>>> /\ is.used = 1
<1>. DEFINE c == Char(template, i + 1)
            d == Char(template, i + 2)
            is == Directive(i)
            Is(out, used) == is = [out |-> out, used |-> used]
            Others == Single \ {"%"}
<1>1. Directive(i) =
        IF c = "" THEN [out |-> <<<<"%">>>>, used |-> 0]
        ELSE IF c \in Encodings
             THEN (IF d \in Fields THEN [out |-> <<<<c, d>>>>, used |-> 2]
                   ELSE [out |-> <<<<"%">>, <<c>>>>, used |-> 1])
        ELSE IF c = "g"
             THEN (IF d \in Gmt THEN [out |-> <<<<"g", Swapped(d)>>>>, used |-> 2]
                   ELSE [out |-> <<<<"%">>, <<"g">>>>, used |-> 1])
        ELSE IF c \in {"Y", "m", "d", "H", "M", "S", "z", "t", "T", "s", "f", "n", "l", "L",
                       "h", "a", "b"}
             THEN [out |-> <<<<"", Swapped(c)>>>>, used |-> 1]
        ELSE IF c = "%" THEN [out |-> <<<<"%">>>>, used |-> 1]
        ELSE [out |-> <<<<"%">>, <<c>>>>, used |-> 1]
  BY Zenon DEF Directive, Encoded, Greenwich, Fields, Gmt
<1>2. c \in {"Y", "m", "d", "H", "M", "S", "z", "t", "T", "s", "f", "n", "l", "L", "h", "a", "b"}
        <=> c \in Others
  BY DEF Single
<1>3. /\ \A x \in Others : x \notin Encodings /\ x # "g" /\ x # "" /\ x # "%"
      /\ \A x \in Encodings : x # "" /\ x # "g" /\ x # "%" /\ x \notin Single
      /\ "g" \notin Encodings /\ "g" \notin Single /\ "%" \notin Encodings
      /\ "" \notin Single /\ "%" \in Single
  BY DEF Single, Encodings
<1>. HIDE DEF c, d, is, Others
<1>4. /\ c = "" => Is(<<<<"%">>>>, 0)
      /\ c = "%" => Is(<<<<"%">>>>, 1)
      /\ c \in Others => Is(<<<<"", Swapped(c)>>>>, 1)
      /\ c = "g" /\ d \in Gmt => Is(<<<<c, Swapped(d)>>>>, 2)
      /\ c \in Encodings /\ d \in Fields => Is(<<<<c, d>>>>, 2)
  BY <1>1, <1>2, <1>3 DEF is
<1>5. c # "" /\ c \notin Single /\ ~Double(c, d) => Is(<<<<"%">>, <<c>>>>, 1)
  BY <1>1, <1>2, <1>3 DEF is, Double, Others
<1>6. c \in Others <=> c \in Single /\ c # "%"
  BY DEF Others
<1>7. \A out, used : Is(out, used) => is.out = out /\ is.used = used
  OBVIOUS
<1>. HIDE DEF Is
<1>. QED  BY <1>4, <1>5, <1>6, <1>7 DEF c, d, is

\* An accepted directive prints what it means.
LEMMA DirectivePrints ==
    ASSUME NEW i, Accepted(i) # <<>>
    PROVE  LET piece == Meaning(<<"%">> \o Accepted(i)) IN
           /\ Directive(i).used = Len(Accepted(i)) /\ Len(Accepted(i)) \in 1 .. 2
           /\ Directive(i).out = <<Shown(piece)>>
           /\ piece \in Pairs \union {<<"%">>}
           /\ piece \in MessagePieces <=> Accepted(i) \in TheMessage
<1>. DEFINE c == Char(template, i + 1)
            d == Char(template, i + 2)
            a == Accepted(i)
            piece == Meaning(<<"%">> \o a)
            Goal == /\ Directive(i).used = Len(a) /\ Len(a) \in 1 .. 2
                    /\ Directive(i).out = <<Shown(piece)>>
                    /\ piece \in Pairs \union {<<"%">>}
                    /\ piece \in MessagePieces <=> a \in TheMessage
<1>1. /\ c = "%" => Directive(i).out = <<<<"%">>>> /\ Directive(i).used = 1
      /\ c \in Single /\ c # "%" => Directive(i).out = <<<<"", Swapped(c)>>>> /\ Directive(i).used = 1
      /\ c = "g" /\ d \in Gmt => Directive(i).out = <<<<c, Swapped(d)>>>> /\ Directive(i).used = 2
      /\ c \in Encodings /\ d \in Fields => Directive(i).out = <<<<c, d>>>> /\ Directive(i).used = 2
  BY DirectiveIs
<1>2. /\ c \in Single => a = <<c>>
      /\ Double(c, d) => a = <<c, d>> /\ c \notin Single
      /\ c \notin Single /\ ~Double(c, d) => a = <<>>
  BY AcceptedIs
<1>. HIDE DEF c, d, a
<1>3. ASSUME c = "%" PROVE Goal
  <2>1. "%" \in Single
    BY DEF Single
  <2>2. a = <<"%">>
    BY <1>2, <1>3, <2>1
  <2>3. <<"%">> \o a = <<"%", "%">>
    BY <2>2, PairConcat
  <2>4. piece = <<"%">> /\ Shown(piece) = <<"%">>
    BY <2>3, MeaningOfPercent
  <2>5. Len(a) = 1
    BY <2>2
  <2>6. <<"%">> \notin TheMessage /\ <<"%">> \notin MessagePieces
    BY DEF TheMessage, MessagePieces
  <2>. HIDE DEF piece
  <2>. QED  BY <1>1, <1>3, <2>2, <2>4, <2>5, <2>6
<1>4. ASSUME c \in Single, c # "%" PROVE Goal
  <2>1. a = <<c>>
    BY <1>2, <1>4
  <2>2. <<"%">> \o a = <<"%", c>>
    BY <2>1, PairConcat
  <2>3. piece = <<"", c>> /\ Shown(piece) = <<"", Swapped(c)>>
    BY <1>4, <2>2, MeaningOfSingle
  <2>4. Len(a) = 1
    BY <2>1
  <2>5. <<"", c>> \in Pairs
    <3>1. "" \in Encodings \union {"", "g"}
      OBVIOUS
    <3>. QED  BY <1>4, <3>1 DEF Pairs
  <2>6. <<c>> \in TheMessage <=> c = "s"
    BY DEF TheMessage
  <2>7. <<"", c>> \in MessagePieces <=> c = "s"
    BY DEF MessagePieces
  <2>8. Directive(i).out = <<<<"", Swapped(c)>>>>
    BY <1>1, <1>4
  <2>12. Directive(i).used = 1
    BY <1>1, <1>4
  <2>. HIDE DEF piece
  <2>9. Directive(i).used = Len(a) /\ Len(a) \in 1 .. 2
    BY <2>4, <2>12
  <2>11. Directive(i).out = <<Shown(piece)>>
    BY <2>3, <2>8, Zenon
  <2>10. piece \in Pairs /\ (piece \in MessagePieces <=> a \in TheMessage)
    BY <2>1, <2>3, <2>5, <2>6, <2>7, Zenon
  <2>. QED  BY <2>9, <2>10, <2>11
<1>5. ASSUME Double(c, d) PROVE Goal
  <2>1. a = <<c, d>>
    BY <1>2, <1>5
  <2>2. <<"%">> \o a = <<"%", c, d>>
    BY <2>1, TripleConcat
  <2>3. piece = <<c, d>> /\ Shown(piece) = <<c, Swapped(d)>>
    BY <2>2, MeaningOfDouble
  <2>4. Len(a) = 2
    BY <2>1
  <2>5. c \in Encodings \union {"", "g"} /\ d \in Single
    BY <1>5, LetterFacts DEF Double
  <2>6. <<c, d>> \in Pairs
    BY <2>5 DEF Pairs
  <2>7. <<c, d>> \in TheMessage <=> c \in Encodings /\ d = "s"
    BY DEF TheMessage
  <2>8. <<c, d>> \in MessagePieces <=> c \in Encodings \union {""} /\ d = "s"
    BY DEF MessagePieces
  <2>9. c # ""
    BY <1>5, LettersAre
  <2>10. Directive(i).out = <<<<c, Swapped(d)>>>> /\ Directive(i).used = 2
    BY <1>1, <1>5, LetterFacts DEF Double
  <2>. HIDE DEF piece
  <2>11. Directive(i).used = Len(a) /\ Len(a) \in 1 .. 2 /\ Directive(i).out = <<Shown(piece)>>
    BY <2>3, <2>4, <2>10
  <2>12. c \in Encodings \union {""} <=> c \in Encodings
    BY <2>9
  <2>13. piece \in Pairs /\ (piece \in MessagePieces <=> a \in TheMessage)
    BY <2>1, <2>3, <2>6, <2>7, <2>8, <2>12, Zenon
  <2>. QED  BY <2>11, <2>13
<1>6. c = "%" \/ (c \in Single /\ c # "%") \/ Double(c, d)
  BY <1>2 DEF a
<1>7. Goal
  <2>. HIDE DEF Goal
  <2>. QED  BY <1>3, <1>4, <1>5, <1>6
<1>. QED  BY <1>7 DEF a

-----------------------------------------------------------------------------
(* The check, the printing and the pieces, one beside the other.           *)

\* The functions that check a template, print it, and cut it into pieces.
OkFrom(f, i) ==
    IF Char(template, i) = "" THEN {}
    ELSE IF Char(template, i) # "%" THEN f[i + 1]
    ELSE IF Accepted(i) = <<>> THEN {<<>>}
    ELSE {Accepted(i)} \union f[i + 1 + Len(Accepted(i))]

PrintFrom(f, i) ==
    IF Char(template, i) = "" THEN <<>>
    ELSE IF Char(template, i) # "%" THEN <<<<Char(template, i)>>>> \o f[i + 1]
    ELSE Directive(i).out \o f[i + 1 + Directive(i).used]

PieceFrom(f, i) ==
    LET heads == {p \in Directives : IsPrefix(p, SubSeq(template, i + 1, Len(template)))} IN
    IF i = Len(template) THEN <<>>
    ELSE IF heads # {} THEN LET p == CHOOSE p \in heads : TRUE IN <<Meaning(p)>> \o f[i + Len(p)]
    ELSE IF template[i + 1] = "%" THEN <<Unknown>>
    ELSE <<<<template[i + 1]>>>> \o f[i + 1]

OkBody(f)    == [i \in 0 .. Len(template) |-> OkFrom(f, i)]
PrintBody(f) == [i \in 0 .. Len(template) |-> PrintFrom(f, i)]
PieceBody(f) == [i \in 0 .. Len(template) |-> PieceFrom(f, i)]

Checking    == CHOOSE f : f = OkBody(f)
Printing == CHOOSE f : f = PrintBody(f)
Cutting == CHOOSE f : f = PieceBody(f)

\* They begin at the first character.
LEMMA ScanDefinitions ==
    /\ is_valid_log_template <=> <<>> \notin Checking[0] /\ Checking[0] \intersect TheMessage # {}
    /\ print_log_template = Printing[0]
    /\ Pieces = Cutting[0]
<1>1. is_valid_log_template <=> <<>> \notin Checking[0] /\ Checking[0] \intersect TheMessage # {}
  BY Zenon DEF is_valid_log_template, Checking, OkBody, OkFrom, TheMessage
<1>2. print_log_template = Printing[0]
  BY Zenon DEF print_log_template, Printing, PrintBody, PrintFrom
<1>3. Pieces = Cutting[0]
  BY Zenon DEF Pieces, Cutting, PieceBody, PieceFrom
<1>. QED  BY <1>1, <1>2, <1>3

\* Where a scan ends, where it finds a directive that is not known, and where it goes on.
Ended(i) == Char(template, i) = ""
Bad(i)   == Char(template, i) = "%" /\ Accepted(i) = <<>>
Ahead(i) == IF Char(template, i) = "%" THEN i + 1 + Len(Accepted(i)) ELSE i + 1
Here(i)  == IF Char(template, i) = "%" THEN Meaning(<<"%">> \o Accepted(i)) ELSE <<Char(template, i)>>

\* What is accepted does not reach beyond the end.
LEMMA AheadType ==
    ASSUME IsTemplate, NEW i \in 0 .. Len(template), ~Ended(i), ~Bad(i)
    PROVE  Ahead(i) \in i + 1 .. Len(template)
<1>. DEFINE c == Char(template, i + 1)
            d == Char(template, i + 2)
            N == Len(template)
<1>1. N \in Nat /\ i \in Nat /\ i + 1 \in Nat /\ i + 2 \in Nat
  BY DEF IsTemplate
<1>2. (c # "" => i + 1 < N) /\ (d # "" => i + 2 < N)
  BY <1>1, Reads
<1>7. i < N
  BY <1>1, Reads DEF Ended
<1>3. /\ c \in Single => Accepted(i) = <<c>>
      /\ Double(c, d) => Accepted(i) = <<c, d>>
      /\ c \notin Single /\ ~Double(c, d) => Accepted(i) = <<>>
  BY AcceptedIs
<1>. HIDE DEF c, d, N
<1>4. CASE Char(template, i) # "%"
  <2>1. Ahead(i) = i + 1
    BY <1>4, Zenon DEF Ahead
  <2>. QED  BY <1>1, <1>7, <2>1 DEF N
<1>5. CASE Char(template, i) = "%" /\ c \in Single
  <2>1. Len(Accepted(i)) = 1
    BY <1>3, <1>5
  <2>2. i + 1 < N
    BY <1>2, <1>5, LettersAre
  <2>3. Ahead(i) = i + 1 + Len(Accepted(i))
    BY <1>5 DEF Ahead
  <2>. QED  BY <1>1, <2>1, <2>2, <2>3 DEF N
<1>6. CASE Char(template, i) = "%" /\ Double(c, d)
  <2>1. Len(Accepted(i)) = 2
    BY <1>3, <1>6
  <2>2. i + 2 < N
    BY <1>2, <1>6, LettersAre
  <2>3. Ahead(i) = i + 1 + Len(Accepted(i))
    BY <1>6 DEF Ahead
  <2>. QED  BY <1>1, <2>1, <2>2, <2>3 DEF N
<1>. QED  BY <1>3, <1>4, <1>5, <1>6 DEF Bad

\* What cuts a template in pieces does so where the check goes on.
LEMMA PieceFromIs ==
    ASSUME IsTemplate, NEW i \in 0 .. Len(template), NEW f
    PROVE  /\ Ended(i) => PieceFrom(f, i) = <<>>
           /\ Bad(i) => PieceFrom(f, i) = <<Unknown>>
           /\ ~Ended(i) /\ ~Bad(i) => PieceFrom(f, i) = <<Here(i)>> \o f[Ahead(i)]
<1>. DEFINE N == Len(template)
            heads == {p \in Directives : IsPrefix(p, SubSeq(template, i + 1, N))}
            key == <<"%">> \o Accepted(i)
<1>1. N \in Nat /\ i \in Nat
  BY DEF IsTemplate
<1>2. (i < N <=> ~Ended(i)) /\ (i < N => Char(template, i) = template[i + 1])
  BY <1>1, Reads DEF Ended
<1>3. CASE Ended(i)
  <2>1. i = N
    BY <1>1, <1>2, <1>3
  <2>2. ~Bad(i)
    <3>1. "" # "%"
      OBVIOUS
    <3>. QED  BY <1>3, <3>1 DEF Bad, Ended
  <2>. QED  BY <1>3, <2>1, <2>2 DEF PieceFrom
<1>4. CASE ~Ended(i)
  <2>1. i \in 0 .. N - 1 /\ i # N /\ template[i + 1] = Char(template, i)
    BY <1>1, <1>2, <1>4
  <2>2. \A p \in Directives :
            p \in heads <=> Char(template, i) = "%" /\ Accepted(i) # <<>> /\ p = key
    BY <2>1, Heads
  <2>. HIDE DEF N
  <2>3. CASE Char(template, i) = "%" /\ Accepted(i) # <<>>
    <3>1. key \in Directives
      <4>. DEFINE c == Char(template, i + 1)
                  d == Char(template, i + 2)
      <4>1. (c \in Single /\ Accepted(i) = <<c>>) \/ (Double(c, d) /\ Accepted(i) = <<c, d>>)
        BY <2>3, AcceptedIs
      <4>. HIDE DEF c, d
      <4>2. (c \in Single /\ key = <<"%", c>>) \/ (Double(c, d) /\ key = <<"%", c, d>>)
        BY <4>1, PairConcat, TripleConcat
      <4>. HIDE DEF key
      <4>. QED  BY <4>2, DirectiveCases, Zenon
    <3>2. heads = {key}
      <4>. HIDE DEF key
      <4>1. key \in heads
        BY <2>2, <2>3, <3>1
      <4>2. \A p \in heads : p = key
        BY <2>2
      <4>. HIDE DEF heads
      <4>. QED  BY <4>1, <4>2
    <3>3. (CHOOSE p \in heads : TRUE) = key /\ heads # {}
      <4>. HIDE DEF key, heads
      <4>. QED  BY <3>2
    <3>4. i + Len(key) = Ahead(i)
      <4>1. \A S : \A s \in Seq(S) : Len(<<"%">> \o s) = 1 + Len(s) /\ Len(s) \in Nat
        <5>1. SUFFICES ASSUME NEW S, NEW s \in Seq(S)
                       PROVE  Len(<<"%">> \o s) = 1 + Len(s) /\ Len(s) \in Nat
          OBVIOUS
        <5>. QED  OBVIOUS
      <4>2. \E S : Accepted(i) \in Seq(S)
        <5>. DEFINE c == Char(template, i + 1)
                    d == Char(template, i + 2)
        <5>1. Accepted(i) = <<c>> \/ Accepted(i) = <<c, d>>
          BY <2>3, AcceptedIs
        <5>. HIDE DEF c, d
        <5>2. <<c>> \in Seq({c}) /\ <<c, d>> \in Seq({c, d})
          BY SingleFacts, PairFacts
        <5>. QED  BY <5>1, <5>2
      <4>3. Len(key) = 1 + Len(Accepted(i)) /\ Len(Accepted(i)) \in Nat
        BY <4>1, <4>2, Zenon
      <4>4. Ahead(i) = i + 1 + Len(Accepted(i))
        BY <2>3 DEF Ahead
      <4>. HIDE DEF key
      <4>. QED  BY <1>1, <4>3, <4>4
    <3>5. Here(i) = Meaning(key)
      BY <2>3 DEF Here
    <3>6. PieceFrom(f, i) = <<Meaning(key)>> \o f[i + Len(key)]
      <4>. HIDE DEF key
      <4>. QED  BY <2>1, <3>3, Zenon DEF PieceFrom, N
    <3>. HIDE DEF key
    <3>. QED  BY <1>4, <2>3, <3>4, <3>5, <3>6 DEF Bad
  <2>4. CASE ~(Char(template, i) = "%" /\ Accepted(i) # <<>>)
    <3>1. heads = {}
      <4>. HIDE DEF key
      <4>1. \A p \in heads : FALSE
        BY <2>2, <2>4
      <4>. HIDE DEF heads
      <4>. QED  BY <4>1
    <3>2. PieceFrom(f, i) = IF template[i + 1] = "%" THEN <<Unknown>>
                            ELSE <<<<template[i + 1]>>>> \o f[i + 1]
      BY <2>1, <3>1, Zenon DEF PieceFrom, N
    <3>3. CASE Char(template, i) = "%"
      BY <1>4, <2>1, <2>4, <3>2, <3>3, Zenon DEF Bad
    <3>4. CASE Char(template, i) # "%"
      BY <1>4, <2>1, <3>2, <3>4, Zenon DEF Bad, Here, Ahead
    <3>. QED  BY <3>3, <3>4
  <2>. QED  BY <2>3, <2>4
<1>. QED  BY <1>3, <1>4

\* A place before the end.
LEMMA BeforeEnd ==
    ASSUME IsTemplate, NEW i \in 0 .. Len(template), ~Ended(i)
    PROVE  i \in Nat /\ i < Len(template) /\ Char(template, i) \in Characters
<1>1. i \in Nat /\ Len(template) \in Nat
  BY DEF IsTemplate
<1>2. i < Len(template)
  BY <1>1, Reads, Zenon DEF Ended
<1>3. Char(template, i) \in Characters
  BY <1>1, <1>2, Reads
<1>. QED  BY <1>1, <1>2, <1>3

\* Pairs of letters.
LEMMA PairsFacts ==
    /\ \A a \in Encodings \union {"", "g"}, b \in Single : <<a, b>> \in Pairs
    /\ \A x \in Pairs : \E a \in Encodings \union {"", "g"}, b \in Single : x = <<a, b>>
<1>. DEFINE A == Encodings \union {"", "g"}
            B == Single
<1>1. Pairs = A \X B
  BY DEF Pairs
<1>2. /\ \A a \in A, b \in B : <<a, b>> \in A \X B
      /\ \A x \in A \X B : \E a \in A, b \in B : x = <<a, b>>
  <2>. HIDE DEF A, B
  <2>. QED  BY ProductFacts
<1>. QED  BY <1>1, <1>2

\* The pieces of a template, and what is printed for them, are items.
LEMMA HereType ==
    ASSUME IsTemplate, NEW i \in 0 .. Len(template), ~Ended(i), ~Bad(i)
    PROVE  Here(i) \in Items /\ Here(i) # Unknown /\ Shown(Here(i)) \in Items
<1>1. i \in Nat /\ Char(template, i) \in Characters
  BY BeforeEnd
<1>2. Pairs \subseteq Items /\ \A c \in Characters : <<c>> \in Items
  BY DEF Items
<1>3. \A c : Len(<<c>>) = 1 /\ <<c>> # Unknown
  BY DEF Unknown
<1>4. CASE Char(template, i) # "%"
  <2>1. Here(i) = <<Char(template, i)>>
    BY <1>4, Zenon DEF Here
  <2>2. Len(Here(i)) # 2
    BY <1>3, <2>1
  <2>. QED  BY <1>1, <1>2, <1>3, <2>1, <2>2 DEF Shown
<1>5. CASE Char(template, i) = "%"
  <2>1. Accepted(i) # <<>>
    BY <1>5 DEF Bad
  <2>2. Here(i) = Meaning(<<"%">> \o Accepted(i))
    BY <1>5, Zenon DEF Here
  <2>3. Here(i) \in Pairs \/ Here(i) = <<"%">>
    <3>1. Meaning(<<"%">> \o Accepted(i)) \in Pairs \union {<<"%">>}
      BY <2>1, DirectivePrints
    <3>. QED  BY <2>2, <3>1
  <2>4. CASE Here(i) = <<"%">>
    <3>1. Len(Here(i)) # 2
      BY <1>3, <2>4
    <3>2. Here(i) = <<Char(template, i)>>
      BY <1>5, <2>4
    <3>. QED  BY <1>1, <1>2, <1>3, <3>1, <3>2 DEF Shown
  <2>5. CASE Here(i) \in Pairs
    <3>1. PICK a \in Encodings \union {"", "g"}, b \in Single : Here(i) = <<a, b>>
      BY <2>5, PairsFacts, Zenon
    <3>2. Swapped(b) \in Single
      BY LetterFacts
    <3>3. Shown(Here(i)) = <<a, Swapped(b)>>
      BY <3>1, MeaningOfDouble
    <3>4. Shown(Here(i)) \in Pairs
      BY <3>2, <3>3, PairsFacts, Zenon
    <3>5. b # "unknown"
      BY LetterFacts
    <3>6. <<a, b>> # Unknown
      BY <3>5 DEF Unknown
    <3>. QED  BY <1>2, <2>5, <3>1, <3>4, <3>6
  <2>. QED  BY <2>3, <2>4, <2>5
<1>. QED  BY <1>4, <1>5

\* What is printed at a place, and where it goes on.
Out(i)  == IF Char(template, i) = "%" THEN Directive(i).out ELSE <<<<Char(template, i)>>>>
Onto(i) == IF Char(template, i) = "%" THEN i + 1 + Directive(i).used ELSE i + 1

\* Where the check goes on the printing goes on, too.
LEMMA OutIs ==
    ASSUME NEW i, ~Ended(i), ~Bad(i)
    PROVE  Out(i) = <<Shown(Here(i))>> /\ Onto(i) = Ahead(i)
<1>1. CASE Char(template, i) # "%"
  <2>1. Here(i) = <<Char(template, i)>> /\ Out(i) = <<<<Char(template, i)>>>>
    BY <1>1, Zenon DEF Here, Out
  <2>2. Len(Here(i)) # 2
    <3>1. \A c : Len(<<c>>) = 1
      OBVIOUS
    <3>. QED  BY <2>1, <3>1
  <2>3. Onto(i) = i + 1 /\ Ahead(i) = i + 1
    BY <1>1, Zenon DEF Onto, Ahead
  <2>4. Shown(Here(i)) = Here(i)
    BY <2>2, Zenon DEF Shown
  <2>. QED  BY <2>1, <2>3, <2>4
<1>2. CASE Char(template, i) = "%"
  <2>1. Accepted(i) # <<>>
    BY <1>2 DEF Bad
  <2>2. /\ Here(i) = Meaning(<<"%">> \o Accepted(i)) /\ Out(i) = Directive(i).out
        /\ Onto(i) = i + 1 + Directive(i).used /\ Ahead(i) = i + 1 + Len(Accepted(i))
    BY <1>2, Zenon DEF Here, Out, Onto, Ahead
  <2>3. /\ Directive(i).used = Len(Accepted(i))
        /\ Directive(i).out = <<Shown(Meaning(<<"%">> \o Accepted(i)))>>
    BY <2>1, DirectivePrints
  <2>. QED  BY <2>2, <2>3
<1>. QED  BY <1>1, <1>2

\* The printing goes on within the template too, whatever it finds.
LEMMA OutType ==
    ASSUME IsTemplate, NEW i \in 0 .. Len(template), ~Ended(i)
    PROVE  Out(i) \in Seq(Items) /\ Onto(i) \in i + 1 .. Len(template)
<1>1. CASE ~Bad(i)
  <2>1. Out(i) = <<Shown(Here(i))>> /\ Onto(i) = Ahead(i)
    BY <1>1, OutIs
  <2>2. Shown(Here(i)) \in Items /\ Ahead(i) \in i + 1 .. Len(template)
    BY <1>1, HereType, AheadType
  <2>3. \A x \in Items : <<x>> \in Seq(Items)
    OBVIOUS
  <2>. QED  BY <2>1, <2>2, <2>3
<1>2. CASE Bad(i)
  <2>. DEFINE c == Char(template, i + 1)
              d == Char(template, i + 2)
              N == Len(template)
  <2>1. Char(template, i) = "%" /\ Accepted(i) = <<>>
    BY <1>2 DEF Bad
  <2>2. N \in Nat /\ i \in Nat /\ i + 1 \in Nat /\ Char(template, i) \in Characters /\ i < N
    BY BeforeEnd DEF IsTemplate
  <2>12. c # "" => c \in Characters /\ i + 1 < N
    BY <2>2, Reads, Zenon
  <2>3. Out(i) = Directive(i).out /\ Onto(i) = i + 1 + Directive(i).used
    BY <2>1, Zenon DEF Out, Onto
  <2>4. c \notin Single /\ ~Double(c, d)
    <3>1. /\ c \in Single => Accepted(i) = <<c>>
          /\ Double(c, d) => Accepted(i) = <<c, d>>
      BY AcceptedIs
    <3>2. <<c>> # <<>> /\ <<c, d>> # <<>>
      OBVIOUS
    <3>. QED  BY <2>1, <3>1, <3>2
  <2>5. /\ c = "" => Directive(i).out = <<<<"%">>>> /\ Directive(i).used = 0
        /\ c # "" => Directive(i).out = <<<<"%">>, <<c>>>> /\ Directive(i).used = 1
    BY <2>4, DirectiveIs
  <2>6. "%" \in Characters
    BY <2>1, <2>2
  <2>7. <<"%">> \in Items /\ (c # "" => <<c>> \in Items)
    BY <2>6, <2>12 DEF Items
  <2>8. \A x, y \in Items : <<x>> \in Seq(Items) /\ <<x, y>> \in Seq(Items)
    OBVIOUS
  <2>. HIDE DEF c, d, N
  <2>9. Out(i) \in Seq(Items)
    BY <2>3, <2>5, <2>7, <2>8, Zenon
  <2>10. CASE c = ""
    <3>1. Directive(i).used = 0
      BY <2>5, <2>10
    <3>2. Onto(i) = i + 1
      BY <2>2, <2>3, <3>1
    <3>. QED  BY <2>2, <2>9, <3>2 DEF N
  <2>11. CASE c # ""
    <3>1. Directive(i).used = 1
      BY <2>5, <2>11, Zenon
    <3>2. i + 1 < N
      BY <2>11, <2>12, Zenon
    <3>3. Onto(i) = i + 2
      BY <2>2, <2>3, <3>1
    <3>. QED  BY <2>2, <2>9, <3>2, <3>3 DEF N
  <2>. QED  BY <2>10, <2>11
<1>. QED  BY <1>1, <1>2

\* What the check finds at a place.
Found(i) == IF Char(template, i) = "%" THEN {Accepted(i)} ELSE {}

\* A step of the check, and one of the printing.
LEMMA OkFromIs ==
    ASSUME NEW i, NEW f
    PROVE  /\ Ended(i) => OkFrom(f, i) = {}
           /\ Bad(i) => OkFrom(f, i) = {<<>>}
           /\ ~Ended(i) /\ ~Bad(i) => OkFrom(f, i) = Found(i) \union f[Ahead(i)]
<1>1. "" # "%"
  OBVIOUS
<1>2. ASSUME NEW s PROVE {} \union s = s
  OBVIOUS
<1>. QED  BY <1>1, <1>2, Zenon DEF OkFrom, Ended, Bad, Ahead, Found

\* A step of the printing.
LEMMA PrintFromIs ==
    ASSUME NEW i, NEW f
    PROVE  /\ Ended(i) => PrintFrom(f, i) = <<>>
           /\ ~Ended(i) => PrintFrom(f, i) = Out(i) \o f[Onto(i)]
BY Zenon DEF PrintFrom, Ended, Out, Onto

\* The three functions are there.
LEMMA CheckingIs ==
    ASSUME IsTemplate
    PROVE  \A i \in 0 .. Len(template) : Checking[i] = OkFrom(Checking, i)
<1>. DEFINE N == Len(template)
            S == SUBSET ({Accepted(i) : i \in 0 .. N} \union {<<>>})
            stops == {i \in 0 .. N : Ended(i) \/ Bad(i)}
            result == [i \in 0 .. N |-> IF Ended(i) THEN {} ELSE {<<>>}]
            next == [i \in 0 .. N |-> Ahead(i)]
            step == [i \in 0 .. N |-> [s \in S |-> Found(i) \union s]]
<1>1. N \in Nat
  BY DEF IsTemplate
<1>2. \A i \in 0 .. N : IF i \in stops THEN result[i] \in S
                        ELSE next[i] \in i + 1 .. N /\ step[i] \in [S -> S]
  <2>1. ASSUME NEW i \in 0 .. N, i \notin stops
        PROVE  next[i] \in i + 1 .. N /\ step[i] \in [S -> S]
    <3>1. next[i] \in i + 1 .. N
      BY <2>1, AheadType
    <3>2. Found(i) \in S
      BY DEF Found
    <3>3. \A s \in S : Found(i) \union s \in S
      BY <3>2
    <3>. HIDE DEF S
    <3>. QED  BY <3>1, <3>3
  <2>2. ASSUME NEW i \in 0 .. N PROVE result[i] \in S
    OBVIOUS
  <2>. HIDE DEF stops, result, next, step, S
  <2>. QED  BY <2>1, <2>2
<1>3. PICK f \in [0 .. N -> S] : Forward(f, N, stops, result, next, step)
  <2>. HIDE DEF N, stops, result, next, step, S
  <2>. QED  BY <1>1, <1>2, ForwardExists
<1>4. ASSUME NEW i \in 0 .. N
      PROVE  (IF i \in stops THEN result[i] ELSE step[i][f[next[i]]]) = OkFrom(f, i)
  <2>1. CASE Ended(i)
    BY <2>1, OkFromIs
  <2>2. CASE ~Ended(i) /\ Bad(i)
    BY <2>2, OkFromIs
  <2>3. CASE ~Ended(i) /\ ~Bad(i)
    <3>1. i \notin stops /\ next[i] = Ahead(i) /\ Ahead(i) \in 0 .. N
      BY <2>3, AheadType, <1>1
    <3>2. f[Ahead(i)] \in S
      BY <1>3, <3>1
    <3>3. step[i][f[Ahead(i)]] = Found(i) \union f[Ahead(i)]
      BY <3>2
    <3>4. OkFrom(f, i) = Found(i) \union f[Ahead(i)]
      BY <2>3, OkFromIs
    <3>. HIDE DEF stops, step, next
    <3>. QED  BY <3>1, <3>3, <3>4
  <2>. QED  BY <2>1, <2>2, <2>3
<1>5. f = OkBody(f)
  <2>1. f = [i \in 0 .. N |-> IF i \in stops THEN result[i] ELSE step[i][f[next[i]]]]
    <3>. HIDE DEF N, stops, result, next, step, S
    <3>. QED  BY <1>3, Zenon DEF Forward
  <2>. HIDE DEF stops, result, next, step, S
  <2>. QED  BY <1>4, <2>1, Zenon DEF OkBody
<1>6. Checking = OkBody(Checking)
  BY <1>5, Zenon DEF Checking
<1>. QED  BY <1>6, Zenon DEF OkBody

\* The printing is one.
LEMMA PrintingIs ==
    ASSUME IsTemplate
    PROVE  \A i \in 0 .. Len(template) : Printing[i] = PrintFrom(Printing, i)
<1>. DEFINE N == Len(template)
            S == Seq(Items)
            stops == {i \in 0 .. N : Ended(i)}
            result == [i \in 0 .. N |-> <<>>]
            next == [i \in 0 .. N |-> Onto(i)]
            step == [i \in 0 .. N |-> [s \in S |-> Out(i) \o s]]
<1>1. N \in Nat
  BY DEF IsTemplate
<1>2. \A i \in 0 .. N : IF i \in stops THEN result[i] \in S
                        ELSE next[i] \in i + 1 .. N /\ step[i] \in [S -> S]
  <2>1. ASSUME NEW i \in 0 .. N, i \notin stops
        PROVE  next[i] \in i + 1 .. N /\ step[i] \in [S -> S]
    <3>1. next[i] \in i + 1 .. N /\ Out(i) \in S
      BY <2>1, OutType
    <3>3. \A s \in S : Out(i) \o s \in S
      BY <3>1
    <3>. HIDE DEF S
    <3>. QED  BY <3>1, <3>3
  <2>2. ASSUME NEW i \in 0 .. N PROVE result[i] \in S
    OBVIOUS
  <2>. HIDE DEF stops, result, next, step, S
  <2>. QED  BY <2>1, <2>2
<1>3. PICK f \in [0 .. N -> S] : Forward(f, N, stops, result, next, step)
  <2>. HIDE DEF N, stops, result, next, step, S
  <2>. QED  BY <1>1, <1>2, ForwardExists
<1>4. ASSUME NEW i \in 0 .. N
      PROVE  (IF i \in stops THEN result[i] ELSE step[i][f[next[i]]]) = PrintFrom(f, i)
  <2>1. CASE Ended(i)
    BY <2>1, PrintFromIs
  <2>2. CASE ~Ended(i)
    <3>1. i \notin stops /\ next[i] = Onto(i) /\ Onto(i) \in 0 .. N
      BY <2>2, OutType, <1>1
    <3>2. f[Onto(i)] \in S
      BY <1>3, <3>1
    <3>3. step[i][f[Onto(i)]] = Out(i) \o f[Onto(i)]
      <4>. HIDE DEF S
      <4>. QED  BY <3>2
    <3>4. PrintFrom(f, i) = Out(i) \o f[Onto(i)]
      BY <2>2, PrintFromIs
    <3>. HIDE DEF stops, step, next
    <3>. QED  BY <3>1, <3>3, <3>4
  <2>. QED  BY <2>1, <2>2
<1>5. f = PrintBody(f)
  <2>1. f = [i \in 0 .. N |-> IF i \in stops THEN result[i] ELSE step[i][f[next[i]]]]
    <3>. HIDE DEF N, stops, result, next, step, S
    <3>. QED  BY <1>3, Zenon DEF Forward
  <2>. HIDE DEF stops, result, next, step, S
  <2>. QED  BY <1>4, <2>1, Zenon DEF PrintBody
<1>6. Printing = PrintBody(Printing)
  BY <1>5, Zenon DEF Printing
<1>. QED  BY <1>6, Zenon DEF PrintBody

\* And so is the cutting.
LEMMA CuttingIs ==
    ASSUME IsTemplate
    PROVE  \A i \in 0 .. Len(template) : Cutting[i] = PieceFrom(Cutting, i)
<1>. DEFINE N == Len(template)
            S == Seq(Items)
            stops == {i \in 0 .. N : Ended(i) \/ Bad(i)}
            result == [i \in 0 .. N |-> IF Ended(i) THEN <<>> ELSE <<Unknown>>]
            next == [i \in 0 .. N |-> Ahead(i)]
            step == [i \in 0 .. N |-> [s \in S |-> <<Here(i)>> \o s]]
<1>1. N \in Nat
  BY DEF IsTemplate
<1>2. \A i \in 0 .. N : IF i \in stops THEN result[i] \in S
                        ELSE next[i] \in i + 1 .. N /\ step[i] \in [S -> S]
  <2>1. ASSUME NEW i \in 0 .. N, i \notin stops
        PROVE  next[i] \in i + 1 .. N /\ step[i] \in [S -> S]
    <3>1. next[i] \in i + 1 .. N /\ Here(i) \in Items
      BY <2>1, AheadType, HereType
    <3>3. \A s \in S : <<Here(i)>> \o s \in S
      BY <3>1
    <3>. HIDE DEF S
    <3>. QED  BY <3>1, <3>3
  <2>2. ASSUME NEW i \in 0 .. N PROVE result[i] \in S
    <3>1. Unknown \in Items
      BY DEF Items
    <3>. HIDE DEF Unknown
    <3>. QED  BY <3>1
  <2>. HIDE DEF stops, result, next, step, S
  <2>. QED  BY <2>1, <2>2
<1>3. PICK f \in [0 .. N -> S] : Forward(f, N, stops, result, next, step)
  <2>. HIDE DEF N, stops, result, next, step, S
  <2>. QED  BY <1>1, <1>2, ForwardExists
<1>4. ASSUME NEW i \in 0 .. N
      PROVE  (IF i \in stops THEN result[i] ELSE step[i][f[next[i]]]) = PieceFrom(f, i)
  <2>1. CASE Ended(i)
    BY <2>1, PieceFromIs
  <2>2. CASE ~Ended(i) /\ Bad(i)
    BY <2>2, PieceFromIs
  <2>3. CASE ~Ended(i) /\ ~Bad(i)
    <3>1. i \notin stops /\ next[i] = Ahead(i) /\ Ahead(i) \in 0 .. N
      BY <2>3, AheadType, <1>1
    <3>2. f[Ahead(i)] \in S
      BY <1>3, <3>1
    <3>3. step[i][f[Ahead(i)]] = <<Here(i)>> \o f[Ahead(i)]
      <4>. HIDE DEF S
      <4>. QED  BY <3>2
    <3>4. PieceFrom(f, i) = <<Here(i)>> \o f[Ahead(i)]
      BY <2>3, PieceFromIs
    <3>. HIDE DEF stops, step, next
    <3>. QED  BY <3>1, <3>3, <3>4
  <2>. QED  BY <2>1, <2>2, <2>3
<1>5. f = PieceBody(f)
  <2>1. f = [i \in 0 .. N |-> IF i \in stops THEN result[i] ELSE step[i][f[next[i]]]]
    <3>. HIDE DEF N, stops, result, next, step, S
    <3>. QED  BY <1>3, Zenon DEF Forward
  <2>. HIDE DEF stops, result, next, step, S
  <2>. QED  BY <1>4, <2>1, Zenon DEF PieceBody
<1>6. Cutting = PieceBody(Cutting)
  BY <1>5, Zenon DEF Cutting
<1>. QED  BY <1>6, Zenon DEF PieceBody

\* What is printed for the pieces of a template.
ShownAll(pieces) == [k \in DOMAIN pieces |-> Shown(pieces[k])]

\* Piece by piece.
LEMMA ShownAllFacts ==
    ASSUME NEW S, NEW x \in S, NEW s \in Seq(S)
    PROVE  /\ ShownAll(<<>>) = <<>>
           /\ ShownAll(<<x>> \o s) = <<Shown(x)>> \o ShownAll(s)
<1>. DEFINE I == {Shown(y) : y \in S}
            l == ShownAll(<<x>> \o s)
            r == <<Shown(x)>> \o ShownAll(s)
            n == Len(s)
<1>1. ShownAll(<<>>) = <<>>
  BY DEF ShownAll
<1>2. /\ <<x>> \o s \in Seq(S) /\ Len(<<x>> \o s) = n + 1 /\ (<<x>> \o s)[1] = x
      /\ \A k \in 1 .. n : (<<x>> \o s)[k + 1] = s[k]
  BY Prepend
<1>3. \A t \in Seq(S) : /\ ShownAll(t) \in Seq(I) /\ Len(ShownAll(t)) = Len(t)
                        /\ \A k \in 1 .. Len(t) : ShownAll(t)[k] = Shown(t[k])
  <2>1. SUFFICES ASSUME NEW t \in Seq(S)
                 PROVE  /\ ShownAll(t) \in Seq(I) /\ Len(ShownAll(t)) = Len(t)
                        /\ \A k \in 1 .. Len(t) : ShownAll(t)[k] = Shown(t[k])
    OBVIOUS
  <2>2. DOMAIN t = 1 .. Len(t) /\ Len(t) \in Nat /\ \A k \in 1 .. Len(t) : Shown(t[k]) \in I
    OBVIOUS
  <2>3. ShownAll(t) = [k \in 1 .. Len(t) |-> Shown(t[k])]
    BY <2>2 DEF ShownAll
  <2>. HIDE DEF I
  <2>. QED  BY <2>2, <2>3
<1>4. Shown(x) \in I
  OBVIOUS
<1>. HIDE DEF I
<1>5. /\ r \in Seq(I) /\ Len(r) = n + 1 /\ r[1] = Shown(x)
      /\ \A k \in 1 .. n : r[k + 1] = Shown(s[k])
  <2>1. ShownAll(s) \in Seq(I) /\ Len(ShownAll(s)) = n
    BY <1>3
  <2>2. /\ r \in Seq(I) /\ Len(r) = Len(ShownAll(s)) + 1 /\ r[1] = Shown(x)
        /\ \A k \in 1 .. Len(ShownAll(s)) : r[k + 1] = ShownAll(s)[k]
    BY <1>4, <2>1, Prepend
  <2>. HIDE DEF r
  <2>. QED  BY <1>3, <2>1, <2>2
<1>6. /\ l \in Seq(I) /\ Len(l) = n + 1
      /\ \A k \in 1 .. n + 1 : l[k] = Shown((<<x>> \o s)[k])
  BY <1>2, <1>3
<1>. HIDE DEF l, r
<1>7. l = r
  <2>1. n \in Nat
    OBVIOUS
  <2>2. ASSUME NEW k \in 1 .. Len(l) PROVE l[k] = r[k]
    <3>1. CASE k = 1
      BY <1>2, <1>5, <1>6, <2>1, <3>1
    <3>2. CASE k # 1
      <4>1. k - 1 \in 1 .. n /\ (k - 1) + 1 = k /\ k \in 1 .. n + 1
        BY <1>6, <2>1, <3>2
      <4>2. (<<x>> \o s)[k] = s[k - 1] /\ r[k] = Shown(s[k - 1])
        BY <1>2, <1>5, <4>1
      <4>. QED  BY <1>6, <4>1, <4>2
    <3>. QED  BY <3>1, <3>2
  <2>3. Len(l) = Len(r)
    BY <1>5, <1>6
  <2>. QED  BY <1>5, <1>6, <2>2, <2>3, SameSequence
<1>. QED  BY <1>1, <1>7 DEF l, r

\* What is among the pieces.
LEMMA PrintsFacts ==
    ASSUME NEW S, NEW x \in S, NEW s \in Seq(S), NEW what
    PROVE  Prints(<<x>> \o s, what) <=> x = what \/ Prints(s, what)
<1>. DEFINE t == <<x>> \o s
            n == Len(s)
<1>1. /\ t \in Seq(S) /\ Len(t) = n + 1 /\ t[1] = x
      /\ \A k \in 1 .. n : t[k + 1] = s[k]
  BY Prepend
<1>2. n \in Nat /\ DOMAIN s = 1 .. n
  OBVIOUS
<1>. HIDE DEF t
<1>3. DOMAIN t = 1 .. n + 1
  BY <1>1
<1>4. \A k \in 1 .. n + 1 : k = 1 \/ \E m \in 1 .. n : k = m + 1
  <2>1. \A k \in 1 .. n + 1 : k # 1 => k - 1 \in 1 .. n /\ k = (k - 1) + 1
    BY <1>2
  <2>. QED  BY <2>1
<1>5. 1 \in 1 .. n + 1 /\ \A m \in 1 .. n : m + 1 \in 1 .. n + 1
  BY <1>2
<1>6. Prints(t, what) => x = what \/ Prints(s, what)
  <2>1. ASSUME NEW k \in 1 .. n + 1, t[k] = what
        PROVE  x = what \/ \E m \in 1 .. n : s[m] = what
    <3>1. CASE k = 1
      BY <1>1, <2>1, <3>1
    <3>2. CASE k # 1
      <4>1. PICK m \in 1 .. n : k = m + 1
        BY <1>4, <3>2
      <4>. QED  BY <1>1, <2>1, <4>1
    <3>. QED  BY <3>1, <3>2
  <2>. QED  BY <1>2, <1>3, <2>1 DEF Prints
<1>7. x = what => Prints(t, what)
  BY <1>1, <1>3, <1>5 DEF Prints
<1>8. Prints(s, what) => Prints(t, what)
  <2>1. ASSUME NEW m \in 1 .. n, s[m] = what PROVE Prints(t, what)
    <3>1. t[m + 1] = what /\ m + 1 \in DOMAIN t
      BY <1>1, <1>3, <1>5, <2>1
    <3>. QED  BY <3>1 DEF Prints
  <2>. QED  BY <1>2, <2>1 DEF Prints
<1>. QED  BY <1>6, <1>7, <1>8 DEF t

\* What is found at a place and what is cut there have the same message.
LEMMA SameMessage ==
    ASSUME NEW i, ~Ended(i), ~Bad(i)
    PROVE  /\ <<>> \notin Found(i)
           /\ Found(i) \intersect TheMessage # {} <=> Here(i) \in MessagePieces
<1>1. CASE Char(template, i) = "%"
  <2>1. Accepted(i) # <<>>
    BY <1>1 DEF Bad
  <2>2. Found(i) = {Accepted(i)} /\ Here(i) = Meaning(<<"%">> \o Accepted(i))
    BY <1>1 DEF Found, Here
  <2>3. Meaning(<<"%">> \o Accepted(i)) \in MessagePieces <=> Accepted(i) \in TheMessage
    BY <2>1, DirectivePrints
  <2>. QED  BY <2>1, <2>2, <2>3
<1>2. CASE Char(template, i) # "%"
  <2>1. Found(i) = {} /\ Here(i) = <<Char(template, i)>>
    BY <1>2, Zenon DEF Found, Here
  <2>2. \A c : <<c>> \notin MessagePieces
    BY DEF MessagePieces
  <2>. QED  BY <2>1, <2>2
<1>. QED  BY <1>1, <1>2

\* The check, the printing and the pieces, from a place on.
Agree(i) ==
    LET pieces == Cutting[i] IN
    /\ pieces \in Seq(Items)
    /\ <<>> \notin Checking[i] <=> ~Prints(pieces, Unknown)
    /\ <<>> \notin Checking[i] =>
        /\ Checking[i] \intersect TheMessage # {} <=> \E what \in MessagePieces : Prints(pieces, what)
        /\ Printing[i] = ShownAll(pieces)

\* They agree at every place, from the end of the template to its beginning.
LEMMA AgreeEverywhere ==
    ASSUME IsTemplate
    PROVE  \A i \in 0 .. Len(template) : Agree(i)
<1>. DEFINE N == Len(template)
            T == {i \in 0 .. N : Agree(i)}
<1>1. N \in Nat
  BY DEF IsTemplate
<1>2. ASSUME NEW i \in 0 .. N, \A k \in i + 1 .. N : k \in T
      PROVE  Agree(i)
  <2>1. /\ Checking[i] = OkFrom(Checking, i) /\ Printing[i] = PrintFrom(Printing, i)
        /\ Cutting[i] = PieceFrom(Cutting, i)
    BY CheckingIs, PrintingIs, CuttingIs
  <2>2. ASSUME Ended(i) PROVE Agree(i)
    <3>1. Checking[i] = {} /\ Printing[i] = <<>> /\ Cutting[i] = <<>>
      BY <2>1, <2>2, OkFromIs, PrintFromIs, PieceFromIs
    <3>2. ShownAll(<<>>) = <<>>
      BY DEF ShownAll
    <3>3. \A what : ~Prints(<<>>, what)
      BY DEF Prints
    <3>4. <<>> \in Seq(Items)
      OBVIOUS
    <3>. QED  BY <3>1, <3>2, <3>3, <3>4 DEF Agree
  <2>3. ASSUME Bad(i) PROVE Agree(i)
    <3>1. Checking[i] = {<<>>} /\ Cutting[i] = <<Unknown>>
      BY <2>1, <2>3, OkFromIs, PieceFromIs
    <3>2. Unknown \in Items
      BY DEF Items
    <3>3. <<Unknown>> \in Seq(Items) /\ Prints(<<Unknown>>, Unknown)
      <4>. HIDE DEF Unknown
      <4>1. <<Unknown>> \in Seq(Items) /\ 1 \in DOMAIN <<Unknown>> /\ <<Unknown>>[1] = Unknown
        BY <3>2
      <4>. QED  BY <4>1 DEF Prints
    <3>. QED  BY <3>1, <3>3 DEF Agree
  <2>4. ASSUME ~Ended(i), ~Bad(i) PROVE Agree(i)
    <3>. DEFINE j == Ahead(i)
                x == Here(i)
    <3>1. Agree(j)
      BY <1>2, <2>4, AheadType
    <3>2. /\ Checking[i] = Found(i) \union Checking[j]
          /\ Cutting[i] = <<x>> \o Cutting[j]
          /\ Printing[i] = <<Shown(x)>> \o Printing[j]
      <4>1. Printing[i] = Out(i) \o Printing[Onto(i)]
        BY <2>1, <2>4, PrintFromIs
      <4>2. Out(i) = <<Shown(Here(i))>> /\ Onto(i) = Ahead(i)
        BY <2>4, OutIs
      <4>. QED  BY <2>1, <2>4, <4>1, <4>2, OkFromIs, PieceFromIs
    <3>3. x \in Items /\ x # Unknown
      BY <2>4, HereType
    <3>4. <<>> \notin Found(i) /\ (Found(i) \intersect TheMessage # {} <=> x \in MessagePieces)
      BY <2>4, SameMessage
    <3>. HIDE DEF x, j
    <3>5. Cutting[j] \in Seq(Items)
      BY <3>1 DEF Agree
    <3>6. Cutting[i] \in Seq(Items)
      BY <3>2, <3>3, <3>5, Prepend
    <3>7. \A what : Prints(Cutting[i], what) <=> x = what \/ Prints(Cutting[j], what)
      BY <3>2, <3>3, <3>5, PrintsFacts
    <3>8. <<>> \notin Checking[i] <=> <<>> \notin Checking[j]
      BY <3>2, <3>4
    <3>9. <<>> \notin Checking[i] <=> ~Prints(Cutting[i], Unknown)
      BY <3>1, <3>3, <3>7, <3>8, Zenon DEF Agree
    <3>10. Checking[i] \intersect TheMessage # {}
            <=> x \in MessagePieces \/ Checking[j] \intersect TheMessage # {}
      BY <3>2, <3>4
    <3>11. (\E what \in MessagePieces : Prints(Cutting[i], what))
            <=> x \in MessagePieces \/ \E what \in MessagePieces : Prints(Cutting[j], what)
      BY <3>7, Zenon
    <3>12. ShownAll(Cutting[i]) = <<Shown(x)>> \o ShownAll(Cutting[j])
      BY <3>2, <3>3, <3>5, ShownAllFacts
    <3>13. ASSUME <<>> \notin Checking[i]
           PROVE  /\ Checking[i] \intersect TheMessage # {}
                        <=> \E what \in MessagePieces : Prints(Cutting[i], what)
                  /\ Printing[i] = ShownAll(Cutting[i])
      <4>1. /\ Checking[j] \intersect TheMessage # {}
                <=> \E what \in MessagePieces : Prints(Cutting[j], what)
            /\ Printing[j] = ShownAll(Cutting[j])
        BY <3>1, <3>8, <3>13, Zenon DEF Agree
      <4>2. Printing[i] = ShownAll(Cutting[i])
        BY <3>2, <3>12, <4>1, Zenon
      <4>. QED  BY <3>10, <3>11, <4>1, <4>2, Zenon
    <3>. QED  BY <3>6, <3>9, <3>13, Zenon DEF Agree
  <2>. QED  BY <2>2, <2>3, <2>4
<1>3. \A i \in 0 .. N : (\A k \in i + 1 .. N : k \in T) => i \in T
  <2>. HIDE DEF N
  <2>. QED  BY <1>2
<1>4. \A i \in 0 .. N : i \in T
  <2>. HIDE DEF N, T
  <2>. QED  BY <1>1, <1>3, Descend
<1>. QED  BY <1>4

\* Nothing but the names of days and months is exchanged.
LEMMA ShownIs ==
    ASSUME NEW piece \in Items, ~NamesDayOrMonth(piece)
    PROVE  Shown(piece) = piece
<1>1. CASE Len(piece) # 2
  BY <1>1 DEF Shown
<1>2. CASE piece \in Pairs
  <2>1. PICK a \in Encodings \union {"", "g"}, b \in Single : piece = <<a, b>>
    BY <1>2, PairsFacts, Zenon
  <2>2. Len(piece) = 2 /\ piece[1] = a /\ piece[2] = b
    BY <2>1
  <2>3. b # "a" /\ b # "b"
    BY <2>2 DEF NamesDayOrMonth
  <2>. QED  BY <2>1, <2>2, <2>3 DEF Shown, Swapped
<1>3. CASE piece = Unknown
  BY <1>3 DEF Shown, Swapped, Unknown
<1>4. CASE \E c \in Characters : piece = <<c>>
  <2>1. Len(piece) # 2
    BY <1>4
  <2>. QED  BY <1>1, <2>1
<1>. QED  BY <1>2, <1>3, <1>4 DEF Items

\* A template is accepted if and only if it has no unknown directive and has the message; and
\* it is printed piece by piece.
LEMMA TemplateRight ==
    ASSUME IsTemplate
    PROVE  /\ is_valid_log_template <=>
                /\ ~Prints(Pieces, Unknown)
                /\ \E e \in Encodings \union {""} : Prints(Pieces, <<e, "s">>)
           /\ is_valid_log_template =>
                /\ Len(print_log_template) = Len(Pieces)
                /\ \A i \in DOMAIN Pieces :
                    NamesDayOrMonth(Pieces[i]) \/ print_log_template[i] = Pieces[i]
<1>1. Agree(0)
  <2>1. 0 \in 0 .. Len(template)
    BY DEF IsTemplate
  <2>. QED  BY <2>1, AgreeEverywhere
<1>2. (\E what \in MessagePieces : Prints(Pieces, what))
        <=> \E e \in Encodings \union {""} : Prints(Pieces, <<e, "s">>)
  <2>. HIDE DEF Prints
  <2>. QED  BY DEF MessagePieces
<1>3. is_valid_log_template <=> ~Prints(Pieces, Unknown) /\ \E what \in MessagePieces : Prints(Pieces, what)
  BY <1>1, ScanDefinitions, Zenon DEF Agree
<1>4. is_valid_log_template => print_log_template = ShownAll(Pieces)
  BY <1>1, ScanDefinitions, Zenon DEF Agree
<1>5. Pieces \in Seq(Items)
  BY <1>1, ScanDefinitions, Zenon DEF Agree
<1>6. Len(ShownAll(Pieces)) = Len(Pieces)
  <2>. DEFINE N == Len(Pieces)
  <2>1. DOMAIN Pieces = 1 .. N /\ N \in Nat
    BY <1>5
  <2>2. ShownAll(Pieces) = [k \in 1 .. N |-> Shown(Pieces[k])]
    BY <2>1 DEF ShownAll
  <2>. HIDE DEF N
  <2>3. Len([k \in 1 .. N |-> Shown(Pieces[k])]) = N
    BY <2>1
  <2>. QED  BY <2>2, <2>3 DEF N
<1>7. \A i \in DOMAIN Pieces : NamesDayOrMonth(Pieces[i]) \/ ShownAll(Pieces)[i] = Pieces[i]
  <2>. SUFFICES ASSUME NEW i \in DOMAIN Pieces, ~NamesDayOrMonth(Pieces[i])
                PROVE  ShownAll(Pieces)[i] = Pieces[i]
    OBVIOUS
  <2>1. Pieces[i] \in Items
    BY <1>5
  <2>2. Shown(Pieces[i]) = Pieces[i]
    BY <2>1, ShownIs, Zenon
  <2>. QED  BY <2>2, Zenon DEF ShownAll
<1>. QED  BY <1>2, <1>3, <1>4, <1>6, <1>7, Zenon

-----------------------------------------------------------------------------
(* The encodings.                                                          *)

\* What becomes of a character, and of a text.
Code(e, c) == CASE e = "j" -> json(c) [] e = "x" -> xml(c) [] e = "q" -> sql(c) [] e = "c" -> csv(c)
Blocks(e, s) == [i \in DOMAIN s |-> Code(e, s[i])]

\* A text is encoded character by character.
LEMMA EncodedIs ==
    ASSUME NEW e, NEW s
    PROVE  EncodedWith(e, s) = FlattenSeq(Blocks(e, s))
BY Zenon DEF EncodedWith, Blocks, Code

\* The escapes: the sequences of characters and what they stand for.
Escape(s, c) == <<s, c>>

\* In JSON: an angle bracket, and another character.
Unicode(l, c) == Escape(<<"\\", "u", "0", "0", "3", l>>, c)
Letter(l, c)  == Escape(<<"\\", l>>, c)

\* In XML: those of four characters, of five and of six.
Entity4(a, b, c)       == Escape(<<"&", a, b, ";">>, c)
Entity5(a, b, c, d)    == Escape(<<"&", a, b, c, ";">>, d)
Entity6(a, b, c, d, x) == Escape(<<"&", a, b, c, d, ";">>, x)

JsonEntries ==
    {Unicode("c", "<"), Unicode("e", ">"), Letter("r", "\r"), Letter("n", "\n"), Letter("t", "\t"),
     Letter("f", "\f"), Letter("b", Backspace), Letter("\\", "\\"), Letter("\"", "\""), Letter("/", "/")}
XmlEntries ==
    {Entity5("a", "m", "p", "&"), Entity6("q", "u", "o", "t", "\""), Entity5("#", "3", "9", "'"),
     Entity4("l", "t", "<"), Entity4("g", "t", ">"), Entity5("#", "1", "3", "\r"),
     Entity5("#", "1", "0", "\n")}

Entries(e) ==
    IF e = "j" THEN JsonEntries
    ELSE IF e = "x" THEN XmlEntries
    ELSE {Escape(<<Quote(e), Quote(e)>>, Quote(e))}

\* The entries of a table.
LEMMA TableOfTen ==
    ASSUME NEW a, NEW b, NEW c, NEW d, NEW x, NEW y, NEW z, NEW u, NEW v, NEW w
    PROVE  {<<a, b, c, d, x, y, z, u, v, w>>[k] : k \in DOMAIN <<a, b, c, d, x, y, z, u, v, w>>}
             = {a, b, c, d, x, y, z, u, v, w}
<1>1. DOMAIN <<a, b, c, d, x, y, z, u, v, w>> = {1, 2, 3, 4, 5, 6, 7, 8, 9, 10}
  OBVIOUS
<1>. QED  BY <1>1

LEMMA TableFacts ==
    ASSUME NEW a, NEW b, NEW c, NEW d, NEW x, NEW y, NEW z
    PROVE  /\ {<<a, b, c, d, x, y, z>>[k] : k \in DOMAIN <<a, b, c, d, x, y, z>>} = {a, b, c, d, x, y, z}
           /\ {<<a>>[k] : k \in DOMAIN <<a>>} = {a}
<1>1. DOMAIN <<a, b, c, d, x, y, z>> = {1, 2, 3, 4, 5, 6, 7}
  OBVIOUS
<1>2. DOMAIN <<a>> = {1}
  OBVIOUS
<1>. QED  BY <1>1, <1>2

\* They are those of the table.
LEMMA EntriesAre ==
    ASSUME NEW e \in Encodings
    PROVE  {Escapes(e)[k] : k \in DOMAIN Escapes(e)} = Entries(e)
<1>1. CASE e = "j"
  <2>. DEFINE a == Unicode("c", "<")
              b == Unicode("e", ">")
              c == Letter("r", "\r")
              d == Letter("n", "\n")
              x == Letter("t", "\t")
              y == Letter("f", "\f")
              z == Letter("b", Backspace)
              u == Letter("\\", "\\")
              v == Letter("\"", "\"")
              w == Letter("/", "/")
  <2>1. Escapes(e) = <<a, b, c, d, x, y, z, u, v, w>>
    BY <1>1, Zenon DEF Escapes, Unicode, Letter, Escape
  <2>2. Entries(e) = {a, b, c, d, x, y, z, u, v, w}
    BY <1>1, Zenon DEF Entries, JsonEntries
  <2>. HIDE DEF a, b, c, d, x, y, z, u, v, w
  <2>. QED  BY <2>1, <2>2, TableOfTen
<1>2. CASE e = "x"
  <2>. DEFINE a == Entity5("a", "m", "p", "&")
              b == Entity6("q", "u", "o", "t", "\"")
              c == Entity5("#", "3", "9", "'")
              d == Entity4("l", "t", "<")
              x == Entity4("g", "t", ">")
              y == Entity5("#", "1", "3", "\r")
              z == Entity5("#", "1", "0", "\n")
  <2>1. e # "j"
    BY <1>2
  <2>2. Escapes(e) = <<a, b, c, d, x, y, z>>
    BY <1>2, <2>1, Zenon DEF Escapes, Entity4, Entity5, Entity6, Escape
  <2>3. Entries(e) = {a, b, c, d, x, y, z}
    BY <1>2, <2>1, Zenon DEF Entries, XmlEntries
  <2>. HIDE DEF a, b, c, d, x, y, z
  <2>. QED  BY <2>2, <2>3, TableFacts
<1>3. CASE e # "j" /\ e # "x"
  <2>. DEFINE a == Escape(<<Quote(e), Quote(e)>>, Quote(e))
  <2>1. Escapes(e) = <<a>> /\ Entries(e) = {a}
    BY <1>3, Zenon DEF Escapes, Escape, Entries
  <2>. HIDE DEF a
  <2>. QED  BY <2>1, TableFacts
<1>. QED  BY <1>1, <1>2, <1>3

\* A character is left alone, or one of the escapes stands for it, if it is not a control
\* character that is left raw.
LEMMA CodeFacts ==
    ASSUME NEW e \in Encodings, NEW c, c \notin LeftRaw(e)
    PROVE  \/ Escape(Code(e, c), c) \in Entries(e)
           \/ Code(e, c) = <<c>> /\ c # Quote(e) /\ c \notin Forbidden(e)
<1>1. CASE e = "j"
  <2>1. Code(e, c) = json(c) /\ Quote(e) = "\"" /\ c \notin OtherControls
    BY <1>1 DEF Code, Quote, LeftRaw
  <2>2. /\ DOMAIN ShortEscapes = {"\r", "\n", "\t", "\f", Backspace}
        /\ ShortEscapes["\r"] = "r" /\ ShortEscapes["\n"] = "n" /\ ShortEscapes["\t"] = "t" /\ ShortEscapes["\f"] = "f"
        /\ ShortEscapes[Backspace] = "b"
    BY DEF ShortEscapes, Backspace
  <2>3. \/ json(c) = <<c>> /\ c \notin {"\\", "\""} /\ c \notin DOMAIN ShortEscapes
        \/ c \in {"\\", "\"", "/"} /\ json(c) = <<"\\", c>>
        \/ c \in DOMAIN ShortEscapes /\ json(c) = <<"\\", ShortEscapes[c]>>
        \/ c = "<" /\ json(c) = <<"\\", "u", "0", "0", "3", "c">>
        \/ c = ">" /\ json(c) = <<"\\", "u", "0", "0", "3", "e">>
    BY <2>2 DEF json, Backspace
  <2>4. Entries(e) = JsonEntries
    BY <1>1 DEF Entries
  <2>5. CASE json(c) = <<c>> /\ c \notin {"\\", "\""} /\ c \notin DOMAIN ShortEscapes
    <3>1. c \notin Forbidden(e)
      BY <1>1, <2>1, <2>5, Zenon DEF Forbidden
    <3>. QED  BY <2>1, <2>5, <3>1
  <2>6. ASSUME c \in {"\\", "\"", "/"} /\ json(c) = <<"\\", c>>
        PROVE  Escape(Code(e, c), c) \in Entries(e)
    <3>1. Escape(Code(e, c), c) = Letter(c, c)
      BY <2>1, <2>6, Zenon DEF Letter
    <3>2. \A x \in {"\\", "\"", "/"} : Letter(x, x) \in JsonEntries
      BY Zenon DEF JsonEntries
    <3>. QED  BY <2>4, <2>6, <3>1, <3>2, Zenon
  <2>7. ASSUME c \in DOMAIN ShortEscapes /\ json(c) = <<"\\", ShortEscapes[c]>>
        PROVE  Escape(Code(e, c), c) \in Entries(e)
    <3>1. Escape(Code(e, c), c) = Letter(ShortEscapes[c], c)
      BY <2>1, <2>7, Zenon DEF Letter
    <3>2. \A x \in {"\r", "\n", "\t", "\f", Backspace} : Letter(ShortEscapes[x], x) \in JsonEntries
      BY <2>2, Zenon DEF JsonEntries
    <3>. QED  BY <2>2, <2>4, <2>7, <3>1, <3>2, Zenon
  <2>8. ASSUME \/ c = "<" /\ json(c) = <<"\\", "u", "0", "0", "3", "c">>
               \/ c = ">" /\ json(c) = <<"\\", "u", "0", "0", "3", "e">>
        PROVE  Escape(Code(e, c), c) \in Entries(e)
    BY <2>1, <2>4, <2>8, Zenon DEF JsonEntries, Unicode
  <2>. QED  BY <2>3, <2>5, <2>6, <2>7, <2>8, Zenon
<1>2. CASE e = "x"
  <2>1. /\ Code(e, c) = xml(c) /\ Quote(e) = "<" /\ c \notin OtherControls
        /\ c # "\f" /\ c # Backspace
    BY <1>2 DEF Code, Quote, LeftRaw
  <2>2. DOMAIN ShortEscapes = {"\r", "\n", "\t", "\f", Backspace}
    BY DEF ShortEscapes
  <2>3. \/ xml(c) = <<c>> /\ c \notin {"&", "<", "\r"}
        \/ c = "&" /\ xml(c) = <<"&", "a", "m", "p", ";">>
        \/ c = "\"" /\ xml(c) = <<"&", "q", "u", "o", "t", ";">>
        \/ c = "'" /\ xml(c) = <<"&", "#", "3", "9", ";">>
        \/ c = "<" /\ xml(c) = <<"&", "l", "t", ";">>
        \/ c = ">" /\ xml(c) = <<"&", "g", "t", ";">>
        \/ c = "\r" /\ xml(c) = <<"&", "#", "1", "3", ";">>
        \/ c = "\n" /\ xml(c) = <<"&", "#", "1", "0", ";">>
    BY DEF xml
  <2>4. Entries(e) = XmlEntries
    BY <1>2 DEF Entries
  <2>5. CASE xml(c) = <<c>> /\ c \notin {"&", "<", "\r"}
    <3>1. c \in DOMAIN ShortEscapes => c \in {"\t", "\n"}
      BY <2>1, <2>2, <2>5, Zenon
    <3>2. e # "j"
      BY <1>2
    <3>3. c \notin Forbidden(e)
      BY <1>2, <2>1, <2>5, <3>1, <3>2, Zenon DEF Forbidden
    <3>. QED  BY <2>1, <2>5, <3>3
  <2>6. ASSUME \/ c = "&" /\ xml(c) = <<"&", "a", "m", "p", ";">>
               \/ c = "\"" /\ xml(c) = <<"&", "q", "u", "o", "t", ";">>
               \/ c = "'" /\ xml(c) = <<"&", "#", "3", "9", ";">>
               \/ c = "<" /\ xml(c) = <<"&", "l", "t", ";">>
               \/ c = ">" /\ xml(c) = <<"&", "g", "t", ";">>
               \/ c = "\r" /\ xml(c) = <<"&", "#", "1", "3", ";">>
               \/ c = "\n" /\ xml(c) = <<"&", "#", "1", "0", ";">>
        PROVE  Escape(Code(e, c), c) \in Entries(e)
    BY <2>1, <2>4, <2>6, Zenon DEF XmlEntries, Entity4, Entity5, Entity6
  <2>. QED  BY <2>3, <2>5, <2>6, Zenon
<1>3. CASE e \in {"q", "c"}
  <2>1. Code(e, c) = IF c = Quote(e) THEN <<c, c>> ELSE <<c>>
    BY <1>3 DEF Code, Quote, sql, csv
  <2>2. c \notin Forbidden(e)
    BY <1>3 DEF Forbidden
  <2>3. Escape(<<Quote(e), Quote(e)>>, Quote(e)) \in Entries(e)
    BY <1>3 DEF Entries
  <2>. QED  BY <2>1, <2>2, <2>3
<1>. QED  BY <1>1, <1>2, <1>3 DEF Encodings

\* The character that an escape begins with.
Mark(e) == IF e = "j" THEN "\\" ELSE IF e = "x" THEN "&" ELSE Quote(e)

\* Sequences of two characters, and of more.
LEMMA LongFacts ==
    ASSUME NEW a, NEW b, NEW c, NEW d, NEW x, NEW y
    PROVE  /\ \E P : <<a, b>> \in Seq(P) /\ Len(<<a, b>>) = 2 /\ <<a, b>>[1] = a
           /\ \E P : <<a, b, c, d>> \in Seq(P) /\ Len(<<a, b, c, d>>) = 4 /\ <<a, b, c, d>>[1] = a
           /\ \E P : <<a, b, c, d, x>> \in Seq(P) /\ Len(<<a, b, c, d, x>>) = 5 /\ <<a, b, c, d, x>>[1] = a
           /\ \E P : <<a, b, c, d, x, y>> \in Seq(P) /\ Len(<<a, b, c, d, x, y>>) = 6
                     /\ <<a, b, c, d, x, y>>[1] = a
<1>1. /\ <<a, b>> \in Seq({a, b}) /\ <<a, b, c, d>> \in Seq({a, b, c, d})
      /\ <<a, b, c, d, x>> \in Seq({a, b, c, d, x})
      /\ <<a, b, c, d, x, y>> \in Seq({a, b, c, d, x, y})
  OBVIOUS
<1>2. /\ Len(<<a, b>>) = 2 /\ <<a, b>>[1] = a
      /\ Len(<<a, b, c, d>>) = 4 /\ <<a, b, c, d>>[1] = a
      /\ Len(<<a, b, c, d, x>>) = 5 /\ <<a, b, c, d, x>>[1] = a
      /\ Len(<<a, b, c, d, x, y>>) = 6 /\ <<a, b, c, d, x, y>>[1] = a
  OBVIOUS
<1>. QED  BY <1>1, <1>2, Zenon

\* A sequence that an escape can be.
IsEscape(s, first) == (\E P : s \in Seq(P)) /\ Len(s) \in {2, 4, 5, 6} /\ s[1] = first

\* Each of two, four, five or six characters is one.
LEMMA EscapesAre ==
    ASSUME NEW a, NEW b, NEW c, NEW d, NEW x, NEW y, NEW z
    PROVE  /\ IsEscape(Escape(<<a, b>>, z)[1], a) /\ IsEscape(Escape(<<a, b, c, d>>, z)[1], a)
           /\ IsEscape(Escape(<<a, b, c, d, x>>, z)[1], a)
           /\ IsEscape(Escape(<<a, b, c, d, x, y>>, z)[1], a)
<1>1. 2 \in {2, 4, 5, 6} /\ 4 \in {2, 4, 5, 6} /\ 5 \in {2, 4, 5, 6} /\ 6 \in {2, 4, 5, 6}
  OBVIOUS
<1>2. /\ IsEscape(<<a, b>>, a) /\ IsEscape(<<a, b, c, d>>, a)
      /\ IsEscape(<<a, b, c, d, x>>, a) /\ IsEscape(<<a, b, c, d, x, y>>, a)
  BY <1>1, LongFacts, Zenon DEF IsEscape
<1>3. /\ Escape(<<a, b>>, z)[1] = <<a, b>> /\ Escape(<<a, b, c, d>>, z)[1] = <<a, b, c, d>>
      /\ Escape(<<a, b, c, d, x>>, z)[1] = <<a, b, c, d, x>>
      /\ Escape(<<a, b, c, d, x, y>>, z)[1] = <<a, b, c, d, x, y>>
  BY DEF Escape
<1>. QED  BY <1>2, <1>3, Zenon

\* The sequence of an escape, and what it stands for.
LEMMA EscapeParts ==
    ASSUME NEW s, NEW c
    PROVE  Escape(s, c)[1] = s /\ Escape(s, c)[2] = c
BY DEF Escape

\* All escapes of an encoding begin with its mark.
LEMMA EntryFacts ==
    ASSUME NEW e \in Encodings, NEW x \in Entries(e)
    PROVE  IsEscape(x[1], Mark(e))
<1>1. CASE e = "j"
  <2>1. Mark(e) = "\\"
    BY <1>1 DEF Mark
  <2>2. (\E a, b : x = Unicode(a, b)) \/ (\E a, b : x = Letter(a, b))
    BY <1>1, Zenon DEF Entries, JsonEntries
  <2>3. ASSUME NEW a, NEW b, x = Unicode(a, b) PROVE IsEscape(x[1], Mark(e))
    BY <2>1, <2>3, EscapesAre, Zenon DEF Unicode
  <2>4. ASSUME NEW a, NEW b, x = Letter(a, b) PROVE IsEscape(x[1], Mark(e))
    BY <2>1, <2>4, EscapesAre, Zenon DEF Letter
  <2>. QED  BY <2>2, <2>3, <2>4, Zenon
<1>2. CASE e = "x"
  <2>1. Mark(e) = "&" /\ e # "j"
    BY <1>2 DEF Mark
  <2>2. \/ \E a, b, c : x = Entity4(a, b, c)
        \/ \E a, b, c, d : x = Entity5(a, b, c, d)
        \/ \E a, b, c, d, y : x = Entity6(a, b, c, d, y)
    BY <1>2, <2>1, Zenon DEF Entries, XmlEntries
  <2>3. ASSUME NEW a, NEW b, NEW c, x = Entity4(a, b, c)
        PROVE  IsEscape(x[1], Mark(e))
    BY <2>1, <2>3, EscapesAre, Zenon DEF Entity4
  <2>4. ASSUME NEW a, NEW b, NEW c, NEW d, x = Entity5(a, b, c, d)
        PROVE  IsEscape(x[1], Mark(e))
    BY <2>1, <2>4, EscapesAre, Zenon DEF Entity5
  <2>5. ASSUME NEW a, NEW b, NEW c, NEW d, NEW y, x = Entity6(a, b, c, d, y)
        PROVE  IsEscape(x[1], Mark(e))
    BY <2>1, <2>5, EscapesAre, Zenon DEF Entity6
  <2>. QED  BY <2>2, <2>3, <2>4, <2>5, Zenon
<1>3. CASE e # "j" /\ e # "x"
  <2>1. Mark(e) = Quote(e)
    BY <1>3 DEF Mark
  <2>2. x = Escape(<<Quote(e), Quote(e)>>, Quote(e))
    BY <1>3, Zenon DEF Entries
  <2>. QED  BY <2>1, <2>2, EscapesAre, Zenon
<1>. QED  BY <1>1, <1>2, <1>3

\* No escape is the beginning of another one: somewhere they differ.
Alike(s, t) == \A k \in 1 .. 6 : k \in DOMAIN s /\ k \in DOMAIN t => s[k] = t[k]

LEMMA JsonEntriesDiffer ==
    ASSUME NEW x \in JsonEntries, NEW y \in JsonEntries, Alike(x[1], y[1])
    PROVE  x = y
<1>1. \A l, c : /\ Unicode(l, c)[1][2] = "u" /\ Unicode(l, c)[1][6] = l
                /\ DOMAIN Unicode(l, c)[1] = 1 .. 6
                /\ Letter(l, c)[1][2] = l /\ DOMAIN Letter(l, c)[1] = 1 .. 2
  BY DEF Unicode, Letter, Escape
<1>2. 2 \in 1 .. 2 /\ 2 \in 1 .. 6 /\ 6 \in 1 .. 6
  OBVIOUS
<1>3. 2 \in DOMAIN x[1] /\ 2 \in DOMAIN y[1] /\ x[1][2] = y[1][2]
  <2>1. \A z \in JsonEntries : (\E l, c : z = Unicode(l, c)) \/ (\E l, c : z = Letter(l, c))
    BY Zenon DEF JsonEntries
  <2>2. \A z \in JsonEntries : 2 \in DOMAIN z[1]
    BY <1>1, <1>2, <2>1
  <2>. QED  BY <1>2, <2>2, Zenon DEF Alike
<1>. DEFINE Letters2 == {"r", "n", "t", "f", "b", "\\", "\"", "/"}
            Stands(l) == CASE l = "r" -> "\r" [] l = "n" -> "\n" [] l = "t" -> "\t" [] l = "f" -> "\f"
                           [] l = "b" -> Backspace [] OTHER -> l
<1>4. \A z \in JsonEntries :
        \/ z = Unicode("c", "<") \/ z = Unicode("e", ">")
        \/ \E l \in Letters2 : z = Letter(l, Stands(l))
  <2>1. /\ Stands("r") = "\r" /\ Stands("n") = "\n" /\ Stands("t") = "\t" /\ Stands("f") = "\f"
        /\ Stands("b") = Backspace /\ Stands("\\") = "\\" /\ Stands("\"") = "\"" /\ Stands("/") = "/"
    OBVIOUS
  <2>2. /\ "r" \in Letters2 /\ "n" \in Letters2 /\ "t" \in Letters2 /\ "f" \in Letters2
        /\ "b" \in Letters2 /\ "\\" \in Letters2 /\ "\"" \in Letters2 /\ "/" \in Letters2
    OBVIOUS
  <2>. HIDE DEF Letters2, Stands
  <2>. QED  BY <2>1, <2>2, Zenon DEF JsonEntries
<1>5. "u" \notin Letters2
  OBVIOUS
<1>. HIDE DEF Letters2, Stands
<1>6. \A z \in JsonEntries :
        IF z[1][2] = "u" THEN z = Unicode("c", "<") \/ z = Unicode("e", ">")
        ELSE z[1][2] \in Letters2 /\ z = Letter(z[1][2], Stands(z[1][2]))
  <2>. SUFFICES ASSUME NEW z \in JsonEntries
                PROVE  IF z[1][2] = "u" THEN z = Unicode("c", "<") \/ z = Unicode("e", ">")
                       ELSE z[1][2] \in Letters2 /\ z = Letter(z[1][2], Stands(z[1][2]))
    OBVIOUS
  <2>1. CASE z = Unicode("c", "<") \/ z = Unicode("e", ">")
    <3>1. z[1][2] = "u"
      BY <1>1, <2>1
    <3>. QED  BY <2>1, <3>1
  <2>2. ASSUME NEW l \in Letters2, z = Letter(l, Stands(l))
        PROVE  z[1][2] # "u" /\ z[1][2] \in Letters2 /\ z = Letter(z[1][2], Stands(z[1][2]))
    <3>1. z[1][2] = l
      BY <1>1, <2>2
    <3>. QED  BY <1>5, <2>2, <3>1
  <2>. QED  BY <1>4, <2>1, <2>2
<1>7. CASE x[1][2] = "u"
  <2>1. /\ x = Unicode("c", "<") \/ x = Unicode("e", ">")
        /\ y = Unicode("c", "<") \/ y = Unicode("e", ">")
    BY <1>3, <1>6, <1>7
  <2>2. 6 \in DOMAIN x[1] /\ 6 \in DOMAIN y[1]
    BY <1>1, <1>2, <2>1
  <2>3. x[1][6] = y[1][6]
    BY <1>2, <2>2 DEF Alike
  <2>4. Unicode("c", "<")[1][6] = "c" /\ Unicode("e", ">")[1][6] = "e" /\ "c" # "e"
    BY <1>1
  <2>. QED  BY <2>1, <2>3, <2>4
<1>8. CASE x[1][2] # "u"
  BY <1>3, <1>6, <1>8
<1>. QED  BY <1>7, <1>8

LEMMA XmlEntriesDiffer ==
    ASSUME NEW x \in XmlEntries, NEW y \in XmlEntries, Alike(x[1], y[1])
    PROVE  x = y
<1>. DEFINE A == Entity5("a", "m", "p", "&")
            B == Entity6("q", "u", "o", "t", "\"")
            C == Entity4("l", "t", "<")
            D == Entity4("g", "t", ">")
            E == Entity5("#", "3", "9", "'")
            F == Entity5("#", "1", "3", "\r")
            G == Entity5("#", "1", "0", "\n")
<1>1. A[1][2] = "a" /\ B[1][2] = "q" /\ C[1][2] = "l" /\ D[1][2] = "g"
  BY DEF Entity4, Entity5, Entity6, Escape
<1>2. /\ E[1][2] = "#" /\ F[1][2] = "#" /\ G[1][2] = "#"
      /\ E[1][3] = "3" /\ F[1][3] = "1" /\ G[1][3] = "1" /\ F[1][4] = "3" /\ G[1][4] = "0"
  BY DEF Entity5, Escape
<1>3. XmlEntries = {A, B, C, D, E, F, G}
  BY Zenon DEF XmlEntries
<1>4. \A z \in XmlEntries : 2 \in DOMAIN z[1] /\ 3 \in DOMAIN z[1] /\ 4 \in DOMAIN z[1]
  <2>1. \A a, b, c, d, u :
            /\ DOMAIN Entity4(a, b, c)[1] = 1 .. 4 /\ DOMAIN Entity5(a, b, c, d)[1] = 1 .. 5
            /\ DOMAIN Entity6(a, b, c, d, u)[1] = 1 .. 6
    BY DEF Entity4, Entity5, Entity6, Escape
  <2>2. \A n \in {4, 5, 6} : 2 \in 1 .. n /\ 3 \in 1 .. n /\ 4 \in 1 .. n
    OBVIOUS
  <2>3. 4 \in {4, 5, 6} /\ 5 \in {4, 5, 6} /\ 6 \in {4, 5, 6}
    OBVIOUS
  <2>. QED  BY <2>1, <2>2, <2>3, Zenon DEF XmlEntries
<1>5. x[1][2] = y[1][2] /\ x[1][3] = y[1][3] /\ x[1][4] = y[1][4]
  <2>1. 2 \in 1 .. 6 /\ 3 \in 1 .. 6 /\ 4 \in 1 .. 6
    OBVIOUS
  <2>. QED  BY <1>4, <2>1, Zenon DEF Alike
<1>. HIDE DEF A, B, C, D, E, F, G
<1>6. ASSUME NEW m \in {A, B, C, D}, NEW n \in {E, F, G} PROVE m[1][2] # n[1][2]
  BY <1>1, <1>2
<1>7. \A m, n \in {A, B, C, D} : m[1][2] = n[1][2] => m = n
  BY <1>1
<1>8. \A m, n \in {E, F, G} : m[1][3] = n[1][3] /\ m[1][4] = n[1][4] => m = n
  BY <1>2
<1>9. \A n \in XmlEntries : n \in {A, B, C, D} \/ n \in {E, F, G}
  BY <1>3, Zenon
<1>. QED  BY <1>5, <1>6, <1>7, <1>8, <1>9, Zenon

LEMMA EntriesDiffer ==
    ASSUME NEW e \in Encodings, NEW x \in Entries(e), NEW y \in Entries(e), Alike(x[1], y[1])
    PROVE  x = y
<1>1. CASE e = "j"
  BY <1>1, JsonEntriesDiffer, Zenon DEF Entries
<1>2. CASE e = "x"
  <2>1. e # "j"
    BY <1>2
  <2>. QED  BY <1>2, <2>1, XmlEntriesDiffer, Zenon DEF Entries
<1>3. CASE e # "j" /\ e # "x"
  BY <1>3 DEF Entries
<1>. QED  BY <1>1, <1>2, <1>3

\* The mark and the quote of an encoding.
LEMMA MarkFacts ==
    ASSUME NEW e \in Encodings
    PROVE  /\ \A c : c # Quote(e) /\ c \notin Forbidden(e) => c # Mark(e)
           /\ Mark(e) = Quote(e) => e \in {"q", "c"}
           /\ e \in {"q", "c"} => \A x \in Entries(e) : Len(x[1]) = 2 /\ x[1][2] = Quote(e)
<1>1. e = "j" \/ e = "x" \/ e = "q" \/ e = "c"
  BY DEF Encodings
<1>2. /\ e = "j" => Quote(e) = "\"" /\ Mark(e) = "\\"
      /\ e = "x" => Quote(e) = "<" /\ Mark(e) = "&"
      /\ e \in {"q", "c"} => Mark(e) = Quote(e)
  BY DEF Quote, Mark
<1>3. /\ e = "j" => "\\" \in Forbidden(e)
      /\ e = "x" => "&" \in Forbidden(e)
  BY DEF Forbidden
<1>4. ASSUME e \in {"q", "c"}, NEW x \in Entries(e)
      PROVE  Len(x[1]) = 2 /\ x[1][2] = Quote(e)
  <2>1. x = Escape(<<Quote(e), Quote(e)>>, Quote(e))
    BY <1>4 DEF Entries
  <2>2. x[1] = <<Quote(e), Quote(e)>>
    BY <2>1, EscapeParts
  <2>. HIDE DEF Quote
  <2>. QED  BY <2>2
<1>5. e \in {"q", "c"} \/ (Mark(e) # Quote(e) /\ Mark(e) \in Forbidden(e))
  BY <1>1, <1>2, <1>3
<1>. QED  BY <1>2, <1>4, <1>5

-----------------------------------------------------------------------------
(* What is decoded.                                                        *)

\* The function that decodes a line.
Known(e, line, i) ==
    {k \in DOMAIN Escapes(e) : IsPrefix(Escapes(e)[k][1], SubSeq(line, i + 1, Len(line)))}
Entry(e, line, i) == Escapes(e)[CHOOSE k \in Known(e, line, i) : TRUE]

DecodeFrom(e, line, f, i) ==
    IF i = Len(line) THEN <<"open">>
    ELSE IF Known(e, line, i) # {} THEN <<Entry(e, line, i)[2]>> \o f[i + Len(Entry(e, line, i)[1])]
    ELSE IF line[i + 1] = Quote(e) THEN (IF i + 1 = Len(line) THEN <<>> ELSE <<"ended">>)
    ELSE IF line[i + 1] \in Forbidden(e) THEN <<"bad">> ELSE <<line[i + 1]>> \o f[i + 1]

DecodeBody(e, line, f) == [i \in 0 .. Len(line) |-> DecodeFrom(e, line, f, i)]
Decoding(e, line)      == CHOOSE f : f = DecodeBody(e, line, f)

\* It begins at the first character of the line.
LEMMA DecodedDefinition ==
    ASSUME NEW e, NEW line
    PROVE  Decoded(e, line) = Decoding(e, line)[0]
BY Zenon DEF Decoded, Decoding, DecodeBody, DecodeFrom, Known, Entry

\* The escapes that are known at a place: at most one.
LEMMA KnownFacts ==
    ASSUME NEW e \in Encodings, NEW S, NEW line \in Seq(S), NEW i \in 0 .. Len(line)
    PROVE  /\ Known(e, line, i) # {} <=> \E x \in Entries(e) : Matches(x[1], line, i)
           /\ Known(e, line, i) # {} => /\ Entry(e, line, i) \in Entries(e)
                                        /\ Matches(Entry(e, line, i)[1], line, i)
           /\ \A x \in Entries(e) : Matches(x[1], line, i) => Entry(e, line, i) = x
<1>1. \A x \in Entries(e) : IsPrefix(x[1], SubSeq(line, i + 1, Len(line))) <=> Matches(x[1], line, i)
  <2>1. ASSUME NEW x \in Entries(e)
        PROVE  IsPrefix(x[1], SubSeq(line, i + 1, Len(line))) <=> Matches(x[1], line, i)
    <3>1. PICK P : x[1] \in Seq(P)
      BY EntryFacts, Zenon DEF IsEscape
    <3>. QED  BY <3>1, PrefixAt, Zenon
  <2>. QED  BY <2>1
<1>2. \A k \in DOMAIN Escapes(e) : Escapes(e)[k] \in Entries(e)
  <2>1. {Escapes(e)[k] : k \in DOMAIN Escapes(e)} = Entries(e)
    BY EntriesAre
  <2>. HIDE DEF Entries
  <2>. QED  BY <2>1
<1>3. \A x \in Entries(e) : \E k \in DOMAIN Escapes(e) : Escapes(e)[k] = x
  <2>1. {Escapes(e)[k] : k \in DOMAIN Escapes(e)} = Entries(e)
    BY EntriesAre
  <2>. HIDE DEF Entries
  <2>. QED  BY <2>1
<1>4. \A k : k \in Known(e, line, i) <=> k \in DOMAIN Escapes(e) /\ Matches(Escapes(e)[k][1], line, i)
  BY <1>1, <1>2, Zenon DEF Known
<1>5. Known(e, line, i) # {} <=> \E x \in Entries(e) : Matches(x[1], line, i)
  <2>1. Known(e, line, i) # {} <=> \E k : k \in Known(e, line, i)
    BY Zenon
  <2>. QED  BY <1>2, <1>3, <1>4, <2>1, Zenon
<1>6. ASSUME Known(e, line, i) # {}
      PROVE  Entry(e, line, i) \in Entries(e) /\ Matches(Entry(e, line, i)[1], line, i)
  <2>1. (CHOOSE k \in Known(e, line, i) : TRUE) \in Known(e, line, i)
    BY <1>6, Zenon
  <2>. QED  BY <1>2, <1>4, <2>1, Zenon DEF Entry
<1>7. ASSUME NEW x \in Entries(e), NEW y \in Entries(e),
             Matches(x[1], line, i), Matches(y[1], line, i)
      PROVE  x = y
  <2>1. IsEscape(x[1], Mark(e)) /\ IsEscape(y[1], Mark(e))
    BY EntryFacts, Zenon
  <2>3. /\ \A k \in 1 .. Len(x[1]) : x[1][k] = line[i + k]
        /\ \A k \in 1 .. Len(y[1]) : y[1][k] = line[i + k]
    BY <1>7, Zenon DEF Matches
  <2>4. DOMAIN x[1] = 1 .. Len(x[1]) /\ DOMAIN y[1] = 1 .. Len(y[1])
    BY <2>1 DEF IsEscape
  <2>5. Alike(x[1], y[1])
    BY <2>3, <2>4, Zenon DEF Alike
  <2>. QED  BY <2>5, EntriesDiffer, Zenon
<1>8. ASSUME NEW x \in Entries(e), Matches(x[1], line, i)
      PROVE  Entry(e, line, i) = x
  BY <1>5, <1>6, <1>7, <1>8, Zenon
<1>. QED  BY <1>5, <1>6, <1>8, Zenon

\* An escape is not empty, and does not go beyond the end.
LEMMA EscapeAhead ==
    ASSUME NEW e \in Encodings, NEW S, NEW line \in Seq(S), NEW i \in 0 .. Len(line),
           NEW x \in Entries(e), Matches(x[1], line, i)
    PROVE  i + Len(x[1]) \in i + 1 .. Len(line) /\ line[i + 1] = Mark(e) /\ i < Len(line)
<1>1. Len(x[1]) \in {2, 4, 5, 6} /\ x[1][1] = Mark(e)
  BY EntryFacts, Zenon DEF IsEscape
<1>2. i + Len(x[1]) <= Len(line) /\ \A k \in 1 .. Len(x[1]) : x[1][k] = line[i + k]
  BY Zenon DEF Matches
<1>3. 1 \in 1 .. Len(x[1])
  BY <1>1
<1>4. line[i + 1] = Mark(e)
  BY <1>1, <1>2, <1>3, Zenon
<1>. QED  BY <1>1, <1>2, <1>4

\* The function is there.
LEMMA DecodingIs ==
    ASSUME NEW e \in Encodings, NEW S, NEW line \in Seq(S)
    PROVE  \A i \in 0 .. Len(line) : Decoding(e, line)[i] = DecodeFrom(e, line, Decoding(e, line), i)
<1>. DEFINE N == Len(line)
            U == {line[i] : i \in 1 .. N} \union {"open", "ended", "bad"} \union {x[2] : x \in Entries(e)}
            V == Seq(U)
            StopsAt(i) == i = N \/ (Known(e, line, i) = {} /\ (line[i + 1] = Quote(e) \/ line[i + 1] \in Forbidden(e)))
            Result(i) == IF i = N THEN <<"open">>
                         ELSE IF line[i + 1] = Quote(e) THEN (IF i + 1 = N THEN <<>> ELSE <<"ended">>)
                         ELSE <<"bad">>
            Next0(i) == IF Known(e, line, i) # {} THEN i + Len(Entry(e, line, i)[1]) ELSE i + 1
            First(i) == IF Known(e, line, i) # {} THEN Entry(e, line, i)[2] ELSE line[i + 1]
            stops == {i \in 0 .. N : StopsAt(i)}
            result == [i \in 0 .. N |-> Result(i)]
            next == [i \in 0 .. N |-> Next0(i)]
            step == [i \in 0 .. N |-> [s \in V |-> <<First(i)>> \o s]]
<1>1. N \in Nat
  OBVIOUS
<1>2. ASSUME NEW i \in 0 .. N, ~StopsAt(i)
      PROVE  Next0(i) \in i + 1 .. N /\ First(i) \in U
  <2>1. CASE Known(e, line, i) # {}
    <3>1. Entry(e, line, i) \in Entries(e) /\ Matches(Entry(e, line, i)[1], line, i)
      BY <2>1, KnownFacts, Zenon
    <3>2. Next0(i) = i + Len(Entry(e, line, i)[1]) /\ First(i) = Entry(e, line, i)[2]
      BY <2>1, Zenon
    <3>3. i + Len(Entry(e, line, i)[1]) \in i + 1 .. N
      BY <3>1, EscapeAhead
    <3>4. Entry(e, line, i)[2] \in U
      BY <3>1
    <3>. QED  BY <3>2, <3>3, <3>4, Zenon
  <2>2. CASE Known(e, line, i) = {}
    <3>1. i # N /\ Next0(i) = i + 1 /\ First(i) = line[i + 1]
      BY <1>2, <2>2, Zenon
    <3>2. i + 1 \in i + 1 .. N /\ i + 1 \in 1 .. N
      BY <1>1, <3>1
    <3>3. line[i + 1] \in U
      BY <3>2
    <3>. QED  BY <3>1, <3>2, <3>3, Zenon
  <2>. QED  BY <2>1, <2>2
<1>3. ASSUME NEW i \in 0 .. N PROVE Result(i) \in V
  <2>1. "open" \in U /\ "ended" \in U /\ "bad" \in U
    OBVIOUS
  <2>. HIDE DEF U
  <2>2. <<"open">> \in V /\ <<"ended">> \in V /\ <<"bad">> \in V /\ <<>> \in V
    BY <2>1
  <2>. HIDE DEF V
  <2>. QED  BY <2>2, Zenon
<1>4. \A x \in U : \A s \in V : <<x>> \o s \in V
  <2>. HIDE DEF U
  <2>. QED  OBVIOUS
<1>. HIDE DEF U, V, StopsAt, Result, Next0, First
<1>5. \A i \in 0 .. N : IF i \in stops THEN result[i] \in V
                        ELSE next[i] \in i + 1 .. N /\ step[i] \in [V -> V]
  BY <1>2, <1>3, <1>4
<1>6. PICK f \in [0 .. N -> V] : Forward(f, N, stops, result, next, step)
  <2>. HIDE DEF N, stops, result, next, step
  <2>. QED  BY <1>1, <1>5, ForwardExists
<1>7. ASSUME NEW i \in 0 .. N
      PROVE  (IF i \in stops THEN result[i] ELSE step[i][f[next[i]]]) = DecodeFrom(e, line, f, i)
  <2>1. CASE StopsAt(i)
    <3>1. (IF i \in stops THEN result[i] ELSE step[i][f[next[i]]]) = Result(i)
      BY <2>1
    <3>2. DecodeFrom(e, line, f, i) = Result(i)
      BY <2>1, Zenon DEF StopsAt, Result, DecodeFrom
    <3>. QED  BY <3>1, <3>2, Zenon
  <2>2. CASE ~StopsAt(i)
    <3>1. Next0(i) \in 0 .. N /\ First(i) \in U
      <4>1. Next0(i) \in i + 1 .. N /\ First(i) \in U
        BY <1>2, <2>2
      <4>. QED  BY <1>1, <4>1
    <3>2. f[Next0(i)] \in V
      BY <1>6, <3>1
    <3>3. (IF i \in stops THEN result[i] ELSE step[i][f[next[i]]]) = <<First(i)>> \o f[Next0(i)]
      BY <2>2, <3>1, <3>2
    <3>4. DecodeFrom(e, line, f, i) = <<First(i)>> \o f[Next0(i)]
      BY <2>2, Zenon DEF StopsAt, Next0, First, DecodeFrom
    <3>. QED  BY <3>3, <3>4, Zenon
  <2>. QED  BY <2>1, <2>2
<1>8. f = DecodeBody(e, line, f)
  <2>1. f = [i \in 0 .. N |-> IF i \in stops THEN result[i] ELSE step[i][f[next[i]]]]
    <3>. HIDE DEF N, stops, result, next, step
    <3>. QED  BY <1>6, Zenon DEF Forward
  <2>. HIDE DEF stops, result, next, step
  <2>. QED  BY <1>7, <2>1, Zenon DEF DecodeBody
<1>9. Decoding(e, line) = DecodeBody(e, line, Decoding(e, line))
  BY <1>8, Zenon DEF Decoding
<1>. QED  BY <1>9, Zenon DEF DecodeBody

\* The characters of a line in an encoding.
LineChars(e) == {Code(e, c)[k] : c \in Characters, k \in 1 .. 6} \union {Quote(e)}

\* What comes back from the line: texts without the control characters that are left raw.
Kept(e) == Characters \ LeftRaw(e)

\* A character becomes at most six.
LEMMA CodeType ==
    ASSUME NEW e \in Encodings, NEW c \in Kept(e)
    PROVE  Code(e, c) \in Seq(LineChars(e)) /\ Len(Code(e, c)) \in 1 .. 6
<1>1. ASSUME Escape(Code(e, c), c) \in Entries(e)
      PROVE  (\E P : Code(e, c) \in Seq(P)) /\ Len(Code(e, c)) \in 1 .. 6
  <2>1. IsEscape(Escape(Code(e, c), c)[1], Mark(e))
    BY <1>1, EntryFacts, Zenon
  <2>2. IsEscape(Code(e, c), Mark(e))
    BY <2>1, EscapeParts, Zenon
  <2>3. Len(Code(e, c)) \in {2, 4, 5, 6}
    BY <2>2, Zenon DEF IsEscape
  <2>. QED  BY <2>2, <2>3 DEF IsEscape
<1>2. ASSUME Code(e, c) = <<c>>
      PROVE  (\E P : Code(e, c) \in Seq(P)) /\ Len(Code(e, c)) \in 1 .. 6
  <2>1. <<c>> \in Seq({c}) /\ Len(<<c>>) = 1
    OBVIOUS
  <2>2. 1 \in 1 .. 6
    OBVIOUS
  <2>. QED  BY <1>2, <2>1, <2>2, Zenon
<1>3. (\E P : Code(e, c) \in Seq(P)) /\ Len(Code(e, c)) \in 1 .. 6
  BY <1>1, <1>2, CodeFacts, Zenon DEF Kept
<1>4. \A k \in 1 .. Len(Code(e, c)) : Code(e, c)[k] \in LineChars(e)
  <2>1. \A m \in 1 .. 6 : \A k \in 1 .. m : k \in 1 .. 6
    OBVIOUS
  <2>2. \A k \in 1 .. 6 : Code(e, c)[k] \in LineChars(e)
    BY DEF LineChars, Kept
  <2>. QED  BY <1>3, <2>1, <2>2, Zenon
<1>. QED  BY <1>3, <1>4, Retyped, Zenon

\* Each character of a text is encoded.
LEMMA BlocksType ==
    ASSUME NEW e \in Encodings, NEW s \in Seq(Kept(e))
    PROVE  /\ Blocks(e, s) \in Seq(Seq(LineChars(e))) /\ Len(Blocks(e, s)) = Len(s)
           /\ \A n \in 1 .. Len(s) : Blocks(e, s)[n] = Code(e, s[n]) /\ s[n] \in Kept(e)
<1>1. DOMAIN s = 1 .. Len(s) /\ Len(s) \in Nat /\ \A n \in 1 .. Len(s) : s[n] \in Kept(e)
  OBVIOUS
<1>2. Blocks(e, s) = [n \in 1 .. Len(s) |-> Code(e, s[n])]
  BY <1>1 DEF Blocks
<1>. DEFINE V == Seq(LineChars(e))
<1>3. \A n \in 1 .. Len(s) : Code(e, s[n]) \in V
  BY <1>1, CodeType
<1>. HIDE DEF V
<1>4. Blocks(e, s) \in Seq(V)
  BY <1>1, <1>2, <1>3
<1>. QED  BY <1>1, <1>2, <1>4 DEF V

\* What a reader of an encoding gets from a place on where a character begins, and at the end.
LEMMA DecodeSteps ==
    ASSUME NEW e \in Encodings, NEW S, NEW line \in Seq(S), NEW f, NEW i \in 0 .. Len(line)
    PROVE  /\ \A c \in Kept(e) : Matches(Code(e, c), line, i) /\ i < Len(line)
                => DecodeFrom(e, line, f, i) = <<c>> \o f[i + Len(Code(e, c))]
           /\ i + 1 = Len(line) /\ line[i + 1] = Quote(e) => DecodeFrom(e, line, f, i) = <<>>
<1>1. ASSUME NEW c \in Kept(e), Matches(Code(e, c), line, i), i < Len(line)
      PROVE  DecodeFrom(e, line, f, i) = <<c>> \o f[i + Len(Code(e, c))]
  <2>1. i # Len(line)
    BY <1>1
  <2>2. CASE Escape(Code(e, c), c) \in Entries(e)
    <3>. DEFINE x == Escape(Code(e, c), c)
    <3>1. x[1] = Code(e, c) /\ x[2] = c
      BY EscapeParts, Zenon
    <3>2. Matches(x[1], line, i)
      BY <1>1, <3>1, Zenon
    <3>3. Known(e, line, i) # {} /\ Entry(e, line, i) = x
      BY <2>2, <3>2, KnownFacts, Zenon
    <3>. HIDE DEF x
    <3>. QED  BY <2>1, <3>1, <3>3, Zenon DEF DecodeFrom
  <2>3. CASE Code(e, c) = <<c>> /\ c # Quote(e) /\ c \notin Forbidden(e)
    <3>1. Len(Code(e, c)) = 1 /\ Code(e, c)[1] = c
      BY <2>3
    <3>2. line[i + 1] = c
      <4>1. 1 \in 1 .. 1
        OBVIOUS
      <4>. QED  BY <1>1, <3>1, <4>1, Zenon DEF Matches
    <3>3. Known(e, line, i) = {}
      <4>1. c # Mark(e)
        BY <2>3, MarkFacts, Zenon
      <4>2. \A x \in Entries(e) : ~Matches(x[1], line, i)
        BY <3>2, <4>1, EscapeAhead, Zenon
      <4>. QED  BY <4>2, KnownFacts, Zenon
    <3>. QED  BY <2>1, <2>3, <3>1, <3>2, <3>3, Zenon DEF DecodeFrom
  <2>. QED  BY <2>2, <2>3, CodeFacts, Zenon DEF Kept
<1>2. ASSUME i + 1 = Len(line), line[i + 1] = Quote(e)
      PROVE  DecodeFrom(e, line, f, i) = <<>>
  <2>1. i # Len(line) /\ ~(i + 2 <= Len(line))
    BY <1>2
  <2>2. ASSUME NEW x \in Entries(e), Matches(x[1], line, i) PROVE FALSE
    <3>1. line[i + 1] = Mark(e)
      BY <2>2, EscapeAhead, Zenon
    <3>2. e \in {"q", "c"}
      BY <1>2, <3>1, MarkFacts, Zenon
    <3>3. Len(x[1]) = 2
      BY <3>2, MarkFacts, Zenon
    <3>. QED  BY <2>1, <2>2, <3>3, Zenon DEF Matches
  <2>3. Known(e, line, i) = {}
    BY <2>2, KnownFacts, Zenon
  <2>. QED  BY <1>2, <2>1, <2>3, Zenon DEF DecodeFrom
<1>. QED  BY <1>1, <1>2, Zenon

\* A reader of an encoding gets back what was encoded.
LEMMA DecodedRight ==
    ASSUME NEW e \in Encodings, NEW s \in Seq(Kept(e))
    PROVE  Decoded(e, Append(EncodedWith(e, s), Quote(e))) = s
<1>. DEFINE N == Len(s)
            S == LineChars(e)
            seqs == Blocks(e, s)
            flat == EncodedWith(e, s)
            line == Append(flat, Quote(e))
            L == Len(line)
            got == Decoding(e, line)
            T(off) == {n \in 0 .. N : got[off[n]] = SubSeq(s, n + 1, N)}
<1>1. /\ seqs \in Seq(Seq(S)) /\ Len(seqs) = N /\ N \in Nat
      /\ \A n \in 1 .. N : seqs[n] = Code(e, s[n]) /\ Len(Code(e, s[n])) \in 1 .. 6
  BY BlocksType, CodeType
<1>2. flat = FlattenSeq(seqs)
  BY EncodedIs
<1>. HIDE DEF seqs, flat
<1>3. PICK off : EndsOf(off, S, seqs)
  BY <1>1, FlattenPlaces
<1>4. /\ flat \in Seq(S) /\ off \in [0 .. N -> Nat] /\ off[0] = 0 /\ off[N] = Len(flat)
      /\ \A n \in 1 .. N :
            /\ off[n] = off[n - 1] + Len(Code(e, s[n])) /\ off[n] <= Len(flat)
            /\ \A k \in 1 .. Len(Code(e, s[n])) : flat[off[n - 1] + k] = Code(e, s[n])[k]
  <2>. HIDE DEF N, S
  <2>1. /\ flat \in Seq(S) /\ off \in [0 .. N -> Nat] /\ off[0] = 0 /\ off[N] = Len(flat)
        /\ \A n \in 1 .. N :
            /\ off[n] = off[n - 1] + Len(seqs[n]) /\ off[n] <= Len(flat)
            /\ \A k \in 1 .. Len(seqs[n]) : flat[off[n - 1] + k] = seqs[n][k]
    BY <1>1, <1>2, <1>3, Zenon DEF EndsOf
  <2>. QED  BY <1>1, <2>1
<1>5. /\ line \in Seq(S) /\ L = Len(flat) + 1 /\ line[Len(flat) + 1] = Quote(e)
      /\ \A k \in 1 .. Len(flat) : line[k] = flat[k]
  <2>1. Quote(e) \in S
    BY DEF LineChars
  <2>. HIDE DEF S
  <2>. QED  BY <1>4, <2>1, AppendFacts
<1>6. Len(flat) \in Nat
  <2>. HIDE DEF S
  <2>. QED  BY <1>4
<1>. HIDE DEF S, line
<1>7. \A i \in 0 .. L : got[i] = DecodeFrom(e, line, got, i)
  BY <1>5, DecodingIs
<1>. HIDE DEF got, N
<1>8. ASSUME NEW n \in 1 .. N
      PROVE  got[off[n - 1]] = <<s[n]>> \o got[off[n]]
  <2>. DEFINE i == off[n - 1]
              m == Len(Code(e, s[n]))
  <2>1. i \in Nat /\ off[n] = i + m /\ i + m <= Len(flat) /\ m \in 1 .. 6
    <3>1. n - 1 \in 0 .. N
      BY <1>1
    <3>. HIDE DEF m
    <3>. QED  BY <1>1, <1>4, <3>1 DEF m
  <2>2. \A k \in 1 .. m : flat[i + k] = Code(e, s[n])[k]
    BY <1>4
  <2>. HIDE DEF i, m
  <2>3. i \in 0 .. L /\ i < L /\ i + m <= L /\ \A k \in 1 .. m : i + k \in 1 .. Len(flat)
    BY <1>5, <1>6, <2>1
  <2>4. Matches(Code(e, s[n]), line, i)
    <3>1. \A k \in 1 .. m : Code(e, s[n])[k] = line[i + k]
      BY <1>5, <2>2, <2>3, Zenon
    <3>. QED  BY <2>3, <3>1, Zenon DEF Matches, m
  <2>5. DecodeFrom(e, line, got, i) = <<s[n]>> \o got[i + m]
    <3>1. \A c \in Kept(e) : Matches(Code(e, c), line, i) /\ i < Len(line)
                => DecodeFrom(e, line, got, i) = <<c>> \o got[i + Len(Code(e, c))]
      BY <1>5, <2>3, DecodeSteps, Zenon
    <3>2. DecodeFrom(e, line, got, i) = <<s[n]>> \o got[i + Len(Code(e, s[n]))]
      <4>1. s[n] \in Kept(e)
        BY <1>8 DEF N
      <4>. QED  BY <2>3, <2>4, <3>1, <4>1, Zenon
    <3>. QED  BY <3>2 DEF m
  <2>. QED  BY <1>7, <2>1, <2>3, <2>5, Zenon DEF i
<1>9. got[off[N]] = <<>>
  <2>1. Len(flat) \in 0 .. L /\ Len(flat) + 1 = L
    BY <1>5, <1>6
  <2>2. DecodeFrom(e, line, got, Len(flat)) = <<>>
    BY <1>5, <2>1, DecodeSteps, Zenon
  <2>. QED  BY <1>4, <1>7, <2>1, <2>2, Zenon
<1>10. /\ SubSeq(s, N + 1, N) = <<>> /\ SubSeq(s, 0 + 1, N) = s
       /\ \A n \in 0 .. N - 1 : SubSeq(s, n + 1, N) = <<s[n + 1]>> \o SubSeq(s, (n + 1) + 1, N)
  BY RestSteps DEF N
<1>11. ASSUME NEW n \in 0 .. N, \A k \in n + 1 .. N : k \in T(off)
       PROVE  n \in T(off)
  <2>1. CASE n = N
    BY <1>9, <1>10, <2>1
  <2>2. CASE n # N
    <3>1. n \in 0 .. N - 1 /\ n + 1 \in 1 .. N /\ n + 1 \in n + 1 .. N /\ (n + 1) - 1 = n
      BY <1>1, <2>2
    <3>2. got[off[n + 1]] = SubSeq(s, (n + 1) + 1, N)
      BY <1>11, <3>1
    <3>3. got[off[n]] = <<s[n + 1]>> \o got[off[n + 1]]
      <4>1. got[off[(n + 1) - 1]] = <<s[n + 1]>> \o got[off[n + 1]]
        BY <1>8, <3>1
      <4>. QED  BY <3>1, <4>1
    <3>4. got[off[n]] = SubSeq(s, n + 1, N)
      BY <1>10, <3>1, <3>2, <3>3, Zenon
    <3>. QED  BY <3>4
  <2>. QED  BY <2>1, <2>2
<1>12. 0 \in T(off)
  <2>1. 0 \in 0 .. N
    BY <1>1
  <2>. HIDE DEF T
  <2>. QED  BY <1>1, <1>11, <2>1, Descend
<1>13. got[0] = s
  <2>1. got[off[0]] = SubSeq(s, 0 + 1, N)
    BY <1>12
  <2>. QED  BY <1>4, <1>10, <2>1, Zenon
<1>14. Decoded(e, line) = got[0]
  BY DecodedDefinition DEF got
<1>. QED  BY <1>13, <1>14 DEF line, flat

\* What is printed of a message is a text, and all of it if it fits.
LEMMA PrintedFacts ==
    ASSUME message \in Seq(Characters)
    PROVE  Printed \in Seq(Characters) /\ (Fits => Printed = message)
<1>1. BufferSize \in Nat \ {0} /\ Len(message) \in Nat
  BY LogAssumption
<1>2. CASE Fits
  BY <1>2, Zenon DEF Printed
<1>3. CASE ~Fits
  <2>1. BufferSize - 1 \in 0 .. Len(message)
    BY <1>1, <1>3 DEF Fits
  <2>2. SubSeq(message, 1, BufferSize - 1) \in Seq(Characters)
    BY <2>1, FrontFacts
  <2>. QED  BY <1>3, <2>2, Zenon DEF Printed
<1>. QED  BY <1>2, <1>3

\* What is logged does not change.
LEMMA WrittenHolds == LogSpec => []Written
<1>1. Written /\ [UNCHANGED <<template, message>>]_<<template, message>> => Written'
  BY DEF Written
<1>. QED  BY <1>1, PTL DEF LogSpec

\* For all templates, messages and sizes of the buffer: a template is accepted if and only if all
\* of its directives are known and one has the message; what is accepted is printed as documented,
\* directive by directive, but for the names of days and months; and any text without the control
\* characters that an encoder leaves raw is what a reader of JSON, XML, SQL or CSV gets back from
\* the line (start.c:277-906).
THEOREM LinesReadable == LogSpec => []LogLinesReadable
<1>1. ASSUME Written PROVE LogLinesReadable
  <2>1. IsTemplate /\ message \in Seq(Characters)
    BY <1>1, LogAssumption DEF Written, CStrings, IsTemplate
  <2>2. Printed \in Seq(Characters) /\ (Fits => Printed = message)
    BY <2>1, PrintedFacts
  <2>3. ASSUME NEW e \in Encodings, \A i \in DOMAIN Printed : Printed[i] \notin LeftRaw(e)
        PROVE  ReadBack(e, Printed)
    <3>1. DOMAIN Printed = 1 .. Len(Printed) /\ \A i \in DOMAIN Printed : Printed[i] \in Kept(e)
      <4>. HIDE DEF Printed
      <4>. QED  BY <2>2, <2>3 DEF Kept
    <3>2. Printed \in Seq(Kept(e))
      BY <2>2, <3>1, Retyped, Zenon
    <3>. QED  BY <3>2, DecodedRight DEF ReadBack
  <2>. QED  BY <2>1, <2>2, <2>3, TemplateRight, Zenon DEF LogLinesReadable
<1>. QED  BY <1>1, WrittenHolds, PTL
=============================================================================
