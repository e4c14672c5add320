-------------------------- MODULE SupervisorProofs --------------------------
(* Theorems about Supervisor, for every value of its constants.            *)
EXTENDS Supervisor, TLAPS

USE PidsAssumption, SendsAssumption DEF NotForked, EveryPid

\* The initial state is well-typed.
LEMMA TypeInit == Init => TypeOK
<1> SUFFICES ASSUME Init PROVE TypeOK
  OBVIOUS
<1> USE DEF Init
<1>1. RunnerOK
  BY DEF RunnerOK, Places, Outcomes
<1>2. ProcsOK
  BY DEF ProcsOK, Stages, Outcomes
<1>3. FilesOK
  <2>1. heir \in BOOLEAN /\ pidfile_runner \in BOOLEAN
    BY Zenon
  <2>2. pidfile \in Pids \union {NotForked} /\ sends \in 0 .. MaxSends
    OBVIOUS
  <2> QED
    BY <2>1, <2>2 DEF FilesOK
<1> QED
  BY <1>1, <1>2, <1>3 DEF TypeOK

\* What the kernel does to a process keeps the types.
LEMMA DiesType ==
    ASSUME ProcsOK, NEW p \in Pids, NEW o \in Outcomes, Dies(p, o), pending \subseteq Signals
    PROVE  ProcsOK' /\ pending' \subseteq Signals
<1>1. pending' \subseteq Signals
  BY DEF Dies, ChildSignal, Signals
<1>2. stage' \in [Pids -> Stages]
  BY DEF ProcsOK, Dies, Stages
<1>3. mask' \in [Pids -> SUBSET Signals]
  BY DEF ProcsOK, Dies
<1>4. sigs' \in [Pids -> SUBSET (StopSignals \union {"KILL"})]
  BY DEF ProcsOK, Dies
<1>5. handlers' \in [Pids -> BOOLEAN] /\ outcome' \in [Pids -> Outcomes]
  BY DEF ProcsOK, Dies
<1> QED
  BY <1>1, <1>2, <1>3, <1>4, <1>5 DEF ProcsOK

\* kill() adds a signal that can be sent to a process.
LEMMA KillType ==
    ASSUME sigs \in [Pids -> SUBSET (StopSignals \union {"KILL"})],
           NEW target, NEW s \in StopSignals \union {"KILL"}, Kill(target, s)
    PROVE  sigs' \in [Pids -> SUBSET (StopSignals \union {"KILL"})]
BY DEF Kill

\* Every step of the runner, its child and the world keeps the types.
LEMMA TypeNext == TypeOK /\ [Next]_vars => TypeOK'
<1> SUFFICES ASSUME TypeOK, [Next]_vars PROVE TypeOK'
  OBVIOUS
<1> USE DEF TypeOK, RunnerOK, ProcsOK, FilesOK, vars, control, globals, watching, procs, files
<1> USE SentAssumption, EndsAssumption
        DEF Places, Waiting, Leaving, Stages, Alive, Setup, Outcomes, Crashes, Signals,
            StopSignals, Gone
<1>1. ASSUME NEW s \in Sent, Send(s) PROVE TypeOK'
  <2>1. stage' \in [Pids -> Stages]
    BY <1>1 DEF Send, KillRunner, ZombiesReaped
  <2>2. pending' \subseteq Signals /\ pc' \in Places
    <3>1. CASE s = "KILL"
      BY <1>1, <3>1 DEF Send, KillRunner
    <3>2. CASE s # "KILL"
      <4>1. s \in Signals
        BY <3>2
      <4>2. pending' = pending \union {s} /\ pc' = pc
        BY <1>1, <3>2 DEF Send
      <4> QED
        BY <4>1, <4>2
    <3> QED
      BY <3>1, <3>2
  <2>3. sends' \in 0 .. MaxSends
    BY <1>1 DEF Send
  <2> QED
    BY <1>1, <2>1, <2>2, <2>3 DEF Send
<1>2. CASE handle_stop_signal
  <2> PICK s \in StopSignals :
          /\ Deliver(s)
          /\ IF service_pid = NotForked
             THEN UNCHANGED <<running, sigs>>
             ELSE running' = FALSE /\ Forward(s)
          /\ UNCHANGED <<restart_issued, got_sigchld>>
    BY <1>2 DEF handle_stop_signal
  <2>1. sigs' \in [Pids -> SUBSET (StopSignals \union {"KILL"})]
    BY KillType DEF Forward
  <2>2. running' \in BOOLEAN
    OBVIOUS
  <2>3. RunnerOK' /\ FilesOK'
    BY <2>2 DEF Deliver
  <2> QED
    BY <2>1, <2>3 DEF Deliver
<1>3. CASE handle_restart_signal
  <2>1. sigs' \in [Pids -> SUBSET (StopSignals \union {"KILL"})]
    BY <1>3, KillType DEF handle_restart_signal, Forward
  <2>2. restart_issued' \in BOOLEAN
    BY <1>3 DEF handle_restart_signal
  <2>3. RunnerOK' /\ FilesOK'
    BY <1>3, <2>2 DEF handle_restart_signal, Deliver
  <2> QED
    BY <1>3, <2>1, <2>3 DEF handle_restart_signal, Deliver
<1>4. CASE handles_logrotate
  BY <1>4 DEF handles_logrotate, Deliver
<1>5. CASE handle_child
  BY <1>5 DEF handle_child, Deliver
<1>6. CASE Boot
  BY <1>6 DEF Boot, At
<1>7. CASE Fork
  <2>1. PICK p \in Pids :
          /\ service_pid' = p
          /\ stage' = [stage EXCEPT ![p] = "new"]
          /\ mask' = [mask EXCEPT ![p] = blocked]
          /\ sigs' = [sigs EXCEPT ![p] = {}]
          /\ handlers' = [handlers EXCEPT ![p] = armed]
    BY <1>7 DEF Fork
  <2>2. ProcsOK'
    BY <1>7, <2>1 DEF Fork
  <2>3. RunnerOK' /\ FilesOK'
    BY <1>7, <2>1 DEF Fork, At
  <2> QED
    BY <2>2, <2>3
<1>8. CASE Arm
  BY <1>8 DEF Arm, At
<1>9. CASE Watch
  BY <1>9 DEF Watch, At
<1>10. CASE Drop
  BY <1>10 DEF Drop, At, Kill
<1>11. CASE DropWait
  BY <1>11 DEF DropWait, At, Reaped, Waited, Own
<1>12. CASE Loop
  BY <1>12 DEF Loop, At
<1>13. CASE PollReturns
  <2>1. revents' \subseteq {"pid", "pipe"}
    BY <1>13 DEF PollReturns, Ready
  <2> QED
    BY <1>13, <2>1 DEF PollReturns, At
<1>14. CASE Check
  <2>1. got_sigchld' \in BOOLEAN /\ pc' \in Places
    BY <1>14 DEF Check, At
  <2> QED
    BY <1>14, <2>1 DEF Check, At
<1>15. CASE Reap
  BY <1>15 DEF Reap, At, Reaped, Waited, Own
<1>16. CASE ReapNothing
  BY <1>16 DEF ReapNothing, At
<1>17. CASE Block
  BY <1>17 DEF Block, At
<1>18. CASE Judge
  BY <1>18 DEF Judge, At
<1>19. CASE Crashed
  BY <1>19 DEF Crashed, At, ChildSignal
<1>20. CASE EndLoop
  BY <1>20 DEF EndLoop, At
<1>21. CASE UnlinkPidfile
  BY <1>21 DEF UnlinkPidfile, At
<1>22. CASE Exit
  <2>1. stage' \in [Pids -> Stages]
    BY <1>22 DEF Exit, ZombiesReaped
  <2>2. pidfile_runner' \in BOOLEAN
    BY <1>22, Zenon DEF Exit
  <2> QED
    BY <1>22, <2>1, <2>2 DEF Exit
<1>23. CASE BootFails
  BY <1>23 DEF BootFails, At
<1>24. CASE ForkFails
  BY <1>24 DEF ForkFails, At
<1>25. CASE WatchFails
  BY <1>25 DEF WatchFails, At
<1>26. CASE PollFails
  BY <1>26 DEF PollFails, At
<1>27. CASE PollLogData
  BY <1>27 DEF PollLogData, At, Ready
<1>28. CASE LeaveHeir
  BY <1>28 DEF LeaveHeir
<1>29. CASE HeirExits
  <2>1. heir' \in BOOLEAN
    BY <1>29, Zenon DEF HeirExits
  <2> QED
    BY <1>29, <2>1 DEF HeirExits
<1>30. CASE Terminated
  BY <1>30 DEF Terminated
<1>31. ASSUME NEW p \in Pids, WritePidfile(p) PROVE TypeOK'
  BY <1>31 DEF WritePidfile
<1>32. ASSUME NEW p \in Pids, Unblock(p) PROVE TypeOK'
  BY <1>32 DEF Unblock
<1>33. ASSUME NEW p \in Pids, Exec(p) PROVE TypeOK'
  BY <1>33 DEF Exec
<1>34. ASSUME NEW p \in Pids, signal_premature_exit(p) PROVE TypeOK'
  <2>1. \E to \in {"failing", "untold"} : stage' = [stage EXCEPT ![p] = to]
    BY <1>34 DEF signal_premature_exit
  <2>2. stage' \in [Pids -> Stages]
    BY <2>1
  <2>3. pending' \subseteq Signals
    BY <1>34 DEF signal_premature_exit
  <2> QED
    BY <1>34, <2>2, <2>3 DEF signal_premature_exit
<1>35. ASSUME NEW p \in Pids, PrematureExit(p) PROVE TypeOK'
  BY <1>35 DEF PrematureExit, Dies, ChildSignal
<1>36. ASSUME NEW p \in Pids, ChildSignalled(p) PROVE TypeOK'
  <2>1. PICK s \in sigs[p] \ mask[p] :
          \/ \E o \in KilledBy(s) : Dies(p, o)
          \/ /\ sigs' = [sigs EXCEPT ![p] = @ \ {s}]
             /\ UNCHANGED <<pending, stage, mask, handlers, outcome>>
    BY <1>36 DEF ChildSignalled
  <2>2. KilledBy(s) \subseteq Outcomes
    BY DEF KilledBy
  <2>3. ASSUME NEW o \in KilledBy(s), Dies(p, o)
        PROVE  ProcsOK' /\ pending' \subseteq Signals
    BY <2>2, <2>3, DiesType
  <2>4. ASSUME sigs' = [sigs EXCEPT ![p] = @ \ {s}],
               UNCHANGED <<pending, stage, mask, handlers, outcome>>
        PROVE  ProcsOK' /\ pending' \subseteq Signals
    BY <2>4
  <2>5. ProcsOK' /\ pending' \subseteq Signals
    BY <2>1, <2>3, <2>4
  <2> QED
    BY <1>36, <2>5 DEF ChildSignalled
<1>37. ASSUME NEW p \in Pids, ServiceSignalled(p) PROVE TypeOK'
  <2>1. PICK s \in sigs[p] \ mask[p] :
          \/ \E o \in KilledBy(s) \union {"ok"} : Dies(p, o)
          \/ /\ sigs' = [sigs EXCEPT ![p] = @ \ {s}]
             /\ UNCHANGED <<pending, stage, mask, handlers, outcome>>
    BY <1>37 DEF ServiceSignalled
  <2>2. KilledBy(s) \union {"ok"} \subseteq Outcomes
    BY DEF KilledBy
  <2>3. ASSUME NEW o \in KilledBy(s) \union {"ok"}, Dies(p, o)
        PROVE  ProcsOK' /\ pending' \subseteq Signals
    BY <2>2, <2>3, DiesType
  <2>4. ASSUME sigs' = [sigs EXCEPT ![p] = @ \ {s}],
               UNCHANGED <<pending, stage, mask, handlers, outcome>>
        PROVE  ProcsOK' /\ pending' \subseteq Signals
    BY <2>4
  <2>5. ProcsOK' /\ pending' \subseteq Signals
    BY <2>1, <2>3, <2>4
  <2> QED
    BY <1>37, <2>5 DEF ServiceSignalled
<1>38. ASSUME NEW p \in Pids, ServiceEnds(p) PROVE TypeOK'
  BY <1>38 DEF ServiceEnds, Dies, ChildSignal
<1>39. ASSUME NEW p \in Pids, OtherStarts(p) PROVE TypeOK'
  BY <1>39 DEF OtherStarts
<1>40. ASSUME NEW p \in Pids, OtherExits(p) PROVE TypeOK'
  BY <1>40 DEF OtherExits
<1>41. CASE UNCHANGED vars
  BY <1>41
<1> QED
  BY <1>1, <1>2, <1>3, <1>4, <1>5, <1>6, <1>7, <1>8, <1>9, <1>10, <1>11, <1>12, <1>13, <1>14, <1>15, <1>16, <1>17, <1>18, <1>19, <1>20, <1>21, <1>22, <1>23, <1>24, <1>25, <1>26, <1>27, <1>28, <1>29, <1>30, <1>31, <1>32, <1>33, <1>34, <1>35, <1>36, <1>37, <1>38, <1>39, <1>40, <1>41 DEF Next, RunnerStep, Handler, RunnerFault, World, ChildStep

\* Every variable keeps its type: in particular service_pid is 0, -1 or a process id,
\* and only SIGKILL and the signals that the handlers forward are ever sent to a service.
THEOREM TypeCorrect == Spec => []TypeOK
BY TypeInit, TypeNext, PTL DEF Spec
-----------------------------------------------------------------------------
\* Only booting makes the runner want the service; a stop and a judgement can only end that.
LEMMA KeptNext == [Next]_vars => [running' => running \/ pc = "boot"]_vars
<1> SUFFICES ASSUME [Next]_vars, running' PROVE running \/ pc = "boot"
  OBVIOUS
<1> USE DEF globals
<1>1. CASE UNCHANGED globals
  BY <1>1
<1>2. CASE Handler
  BY <1>2 DEF Handler, handle_stop_signal, handle_restart_signal, handles_logrotate, handle_child
<1>3. CASE Boot
  BY <1>3 DEF Boot, At
<1>4. CASE Fork \/ Arm \/ Watch \/ Drop \/ DropWait
  BY <1>4 DEF Fork, Arm, Watch, Drop, DropWait
<1>5. CASE Loop \/ PollReturns \/ Check \/ Reap \/ ReapNothing \/ Block
  BY <1>5 DEF Loop, PollReturns, Check, Reap, ReapNothing, Block
<1>6. CASE Judge \/ Crashed \/ EndLoop \/ UnlinkPidfile \/ Exit
  BY <1>6 DEF Judge, Crashed, EndLoop, UnlinkPidfile, Exit
<1>7. CASE RunnerFault
  BY <1>7 DEF RunnerFault, BootFails, ForkFails, WatchFails, PollFails
<1>8. ASSUME NEW p \in Pids, ChildStep(p) \/ ServiceSignalled(p) PROVE UNCHANGED globals
  BY <1>8 DEF ChildStep, WritePidfile, Unblock, Exec, signal_premature_exit, PrematureExit,
              ChildSignalled, ServiceSignalled, control
<1>9. CASE World
  BY <1>9 DEF World, Send, KillRunner, PollLogData, ServiceEnds, OtherStarts, OtherExits,
              LeaveHeir, HeirExits, control
<1>10. CASE Terminated \/ UNCHANGED vars
  BY <1>10 DEF Terminated, vars
<1> QED
  BY <1>1, <1>2, <1>3, <1>4, <1>5, <1>6, <1>7, <1>8, <1>9, <1>10 DEF Next, RunnerStep

\* A stop is never revoked, whatever fails: not even where the runner loses its service.
THEOREM StopKept == Spec => StopSticks
BY KeptNext, PTL DEF Spec, StopSticks
-----------------------------------------------------------------------------
\* There is no child yet.
LEMMA OwnershipInit == Init => Ownership
BY DEF Init, Ownership, Own, Alive, Setup, Waiting

\* The runner has one child at most, the one in service_pid, with or without pidfds.
LEMMA OwnershipNext ==
    ASSUME "poll" \notin Faults, TypeOK, Ownership, [Next]_vars
    PROVE  Ownership'
<1> USE DEF vars, control, globals, watching, procs, files
<1> USE DEF Ownership, Own, Alive, Setup, Waiting, Gone
<1> USE DEF TypeOK, RunnerOK, ProcsOK, FilesOK
<1>1. ASSUME NEW s \in Sent, Send(s) PROVE Ownership'
  <2>1. CASE s = "KILL"
    <3>1. pc' = "killed" /\ UNCHANGED <<service_pid, pidfile>>
      BY <1>1, <2>1 DEF Send, KillRunner
    <3>2. \A p \in Pids : stage'[p] = IF stage[p] = "zombie" THEN "free" ELSE stage[p]
      BY <1>1, <2>1 DEF Send, KillRunner, ZombiesReaped
    <3> QED
      BY <3>1, <3>2
  <2>2. CASE s # "KILL"
    BY <1>1, <2>2 DEF Send
  <2> QED
    BY <2>1, <2>2
<1>2. CASE handle_stop_signal
  BY <1>2 DEF handle_stop_signal, Deliver
<1>3. CASE handle_restart_signal
  BY <1>3 DEF handle_restart_signal, Deliver
<1>4. CASE handles_logrotate
  BY <1>4 DEF handles_logrotate, Deliver
<1>5. CASE handle_child
  BY <1>5 DEF handle_child, Deliver
<1>6. CASE Boot
  BY <1>6 DEF Boot, At
<1>7. CASE Fork
  BY <1>7 DEF Fork, At
<1>8. CASE Arm
  BY <1>8 DEF Arm, At
<1>9. CASE Watch
  BY <1>9 DEF Watch, At
<1>10. CASE Drop
  BY <1>10 DEF Drop, At
<1>11. CASE DropWait
  BY <1>11 DEF DropWait, At, Reaped, Waited
<1>12. CASE Loop
  BY <1>12 DEF Loop, At
<1>13. CASE PollReturns
  BY <1>13 DEF PollReturns, At
<1>14. CASE Check
  BY <1>14 DEF Check, At
<1>15. CASE Reap
  BY <1>15 DEF Reap, At, Reaped, Waited
<1>16. CASE ReapNothing
  BY <1>16 DEF ReapNothing, At, Waited
<1>17. CASE Block
  BY <1>17 DEF Block, At
<1>18. CASE Judge
  BY <1>18 DEF Judge, At
<1>19. CASE Crashed
  BY <1>19 DEF Crashed, At
<1>20. CASE EndLoop
  BY <1>20 DEF EndLoop, At
<1>21. CASE UnlinkPidfile
  BY <1>21 DEF UnlinkPidfile, At
<1>22. CASE Exit
  BY <1>22 DEF Exit, At, ZombiesReaped
<1>23. CASE BootFails
  BY <1>23 DEF BootFails, At
<1>24. CASE ForkFails
  BY <1>24 DEF ForkFails, At
<1>25. CASE WatchFails
  BY <1>25 DEF WatchFails, At
<1>26. CASE PollFails
  BY <1>26 DEF PollFails
<1>27. CASE PollLogData
  BY <1>27 DEF PollLogData, At
<1>28. CASE LeaveHeir
  BY <1>28 DEF LeaveHeir
<1>29. CASE HeirExits
  BY <1>29 DEF HeirExits
<1>30. CASE Terminated
  BY <1>30 DEF Terminated
<1>31. ASSUME NEW p \in Pids, WritePidfile(p) PROVE Ownership'
  BY <1>31 DEF WritePidfile
<1>32. ASSUME NEW p \in Pids, Unblock(p) PROVE Ownership'
  BY <1>32 DEF Unblock
<1>33. ASSUME NEW p \in Pids, Exec(p) PROVE Ownership'
  BY <1>33 DEF Exec
<1>34. ASSUME NEW p \in Pids, signal_premature_exit(p) PROVE Ownership'
  BY <1>34 DEF signal_premature_exit
<1>35. ASSUME NEW p \in Pids, PrematureExit(p) PROVE Ownership'
  BY <1>35 DEF PrematureExit, Dies
<1>36. ASSUME NEW p \in Pids, ChildSignalled(p) PROVE Ownership'
  <2>1. ASSUME NEW o, Dies(p, o) PROVE Ownership'
    BY <1>36, <2>1 DEF ChildSignalled, Dies
  <2>2. CASE UNCHANGED stage
    BY <1>36, <2>2 DEF ChildSignalled
  <2> QED
    BY <1>36, <2>1, <2>2 DEF ChildSignalled
<1>37. ASSUME NEW p \in Pids, ServiceSignalled(p) PROVE Ownership'
  BY <1>37 DEF ServiceSignalled, Dies
<1>38. ASSUME NEW p \in Pids, ServiceEnds(p) PROVE Ownership'
  BY <1>38 DEF ServiceEnds, Dies
<1>39. ASSUME NEW p \in Pids, OtherStarts(p) PROVE Ownership'
  BY <1>39 DEF OtherStarts
<1>40. ASSUME NEW p \in Pids, OtherExits(p) PROVE Ownership'
  BY <1>40 DEF OtherExits
<1>41. CASE UNCHANGED vars
  BY <1>41
<1> QED
  BY <1>1, <1>2, <1>3, <1>4, <1>5, <1>6, <1>7, <1>8, <1>9, <1>10, <1>11, <1>12, <1>13, <1>14, <1>15, <1>16, <1>17, <1>18, <1>19, <1>20, <1>21, <1>22, <1>23, <1>24, <1>25, <1>26, <1>27, <1>28, <1>29, <1>30, <1>31, <1>32, <1>33, <1>34, <1>35, <1>36, <1>37, <1>38, <1>39, <1>40, <1>41
     DEF Next, RunnerStep, Handler, RunnerFault, World, ChildStep

\* The runner owns its service at all times.
LEMMA Owning == ASSUME "poll" \notin Faults PROVE Spec => []Ownership
BY OwnershipInit, OwnershipNext, TypeCorrect, PTL DEF Spec

\* Never two services, not even one that is set up beside one that still ends: with or
\* without pidfds, for every failure but that of poll().
THEOREM ServiceOwned ==
    ASSUME "poll" \notin Faults
    PROVE  Spec => []AtMostOneService
<1>1. Ownership => AtMostOneService
  BY DEF Ownership, Own, AtMostOneService
<1> QED
  BY <1>1, Owning, PTL

\* Nothing is left behind by a runner that exits.
THEOREM NothingLeft ==
    ASSUME "poll" \notin Faults
    PROVE  Spec => []CleanExit
<1>1. Ownership => CleanExit
  BY DEF Ownership, Own, CleanExit, Alive, Setup, Waiting
<1> QED
  BY <1>1, Owning, PTL

\* The child writes the pidfile while it is the only one, and the runner removes it when
\* there is none.
LEMMA PidfileNext ==
    ASSUME TypeOK, Ownership, PidfileNamesService, [Next]_vars
    PROVE  PidfileNamesService'
<1> USE DEF vars, control, globals, watching, procs, files
<1> USE DEF PidfileNamesService, Alive, Setup
<1> USE DEF TypeOK, ProcsOK
<1>1. CASE UNCHANGED <<stage, pidfile>>
  BY <1>1
<1>2. ASSUME NEW s \in Sent, Send(s) PROVE PidfileNamesService'
  BY <1>2 DEF Send, KillRunner, ZombiesReaped
<1>3. CASE Handler
  BY <1>1, <1>3 DEF Handler, handle_stop_signal, handle_restart_signal, handles_logrotate,
                    handle_child, Deliver
<1>4. CASE Fork
  BY <1>4 DEF Fork
<1>5. CASE DropWait \/ Reap
  BY <1>5 DEF DropWait, Reap, Reaped, Waited, Own
<1>6. CASE Exit
  BY <1>6 DEF Exit, ZombiesReaped
<1>7. CASE UnlinkPidfile
  BY <1>7 DEF UnlinkPidfile, At, Ownership, Own, Waiting
<1>8. CASE Boot \/ Arm \/ Watch \/ Drop \/ Loop \/ PollReturns \/ Check \/ ReapNothing
  BY <1>1, <1>8 DEF Boot, Arm, Watch, Drop, Loop, PollReturns, Check, ReapNothing
<1>9. CASE Block \/ Judge \/ Crashed \/ EndLoop \/ RunnerFault
  BY <1>1, <1>9 DEF Block, Judge, Crashed, EndLoop, RunnerFault, BootFails, ForkFails,
                    WatchFails, PollFails
<1>10. ASSUME NEW p \in Pids, WritePidfile(p) PROVE PidfileNamesService'
  BY <1>10 DEF WritePidfile, Ownership, Own
<1>11. ASSUME NEW p \in Pids, Unblock(p) \/ Exec(p) PROVE PidfileNamesService'
  BY <1>11 DEF Unblock, Exec
<1>12. ASSUME NEW p \in Pids, signal_premature_exit(p) \/ PrematureExit(p) \/ ChildSignalled(p)
       PROVE  PidfileNamesService'
  BY <1>12 DEF signal_premature_exit, PrematureExit, ChildSignalled, Dies
<1>13. ASSUME NEW p \in Pids, ServiceSignalled(p) \/ ServiceEnds(p) PROVE PidfileNamesService'
  BY <1>13 DEF ServiceSignalled, ServiceEnds, Dies
<1>14. ASSUME NEW p \in Pids, OtherStarts(p) \/ OtherExits(p) PROVE PidfileNamesService'
  BY <1>14 DEF OtherStarts, OtherExits
<1>15. CASE PollLogData \/ LeaveHeir \/ HeirExits \/ Terminated
  BY <1>1, <1>15 DEF PollLogData, LeaveHeir, HeirExits, Terminated
<1> QED
  BY <1>1, <1>2, <1>3, <1>4, <1>5, <1>6, <1>7, <1>8, <1>9, <1>10, <1>11, <1>12, <1>13, <1>14, <1>15
     DEF Next, RunnerStep, World, ChildStep

\* A service that runs is named by its pidfile, whatever happened to those before it.
THEOREM PidfileTrue ==
    ASSUME "poll" \notin Faults
    PROVE  Spec => []PidfileNamesService
<1>1. Init => PidfileNamesService
  BY DEF Init, PidfileNamesService, Alive, Setup
<1> QED
  BY <1>1, PidfileNext, Owning, TypeCorrect, PTL DEF Spec
-----------------------------------------------------------------------------
\* At the start service_pid is 0 and everything is blocked.
LEMMA WatchedInit == Init => Watched
BY DEF Init, Watched, Waiting, Leaving, Signals

\* service_pid is what the handlers and the loop take it for, at every place.
LEMMA WatchedNext ==
    ASSUME "poll" \notin Faults, TypeOK, Ownership, Watched, [Next]_vars
    PROVE  Watched'
<1> USE DEF vars, control, globals, watching, procs, files
<1> USE DEF Watched, Own, Alive, Setup, Waiting, Leaving, Gone, Signals, StopSignals
<1> USE DEF TypeOK, RunnerOK, ProcsOK
<1>1. ASSUME NEW s \in Sent, Send(s) PROVE Watched'
  BY <1>1 DEF Send, KillRunner, ZombiesReaped
<1>2. CASE handle_stop_signal
  BY <1>2 DEF handle_stop_signal, Deliver
<1>3. CASE handle_restart_signal
  BY <1>3 DEF handle_restart_signal, Deliver
<1>4. CASE handles_logrotate
  BY <1>4 DEF handles_logrotate, Deliver
<1>5. CASE handle_child
  BY <1>5 DEF handle_child, Deliver
<1>6. CASE Boot
  BY <1>6 DEF Boot, At
<1>7. CASE Fork
  BY <1>7 DEF Fork, At
<1>8. CASE Arm
  BY <1>8 DEF Arm, At
<1>9. CASE Watch
  BY <1>9 DEF Watch, At
<1>10. CASE Drop
  BY <1>10 DEF Drop, At
<1>11. CASE DropWait
  BY <1>11 DEF DropWait, At, Reaped, Waited
<1>12. CASE Loop
  BY <1>12 DEF Loop, At
<1>13. CASE PollReturns
  BY <1>13 DEF PollReturns, At
<1>14. CASE Check
  BY <1>14 DEF Check, At
<1>15. CASE Reap
  BY <1>15 DEF Reap, At, Reaped, Waited, Ownership
<1>16. CASE ReapNothing
  BY <1>16 DEF ReapNothing, At, Waited, Ownership
<1>17. CASE Block
  BY <1>17 DEF Block, At
<1>18. CASE Judge
  BY <1>18 DEF Judge, At
<1>19. CASE Crashed
  BY <1>19 DEF Crashed, At, Ownership
<1>20. CASE EndLoop
  BY <1>20 DEF EndLoop, At
<1>21. CASE UnlinkPidfile
  BY <1>21 DEF UnlinkPidfile, At
<1>22. CASE Exit
  BY <1>22 DEF Exit, At, ZombiesReaped
<1>23. CASE BootFails
  BY <1>23 DEF BootFails, At
<1>24. CASE ForkFails
  BY <1>24 DEF ForkFails, At
<1>25. CASE WatchFails
  BY <1>25 DEF WatchFails, At
<1>26. CASE PollFails
  BY <1>26 DEF PollFails
<1>27. CASE PollLogData
  BY <1>27 DEF PollLogData, At
<1>28. CASE LeaveHeir
  BY <1>28 DEF LeaveHeir
<1>29. CASE HeirExits
  BY <1>29 DEF HeirExits
<1>30. CASE Terminated
  BY <1>30 DEF Terminated
<1>31. ASSUME NEW p \in Pids, WritePidfile(p) PROVE Watched'
  BY <1>31 DEF WritePidfile
<1>32. ASSUME NEW p \in Pids, Unblock(p) PROVE Watched'
  BY <1>32 DEF Unblock
<1>33. ASSUME NEW p \in Pids, Exec(p) PROVE Watched'
  BY <1>33 DEF Exec
<1>34. ASSUME NEW p \in Pids, signal_premature_exit(p) PROVE Watched'
  BY <1>34 DEF signal_premature_exit
<1>35. ASSUME NEW p \in Pids, PrematureExit(p) PROVE Watched'
  BY <1>35 DEF PrematureExit, Dies
<1>36. ASSUME NEW p \in Pids, ChildSignalled(p) PROVE Watched'
  BY <1>36 DEF ChildSignalled, Dies
<1>37. ASSUME NEW p \in Pids, ServiceSignalled(p) PROVE Watched'
  BY <1>37 DEF ServiceSignalled, Dies
<1>38. ASSUME NEW p \in Pids, ServiceEnds(p) PROVE Watched'
  BY <1>38 DEF ServiceEnds, Dies
<1>39. ASSUME NEW p \in Pids, OtherStarts(p) PROVE Watched'
  BY <1>39 DEF OtherStarts
<1>40. ASSUME NEW p \in Pids, OtherExits(p) PROVE Watched'
  BY <1>40 DEF OtherExits
<1>41. CASE UNCHANGED vars
  BY <1>41
<1> QED
  BY <1>1, <1>2, <1>3, <1>4, <1>5, <1>6, <1>7, <1>8, <1>9, <1>10, <1>11, <1>12, <1>13, <1>14, <1>15, <1>16, <1>17, <1>18, <1>19, <1>20, <1>21, <1>22, <1>23, <1>24, <1>25, <1>26, <1>27, <1>28, <1>29, <1>30, <1>31, <1>32, <1>33, <1>34, <1>35, <1>36, <1>37, <1>38, <1>39, <1>40, <1>41
     DEF Next, RunnerStep, Handler, RunnerFault, World, ChildStep

\* The two inductive invariants that do not depend on pidfds.
LEMMA Watching == ASSUME "poll" \notin Faults PROVE Spec => [](TypeOK /\ Ownership /\ Watched)
BY TypeInit, TypeNext, OwnershipInit, OwnershipNext, WatchedInit, WatchedNext, PTL DEF Spec
-----------------------------------------------------------------------------
\* There is no pidfd yet.
LEMMA TargetsInit == Init => Targets
BY DEF Init, Targets, Waiting

\* A pidfd refers to the child wherever signals can be handled.
LEMMA TargetsNext ==
    ASSUME HasPidfd, "poll" \notin Faults, "pidfd_open" \notin Faults,
           TypeOK, Ownership, Watched, Targets, [Next]_vars
    PROVE  Targets'
<1> USE DEF vars, control, globals, watching, procs, files
<1> USE DEF Targets, Watched, Own, Waiting, Leaving, Gone, Signals, StopSignals
<1> USE DEF TypeOK, RunnerOK
<1>1. ASSUME NEW s \in Sent, Send(s) PROVE Targets'
  BY <1>1 DEF Send, KillRunner, ZombiesReaped
<1>2. CASE handle_stop_signal
  BY <1>2 DEF handle_stop_signal, Deliver
<1>3. CASE handle_restart_signal
  BY <1>3 DEF handle_restart_signal, Deliver
<1>4. CASE handles_logrotate
  BY <1>4 DEF handles_logrotate, Deliver
<1>5. CASE handle_child
  BY <1>5 DEF handle_child, Deliver
<1>6. CASE Boot
  BY <1>6 DEF Boot, At
<1>7. CASE Fork
  BY <1>7 DEF Fork, At
<1>8. CASE Arm
  BY <1>8 DEF Arm, At
<1>9. CASE Watch
  BY <1>9 DEF Watch, At
<1>10. CASE Drop
  BY <1>10 DEF Drop, At
<1>11. CASE DropWait
  BY <1>11 DEF DropWait, At, Reaped, Waited
<1>12. CASE Loop
  BY <1>12 DEF Loop, At
<1>13. CASE PollReturns
  BY <1>13 DEF PollReturns, At
<1>14. CASE Check
  BY <1>14 DEF Check, At
<1>15. CASE Reap
  BY <1>15 DEF Reap, At, Reaped, Waited, Ownership
<1>16. CASE ReapNothing
  BY <1>16 DEF ReapNothing, At, Waited, Ownership
<1>17. CASE Block
  BY <1>17 DEF Block, At
<1>18. CASE Judge
  BY <1>18 DEF Judge, At
<1>19. CASE Crashed
  BY <1>19 DEF Crashed, At, Ownership
<1>20. CASE EndLoop
  BY <1>20 DEF EndLoop, At
<1>21. CASE UnlinkPidfile
  BY <1>21 DEF UnlinkPidfile, At
<1>22. CASE Exit
  BY <1>22 DEF Exit, At, ZombiesReaped
<1>23. CASE BootFails
  BY <1>23 DEF BootFails, At
<1>24. CASE ForkFails
  BY <1>24 DEF ForkFails, At
<1>25. CASE WatchFails
  BY <1>25 DEF WatchFails, At
<1>26. CASE PollFails
  BY <1>26 DEF PollFails
<1>27. CASE PollLogData
  BY <1>27 DEF PollLogData, At
<1>28. CASE LeaveHeir
  BY <1>28 DEF LeaveHeir
<1>29. CASE HeirExits
  BY <1>29 DEF HeirExits
<1>30. CASE Terminated
  BY <1>30 DEF Terminated
<1>31. ASSUME NEW p \in Pids, WritePidfile(p) PROVE Targets'
  BY <1>31 DEF WritePidfile
<1>32. ASSUME NEW p \in Pids, Unblock(p) PROVE Targets'
  BY <1>32 DEF Unblock
<1>33. ASSUME NEW p \in Pids, Exec(p) PROVE Targets'
  BY <1>33 DEF Exec
<1>34. ASSUME NEW p \in Pids, signal_premature_exit(p) PROVE Targets'
  BY <1>34 DEF signal_premature_exit
<1>35. ASSUME NEW p \in Pids, PrematureExit(p) PROVE Targets'
  BY <1>35 DEF PrematureExit, Dies
<1>36. ASSUME NEW p \in Pids, ChildSignalled(p) PROVE Targets'
  BY <1>36 DEF ChildSignalled, Dies
<1>37. ASSUME NEW p \in Pids, ServiceSignalled(p) PROVE Targets'
  BY <1>37 DEF ServiceSignalled, Dies
<1>38. ASSUME NEW p \in Pids, ServiceEnds(p) PROVE Targets'
  BY <1>38 DEF ServiceEnds, Dies
<1>39. ASSUME NEW p \in Pids, OtherStarts(p) PROVE Targets'
  BY <1>39 DEF OtherStarts
<1>40. ASSUME NEW p \in Pids, OtherExits(p) PROVE Targets'
  BY <1>40 DEF OtherExits
<1>41. CASE UNCHANGED vars
  BY <1>41
<1> QED
  BY <1>1, <1>2, <1>3, <1>4, <1>5, <1>6, <1>7, <1>8, <1>9, <1>10, <1>11, <1>12, <1>13, <1>14, <1>15, <1>16, <1>17, <1>18, <1>19, <1>20, <1>21, <1>22, <1>23, <1>24, <1>25, <1>26, <1>27, <1>28, <1>29, <1>30, <1>31, <1>32, <1>33, <1>34, <1>35, <1>36, <1>37, <1>38, <1>39, <1>40, <1>41
     DEF Next, RunnerStep, Handler, RunnerFault, World, ChildStep

\* A handler that can run has a child of the runner to signal, or a pidfd.
THEOREM HandlersAimed ==
    ASSUME HasPidfd, "poll" \notin Faults, "pidfd_open" \notin Faults
    PROVE  Spec => []HandlerTarget
<1>1. TypeOK /\ Watched /\ Targets => HandlerTarget
  BY DEF TypeOK, RunnerOK, Places, Watched, Targets, HandlerTarget, Gone, Leaving
<1>2. Spec => []Targets
  BY Watching, TargetsInit, TargetsNext, PTL DEF Spec
<1> QED
  BY <1>1, <1>2, Watching, PTL
-----------------------------------------------------------------------------
\* From fork() until the loop of poll() begins, service_pid is the child's process id.
Forked == pc \in {"arm", "watch", "drop", "dropwait"} => service_pid \in Pids

\* Only fork() leads there, and service_pid is not assigned to before the loop.
LEMMA ForkedNext == Forked /\ [Next]_vars => Forked'
<1> SUFFICES ASSUME Forked, [Next]_vars PROVE Forked'
  OBVIOUS
<1> USE DEF Forked, control, globals
<1>1. CASE UNCHANGED <<pc, service_pid>>
  BY <1>1
<1>2. ASSUME NEW s \in Sent, Send(s) PROVE Forked'
  BY <1>2 DEF Send, KillRunner
<1>3. CASE Handler
  BY <1>3 DEF Handler, handle_stop_signal, handle_restart_signal, handles_logrotate,
              handle_child, Deliver
<1>4. CASE Boot \/ Fork \/ Arm \/ Watch \/ Drop \/ DropWait
  BY <1>4 DEF Boot, Fork, Arm, Watch, Drop, DropWait, At
<1>5. CASE Loop \/ PollReturns \/ Check \/ Reap \/ ReapNothing \/ Block
  BY <1>5 DEF Loop, PollReturns, Check, Reap, ReapNothing, Block
<1>6. CASE Judge \/ Crashed \/ EndLoop \/ UnlinkPidfile \/ Exit
  BY <1>6 DEF Judge, Crashed, EndLoop, UnlinkPidfile, Exit
<1>7. CASE RunnerFault
  BY <1>7 DEF RunnerFault, BootFails, ForkFails, WatchFails, PollFails, At
<1>8. ASSUME NEW p \in Pids, ChildStep(p) \/ ServiceSignalled(p) PROVE Forked'
  BY <1>1, <1>8 DEF ChildStep, WritePidfile, Unblock, Exec, signal_premature_exit,
                    PrematureExit, ChildSignalled, ServiceSignalled
<1>9. ASSUME NEW p \in Pids, ServiceEnds(p) \/ OtherStarts(p) \/ OtherExits(p) PROVE Forked'
  BY <1>1, <1>9 DEF ServiceEnds, OtherStarts, OtherExits
<1>10. CASE PollLogData \/ LeaveHeir \/ HeirExits
  BY <1>10 DEF PollLogData, LeaveHeir, HeirExits
<1>11. CASE Terminated \/ UNCHANGED vars
  BY <1>1, <1>11 DEF Terminated, vars
<1> QED
  BY <1>2, <1>3, <1>4, <1>5, <1>6, <1>7, <1>8, <1>9, <1>10, <1>11 DEF Next, RunnerStep, World

\* There is one way from the watch to the end, the waitpid() that has reaped the child.
LEMMA UnwatchedNext ==
    ASSUME TypeOK, Forked, [Next]_vars,
           pc \in {"watch", "drop", "dropwait"}, pc' \in {"unlink_pid", "unlink_runner"}
    PROVE  stage'[service_pid] \notin Alive
<1> USE DEF control
<1>1. ASSUME DropWait PROVE stage'[service_pid] \notin Alive
  <2>1. PICK p \in Waited : Reaped(p)
    BY <1>1 DEF DropWait
  <2>2. p \in Pids /\ p = service_pid
    BY <2>1 DEF Forked, Waited, Own
  <2>3. stage'[p] = "free"
    BY <2>1, <2>2 DEF Reaped, TypeOK, ProcsOK
  <2> QED
    BY <2>2, <2>3 DEF Alive, Setup
<1>2. ~Handler
  BY DEF Handler, handle_stop_signal, handle_restart_signal, handles_logrotate,
         handle_child, Deliver
<1>3. ~(Boot \/ Fork \/ Arm \/ Watch \/ Drop)
  BY DEF Boot, Fork, Arm, Watch, Drop, At
<1>4. ~(Loop \/ PollReturns \/ Check \/ Reap \/ ReapNothing \/ Block)
  BY DEF Loop, PollReturns, Check, Reap, ReapNothing, Block, At
<1>5. ~(Judge \/ Crashed \/ EndLoop \/ UnlinkPidfile \/ Exit)
  BY DEF Judge, Crashed, EndLoop, UnlinkPidfile, Exit, At
<1>6. ~RunnerFault
  BY DEF RunnerFault, BootFails, ForkFails, WatchFails, PollFails, At
<1>7. ~(\E p \in Pids : ChildStep(p) \/ ServiceSignalled(p))
  BY DEF ChildStep, WritePidfile, Unblock, Exec, signal_premature_exit, PrematureExit,
         ChildSignalled, ServiceSignalled
<1>8. ~World
  BY DEF World, Send, KillRunner, PollLogData, At, ServiceEnds, OtherStarts, OtherExits,
         LeaveHeir, HeirExits
<1>9. ~(Terminated \/ UNCHANGED vars)
  BY DEF Terminated, vars
<1> QED
  BY <1>1, <1>2, <1>3, <1>4, <1>5, <1>6, <1>7, <1>8, <1>9 DEF Next, RunnerStep

\* A service that cannot be watched does not outlive its runner's decision to leave:
\* whatever else fails, with or without pidfds.
THEOREM UnwatchedReaped == Spec => UnwatchedEnds
<1>1. Init => Forked
  BY DEF Init, Forked
<1>2. TypeOK /\ Forked /\ [Next]_vars =>
        [(pc \in {"watch", "drop", "dropwait"} /\ pc' \in {"unlink_pid", "unlink_runner"})
             => stage'[service_pid] \notin Alive]_vars
  BY UnwatchedNext
<1> QED
  BY <1>1, <1>2, ForkedNext, TypeCorrect, PTL DEF Spec, UnwatchedEnds
-----------------------------------------------------------------------------
\* No other process is there yet.
LEMMA UnharmedInit == Init => ForeignUnharmed
BY DEF Init, ForeignUnharmed

\* A signal goes to a child that has not been waited for, or nowhere.
LEMMA UnharmedNext ==
    ASSUME HasPidfd, "poll" \notin Faults, "pidfd_open" \notin Faults,
           TypeOK, Ownership, Watched, Targets, ForeignUnharmed, [Next]_vars
    PROVE  ForeignUnharmed'
<1> USE DEF vars, control, globals, watching, procs, files
<1> USE DEF ForeignUnharmed, TypeOK, RunnerOK, ProcsOK
<1>1. CASE UNCHANGED <<stage, sigs>>
  BY <1>1
<1>2. ASSUME NEW s \in Sent, Send(s) PROVE ForeignUnharmed'
  BY <1>2 DEF Send, KillRunner, ZombiesReaped
<1>3. ASSUME NEW s \in StopSignals \union {"USR1"}, NEW t \in Signals,
             Deliver(s), service_pid # NotForked, Forward(t)
      PROVE  ForeignUnharmed'
  <2>1. service_pidfd = "dead" \/ service_pid \in Own
    BY <1>3 DEF Deliver, Watched, Targets, Places, Leaving, Gone
  <2>2. CASE service_pidfd = "dead"
    BY <1>1, <1>3, <2>2 DEF Forward, Deliver
  <2>3. CASE service_pid \in Own
    BY <1>3, <2>3 DEF Forward, Kill, Deliver, Own, Alive, Setup
  <2> QED
    BY <2>1, <2>2, <2>3
<1>4. CASE handle_stop_signal
  BY <1>1, <1>3, <1>4 DEF handle_stop_signal, Deliver, StopSignals, Signals
<1>5. CASE handle_restart_signal
  BY <1>1, <1>3, <1>5 DEF handle_restart_signal, Deliver, StopSignals, Signals
<1>6. CASE handles_logrotate \/ handle_child
  BY <1>1, <1>6 DEF handles_logrotate, handle_child, Deliver
<1>7. CASE Fork
  BY <1>7 DEF Fork
<1>8. CASE Drop \/ DropWait
  BY <1>8 DEF Drop, DropWait, At, Targets
<1>9. CASE Reap
  BY <1>9 DEF Reap, Reaped, Waited, Own
<1>10. CASE Exit
  BY <1>10 DEF Exit, ZombiesReaped
<1>11. CASE Boot \/ Arm \/ Watch \/ Loop \/ PollReturns \/ Check \/ ReapNothing \/ Block
  BY <1>1, <1>11 DEF Boot, Arm, Watch, Loop, PollReturns, Check, ReapNothing, Block
<1>12. CASE Judge \/ Crashed \/ EndLoop \/ UnlinkPidfile \/ RunnerFault
  BY <1>1, <1>12 DEF Judge, Crashed, EndLoop, UnlinkPidfile, RunnerFault, BootFails, ForkFails,
                     WatchFails, PollFails
<1>13. ASSUME NEW p \in Pids, WritePidfile(p) \/ Unblock(p) \/ Exec(p) \/ signal_premature_exit(p)
       PROVE  ForeignUnharmed'
  BY <1>13 DEF WritePidfile, Unblock, Exec, signal_premature_exit
<1>14. ASSUME NEW p \in Pids, PrematureExit(p) \/ ChildSignalled(p) PROVE ForeignUnharmed'
  BY <1>14 DEF PrematureExit, ChildSignalled, Dies, Setup
<1>15. ASSUME NEW p \in Pids, ServiceSignalled(p) \/ ServiceEnds(p) PROVE ForeignUnharmed'
  BY <1>15 DEF ServiceSignalled, ServiceEnds, Dies
<1>16. ASSUME NEW p \in Pids, OtherStarts(p) \/ OtherExits(p) PROVE ForeignUnharmed'
  BY <1>16 DEF OtherStarts, OtherExits
<1>17. CASE PollLogData \/ LeaveHeir \/ HeirExits \/ Terminated
  BY <1>1, <1>17 DEF PollLogData, LeaveHeir, HeirExits, Terminated
<1> QED
  BY <1>1, <1>2, <1>4, <1>5, <1>6, <1>7, <1>8, <1>9, <1>10, <1>11, <1>12, <1>13, <1>14, <1>15, <1>16, <1>17
     DEF Next, RunnerStep, Handler, World, ChildStep

\* With pidfds, no process that is not the service is ever signalled, however fast the
\* kernel hands its process id to somebody else.
THEOREM NoneHarmed ==
    ASSUME HasPidfd, "poll" \notin Faults, "pidfd_open" \notin Faults
    PROVE  Spec => []ForeignUnharmed
<1>1. Spec => []Targets
  BY Watching, TargetsInit, TargetsNext, PTL DEF Spec
<1> QED
  BY <1>1, Watching, UnharmedInit, UnharmedNext, PTL DEF Spec
-----------------------------------------------------------------------------
\* No child has failed yet.
LEMMA PrematuresInit == Init => Prematures
BY DEF Init, Prematures, Waiting

\* If a failing child could send its SIGTERM, it is pending, or has stopped the runner already.
LEMMA PrematuresNext ==
    ASSUME "poll" \notin Faults, TypeOK, Ownership, Prematures, [Next]_vars
    PROVE  Prematures'
<1> USE EndsAssumption
        DEF vars, control, globals, watching, procs, files
<1> USE DEF Prematures, Own, Alive, Setup, Waiting, Gone, Signals, StopSignals
<1> USE DEF TypeOK, RunnerOK, ProcsOK
<1>1. ASSUME NEW s \in Sent, Send(s) PROVE Prematures'
  BY <1>1 DEF Send, KillRunner, ZombiesReaped
<1>2. CASE handle_stop_signal
  BY <1>2 DEF handle_stop_signal, Deliver, Ownership
<1>3. CASE handle_restart_signal
  BY <1>3 DEF handle_restart_signal, Deliver
<1>4. CASE handles_logrotate
  BY <1>4 DEF handles_logrotate, Deliver
<1>5. CASE handle_child
  BY <1>5 DEF handle_child, Deliver
<1>6. CASE Boot
  BY <1>6 DEF Boot, At, Ownership
<1>7. CASE Fork
  BY <1>7 DEF Fork, At, Ownership
<1>8. CASE Arm
  BY <1>8 DEF Arm, At
<1>9. CASE Watch
  BY <1>9 DEF Watch, At
<1>10. CASE Drop
  BY <1>10 DEF Drop, At
<1>11. CASE DropWait
  BY <1>11 DEF DropWait, At, Reaped, Waited
<1>12. CASE Loop
  BY <1>12 DEF Loop, At
<1>13. CASE PollReturns
  BY <1>13 DEF PollReturns, At
<1>14. CASE Check
  BY <1>14 DEF Check, At
<1>15. CASE Reap
  BY <1>15 DEF Reap, At, Reaped, Waited, Ownership
<1>16. CASE ReapNothing
  BY <1>16 DEF ReapNothing, At, Waited, Ownership
<1>17. CASE Block
  BY <1>17 DEF Block, At
<1>18. CASE Judge
  BY <1>18 DEF Judge, At
<1>19. CASE Crashed
  BY <1>19 DEF Crashed, At, Ownership
<1>20. CASE EndLoop
  BY <1>20 DEF EndLoop, At
<1>21. CASE UnlinkPidfile
  BY <1>21 DEF UnlinkPidfile, At
<1>22. CASE Exit
  BY <1>22 DEF Exit, At, ZombiesReaped
<1>23. CASE BootFails
  BY <1>23 DEF BootFails, At
<1>24. CASE ForkFails
  BY <1>24 DEF ForkFails, At
<1>25. CASE WatchFails
  BY <1>25 DEF WatchFails, At
<1>26. CASE PollFails
  BY <1>26 DEF PollFails
<1>27. CASE PollLogData
  BY <1>27 DEF PollLogData, At
<1>28. CASE LeaveHeir
  BY <1>28 DEF LeaveHeir
<1>29. CASE HeirExits
  BY <1>29 DEF HeirExits
<1>30. CASE Terminated
  BY <1>30 DEF Terminated
<1>31. ASSUME NEW p \in Pids, WritePidfile(p) PROVE Prematures'
  BY <1>31 DEF WritePidfile
<1>32. ASSUME NEW p \in Pids, Unblock(p) PROVE Prematures'
  BY <1>32 DEF Unblock
<1>33. ASSUME NEW p \in Pids, Exec(p) PROVE Prematures'
  BY <1>33 DEF Exec
<1>34. ASSUME NEW p \in Pids, signal_premature_exit(p) PROVE Prematures'
  BY <1>34 DEF signal_premature_exit
<1>35. ASSUME NEW p \in Pids, PrematureExit(p) PROVE Prematures'
  BY <1>35 DEF PrematureExit, Dies
<1>36. ASSUME NEW p \in Pids, ChildSignalled(p) PROVE Prematures'
  BY <1>36 DEF ChildSignalled, Dies, KilledBy
<1>37. ASSUME NEW p \in Pids, ServiceSignalled(p) PROVE Prematures'
  BY <1>37 DEF ServiceSignalled, Dies, KilledBy
<1>38. ASSUME NEW p \in Pids, ServiceEnds(p) PROVE Prematures'
  BY <1>38 DEF ServiceEnds, Dies
<1>39. ASSUME NEW p \in Pids, OtherStarts(p) PROVE Prematures'
  BY <1>39 DEF OtherStarts
<1>40. ASSUME NEW p \in Pids, OtherExits(p) PROVE Prematures'
  BY <1>40 DEF OtherExits
<1>41. CASE UNCHANGED vars
  BY <1>41
<1> QED
  BY <1>1, <1>2, <1>3, <1>4, <1>5, <1>6, <1>7, <1>8, <1>9, <1>10, <1>11, <1>12, <1>13, <1>14, <1>15, <1>16, <1>17, <1>18, <1>19, <1>20, <1>21, <1>22, <1>23, <1>24, <1>25, <1>26, <1>27, <1>28, <1>29, <1>30, <1>31, <1>32, <1>33, <1>34, <1>35, <1>36, <1>37, <1>38, <1>39, <1>40, <1>41
     DEF Next, RunnerStep, Handler, RunnerFault, World, ChildStep

\* A child that fails before execv() and can send SIGTERM to its runner is never replaced:
\* with or without pidfds, for every restart policy.
THEOREM PrematuresStop ==
    ASSUME "poll" \notin Faults
    PROVE  Spec => []PrematureNotRestarted
<1>1. Prematures => PrematureNotRestarted
  BY DEF Prematures, PrematureNotRestarted
<1>2. Spec => []Prematures
  BY Watching, PrematuresInit, PrematuresNext, PTL DEF Spec
<1> QED
  BY <1>1, <1>2, PTL
-----------------------------------------------------------------------------
\* With pidfds, all of it together: the invariant that the runs check.
THEOREM InductiveHolds ==
    ASSUME HasPidfd, "poll" \notin Faults, "pidfd_open" \notin Faults
    PROVE  Spec => []Inductive
<1>1. Spec => []Targets
  BY Watching, TargetsInit, TargetsNext, PTL DEF Spec
<1>2. Spec => []Prematures
  BY Watching, PrematuresInit, PrematuresNext, PTL DEF Spec
<1> QED
  BY <1>1, <1>2, Watching, PidfileTrue, PTL DEF Inductive
-----------------------------------------------------------------------------
\* The initial state is one of the contract.
LEMMA ContractInit == Init => Contract!Init
BY DEF Init, Contract!Init, phase, how, Leaving

\* Every step is one of the contract, or leaves what it speaks about alone.
LEMMA ContractNext ==
    ASSUME "poll" \notin Faults, "KILL" \notin Sent,
           TypeOK, Ownership, Watched, TypeOK', Ownership', Watched', [Next]_vars
    PROVE  Contract!Next \/ UNCHANGED Contract!vars
<1> USE EndsAssumption, SentAssumption, PolicyAssumption
        DEF vars, control, globals, watching, procs, files
<1> USE DEF Watched, Ownership, Own, Alive, Setup, Waiting, Leaving, Gone, StopSignals, Signals
<1> USE DEF TypeOK, RunnerOK, ProcsOK, phase, how, Outcomes, Crashes, Contract!vars
<1> USE DEF Contract!Next, Contract!Start, Contract!End, Contract!Stop, Contract!AskRestart,
            Contract!GiveUp
<1>1. ASSUME NEW s \in Sent, Send(s) PROVE Contract!Next \/ UNCHANGED Contract!vars
  BY <1>1 DEF Send, KillRunner, ZombiesReaped
<1>2. CASE handle_stop_signal
  BY <1>2 DEF handle_stop_signal, Deliver
<1>3. CASE handle_restart_signal
  BY <1>3 DEF handle_restart_signal, Deliver
<1>4. CASE handles_logrotate
  BY <1>4 DEF handles_logrotate, Deliver
<1>5. CASE handle_child
  BY <1>5 DEF handle_child, Deliver
<1>6. CASE Boot
  BY <1>6 DEF Boot, At
<1>7. CASE Fork
  BY <1>7 DEF Fork, At
<1>8. CASE Arm
  BY <1>8 DEF Arm, At
<1>9. CASE Watch
  BY <1>9 DEF Watch, At
<1>10. CASE Drop
  BY <1>10 DEF Drop, At
<1>11. CASE DropWait
  BY <1>11 DEF DropWait, At, Reaped, Waited
<1>12. CASE Loop
  BY <1>12 DEF Loop, At
<1>13. CASE PollReturns
  BY <1>13 DEF PollReturns, At
<1>14. CASE Check
  BY <1>14 DEF Check, At
<1>15. CASE Reap
  BY <1>15 DEF Reap, At, Reaped, Waited
<1>16. CASE ReapNothing
  BY <1>16 DEF ReapNothing, At, Waited
<1>17. CASE Block
  BY <1>17 DEF Block, At
<1>18. CASE Judge
  BY <1>18 DEF Judge, At, Restarts, Contract!Decide, Contract!Again
<1>19. CASE Crashed
  BY <1>19 DEF Crashed, At
<1>20. CASE EndLoop
  BY <1>20 DEF EndLoop, At
<1>21. CASE UnlinkPidfile
  BY <1>21 DEF UnlinkPidfile, At
<1>22. CASE Exit
  BY <1>22 DEF Exit, At, ZombiesReaped
<1>23. CASE BootFails
  BY <1>23 DEF BootFails, At
<1>24. CASE ForkFails
  BY <1>24 DEF ForkFails, At
<1>25. CASE WatchFails
  BY <1>25 DEF WatchFails, At
<1>26. CASE PollFails
  BY <1>26 DEF PollFails
<1>27. CASE PollLogData
  BY <1>27 DEF PollLogData, At
<1>28. CASE LeaveHeir
  BY <1>28 DEF LeaveHeir
<1>29. CASE HeirExits
  BY <1>29 DEF HeirExits
<1>30. CASE Terminated
  BY <1>30 DEF Terminated
<1>31. ASSUME NEW p \in Pids, WritePidfile(p) PROVE Contract!Next \/ UNCHANGED Contract!vars
  BY <1>31 DEF WritePidfile
<1>32. ASSUME NEW p \in Pids, Unblock(p) PROVE Contract!Next \/ UNCHANGED Contract!vars
  BY <1>32 DEF Unblock
<1>33. ASSUME NEW p \in Pids, Exec(p) PROVE Contract!Next \/ UNCHANGED Contract!vars
  BY <1>33 DEF Exec
<1>34. ASSUME NEW p \in Pids, signal_premature_exit(p) PROVE Contract!Next \/ UNCHANGED Contract!vars
  BY <1>34 DEF signal_premature_exit
<1>35. ASSUME NEW p \in Pids, PrematureExit(p) PROVE Contract!Next \/ UNCHANGED Contract!vars
  BY <1>35 DEF PrematureExit, Dies
<1>36. ASSUME NEW p \in Pids, ChildSignalled(p) PROVE Contract!Next \/ UNCHANGED Contract!vars
  BY <1>36 DEF ChildSignalled, Dies
<1>37. ASSUME NEW p \in Pids, ServiceSignalled(p) PROVE Contract!Next \/ UNCHANGED Contract!vars
  BY <1>37 DEF ServiceSignalled, Dies
<1>38. ASSUME NEW p \in Pids, ServiceEnds(p) PROVE Contract!Next \/ UNCHANGED Contract!vars
  BY <1>38 DEF ServiceEnds, Dies
<1>39. ASSUME NEW p \in Pids, OtherStarts(p) PROVE Contract!Next \/ UNCHANGED Contract!vars
  BY <1>39 DEF OtherStarts
<1>40. ASSUME NEW p \in Pids, OtherExits(p) PROVE Contract!Next \/ UNCHANGED Contract!vars
  BY <1>40 DEF OtherExits
<1>41. CASE UNCHANGED vars
  BY <1>41
<1> QED
  BY <1>1, <1>2, <1>3, <1>4, <1>5, <1>6, <1>7, <1>8, <1>9, <1>10, <1>11, <1>12, <1>13, <1>14, <1>15, <1>16, <1>17, <1>18, <1>19, <1>20, <1>21, <1>22, <1>23, <1>24, <1>25, <1>26, <1>27, <1>28, <1>29, <1>30, <1>31, <1>32, <1>33, <1>34, <1>35, <1>36, <1>37, <1>38, <1>39, <1>40, <1>41
     DEF Next, RunnerStep, Handler, RunnerFault, World, ChildStep

\* The runner implements the contract: whatever the interleaving, the failures (but that
\* of poll()) and the signals, as long as nobody kills the runner itself.
THEOREM ContractKept ==
    ASSUME "poll" \notin Faults, "KILL" \notin Sent
    PROVE  Spec => KeepsContract
BY Watching, ContractInit, ContractNext, PTL DEF Spec, KeepsContract, Contract!Spec
=============================================================================
