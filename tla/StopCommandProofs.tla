-------------------------- MODULE StopCommandProofs --------------------------
(* Theorems about StopCommand, for every value of its constants.  The        *)
(* runner's own steps are dealt with by the lemmas of SupervisorProofs.      *)
EXTENDS StopCommand, SupervisorProofs

USE PidsAssumption, StopAssumption DEF NotForked, EveryPid, Runner

\* Five steps of the command change what it shares with the runner.
Meddles == SendTerm \/ KillService \/ StopUnlinkPidfile \/ StopKillRunner \/ StopUnlinkRunner

\* All other steps of the command leave the runner alone.
LEMMA StopSteps == [StopNext]_allvars => [Next]_vars \/ Meddles
<1> SUFFICES ASSUME [StopNext]_allvars PROVE [Next]_vars \/ Meddles
  OBVIOUS
<1>1. CASE RunnerSide
  BY <1>1 DEF RunnerSide
<1>2. CASE ReadRunner
  BY <1>2 DEF ReadRunner
<1>3. CASE StopStep
  BY <1>3 DEF StopStep, Meddles, ReadService, OpenTarget, WaitOn, StopWaited, StopTimeout,
              CheckPidfile
<1>4. CASE UNCHANGED allvars
  BY <1>4 DEF allvars
<1> QED
  BY <1>1, <1>2, <1>3, <1>4 DEF StopNext

\* The runner's process is not the runner's child: its end is seen by Gone alone.
LEMMA GoneStays == Gone /\ [StopNext]_allvars => Gone'
<1> SUFFICES ASSUME Gone, [StopNext]_allvars PROVE Gone'
  OBVIOUS
<1>1. CASE Meddles
  BY <1>1 DEF Meddles, SendTerm, KillService, StopUnlinkPidfile, StopKillRunner, KillRunner,
              StopUnlinkRunner, Gone, control
<1>2. CASE [Next]_vars
  <2> USE <1>2 DEF Gone, control
  <2>1. CASE UNCHANGED pc
    BY <2>1
  <2>2. ~RunnerFault /\ ~Handler
    BY DEF RunnerFault, BootFails, ForkFails, WatchFails, PollFails, At, Handler, Deliver,
           handle_stop_signal, handle_restart_signal, handles_logrotate, handle_child
  <2>3. ~RunnerStep
    BY <2>2 DEF RunnerStep, At, Boot, Fork, Arm, Watch, Drop, DropWait, Loop, PollReturns,
           Check, Reap, ReapNothing, Block, Judge, Crashed, EndLoop, UnlinkPidfile, Exit
  <2>4. ASSUME NEW p \in Pids, ChildStep(p) \/ ServiceSignalled(p) PROVE UNCHANGED pc
    BY <2>4 DEF ChildStep, WritePidfile, Unblock, Exec, signal_premature_exit, PrematureExit,
                ChildSignalled, ServiceSignalled
  <2>5. CASE World
    BY <2>5 DEF World, Send, PollLogData, At, ServiceEnds, OtherStarts, OtherExits, LeaveHeir,
                HeirExits
  <2>6. CASE Terminated \/ UNCHANGED vars
    BY <2>6 DEF Terminated, vars
  <2> QED
    BY <2>1, <2>2, <2>3, <2>4, <2>5, <2>6 DEF Next
<1> QED
  BY <1>1, <1>2, StopSteps

\* Another process cannot give the runner a type it does not expect.
LEMMA MeddlesType == TypeOK /\ Aimed /\ StopTypeOK /\ Meddles => TypeOK'
<1> SUFFICES ASSUME TypeOK, Aimed, StopTypeOK, Meddles PROVE TypeOK'
  OBVIOUS
<1> USE DEF TypeOK, RunnerOK, ProcsOK, FilesOK, control, globals, watching, procs, files
<1>1. CASE SendTerm
  <2>1. pending' \subseteq Signals
    BY <1>1 DEF SendTerm, Signals, StopSignals
  <2>2. sigs' \in [Pids -> SUBSET (StopSignals \union {"KILL"})]
    BY <1>1, KillType DEF SendTerm, StopSignals
  <2> QED
    BY <1>1, <2>1, <2>2 DEF SendTerm
<1>2. CASE KillService
  <2>1. seen_service \in Pids
    BY <1>2 DEF KillService, Aimed, StopTypeOK
  <2>2. CASE Dies(seen_service, "KILL")
    <3>1. ProcsOK' /\ pending' \subseteq Signals
      BY <2>1, <2>2, DiesType DEF Outcomes
    <3> QED
      BY <1>2, <3>1 DEF KillService
  <2>3. CASE Kill(seen_service, "KILL") /\ UNCHANGED <<pending, stage, mask, handlers, outcome>>
    <3>1. sigs' \in [Pids -> SUBSET (StopSignals \union {"KILL"})]
      BY <2>3, KillType
    <3> QED
      BY <1>2, <2>3, <3>1 DEF KillService
  <2> QED
    BY <1>2, <2>2, <2>3 DEF KillService
<1>3. CASE StopUnlinkPidfile
  BY <1>3 DEF StopUnlinkPidfile
<1>4. CASE StopKillRunner
  BY <1>4 DEF StopKillRunner, KillRunner, ZombiesReaped, Places, Leaving, Stages
<1>5. CASE StopUnlinkRunner
  <2>1. pidfile_runner' \in BOOLEAN
    BY <1>5, Zenon DEF StopUnlinkRunner
  <2> QED
    BY <1>5, <2>1 DEF StopUnlinkRunner
<1> QED
  BY <1>1, <1>2, <1>3, <1>4, <1>5 DEF Meddles

\* The command has read numbers that were in the pidfiles, and aims at one of them.
LEMMA StopTypeNext == TypeOK /\ StopTypeOK /\ [StopNext]_allvars => StopTypeOK'
<1> SUFFICES ASSUME TypeOK, StopTypeOK, [StopNext]_allvars PROVE StopTypeOK'
  OBVIOUS
<1> USE DEF StopTypeOK, StopPlaces, svars, Return
<1>1. target_ended' \in BOOLEAN
  <2>1. Follow \/ UNCHANGED target_ended
    BY DEF StopNext, RunnerSide, StopStep, ReadRunner, ReadService, OpenTarget, SendTerm, WaitOn,
           StopWaited, StopTimeout, KillService, CheckPidfile, StopUnlinkPidfile, StopKillRunner,
           StopUnlinkRunner, allvars
  <2>2. ASSUME Follow PROVE target_ended' \in BOOLEAN
    <3>1. CASE st' \in {"idle", "read", "open"}
      BY <2>2, <3>1 DEF Follow
    <3>2. CASE st' \notin {"idle", "read", "open"} /\ target = Runner
      <4>1. target_ended' = (pc' = "exited" \/ pc' = "killed")
        BY <2>2, <3>2 DEF Follow, Gone
      <4> QED
        BY <4>1, Zenon
    <3>3. CASE st' \notin {"idle", "read", "open"} /\ target # Runner
      <4>1. target_ended' = (target_ended \/ stage'[target] \notin Alive)
        BY <2>2, <3>3 DEF Follow
      <4> QED
        BY <4>1, Zenon
    <3> QED
      BY <3>1, <3>2, <3>3
  <2>3. CASE UNCHANGED target_ended
    BY <2>3
  <2> QED
    BY <2>1, <2>2, <2>3
<1>2. CASE RunnerSide \/ UNCHANGED allvars
  BY <1>1, <1>2 DEF RunnerSide, allvars
<1>3. CASE ReadRunner
  BY <1>1, <1>3 DEF ReadRunner, TypeOK, FilesOK
<1>4. CASE ReadService
  BY <1>1, <1>4 DEF ReadService, TypeOK, FilesOK
<1>5. CASE OpenTarget \/ SendTerm
  BY <1>1, <1>5 DEF OpenTarget, SendTerm
<1>6. CASE WaitOn
  BY <1>1, <1>6 DEF WaitOn, Half
<1>7. CASE StopWaited \/ StopTimeout
  BY <1>1, <1>7 DEF StopWaited, StopTimeout
<1>8. CASE KillService \/ CheckPidfile \/ StopUnlinkPidfile
  BY <1>1, <1>8 DEF KillService, CheckPidfile, StopUnlinkPidfile
<1>9. CASE StopKillRunner \/ StopUnlinkRunner
  BY <1>1, <1>9 DEF StopKillRunner, StopUnlinkRunner
<1> QED
  BY <1>2, <1>3, <1>4, <1>5, <1>6, <1>7, <1>8, <1>9 DEF StopNext, StopStep

\* What the command does next depends on what it has read, as long as it runs.
LEMMA AimedNext == StopTypeOK /\ Aimed /\ [StopNext]_allvars => Aimed'
<1> SUFFICES ASSUME StopTypeOK, Aimed, [StopNext]_allvars PROVE Aimed'
  OBVIOUS
<1> USE DEF Aimed, StopTypeOK, svars, Return
<1>1. st = "unlink_runner" => Gone'
  BY GoneStays
<1>2. CASE RunnerSide \/ UNCHANGED allvars
  BY <1>1, <1>2 DEF RunnerSide, allvars
<1>3. CASE ReadRunner
  BY <1>3 DEF ReadRunner
<1>4. CASE ReadService
  BY <1>4 DEF ReadService
<1>5. CASE OpenTarget \/ SendTerm
  BY <1>5 DEF OpenTarget, SendTerm
<1>6. CASE WaitOn
  BY <1>6 DEF WaitOn
<1>7. CASE StopWaited \/ StopTimeout
  BY <1>7 DEF StopWaited, StopTimeout
<1>8. CASE KillService \/ CheckPidfile \/ StopUnlinkPidfile
  BY <1>8 DEF KillService, CheckPidfile, StopUnlinkPidfile
<1>9. CASE StopKillRunner
  BY <1>9 DEF StopKillRunner, KillRunner, Gone
<1>10. CASE StopUnlinkRunner
  BY <1>10 DEF StopUnlinkRunner
<1> QED
  BY <1>2, <1>3, <1>4, <1>5, <1>6, <1>7, <1>8, <1>9, <1>10 DEF StopNext, StopStep

\* At the start the command has read nothing.
LEMMA StopStart == StopInit => TypeOK /\ StopTypeOK /\ Aimed
<1> SUFFICES ASSUME StopInit PROVE StopTypeOK /\ Aimed
  BY TypeInit DEF StopInit
<1>1. seen_runner \in BOOLEAN /\ target_ended \in BOOLEAN
  BY Zenon DEF StopInit
<1> QED
  BY <1>1 DEF StopInit, StopTypeOK, StopPlaces, Aimed

\* The runner and the command keep their types side by side.
LEMMA StopTyped == StopSpec => [](TypeOK /\ StopTypeOK /\ Aimed)
<1>1. TypeOK /\ StopTypeOK /\ Aimed /\ [StopNext]_allvars => TypeOK'
  BY StopSteps, TypeNext, MeddlesType
<1> QED
  BY <1>1, StopStart, StopTypeNext, AimedNext, PTL DEF StopSpec

\* Every process id and status of a stop has its type, whatever the runner does meanwhile.
THEOREM StopTypeCorrect == StopSpec => []StopTypeOK
BY StopTyped, PTL
-----------------------------------------------------------------------------
\* A stop kills and removes, it starts nothing: what the runner owns is not disturbed.
LEMMA MeddlesOwnership == TypeOK /\ Ownership /\ Meddles => Ownership'
<1> SUFFICES ASSUME TypeOK, Ownership, Meddles PROVE Ownership'
  OBVIOUS
<1> USE DEF TypeOK, ProcsOK, control, globals, watching, procs, files
<1> USE DEF Ownership, Own, Alive, Setup, Waiting, Gone
<1>1. CASE SendTerm
  BY <1>1 DEF SendTerm
<1>2. CASE KillService
  BY <1>2 DEF KillService, Dies
<1>3. CASE StopUnlinkPidfile
  BY <1>3 DEF StopUnlinkPidfile
<1>4. CASE StopKillRunner
  BY <1>4 DEF StopKillRunner, KillRunner, ZombiesReaped
<1>5. CASE StopUnlinkRunner
  BY <1>5 DEF StopUnlinkRunner
<1> QED
  BY <1>1, <1>2, <1>3, <1>4, <1>5 DEF Meddles

\* A killed service is still the child that the runner waits for.
LEMMA MeddlesWatched == TypeOK /\ Watched /\ Meddles => Watched'
<1> SUFFICES ASSUME TypeOK, Watched, Meddles PROVE Watched'
  OBVIOUS
<1> USE DEF TypeOK, RunnerOK, ProcsOK, control, globals, watching, procs, files
<1> USE DEF Watched, Own, Alive, Setup, Waiting, Leaving, Gone, Signals, StopSignals
<1>1. CASE SendTerm
  BY <1>1 DEF SendTerm
<1>2. CASE KillService
  BY <1>2 DEF KillService, Dies
<1>3. CASE StopUnlinkPidfile
  BY <1>3 DEF StopUnlinkPidfile
<1>4. CASE StopKillRunner
  BY <1>4 DEF StopKillRunner, KillRunner, ZombiesReaped
<1>5. CASE StopUnlinkRunner
  BY <1>5 DEF StopUnlinkRunner
<1> QED
  BY <1>1, <1>2, <1>3, <1>4, <1>5 DEF Meddles

\* Beside a stop, too, the runner has one child at most, the one it watches.
LEMMA StopOwned == ASSUME "poll" \notin Faults PROVE StopSpec => [](Ownership /\ Watched)
<1>1. StopInit => Ownership /\ Watched
  BY OwnershipInit, WatchedInit DEF StopInit
<1>2. TypeOK /\ Ownership /\ Watched /\ [StopNext]_allvars => Ownership' /\ Watched'
  BY StopSteps, OwnershipNext, WatchedNext, MeddlesOwnership, MeddlesWatched
<1> QED
  BY <1>1, <1>2, StopTyped, PTL DEF StopSpec

\* Not even a stop, which kills by numbers that it read long ago, makes the runner start a
\* second service beside one that lives.
THEOREM OneServiceBesideStop ==
    ASSUME "poll" \notin Faults
    PROVE  StopSpec => []AtMostOneService
<1>1. Ownership => AtMostOneService
  BY DEF Ownership, Own, AtMostOneService
<1> QED
  BY <1>1, StopOwned, PTL
-----------------------------------------------------------------------------
\* What the steps of the runner's side do to what a stop looks at: its pidfile comes when
\* it boots and goes when it is done, and a runner that is gone does nothing.
LEMMA RunnerSteps ==
    ASSUME TypeOK, [Next]_vars
    PROVE  /\ Gone => pc' = pc
           /\ pidfile_runner' => pidfile_runner \/ pc = "boot"
           /\ pidfile_runner /\ ~pidfile_runner' => pc' = "exited" \/ pc = "boot"
           /\ pc = "boot" /\ pc' # "killed" => pc' = "boot" \/ pc' = "fork" \/ pc' = "unlink_pid"
           /\ pc' = "boot" => pc = "boot" /\ pidfile_runner' = pidfile_runner
           /\ pc' = "killed" => pc = "killed" \/ "KILL" \in Sent
<1> USE DEF Gone, control, files
<1>1. CASE UNCHANGED <<pc, pidfile_runner>>
  BY <1>1
<1>2. ASSUME NEW s \in Sent, Send(s) PROVE UNCHANGED pidfile_runner /\ ~Gone
                                           /\ (UNCHANGED pc \/ (pc' = "killed" /\ "KILL" \in Sent))
  BY <1>2 DEF Send, KillRunner
<1>3. CASE Handler
  BY <1>3 DEF Handler, handle_stop_signal, handle_restart_signal, handles_logrotate,
              handle_child, Deliver
<1>4. CASE Boot \/ Fork \/ Arm \/ Watch \/ Drop \/ DropWait
  BY <1>4 DEF Boot, Fork, Arm, Watch, Drop, DropWait, At
<1>5. CASE Loop \/ PollReturns \/ Check \/ Reap \/ ReapNothing \/ Block
  BY <1>5 DEF Loop, PollReturns, Check, Reap, ReapNothing, Block, At
<1>6. CASE Judge \/ Crashed \/ EndLoop \/ UnlinkPidfile \/ Exit
  BY <1>6 DEF Judge, Crashed, EndLoop, UnlinkPidfile, Exit, At
<1>7. CASE RunnerFault
  BY <1>7 DEF RunnerFault, BootFails, ForkFails, WatchFails, PollFails, At
<1>8. ASSUME NEW p \in Pids, ChildStep(p) \/ ServiceSignalled(p)
      PROVE  UNCHANGED <<pc, pidfile_runner>>
  BY <1>8 DEF ChildStep, WritePidfile, Unblock, Exec, signal_premature_exit,
              PrematureExit, ChildSignalled, ServiceSignalled
<1>9. ASSUME NEW p \in Pids, ServiceEnds(p) \/ OtherStarts(p) \/ OtherExits(p)
      PROVE  UNCHANGED <<pc, pidfile_runner>>
  BY <1>9 DEF ServiceEnds, OtherStarts, OtherExits
<1>10. CASE PollLogData \/ LeaveHeir \/ HeirExits
  BY <1>10 DEF PollLogData, LeaveHeir, HeirExits, At
<1>11. CASE Terminated \/ UNCHANGED vars
  BY <1>1, <1>11 DEF Terminated, vars
<1> QED
  BY <1>1, <1>2, <1>3, <1>4, <1>5, <1>6, <1>7, <1>8, <1>9, <1>10, <1>11
     DEF Next, RunnerStep, World

\* The runner that a stop has seen is not killed by anybody but that stop.
LEMMA FoundNext ==
    ASSUME "KILL" \notin Sent, TypeOK, StopTypeOK, Aimed, Found, [StopNext]_allvars
    PROVE  Found'
<1> USE DEF Found, Aimed, StopTypeOK, StopPlaces, svars, vars, control, files, Gone, Return
<1>1. CASE RunnerSide
  <2>1. [Next]_vars /\ UNCHANGED svars
    BY <1>1 DEF RunnerSide
  <2> QED
    BY <2>1, RunnerSteps
<1>2. CASE ReadRunner
  BY <1>2 DEF ReadRunner
<1>3. CASE ReadService
  BY <1>3 DEF ReadService
<1>4. CASE OpenTarget \/ WaitOn \/ StopTimeout \/ CheckPidfile
  BY <1>4 DEF OpenTarget, WaitOn, StopTimeout, CheckPidfile
<1>5. CASE StopWaited
  BY <1>5 DEF StopWaited, Exists
<1>6. CASE SendTerm \/ KillService
  BY <1>6 DEF SendTerm, KillService
<1>7. CASE StopUnlinkPidfile \/ StopKillRunner \/ StopUnlinkRunner
  BY <1>7 DEF StopUnlinkPidfile, StopKillRunner, KillRunner, StopUnlinkRunner
<1>8. CASE UNCHANGED allvars
  BY <1>8 DEF allvars
<1> QED
  BY <1>1, <1>2, <1>3, <1>4, <1>5, <1>6, <1>7, <1>8 DEF StopNext, StopStep

\* Exit status 0 of a stop that found a runner: whatever is signalled, restarted or failing
\* beside it, and with or without pidfds, the runner has exited and left nothing.
THEOREM StoppedIsGone ==
    ASSUME "poll" \notin Faults, "KILL" \notin Sent
    PROVE  StopSpec => []StoppedMeansGone
<1>1. StopInit => Found
  BY DEF StopInit, Init, Found
<1>2. StopSpec => []Found
  BY <1>1, FoundNext, StopTyped, PTL DEF StopSpec
<1>3. Found /\ Ownership => StoppedMeansGone
  BY DEF Found, Ownership, StoppedMeansGone, Nothing, Gone, Own, Alive, Setup, Waiting
<1> QED
  BY <1>2, <1>3, StopOwned, PTL
-----------------------------------------------------------------------------
\* A stop that does not see the runner's pidfile comes after its end.
LEMMA DownNext ==
    ASSUME ~EarlyStop, TypeOK, StopTypeOK, Aimed, Down, [StopNext]_allvars
    PROVE  Down'
<1> USE DEF Down, Aimed, StopTypeOK, StopPlaces, svars, vars, control, files, Gone, Return
<1>1. CASE RunnerSide
  <2>1. [Next]_vars /\ UNCHANGED svars
    BY <1>1 DEF RunnerSide
  <2> QED
    BY <2>1, RunnerSteps
<1>2. CASE ReadRunner
  BY <1>2 DEF ReadRunner
<1>3. CASE ReadService
  BY <1>3 DEF ReadService
<1>4. CASE OpenTarget \/ WaitOn \/ StopTimeout \/ CheckPidfile
  BY <1>4 DEF OpenTarget, WaitOn, StopTimeout, CheckPidfile
<1>5. CASE StopWaited
  BY <1>5 DEF StopWaited
<1>6. CASE SendTerm \/ KillService
  BY <1>6 DEF SendTerm, KillService
<1>7. CASE StopUnlinkPidfile \/ StopKillRunner \/ StopUnlinkRunner
  BY <1>7 DEF StopUnlinkPidfile, StopKillRunner, KillRunner, StopUnlinkRunner
<1>8. CASE UNCHANGED allvars
  BY <1>8 DEF allvars
<1> QED
  BY <1>1, <1>2, <1>3, <1>4, <1>5, <1>6, <1>7, <1>8 DEF StopNext, StopStep

\* "is not running" is true, provided that the command is not run before the runner has
\* written its pidfile.
THEOREM NotRunningIsDown ==
    ASSUME ~EarlyStop, "poll" \notin Faults
    PROVE  StopSpec => []NotRunningMeansDown
<1>1. StopInit => Down
  BY DEF StopInit, Init, Down
<1>2. StopSpec => []Down
  BY <1>1, DownNext, StopTyped, PTL DEF StopSpec
<1>3. Down /\ Ownership => NotRunningMeansDown
  BY DEF Down, Ownership, NotRunningMeansDown, Nothing, Gone, Own, Alive, Setup, Waiting
<1> QED
  BY <1>2, <1>3, StopOwned, PTL
-----------------------------------------------------------------------------
\* Without restarts: what the runner's side does to the only service there will be.
LEMMA OnceRunner ==
    ASSUME Policy = "NEVER", "USR1" \notin Sent, "poll" \notin Faults,
           TypeOK, Ownership, Watched, StopTypeOK, Once, [Next]_vars, UNCHANGED svars
    PROVE  Once'
<1> USE DEF vars, control, globals, watching, procs, files, svars
<1> USE DEF Once, Killing, Leaving, Own, Alive, Setup
<1> USE DEF TypeOK, RunnerOK, ProcsOK, FilesOK, StopTypeOK
<1>1. CASE UNCHANGED vars
  BY <1>1
<1>2. ASSUME NEW s \in Sent, Send(s) PROVE Once'
  BY <1>2 DEF Send, KillRunner, ZombiesReaped
<1>3. CASE handle_stop_signal
  BY <1>3 DEF handle_stop_signal, Deliver
<1>4. CASE handle_restart_signal \/ handles_logrotate \/ handle_child
  BY <1>4 DEF handle_restart_signal, handles_logrotate, handle_child, Deliver
<1>5. CASE Boot \/ BootFails
  BY <1>5 DEF Boot, BootFails, At, Watched
<1>6. CASE Fork
  <2>1. service_pid = NotForked
    BY <1>6 DEF Fork, At, Watched
  <2> QED
    BY <1>6, <2>1 DEF Fork
<1>7. CASE ForkFails
  BY <1>7 DEF ForkFails, At
<1>8. CASE Arm \/ Watch \/ WatchFails \/ Drop
  BY <1>8 DEF Arm, Watch, WatchFails, Drop, At, Watched
<1>9. CASE DropWait
  BY <1>9 DEF DropWait, Reaped, Waited
<1>10. CASE Loop \/ PollReturns \/ PollLogData \/ Check
  BY <1>10 DEF Loop, PollReturns, PollLogData, Check, At
<1>11. CASE Reap
  BY <1>11 DEF Reap, Reaped, Waited, At
<1>12. CASE ReapNothing \/ Block \/ Crashed
  BY <1>12 DEF ReapNothing, Block, Crashed, At, ChildSignal
<1>13. CASE Judge
  BY <1>13 DEF Judge, At, Restarts, Ownership, Watched
<1>14. CASE EndLoop
  BY <1>14 DEF EndLoop, At, Watched
<1>15. CASE UnlinkPidfile
  BY <1>15 DEF UnlinkPidfile, At
<1>16. CASE Exit
  BY <1>16 DEF Exit, ZombiesReaped
<1>17. CASE PollFails
  BY <1>17 DEF PollFails
<1>18. ASSUME NEW p \in Pids, WritePidfile(p) PROVE Once'
  BY <1>18 DEF WritePidfile, Ownership
<1>19. ASSUME NEW p \in Pids, Unblock(p) \/ Exec(p) \/ signal_premature_exit(p) PROVE Once'
  BY <1>19 DEF Unblock, Exec, signal_premature_exit
<1>20. ASSUME NEW p \in Pids, PrematureExit(p) \/ ChildSignalled(p) PROVE Once'
  BY <1>20 DEF PrematureExit, ChildSignalled, Dies, ChildSignal
<1>21. ASSUME NEW p \in Pids, ServiceSignalled(p) \/ ServiceEnds(p) PROVE Once'
  BY <1>21 DEF ServiceSignalled, ServiceEnds, Dies, ChildSignal
<1>22. ASSUME NEW p \in Pids, OtherStarts(p) \/ OtherExits(p) PROVE Once'
  BY <1>22 DEF OtherStarts, OtherExits
<1>23. CASE LeaveHeir \/ HeirExits \/ Terminated
  BY <1>23 DEF LeaveHeir, HeirExits, Terminated
<1> QED
  BY <1>1, <1>2, <1>3, <1>4, <1>5, <1>6, <1>7, <1>8, <1>9, <1>10, <1>11, <1>12, <1>13, <1>14,
     <1>15, <1>16, <1>17, <1>18, <1>19, <1>20, <1>21, <1>22, <1>23
     DEF Next, RunnerStep, Handler, RunnerFault, World, ChildStep

\* ... and what the stop does to it: it kills the process that it has read, the only one.
LEMMA OnceNext ==
    ASSUME Policy = "NEVER", "USR1" \notin Sent, "poll" \notin Faults,
           TypeOK, Ownership, Watched, StopTypeOK, Aimed, Once, [StopNext]_allvars
    PROVE  Once'
<1> USE DEF Once, Killing, vars, control, globals, watching, procs, files, Return
<1>1. CASE RunnerSide
  BY <1>1, OnceRunner DEF RunnerSide
<1>2. CASE ReadRunner \/ ReadService
  BY <1>2 DEF ReadRunner, ReadService, TypeOK, FilesOK, StopTypeOK
<1>3. CASE OpenTarget \/ WaitOn \/ StopWaited \/ StopTimeout
  BY <1>3 DEF OpenTarget, WaitOn, StopWaited, StopTimeout
<1>4. CASE SendTerm
  BY <1>4 DEF SendTerm
<1>5. CASE KillService
  <2>1. seen_service \in Pids
    BY <1>5 DEF KillService, Aimed, StopTypeOK
  <2>2. \A p \in Pids : stage'[p] \notin Alive
    <3> SUFFICES ASSUME NEW p \in Pids, stage'[p] \in Alive PROVE FALSE
      OBVIOUS
    <3>1. stage[p] \in Alive
      BY <1>5 DEF KillService, Dies, TypeOK, ProcsOK, Alive, Setup
    <3>2. p = seen_service
      BY <2>1, <3>1 DEF Ownership, Own, TypeOK, RunnerOK
    <3> QED
      BY <1>5, <3>1, <3>2 DEF KillService, Dies, TypeOK, ProcsOK, Alive, Setup
  <2>3. "USR1" \notin pending'
    BY <1>5 DEF KillService, Dies, ChildSignal
  <2> QED
    BY <1>5, <2>2, <2>3 DEF KillService
<1>6. CASE CheckPidfile
  BY <1>6 DEF CheckPidfile, Aimed
<1>7. CASE StopUnlinkPidfile
  BY <1>7 DEF StopUnlinkPidfile
<1>8. CASE StopKillRunner
  BY <1>8 DEF StopKillRunner, KillRunner, ZombiesReaped, TypeOK, ProcsOK, Alive, Setup, Leaving
<1>9. CASE StopUnlinkRunner
  BY <1>9 DEF StopUnlinkRunner
<1>10. CASE UNCHANGED allvars
  BY <1>10 DEF allvars, svars
<1> QED
  BY <1>1, <1>2, <1>3, <1>4, <1>5, <1>6, <1>7, <1>8, <1>9, <1>10 DEF StopNext, StopStep

\* A stop that gives up waiting kills the service and the runner, and leaves no pidfile,
\* where the service is never started again (otherwise the number it has read may be that
\* of an earlier one).
THEOREM TimeoutLeaves ==
    ASSUME Policy = "NEVER", "USR1" \notin Sent, "poll" \notin Faults
    PROVE  StopSpec => []TimeoutLeavesNothing
<1>1. StopInit => Once
  BY DEF StopInit, Init, Once, Killing, Leaving
<1>2. StopSpec => []Once
  BY <1>1, OnceNext, StopTyped, StopOwned, PTL DEF StopSpec
<1>3. Once /\ Aimed => TimeoutLeavesNothing
  BY DEF Once, Aimed, TimeoutLeavesNothing, Nothing, Killing
<1> QED
  BY <1>2, <1>3, StopTyped, PTL
=============================================================================
