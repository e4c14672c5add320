--------------------------- MODULE LifecycleProofs ---------------------------
(* Theorems about Lifecycle, for every value of its constants.             *)
EXTENDS Lifecycle, TLAPS

USE LifecycleAssumption DEF Absent, Empty, Contents

\* Nothing is there at first.
LEMMA InductiveInit == Init => Inductive
<1> SUFFICES ASSUME Init PROVE Inductive
  OBVIOUS
<1> USE DEF Init, Starting, Booting, Running, Cleaning, HasRunner, Ended
<1>1. TypeOK
  <2>1. alive \in BOOLEAN
    BY Zenon
  <2> QED
    BY <2>1 DEF TypeOK
<1>2. Listed /\ OneRunner /\ RunnerReachable /\ StartsExclude
  BY DEF Listed, OneRunner, RunnerReachable, StartsExclude
<1>3. PidfileCurrent /\ LearntTruth
  BY DEF PidfileCurrent, LearntTruth, Up
<1> QED
  BY <1>1, <1>2, <1>3 DEF Inductive

\* Every step keeps the types.
LEMMA TypeNext == TypeOK /\ Listed /\ [Next]_vars => TypeOK'
<1> SUFFICES ASSUME TypeOK, Listed, [Next]_vars PROVE TypeOK'
  OBVIOUS
<1> USE DEF TypeOK, Listed, vars, starts, files, status, Starting, Booting, Running, Cleaning,
            HasRunner, Ended, Goto, StatusUntouched, Noted, Read, Restarts
<1>1. ASSUME NEW s \in Starters, Start(s) PROVE TypeOK'
  BY <1>1 DEF Start, MayStart
<1>2. ASSUME NEW s \in Starters, FindRunner(s) PROVE TypeOK'
  BY <1>2 DEF FindRunner, Find
<1>3. ASSUME NEW s \in Starters, ProbeFound(s) PROVE TypeOK'
  BY <1>3 DEF ProbeFound, Probe
<1>4. ASSUME NEW s \in Starters, FindService(s) PROVE TypeOK'
  BY <1>4 DEF FindService, Find
<1>5. ASSUME NEW s \in Starters, ProbeOrphan(s) PROVE TypeOK'
  BY <1>5 DEF ProbeOrphan
<1>6. ASSUME NEW s \in Starters, UnlinkService(s) PROVE TypeOK'
  BY <1>6 DEF UnlinkService
<1>7. ASSUME NEW s \in Starters, UnlinkStale(s) PROVE TypeOK'
  BY <1>7 DEF UnlinkStale
<1>8. ASSUME NEW s \in Starters, Daemonize(s) PROVE TypeOK'
  BY <1>8 DEF Daemonize
<1>9. ASSUME NEW s \in Starters, EmptyRunner(s) PROVE TypeOK'
  BY <1>9 DEF EmptyRunner
<1>10. ASSUME NEW s \in Starters, WriteRunner(s) PROVE TypeOK'
  BY <1>10 DEF WriteRunner
<1>11. ASSUME NEW s \in Starters, Spawn(s) PROVE TypeOK'
  BY <1>11 DEF Spawn
<1>12. ASSUME NEW s \in Starters, Respawn(s) PROVE TypeOK'
  BY <1>12 DEF Respawn
<1>13. ASSUME NEW s \in Starters, Finish(s) PROVE TypeOK'
  BY <1>13 DEF Finish
<1>14. ASSUME NEW s \in Starters, CleanPidfile(s) PROVE TypeOK'
  BY <1>14 DEF CleanPidfile
<1>15. ASSUME NEW s \in Starters, CleanRunner(s) PROVE TypeOK'
  BY <1>15 DEF CleanRunner
<1>16. ASSUME NEW s \in Starters, EmptyPidfile(s) PROVE TypeOK'
  BY <1>16 DEF EmptyPidfile
<1>17. ASSUME NEW s \in Starters, WritePidfile(s) PROVE TypeOK'
  BY <1>17 DEF WritePidfile
<1>18. ASSUME NEW s \in Starters, ServiceEnds(s) PROVE TypeOK'
  BY <1>18 DEF ServiceEnds
<1>19. ASSUME NEW s \in Starters, KillRunner(s) PROVE TypeOK'
  BY <1>19 DEF KillRunner
<1>20. ASSUME NEW p \in Pids, OtherStarts(p) PROVE TypeOK'
  BY <1>20 DEF OtherStarts
<1>21. ASSUME NEW p \in Pids, OtherExits(p) PROVE TypeOK'
  BY <1>21 DEF OtherExits
<1>22. CASE QueryRunnerFile
  BY <1>22 DEF QueryRunnerFile, AfterRunnerFile, Errands
<1>23. CASE QueryPidfile
  BY <1>23 DEF QueryPidfile
<1>24. CASE ProbeRunner
  BY <1>24 DEF ProbeRunner
<1>25. CASE ProbeService
  BY <1>25 DEF ProbeService, ExitCode
<1>26. CASE Signal
  BY <1>26 DEF Signal
<1>27. CASE UNCHANGED vars
  BY <1>27
<1> QED
  BY <1>1, <1>2, <1>3, <1>4, <1>5, <1>6, <1>7, <1>8, <1>9, <1>10, <1>11, <1>12, <1>13, <1>14, <1>15, <1>16, <1>17, <1>18, <1>19, <1>20, <1>21, <1>22, <1>23, <1>24, <1>25, <1>26, <1>27 DEF Next, StartStep, RunnerStep, StatusStep, Terminated

\* Every step keeps runners and services in the process table.
LEMMA ListedNext == TypeOK /\ Listed /\ [Next]_vars => Listed'
<1> SUFFICES ASSUME TypeOK, Listed, [Next]_vars PROVE Listed'
  OBVIOUS
<1> USE DEF TypeOK, Listed, vars, starts, files, status, Starting, Booting, Running, Cleaning,
            HasRunner, Ended, Goto, StatusUntouched
<1>1. ASSUME NEW s \in Starters, Start(s) PROVE Listed'
  BY <1>1 DEF Start, MayStart
<1>2. ASSUME NEW s \in Starters, FindRunner(s) PROVE Listed'
  BY <1>2 DEF FindRunner, Find
<1>3. ASSUME NEW s \in Starters, ProbeFound(s) PROVE Listed'
  BY <1>3 DEF ProbeFound, Probe
<1>4. ASSUME NEW s \in Starters, FindService(s) PROVE Listed'
  BY <1>4 DEF FindService, Find
<1>5. ASSUME NEW s \in Starters, ProbeOrphan(s) PROVE Listed'
  BY <1>5 DEF ProbeOrphan
<1>6. ASSUME NEW s \in Starters, UnlinkService(s) PROVE Listed'
  BY <1>6 DEF UnlinkService
<1>7. ASSUME NEW s \in Starters, UnlinkStale(s) PROVE Listed'
  BY <1>7 DEF UnlinkStale
<1>8. ASSUME NEW s \in Starters, Daemonize(s) PROVE Listed'
  <2>1. CASE proc' = proc
    BY <1>8, <2>1 DEF Daemonize
  <2>2. ASSUME NEW p \in Pids, proc[p] = "free", proc' = [proc EXCEPT ![p] = "runner"],
               runner' = [runner EXCEPT ![s] = p], Goto(s, "empty_runner")
        PROVE  Listed'
    <3>1. UNCHANGED <<child, setup>> /\ at[s] = "daemonize"
      BY <1>8 DEF Daemonize
    <3> QED
      BY <2>2, <3>1
  <2> QED
    BY <1>8, <2>1, <2>2 DEF Daemonize
<1>9. ASSUME NEW s \in Starters, EmptyRunner(s) PROVE Listed'
  BY <1>9 DEF EmptyRunner
<1>10. ASSUME NEW s \in Starters, WriteRunner(s) PROVE Listed'
  BY <1>10 DEF WriteRunner
<1>11. ASSUME NEW s \in Starters, Spawn(s) PROVE Listed'
  <2>1. CASE proc' = proc
    BY <1>11, <2>1 DEF Spawn
  <2>2. ASSUME NEW p \in Pids, proc[p] = "free", proc' = [proc EXCEPT ![p] = "service"],
               child' = [child EXCEPT ![s] = p], setup' = [setup EXCEPT ![s] = "empty"],
               Goto(s, "supervise")
        PROVE  Listed'
    <3>1. UNCHANGED runner /\ at[s] = "spawn"
      BY <1>11 DEF Spawn
    <3> QED
      BY <2>2, <3>1
  <2> QED
    BY <1>11, <2>1, <2>2 DEF Spawn
<1>12. ASSUME NEW s \in Starters, Respawn(s) PROVE Listed'
  BY <1>12 DEF Respawn
<1>13. ASSUME NEW s \in Starters, Finish(s) PROVE Listed'
  BY <1>13 DEF Finish
<1>14. ASSUME NEW s \in Starters, CleanPidfile(s) PROVE Listed'
  BY <1>14 DEF CleanPidfile
<1>15. ASSUME NEW s \in Starters, CleanRunner(s) PROVE Listed'
  BY <1>15 DEF CleanRunner
<1>16. ASSUME NEW s \in Starters, EmptyPidfile(s) PROVE Listed'
  BY <1>16 DEF EmptyPidfile
<1>17. ASSUME NEW s \in Starters, WritePidfile(s) PROVE Listed'
  BY <1>17 DEF WritePidfile
<1>18. ASSUME NEW s \in Starters, ServiceEnds(s) PROVE Listed'
  BY <1>18 DEF ServiceEnds
<1>19. ASSUME NEW s \in Starters, KillRunner(s) PROVE Listed'
  BY <1>19 DEF KillRunner
<1>20. ASSUME NEW p \in Pids, OtherStarts(p) PROVE Listed'
  BY <1>20 DEF OtherStarts
<1>21. ASSUME NEW p \in Pids, OtherExits(p) PROVE Listed'
  BY <1>21 DEF OtherExits
<1>22. CASE QueryRunnerFile
  BY <1>22 DEF QueryRunnerFile, AfterRunnerFile, Errands
<1>23. CASE QueryPidfile
  BY <1>23 DEF QueryPidfile
<1>24. CASE ProbeRunner
  BY <1>24 DEF ProbeRunner
<1>25. CASE ProbeService
  BY <1>25 DEF ProbeService, ExitCode
<1>26. CASE Signal
  BY <1>26 DEF Signal
<1>27. CASE UNCHANGED vars
  BY <1>27
<1> QED
  BY <1>1, <1>2, <1>3, <1>4, <1>5, <1>6, <1>7, <1>8, <1>9, <1>10, <1>11, <1>12, <1>13, <1>14, <1>15, <1>16, <1>17, <1>18, <1>19, <1>20, <1>21, <1>22, <1>23, <1>24, <1>25, <1>26, <1>27 DEF Next, StartStep, RunnerStep, StatusStep, Terminated

\* Every step keeps the runner alone and reachable, if its pidfile is written before the next
\* start is given.
LEMMA ExcludesNext ==
    ASSUME Discipline = "written", TypeOK, Listed, OneRunner, RunnerReachable, StartsExclude,
           [Next]_vars
    PROVE  OneRunner' /\ RunnerReachable' /\ StartsExclude'
<1> USE DEF TypeOK, Listed, OneRunner, RunnerReachable, StartsExclude, vars, starts, files, status,
            Starting, Booting, Running, Cleaning, HasRunner, Ended, Goto, StatusUntouched, Read
<1> DEFINE Excludes == OneRunner /\ RunnerReachable /\ StartsExclude
<1>1. ASSUME NEW s \in Starters, Start(s) PROVE Excludes'
  BY <1>1 DEF Start, MayStart
<1>2. ASSUME NEW s \in Starters, FindRunner(s) PROVE Excludes'
  BY <1>2 DEF FindRunner, Find
<1>3. ASSUME NEW s \in Starters, ProbeFound(s) PROVE Excludes'
  BY <1>3 DEF ProbeFound, Probe, Exists
<1>4. ASSUME NEW s \in Starters, FindService(s) PROVE Excludes'
  BY <1>4 DEF FindService, Find
<1>5. ASSUME NEW s \in Starters, ProbeOrphan(s) PROVE Excludes'
  BY <1>5 DEF ProbeOrphan
<1>6. ASSUME NEW s \in Starters, UnlinkService(s) PROVE Excludes'
  BY <1>6 DEF UnlinkService
<1>7. ASSUME NEW s \in Starters, UnlinkStale(s) PROVE Excludes'
  BY <1>7 DEF UnlinkStale
<1>8. ASSUME NEW s \in Starters, Daemonize(s) PROVE Excludes'
  BY <1>8 DEF Daemonize
<1>9. ASSUME NEW s \in Starters, EmptyRunner(s) PROVE Excludes'
  BY <1>9 DEF EmptyRunner
<1>10. ASSUME NEW s \in Starters, WriteRunner(s) PROVE Excludes'
  BY <1>10 DEF WriteRunner
<1>11. ASSUME NEW s \in Starters, Spawn(s) PROVE Excludes'
  BY <1>11 DEF Spawn
<1>12. ASSUME NEW s \in Starters, Respawn(s) PROVE Excludes'
  BY <1>12 DEF Respawn
<1>13. ASSUME NEW s \in Starters, Finish(s) PROVE Excludes'
  BY <1>13 DEF Finish
<1>14. ASSUME NEW s \in Starters, CleanPidfile(s) PROVE Excludes'
  BY <1>14 DEF CleanPidfile
<1>15. ASSUME NEW s \in Starters, CleanRunner(s) PROVE Excludes'
  BY <1>15 DEF CleanRunner
<1>16. ASSUME NEW s \in Starters, EmptyPidfile(s) PROVE Excludes'
  BY <1>16 DEF EmptyPidfile
<1>17. ASSUME NEW s \in Starters, WritePidfile(s) PROVE Excludes'
  BY <1>17 DEF WritePidfile
<1>18. ASSUME NEW s \in Starters, ServiceEnds(s) PROVE Excludes'
  BY <1>18 DEF ServiceEnds
<1>19. ASSUME NEW s \in Starters, KillRunner(s) PROVE Excludes'
  BY <1>19 DEF KillRunner
<1>20. ASSUME NEW p \in Pids, OtherStarts(p) PROVE Excludes'
  BY <1>20 DEF OtherStarts
<1>21. ASSUME NEW p \in Pids, OtherExits(p) PROVE Excludes'
  BY <1>21 DEF OtherExits
<1>22. CASE QueryRunnerFile
  BY <1>22 DEF QueryRunnerFile, AfterRunnerFile, Errands
<1>23. CASE QueryPidfile
  BY <1>23 DEF QueryPidfile
<1>24. CASE ProbeRunner
  BY <1>24 DEF ProbeRunner
<1>25. CASE ProbeService
  BY <1>25 DEF ProbeService, ExitCode
<1>26. CASE Signal
  BY <1>26 DEF Signal
<1>27. CASE UNCHANGED vars
  BY <1>27
<1> QED
  BY <1>1, <1>2, <1>3, <1>4, <1>5, <1>6, <1>7, <1>8, <1>9, <1>10, <1>11, <1>12, <1>13, <1>14, <1>15, <1>16, <1>17, <1>18, <1>19, <1>20, <1>21, <1>22, <1>23, <1>24, <1>25, <1>26, <1>27 DEF Next, StartStep, RunnerStep, StatusStep, Terminated

\* No two services, if there are no two runners and none has been killed.
LEMMA OneServiceFollows == TypeOK /\ Listed /\ OneRunner => OneServiceUnlessKilled
BY DEF TypeOK, Listed, OneRunner, OneServiceUnlessKilled, OneService, NoneKilled,
       HasRunner, Running

\* Every step keeps the service's pidfile current.
LEMMA PidfileNext ==
    ASSUME Discipline = "written", TypeOK, Listed, OneRunner, StartsExclude, PidfileCurrent,
           [Next]_vars
    PROVE  PidfileCurrent'
<1> USE OneServiceFollows
    DEF TypeOK, Listed, OneRunner, StartsExclude, PidfileCurrent, vars, starts, files, status,
        OneServiceUnlessKilled, OneService, NoneKilled, Up,
        Starting, Booting, Running, Cleaning, HasRunner, Ended, Goto, StatusUntouched
<1>1. ASSUME NEW s \in Starters, Start(s) PROVE PidfileCurrent'
  BY <1>1 DEF Start, MayStart
<1>2. ASSUME NEW s \in Starters, FindRunner(s) PROVE PidfileCurrent'
  BY <1>2 DEF FindRunner, Find
<1>3. ASSUME NEW s \in Starters, ProbeFound(s) PROVE PidfileCurrent'
  BY <1>3 DEF ProbeFound, Probe
<1>4. ASSUME NEW s \in Starters, FindService(s) PROVE PidfileCurrent'
  BY <1>4 DEF FindService, Find
<1>5. ASSUME NEW s \in Starters, ProbeOrphan(s) PROVE PidfileCurrent'
  BY <1>5 DEF ProbeOrphan
<1>6. ASSUME NEW s \in Starters, UnlinkService(s) PROVE PidfileCurrent'
  BY <1>6 DEF UnlinkService
<1>7. ASSUME NEW s \in Starters, UnlinkStale(s) PROVE PidfileCurrent'
  BY <1>7 DEF UnlinkStale
<1>8. ASSUME NEW s \in Starters, Daemonize(s) PROVE PidfileCurrent'
  BY <1>8 DEF Daemonize
<1>9. ASSUME NEW s \in Starters, EmptyRunner(s) PROVE PidfileCurrent'
  BY <1>9 DEF EmptyRunner
<1>10. ASSUME NEW s \in Starters, WriteRunner(s) PROVE PidfileCurrent'
  BY <1>10 DEF WriteRunner
<1>11. ASSUME NEW s \in Starters, Spawn(s) PROVE PidfileCurrent'
  BY <1>11 DEF Spawn
<1>12. ASSUME NEW s \in Starters, Respawn(s) PROVE PidfileCurrent'
  BY <1>12 DEF Respawn
<1>13. ASSUME NEW s \in Starters, Finish(s) PROVE PidfileCurrent'
  BY <1>13 DEF Finish
<1>14. ASSUME NEW s \in Starters, CleanPidfile(s) PROVE PidfileCurrent'
  BY <1>14 DEF CleanPidfile
<1>15. ASSUME NEW s \in Starters, CleanRunner(s) PROVE PidfileCurrent'
  BY <1>15 DEF CleanRunner
<1>16. ASSUME NEW s \in Starters, EmptyPidfile(s) PROVE PidfileCurrent'
  BY <1>16 DEF EmptyPidfile
<1>17. ASSUME NEW s \in Starters, WritePidfile(s) PROVE PidfileCurrent'
  BY <1>17 DEF WritePidfile
<1>18. ASSUME NEW s \in Starters, ServiceEnds(s) PROVE PidfileCurrent'
  BY <1>18 DEF ServiceEnds
<1>19. ASSUME NEW s \in Starters, KillRunner(s) PROVE PidfileCurrent'
  BY <1>19 DEF KillRunner
<1>20. ASSUME NEW p \in Pids, OtherStarts(p) PROVE PidfileCurrent'
  BY <1>20 DEF OtherStarts
<1>21. ASSUME NEW p \in Pids, OtherExits(p) PROVE PidfileCurrent'
  BY <1>21 DEF OtherExits
<1>22. CASE QueryRunnerFile
  BY <1>22 DEF QueryRunnerFile, AfterRunnerFile, Errands
<1>23. CASE QueryPidfile
  BY <1>23 DEF QueryPidfile
<1>24. CASE ProbeRunner
  BY <1>24 DEF ProbeRunner
<1>25. CASE ProbeService
  BY <1>25 DEF ProbeService, ExitCode
<1>26. CASE Signal
  BY <1>26 DEF Signal
<1>27. CASE UNCHANGED vars
  BY <1>27
<1> QED
  BY <1>1, <1>2, <1>3, <1>4, <1>5, <1>6, <1>7, <1>8, <1>9, <1>10, <1>11, <1>12, <1>13, <1>14, <1>15, <1>16, <1>17, <1>18, <1>19, <1>20, <1>21, <1>22, <1>23, <1>24, <1>25, <1>26, <1>27 DEF Next, StartStep, RunnerStep, StatusStep, Terminated

\* Every step keeps what an errand has learnt true.
LEMMA LearntNext ==
    ASSUME Discipline = "written", TypeOK, Listed, RunnerReachable, PidfileCurrent, LearntTruth,
           [Next]_vars
    PROVE  LearntTruth'
<1> USE DEF TypeOK, Listed, RunnerReachable, PidfileCurrent, LearntTruth, vars, starts, files, status,
        NoneKilled, Up, Stays, Noted, Exists, Read,
        Starting, Booting, Running, Cleaning, HasRunner, Ended, Goto, StatusUntouched
<1>1. ASSUME NEW s \in Starters, Start(s) PROVE LearntTruth'
  BY <1>1 DEF Start, MayStart
<1>2. ASSUME NEW s \in Starters, FindRunner(s) PROVE LearntTruth'
  BY <1>2 DEF FindRunner, Find
<1>3. ASSUME NEW s \in Starters, ProbeFound(s) PROVE LearntTruth'
  BY <1>3 DEF ProbeFound, Probe
<1>4. ASSUME NEW s \in Starters, FindService(s) PROVE LearntTruth'
  BY <1>4 DEF FindService, Find
<1>5. ASSUME NEW s \in Starters, ProbeOrphan(s) PROVE LearntTruth'
  BY <1>5 DEF ProbeOrphan
<1>6. ASSUME NEW s \in Starters, UnlinkService(s) PROVE LearntTruth'
  BY <1>6 DEF UnlinkService
<1>7. ASSUME NEW s \in Starters, UnlinkStale(s) PROVE LearntTruth'
  BY <1>7 DEF UnlinkStale
<1>8. ASSUME NEW s \in Starters, Daemonize(s) PROVE LearntTruth'
  BY <1>8 DEF Daemonize
<1>9. ASSUME NEW s \in Starters, EmptyRunner(s) PROVE LearntTruth'
  BY <1>9 DEF EmptyRunner
<1>10. ASSUME NEW s \in Starters, WriteRunner(s) PROVE LearntTruth'
  BY <1>10 DEF WriteRunner
<1>11. ASSUME NEW s \in Starters, Spawn(s) PROVE LearntTruth'
  BY <1>11 DEF Spawn
<1>12. ASSUME NEW s \in Starters, Respawn(s) PROVE LearntTruth'
  BY <1>12 DEF Respawn
<1>13. ASSUME NEW s \in Starters, Finish(s) PROVE LearntTruth'
  BY <1>13 DEF Finish
<1>14. ASSUME NEW s \in Starters, CleanPidfile(s) PROVE LearntTruth'
  BY <1>14 DEF CleanPidfile
<1>15. ASSUME NEW s \in Starters, CleanRunner(s) PROVE LearntTruth'
  BY <1>15 DEF CleanRunner
<1>16. ASSUME NEW s \in Starters, EmptyPidfile(s) PROVE LearntTruth'
  BY <1>16 DEF EmptyPidfile
<1>17. ASSUME NEW s \in Starters, WritePidfile(s) PROVE LearntTruth'
  BY <1>17 DEF WritePidfile
<1>18. ASSUME NEW s \in Starters, ServiceEnds(s) PROVE LearntTruth'
  BY <1>18 DEF ServiceEnds
<1>19. ASSUME NEW s \in Starters, KillRunner(s) PROVE LearntTruth'
  BY <1>19 DEF KillRunner
<1>20. ASSUME NEW p \in Pids, OtherStarts(p) PROVE LearntTruth'
  BY <1>20 DEF OtherStarts
<1>21. ASSUME NEW p \in Pids, OtherExits(p) PROVE LearntTruth'
  BY <1>21 DEF OtherExits
<1>22. CASE QueryRunnerFile
  BY <1>22 DEF QueryRunnerFile, AfterRunnerFile, Errands
<1>23. CASE QueryPidfile
  BY <1>23 DEF QueryPidfile
<1>24. CASE ProbeRunner
  <2>1. ASSUME NEW s \in steady, errand = "status" PROVE alive'
    <3>1. saw.runner # Absent /\ Exists(saw.runner)
      BY <2>1
    <3>2. alive' = (saw.runner # Absent /\ Exists(saw.runner))
      BY <1>24 DEF ProbeRunner
    <3> QED
      BY <3>1, <3>2, Zenon
  <2>2. UNCHANGED <<starts, proc, files, errand, saw, hit, code, steady>>
    BY <1>24 DEF ProbeRunner
  <2>3. query = "probe_runner" /\ query' = "probe_service"
    BY <1>24 DEF ProbeRunner
  <2> QED
    BY <2>1, <2>2, <2>3
<1>25. CASE ProbeService
  BY <1>25 DEF ProbeService, ExitCode
<1>26. CASE Signal
  <2>1. UNCHANGED <<starts, proc, files, errand, saw, steady>> /\ query = "signal" /\ query' = "idle"
    BY <1>26 DEF Signal
  <2>2. steady # {} /\ errand = "signal" => hit' = saw.runner /\ code' = 0
    <3>1. ASSUME NEW s \in steady, errand = "signal"
          PROVE  proc[saw.runner] = "runner"
      BY <3>1
    <3>. QED  BY <1>26, <3>1 DEF Signal, Signalled, Exists
  <2>. QED  BY <2>1, <2>2
<1>27. CASE UNCHANGED vars
  BY <1>27
<1> QED
  BY <1>1, <1>2, <1>3, <1>4, <1>5, <1>6, <1>7, <1>8, <1>9, <1>10, <1>11, <1>12, <1>13, <1>14, <1>15, <1>16, <1>17, <1>18, <1>19, <1>20, <1>21, <1>22, <1>23, <1>24, <1>25, <1>26, <1>27 DEF Next, StartStep, RunnerStep, StatusStep, Terminated

\* Every step preserves the invariant.
LEMMA InductiveNext == Inductive /\ [Next]_vars => Inductive'
<1> SUFFICES ASSUME Inductive, [Next]_vars PROVE Inductive'
  OBVIOUS
<1>1. TypeOK' /\ Listed'
  BY TypeNext, ListedNext DEF Inductive
<1>2. ASSUME Discipline = "written" PROVE OneRunner' /\ RunnerReachable' /\ StartsExclude'
  BY <1>2, ExcludesNext DEF Inductive
<1>3. ASSUME Discipline = "written" PROVE PidfileCurrent' /\ LearntTruth'
  BY <1>3, PidfileNext, LearntNext DEF Inductive
<1> QED
  BY <1>1, <1>2, <1>3 DEF Inductive
-----------------------------------------------------------------------------
\* Runners and services have process ids of their own, whenever starts are given, and if each
\* is given when the runner's pidfile is written, the start commands exclude each other
\* (start.c:1786-1875).
THEOREM LifecycleInductive == Spec => []Inductive
<1>1. Inductive /\ [Next]_vars => Inductive'
  BY InductiveNext
<1> QED
  BY <1>1, InductiveInit, PTL DEF Spec

\* Never two runners for one name (start.c:1786-1821).
THEOREM RunnerAlone ==
    ASSUME Discipline = "written"
    PROVE  Spec => []OneRunner
<1>1. Inductive => OneRunner
  BY DEF Inductive
<1> QED
  BY <1>1, LifecycleInductive, PTL

\* Never two services either, while no runner has been killed.
THEOREM ServiceAlone ==
    ASSUME Discipline = "written"
    PROVE  Spec => []OneServiceUnlessKilled
<1>1. Inductive => OneServiceUnlessKilled
  BY OneServiceFollows DEF Inductive
<1> QED
  BY <1>1, LifecycleInductive, PTL

\* The pidfile names the runner as long as it supervises (start.c:1916-1927).
THEOREM RunnerFound ==
    ASSUME Discipline = "written"
    PROVE  Spec => []RunnerReachable
<1>1. Inductive => RunnerReachable
  BY DEF Inductive
<1> QED
  BY <1>1, LifecycleInductive, PTL

\* A service that is up all the time is reported as running (status.c).
THEOREM StatusTrue ==
    ASSUME Discipline = "written"
    PROVE  Spec => []StatusSeesRunning
<1>1. Inductive => StatusSeesRunning
  BY DEF Inductive, LearntTruth, StatusSeesRunning
<1> QED
  BY <1>1, LifecycleInductive, PTL

\* restart and logrotate reach a runner that is there all the time (restart.c, logrotate.c).
THEOREM SignalArrives ==
    ASSUME Discipline = "written"
    PROVE  Spec => []SignalReaches
<1>1. Inductive => SignalReaches
  BY DEF Inductive, LearntTruth, SignalReaches
<1> QED
  BY <1>1, LifecycleInductive, PTL
=============================================================================
