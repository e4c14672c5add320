---------------------------- MODULE MCLogsFollow ----------------------------
(* The logs command with a few lines of output and a few log files.        *)
EXTENDS LogsFollow

AllOptions == [follow : BOOLEAN, proc_events : BOOLEAN, unlinks : BOOLEAN]

\* inotify(7) does not report changes in /proc.
Linux       == [follow : {TRUE}, proc_events : {FALSE}, unlinks : {FALSE}]
LinuxUnlink == [follow : {TRUE}, proc_events : {FALSE}, unlinks : {TRUE}]
Reporting   == [follow : {TRUE}, proc_events : {TRUE}, unlinks : {FALSE}]
=============================================================================
