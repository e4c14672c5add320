------------------------------ MODULE Settings ------------------------------
(***************************************************************************)
(* What `service-runner start' makes of the options that say how the       *)
(* service runs: --rlimit, --umask, --priority, --user and --group.  They  *)
(* are read (start.c:1333-1535), looked up and checked (start.c:1558-1785) *)
(* by the command, and put into effect by the child, one after the other,  *)
(* between fork() and execv() (start.c:2019-2122).  Resolution has the     *)
(* paths.                                                                  *)
(***************************************************************************)
EXTENDS Limits, Access

CONSTANTS
    Given,          \* the options and who gives them where: see below
    Users, Groups,  \* the user database: [name, id]
    Initially       \* the limits of the starter: per resource, [cur, max]

Resources == DOMAIN Initially

OptionalText == Texts \union {Nil}
Credentials  == [uid : Int, gid : Int, groups : SUBSET Int]
Accounts     == [name : Texts, id : 0 .. UINT_MAX - 1]    \* UINT_MAX is -1: nobody's id
Parameters   == [resource : 0 .. INT_MAX, rlim_cur : Nat, rlim_max : Nat]

\* A member of Given has
\*     limits                  the arguments of --rlimit, each split at its colons
\*     umask, priority, sleep  option texts, Nil if not given
\*     user, group             the same
\*     chroots, rotates        --chroot is given; the log is rotated
\*     self                    the credentials of the starter
\*     command, path           the command, and the directories on the way to it
\*     entered                 the directories of --chroot and --chdir
\*     pidfile, parent         the pidfile, and its directory
ASSUME SettingsAssumption ==
    /\ \A options \in Given :
        /\ options.limits \in Seq(Seq(Texts))
        /\ {options.umask, options.priority, options.sleep, options.user, options.group}
              \subseteq OptionalText
        /\ {options.chroots, options.rotates} \subseteq BOOLEAN
        /\ options.self \in Credentials
    /\ Users \union Groups \subseteq Accounts
    /\ RLIMIT_.FSIZE \in Resources /\ Resources \subseteq 0 .. INT_MAX
    /\ Initially \in [Resources -> [cur : Nat, max : Nat]]
    /\ Nil \notin Texts /\ Nil \notin Int /\ Nil \notin Parameters

VARIABLES
    given,
    stage,
    rlimits,        \* the limits that have been read
    uid, gid,       \* those looked up, Nil if not given
    nice,           \* the priority of the process
    applied,        \* how many limits are in effect
    limit,          \* its limits
    mask,           \* its umask
    output,         \* what it writes to: the "log" or the "pipe"
    cred            \* its credentials

process  == <<nice, limit, mask, output, cred>>
settings == <<given, stage, rlimits, uid, gid, applied, process>>

Hard  == [r \in Resources |-> Initially[r].max]
Umask == 18     \* 022, which the starter has

Fresh ==
    /\ stage = "options"
    /\ rlimits = <<>> /\ uid = Nil /\ gid = Nil
    /\ nice = 0 /\ applied = 0 /\ limit = Initially /\ mask = Umask /\ output = "log"
    /\ cred = given.self

SettingsInit == given \in Given /\ Fresh

xuid == IF uid = Nil THEN given.self.uid ELSE uid
xgid == IF gid = Nil THEN given.self.gid ELSE gid

Privileged == cred.uid = 0

Proceed(ok, next, otherwise) == stage' = IF ok THEN next ELSE otherwise
-----------------------------------------------------------------------------
(* The start command.                                                      *)

ReadLimit ==
    /\ stage = "options" /\ Len(rlimits) < Len(given.limits)
    /\ LET params == parse_rlimit_params(given.limits[Len(rlimits) + 1], Hard) IN
       /\ Proceed(params # Nil, "options", "refused")
       /\ rlimits' = IF params = Nil THEN rlimits ELSE Append(rlimits, params)
    /\ UNCHANGED <<given, uid, gid, applied, process>>

ReadNumbers ==
    /\ stage = "options" /\ Len(rlimits) = Len(given.limits)
    /\ Proceed(/\ given.priority # Nil => ReadsPriority(given.priority)
               /\ given.umask # Nil => ReadsUmask(given.umask)
               /\ given.sleep # Nil => ReadsSleep(given.sleep),
               "ids", "refused")
    /\ UNCHANGED <<given, rlimits, uid, gid, applied, process>>

FoundIds(text, entries) ==
    IF text = Nil THEN {Nil} ELSE get_id_from_name(entries, text)

LookUp ==
    /\ stage = "ids"
    /\ uid' \in FoundIds(given.user, Users)
    /\ gid' \in FoundIds(given.group, Groups)
    /\ stage' = "command"
    /\ UNCHANGED <<given, rlimits, applied, process>>

LookUpFails ==
    /\ stage = "ids"
    /\ {} \in {FoundIds(given.user, Users), FoundIds(given.group, Groups)}
    /\ stage' = "refused"
    /\ UNCHANGED <<given, rlimits, uid, gid, applied, process>>

\* By the rights of the service's user, but looked up with those of the starter.
CheckCommand ==
    /\ stage = "command"
    /\ Proceed(/\ \A dir \in given.entered : can_list(dir, xuid, xgid)
               /\ can_execute(stat(given.command, given.path, given.self), xuid, xgid),
               "priority", "refused")
    /\ UNCHANGED <<given, rlimits, uid, gid, applied, process>>

\* setpriority() of the start command itself: only root may go below what it has.
SetPriority ==
    /\ stage = "priority"
    /\ IF given.priority = Nil
       THEN stage' = "pidfile" /\ UNCHANGED nice
       ELSE LET may == Privileged \/ strtol(given.priority) >= nice IN
            /\ Proceed(may, "pidfile", "refused")
            /\ nice' = IF may THEN strtol(given.priority) ELSE nice
    /\ UNCHANGED <<given, rlimits, uid, gid, applied, limit, mask, output, cred>>

CheckPidfile ==
    /\ stage = "pidfile"
    /\ Proceed(can_read_write(given.pidfile, given.parent, given.self), "limits", "refused")
    /\ UNCHANGED <<given, rlimits, uid, gid, applied, process>>
-----------------------------------------------------------------------------
(* The child.  Where a call fails it ends, and stops its runner, too; once *)
(* it has another user it may not do the latter (see Supervisor).          *)

\* setrlimit(): only root may raise a hard limit.
MaySetLimit(params) ==
    /\ params.resource \in Resources
    /\ params.rlim_cur <= params.rlim_max
    /\ Privileged \/ params.rlim_max <= limit[params.resource].max

SetLimit ==
    /\ stage = "limits" /\ applied < Len(rlimits)
    /\ LET params == rlimits[applied + 1] IN
       /\ Proceed(MaySetLimit(params), "limits", "premature")
       /\ limit' = IF MaySetLimit(params)
                   THEN [limit EXCEPT ![params.resource] =
                            [cur |-> params.rlim_cur, max |-> params.rlim_max]]
                   ELSE limit
    /\ applied' = applied + 1
    /\ UNCHANGED <<given, rlimits, uid, gid, nice, mask, output, cred>>

\* Mutant of do_pipe: only rotation needs a pipe.
PipeIfRotated == given.rotates

\* A limit for the size of files would hold for the log: the runner writes it then.
do_pipe ==
    given.rotates \/ \E i \in DOMAIN rlimits : rlimits[i].resource = RLIMIT_.FSIZE

SetUmask ==
    /\ stage = "limits" /\ applied = Len(rlimits)
    /\ mask' = IF given.umask = Nil THEN mask ELSE strtoul(given.umask)
    /\ output' = IF do_pipe THEN "pipe" ELSE output
    /\ stage' = "chroot"
    /\ UNCHANGED <<given, rlimits, uid, gid, applied, nice, limit, cred>>

\* chroot() and chdir().
MayEnter ==
    /\ given.chroots => Privileged
    /\ \A dir \in given.entered : Enters(dir, cred)

\* Mutant of EnterChroot: the user is changed first.
UserFirst ==
    /\ stage = "chroot"
    /\ Proceed(MayEnter, "setgroups", "premature")
    /\ cred' = [cred EXCEPT !.uid = xuid]
    /\ UNCHANGED <<given, rlimits, uid, gid, applied, nice, limit, mask, output>>

EnterChroot ==
    /\ stage = "chroot"
    /\ Proceed(MayEnter, "setgroups", "premature")
    /\ UNCHANGED <<given, rlimits, uid, gid, applied, process>>

SetGroups ==
    /\ stage = "setgroups"
    /\ Proceed(gid # Nil => Privileged, "setgid", "premature")
    /\ cred' = IF gid # Nil /\ Privileged THEN [cred EXCEPT !.groups = {}] ELSE cred
    /\ UNCHANGED <<given, rlimits, uid, gid, applied, nice, limit, mask, output>>

SetGid ==
    /\ stage = "setgid"
    /\ Proceed(gid # Nil => Privileged \/ gid = cred.gid, "setuid", "premature")
    /\ cred' = IF gid # Nil /\ Privileged THEN [cred EXCEPT !.gid = gid] ELSE cred
    /\ UNCHANGED <<given, rlimits, uid, gid, applied, nice, limit, mask, output>>

SetUid ==
    /\ stage = "setuid"
    /\ Proceed(uid # Nil => Privileged \/ uid = cred.uid, "execv", "premature")
    /\ cred' = IF uid # Nil /\ Privileged THEN [cred EXCEPT !.uid = uid] ELSE cred
    /\ UNCHANGED <<given, rlimits, uid, gid, applied, nice, limit, mask, output>>

Execv ==
    /\ stage = "execv"
    /\ Proceed(Executes(given.command, given.path, cred), "service", "denied")
    /\ UNCHANGED <<given, rlimits, uid, gid, applied, process>>
-----------------------------------------------------------------------------
Settled ==
    /\ stage \in {"refused", "premature", "denied", "service"}
    /\ UNCHANGED settings

SettingsNext ==
    \/ ReadLimit \/ ReadNumbers \/ LookUp \/ LookUpFails
    \/ CheckCommand \/ SetPriority \/ CheckPidfile
    \/ SetLimit \/ SetUmask \/ EnterChroot \/ SetGroups \/ SetGid \/ SetUid \/ Execv
    \/ Settled

SettingsSpec == SettingsInit /\ [][SettingsNext]_settings
-----------------------------------------------------------------------------
(* What is so at each stage.                                               *)

AfterExecv     == {"service", "denied"}
FromExecv      == {"execv"} \union AfterExecv
FromSetUid     == {"setuid"} \union FromExecv
FromSetGid     == {"setgid"} \union FromSetUid
FromSetGroups  == {"setgroups"} \union FromSetGid
FromChroot     == {"chroot"} \union FromSetGroups
FromLimits     == {"limits"} \union FromChroot
FromPidfile    == {"pidfile"} \union FromLimits
FromPriority   == {"priority"} \union FromPidfile
FromCommand    == {"command"} \union FromPriority
FromIds        == {"ids"} \union FromCommand
Stages         == {"options", "refused", "premature"} \union FromIds

SettingsTypeOK ==
    /\ given \in Given /\ stage \in Stages
    /\ rlimits \in Seq(Parameters) /\ Len(rlimits) <= Len(given.limits)
    /\ uid \in Int \union {Nil} /\ gid \in Int \union {Nil}
    /\ nice \in Int /\ mask \in Nat
    /\ applied \in 0 .. Len(rlimits)
    /\ limit \in [Resources -> [cur : Nat, max : Nat]]
    /\ cred \in Credentials

\* The arguments of --rlimit have been read in their order, the other numbers are fit.
OptionsRead ==
    /\ \A i \in DOMAIN rlimits : rlimits[i] = parse_rlimit_params(given.limits[i], Hard)
    /\ stage \in FromIds =>
        /\ Len(rlimits) = Len(given.limits)
        /\ given.priority # Nil => ReadsPriority(given.priority)

\* Whoever the service is to run as was found, and may execute the command.
ServiceKnown ==
    /\ stage \in FromCommand =>
        uid \in FoundIds(given.user, Users) /\ gid \in FoundIds(given.group, Groups)
    /\ stage \in FromPriority => can_execute(given.command, xuid, xgid)

\* Of the limits in effect each is what the last of those set so far has made it.
LimitsSet ==
    /\ stage \in FromChroot => applied = Len(rlimits)
    /\ stage # "premature" =>
        \A r \in Resources :
            \/ limit[r] = Initially[r] /\ \A i \in 1 .. applied : rlimits[i].resource # r
            \/ \E i \in 1 .. applied :
                /\ rlimits[i].resource = r
                /\ limit[r] = [cur |-> rlimits[i].rlim_cur, max |-> rlimits[i].rlim_max]
                /\ \A j \in i + 1 .. applied : rlimits[j].resource # r

\* The process is its starter's until its turn comes.
ProcessSet ==
    /\ stage \in {"options"} \union FromIds =>
        nice = (IF stage \in FromPidfile /\ given.priority # Nil THEN strtol(given.priority) ELSE 0)
    /\ stage \in {"options"} \union FromIds =>
        mask = (IF stage \in FromChroot /\ given.umask # Nil THEN strtoul(given.umask) ELSE Umask)
    /\ stage \in FromChroot /\ do_pipe => output = "pipe"

\* So are its credentials: the groups, the group and the user are changed in this order.
CredentialsSet ==
    stage \in {"options"} \union FromIds =>
        /\ cred.groups = (IF stage \in FromSetGid /\ gid # Nil THEN {} ELSE given.self.groups)
        /\ cred.gid = (IF stage \in FromSetUid THEN xgid ELSE given.self.gid)
        /\ cred.uid = (IF stage \in FromExecv THEN xuid ELSE given.self.uid)

SettingsInvariant ==
    SettingsTypeOK /\ OptionsRead /\ ServiceKnown /\ LimitsSet /\ ProcessSet /\ CredentialsSet
-----------------------------------------------------------------------------
(* What the options ask for, said without the code.                        *)

\* A name or a number of a resource (README.md:127-133).
IsResource(text, r) ==
    text = Number(r) \/ (~text.digits /\ text.rest \in DOMAIN RLIMIT_ /\ RLIMIT_[text.rest] = r)

IsLimit(text) == IsNumber(text) /\ text.value \in 0 .. LLONG_MAX

Documented(fields) ==
    /\ Len(fields) \in {2, 3}
    /\ \E r \in Resources : IsResource(fields[1], r)
    /\ \A i \in 2 .. Len(fields) : IsLimit(fields[i]) \/ IsInfinity(fields[i])

\* All that is documented, but for INFINITY as a soft limit.
WellFormed(fields) == Documented(fields) /\ ~IsInfinity(fields[2])

AllWellFormed == \A i \in DOMAIN given.limits : WellFormed(given.limits[i])

Meant(text) == IF IsInfinity(text) THEN RLIM_INFINITY ELSE text.value

About(r) == {i \in DOMAIN given.limits : IsResource(given.limits[i][1], r)}

\* Without HARD the hard limit is to stay.
MeantBy(fields, r) ==
    [cur |-> Meant(fields[2]),
     max |-> IF Len(fields) = 3 THEN Meant(fields[3]) ELSE Initially[r].max]

\* Of several arguments about r the last one counts.
LimitAsMeant(r) ==
    \/ About(r) = {} /\ limit[r] = Initially[r]
    \/ \E i \in About(r) :
        /\ limit[r] = MeantBy(given.limits[i], r)
        /\ \A j \in About(r) : j <= i

MeantIds(text, entries, own) ==
    IF text = Nil THEN {own}
    ELSE {e.id : e \in {e \in entries : e.name = text \/ text = Number(e.id)}}

\* strtoul() reads -18446744073709551615 as 1, and so does the lookup of users.
Negative(text) == text # Nil /\ text.value < 0

\* Nothing, or a number in the range.
Within(text, range) == text = Nil \/ (IsNumber(text) /\ text.value \in range)

WellMeant ==
    /\ AllWellFormed
    /\ Within(given.priority, -20 .. 19) /\ Within(given.umask, 0 .. 511)
    /\ Within(given.sleep, 0 .. UINT_MAX)

\* The users and groups that a service may come to have.  Without --group it keeps the
\* supplementary groups of the starter.
MeantCredentials ==
    [uid : MeantIds(given.user, Users, given.self.uid),
     gid : MeantIds(given.group, Groups, given.self.gid),
     groups : {IF given.group = Nil THEN given.self.groups ELSE {}}]

\* The kernel would let the service run like that: for root, if the limits are in order, and
\* for anybody else who asks for a lower priority and lower limits at most, if the starter may
\* enter the directories and write the pidfile, and the service execute the command.
Permitted ==
    LET self == given.self
        root == self.uid = 0
    IN
    /\ \A r \in Resources : \A i \in About(r) :
        LET meant == MeantBy(given.limits[i], r) IN
        /\ meant.cur <= meant.max
        /\ root \/ /\ meant.max <= Initially[r].max
                   /\ \A j \in About(r) : j < i => meant.max <= MeantBy(given.limits[j], r).max
    /\ root \/ /\ given.user = Nil /\ given.group = Nil /\ ~given.chroots
               /\ given.priority = Nil \/ given.priority.value >= 0
    /\ MeantCredentials # {}
    /\ \A dir \in given.entered : Enters(dir, self)
    /\ \A c \in MeantCredentials : Executes(given.command, given.path, c)
    /\ OpensReadWrite(given.pidfile, given.parent, self)

\* It would do so, too, without supplementary groups and without the privilege of root to
\* execute and enter anything, and the service's user may enter the directories himself.
PermittedByRights ==
    LET withoutGroups(c) == [c EXCEPT !.groups = {}] IN
    /\ \A c \in MeantCredentials :
        \A file \in {given.command} \union given.entered : "x" \in FirstClass(file, withoutGroups(c))
    /\ OpensReadWrite(given.pidfile, given.parent, withoutGroups(given.self))

\* A service runs with the limits, umask, priority, user and group that were asked for, and
\* with its starter's where none were (start.c:2019-2117); a limit for the size of files does
\* not hold for the log, which is then written by the runner (start.c:2016, 1824).
RunsAsAsked ==
    stage = "service" =>
        /\ AllWellFormed => \A r \in Resources : LimitAsMeant(r)
        /\ limit[RLIMIT_.FSIZE] # Initially[RLIMIT_.FSIZE] => output = "pipe"
        /\ Within(given.umask, 0 .. 511) =>
            mask = (IF given.umask = Nil THEN Umask ELSE given.umask.value)
        /\ nice = (IF given.priority = Nil THEN 0 ELSE given.priority.value)
        /\ ~Negative(given.user) => cred.uid \in MeantIds(given.user, Users, given.self.uid)
        /\ ~Negative(given.group) => cred.gid \in MeantIds(given.group, Groups, given.self.gid)
        /\ cred.groups = (IF given.group = Nil THEN given.self.groups ELSE {})

\* Neither the checks of the command nor the calls of the child stop what the kernel would
\* let run by the rights of the files; and what the checks have let pass runs, unless the
\* owner of the command may do less than others, or a directory on the way, which the checks
\* have passed as the starter, is closed to the service's user (start.c:939-1071).
RefusalsAreRight ==
    /\ stage \in {"refused", "premature"} => ~(WellMeant /\ Permitted /\ PermittedByRights)
    /\ stage = "denied" => ~Monotone(given.command) \/ ~Searches(given.path, cred)

\* Without the exceptions: no supplementary group is overlooked, nor what root may do ...
RefusesNoPermitted == stage \in {"refused", "premature"} => ~(WellMeant /\ Permitted)

\* ... and the way to a command with rights like 755 is looked at for the service's user.
ChecksTheWay == stage = "denied" => ~Monotone(given.command)

\* "SOFT/HARD may be an integer or "INFINITY"" (README.md:129-130): such an argument is read.
DocumentedLimitsWork ==
    [][stage = "options" /\ stage' = "refused" /\ Len(rlimits) < Len(given.limits) =>
        ~Documented(given.limits[Len(rlimits) + 1])]_settings
=============================================================================
