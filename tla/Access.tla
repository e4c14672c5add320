------------------------------- MODULE Access -------------------------------
(***************************************************************************)
(* The checks of `service-runner start' before it forks: may the service's *)
(* user run this file, and may the starter read and write that one         *)
(* (start.c:939-1071)?  Beside them, what the kernel will say.             *)
(*                                                                         *)
(* A file or directory has an owner, a group, and rights for its user, its *)
(* group and all others.  Where there is none there is NoFile.  A path is  *)
(* the set of the directories it leads through.                            *)
(***************************************************************************)
EXTENDS Integers

CONSTANT NoFile

\* The kernel looks at the first class the process is in, and at nothing else.
FirstClass(meta, cred) ==
    IF meta.uid = cred.uid THEN meta.usr
    ELSE IF meta.gid \in {cred.gid} \union cred.groups THEN meta.grp
    ELSE meta.oth

\* Every directory on the way must let the process through.  Root passes.
Searches(path, cred) == cred.uid = 0 \/ \A dir \in path : "x" \in FirstClass(dir, cred)

Enters(dir, cred) == dir # NoFile /\ dir.dir /\ Searches({dir}, cred)

\* Root is only denied the execution of a file that nobody may execute.
Executes(meta, path, cred) ==
    /\ Searches(path, cred)
    /\ meta # NoFile /\ ~meta.dir
    /\ "x" \in (IF cred.uid = 0 THEN meta.usr \union meta.grp \union meta.oth
                ELSE FirstClass(meta, cred))

\* A file that is not there is made, in the directory `parent'.
OpensReadWrite(meta, parent, cred) ==
    /\ Searches({parent}, cred)
    /\ IF meta = NoFile
       THEN cred.uid = 0 \/ "w" \in FirstClass(parent, cred)
       ELSE ~meta.dir /\ (cred.uid = 0 \/ {"r", "w"} \subseteq FirstClass(meta, cred))
-----------------------------------------------------------------------------
\* What stat() finds out for a process with these credentials: nothing, if it is not let through.
stat(meta, path, cred) == IF Searches(path, cred) THEN meta ELSE NoFile

\* One of the classes the user is in has the right: any of them will do.
AnyClass(meta, right, uid, gid) ==
    \/ right \in meta.oth
    \/ meta.gid = gid /\ right \in meta.grp
    \/ meta.uid = uid /\ right \in meta.usr

can_execute(meta, uid, gid) ==
    meta # NoFile /\ ~meta.dir /\ AnyClass(meta, "x", uid, gid)

can_list(meta, uid, gid) ==
    meta # NoFile /\ meta.dir /\ AnyClass(meta, "x", uid, gid)

\* Root may, and so may its group.  A file that is not there needs a directory to write to;
\* where stat() fails otherwise, because `parent' does not let it through, that is all.
can_read_write(meta, parent, cred) ==
    LET root == cred.uid = 0 \/ cred.gid = 0
        may(file, right) == AnyClass(file, right, cred.uid, cred.gid)
    IN
    /\ Searches({parent}, cred)
    /\ IF meta = NoFile
       THEN root \/ may(parent, "w")
       ELSE ~meta.dir /\ (root \/ (may(meta, "r") /\ may(meta, "w")))
-----------------------------------------------------------------------------
\* The owner has the rights of the group, and the group those of the others.
Monotone(meta) == meta.oth \subseteq meta.grp /\ meta.grp \subseteq meta.usr
=============================================================================
