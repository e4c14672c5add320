--------------------------- MODULE RestartContract ---------------------------
(***************************************************************************)
(* What service-runner promises about one service, whatever the signals,   *)
(* processes and files it takes: at most one instance of the service is up *)
(* at a time; when it ends, the restart policy, the requests received and  *)
(* the way it ended decide whether there will be another; and after a stop *)
(* there is none.                                                          *)
(***************************************************************************)
CONSTANT Policy, Outcomes, Crashes

VARIABLES
    phase,      \* "down" (none yet, or the last one judged), "up", "ended", "done"
    how,        \* how an instance that has "ended" did
    keep,       \* the service is to be kept running
    asked       \* a restart was asked for

vars == <<phase, how, keep, asked>>

TypeOK ==
    /\ phase \in {"down", "up", "ended", "done"}
    /\ how \in Outcomes
    /\ keep \in BOOLEAN /\ asked \in BOOLEAN

Init == phase = "down" /\ how = "ok" /\ keep = TRUE /\ asked = FALSE

\* An instance that was stopped, by whomever, stays down unless the policy is ALWAYS
\* or the TERM is the one a restart sends.
Again ==
    \/ Policy = "ALWAYS"
    \/ how \in Crashes /\ (Policy = "FAILURE" \/ asked)
    \/ how \in {"ok", "TERM"} /\ asked

Start ==
    /\ phase = "down" /\ keep
    /\ phase' = "up"
    /\ UNCHANGED <<how, keep, asked>>

End ==
    /\ phase = "up"
    /\ phase' = "ended"
    /\ how' \in Outcomes
    /\ UNCHANGED <<keep, asked>>

Stop ==
    /\ phase # "down"
    /\ keep' = FALSE
    /\ UNCHANGED <<phase, how, asked>>

AskRestart ==
    /\ phase # "down"
    /\ asked' = TRUE
    /\ UNCHANGED <<phase, how, keep>>

Decide ==
    /\ phase = "ended"
    /\ keep' = (keep /\ Again)
    /\ phase' = IF keep' THEN "down" ELSE "done"
    /\ asked' = FALSE
    /\ how' = "ok"

\* A call that fails ends the supervision, never with the service up.
GiveUp ==
    /\ phase \in {"down", "ended"}
    /\ phase' = "done"
    /\ how' = "ok"
    /\ UNCHANGED <<keep, asked>>

Next == Start \/ End \/ Stop \/ AskRestart \/ Decide \/ GiveUp

Spec == Init /\ [][Next]_vars
=============================================================================
