----------------------------- MODULE LogContract -----------------------------
(***************************************************************************)
(* What a runner promises about the log of its service: whichever files    *)
(* are opened and whichever calls fail, the log only grows, and has pieces *)
(* of the output in the order they were written, none of them twice.  How  *)
(* much more it promises depends on what it may count on:                  *)
(*   "order"    calls fail: pieces may be missing;                         *)
(*   "gapless"  nothing is left out but what was written last;             *)
(*   "whole"    in the end everything is in the log.                       *)
(***************************************************************************)
EXTENDS Integers, SequencesExt

VARIABLES
    promise,
    written,    \* how many pieces of output there have been
    log,        \* those in the log
    over        \* nothing is copied any more

vars == <<promise, written, log, over>>

Init ==
    /\ promise \in {"order", "gapless", "whole"}
    /\ written = 0 /\ log = <<>> /\ over = FALSE

\* After the end of the output there is none.
Put ==
    /\ over => promise # "whole"
    /\ written' = written + 1
    /\ UNCHANGED <<promise, log, over>>

InOrder(pieces) ==
    /\ \A i \in DOMAIN pieces : pieces[i] \in 1 .. written
    /\ \A i, j \in DOMAIN pieces : i < j => pieces[i] < pieces[j]

Copy ==
    /\ ~over
    /\ IsStrictPrefix(log, log') /\ InOrder(log')
    /\ promise # "order" => Last(log') = Len(log')
    /\ UNCHANGED <<promise, written, over>>

Finish ==
    /\ ~over
    /\ over' = TRUE
    /\ promise = "whole" => Len(log) = written
    /\ UNCHANGED <<promise, written, log>>

Next == Put \/ Copy \/ Finish

Spec == Init /\ [][Next]_vars
=============================================================================
