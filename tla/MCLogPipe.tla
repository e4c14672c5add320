------------------------------ MODULE MCLogPipe ------------------------------
(* Small instances of LogPipe.                                             *)
EXTENDS LogPipe

Opts(faults, splices) == [pattern : BOOLEAN, manual : BOOLEAN, splice : splices, faults : faults]

\* Every combination of options where no call fails, and every call failing where it is made.
AllOptions ==
    Opts({{}}, BOOLEAN) \union Opts({{"open", "splice"}}, {TRUE})
        \union Opts({{"open", "read", "write"}}, {FALSE})

Spliced    == Opts({{}, {"open"}}, {TRUE})
NotSpliced == Opts({{}}, {FALSE})
=============================================================================
