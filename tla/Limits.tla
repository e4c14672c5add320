------------------------------- MODULE Limits -------------------------------
(***************************************************************************)
(* The numbers in the options of `service-runner start', and its --rlimit: *)
(* parse_rlimit_params() (start.c:79-211) and the lookup of users and      *)
(* groups (start.c:1083-1201).                                             *)
(*                                                                         *)
(* An option's text is a number, if it begins with one, and the rest.      *)
(* Integers have the ranges of the machine it is built for (limits.h).     *)
(***************************************************************************)
EXTENDS Integers, Sequences

CONSTANTS INT_MAX, LONG_MAX, LLONG_MAX, Nil

\* Each range has that of the one before; the least has room for all that is not a bound here.
ASSUME LimitsAssumption ==
    /\ {INT_MAX, LONG_MAX, LLONG_MAX} \subseteq Nat
    /\ 511 <= INT_MAX /\ INT_MAX <= LONG_MAX /\ LONG_MAX <= LLONG_MAX

UINT_MAX      == 2 * INT_MAX + 1
ULONG_MAX     == 2 * LONG_MAX + 1
RLIM_INFINITY == ULONG_MAX                  \* rlim_t is an unsigned long

Number(n) == [digits |-> TRUE,  value |-> n, rest |-> ""]
Word(w)   == [digits |-> FALSE, value |-> 0, rest |-> w]
Empty     == Word("")

Texts == [digits : {TRUE}, value : Int, rest : STRING] \union [digits : {FALSE}, value : {0}, rest : STRING]
-----------------------------------------------------------------------------
Bounded(low, high, n) == IF n < low THEN low ELSE IF n > high THEN high ELSE n

\* What is too large becomes the largest number; errno is not looked at.
Signed(max, text) == Bounded(-max - 1, max, text.value)

strtol(text)  == Signed(LONG_MAX, text)
strtoll(text) == Signed(LLONG_MAX, text)

\* A minus sign is read, too: the result is negated in an unsigned long.
strtoul(text) ==
    IF text.value \in -ULONG_MAX .. ULONG_MAX THEN text.value % (ULONG_MAX + 1) ELSE ULONG_MAX

\* !*optarg || *endptr, negated.
IsNumber(text) == text # Empty /\ text.rest = ""

ReadsPriority(text) == IsNumber(text) /\ strtol(text) \in -20 .. 19
ReadsUmask(text)    == IsNumber(text) /\ strtoul(text) <= 511    \* 0777
ReadsSleep(text)    == IsNumber(text) /\ strtoul(text) <= UINT_MAX
-----------------------------------------------------------------------------
\* The numbers of the resources (sys/resource.h).
RLIMIT_ == [CPU |-> 0, FSIZE |-> 1, DATA |-> 2, STACK |-> 3, CORE |-> 4, RSS |-> 5,
            NPROC |-> 6, NOFILE |-> 7, MEMLOCK |-> 8, AS |-> 9, LOCKS |-> 10,
            SIGPENDING |-> 11, MSGQUEUE |-> 12, NICE |-> 13, RTPRIO |-> 14, RTTIME |-> 15]

IsInfinity(text) == ~text.digits /\ text.rest \in {"INF", "INFINITY"}

\* A word is looked at by its name; what begins with digits must be nothing but a number.
Resource(text) ==
    IF ~text.digits /\ text.rest \in DOMAIN RLIMIT_ THEN RLIMIT_[text.rest]
    ELSE IF IsNumber(text) /\ strtoul(text) <= INT_MAX THEN strtoul(text)
    ELSE Nil

rlim_t(n) == n % (RLIM_INFINITY + 1)

\* The argument, split at its colons.  `hard' are the hard limits of the process that
\* reads it.  A soft limit that does not begin with a number never gets as far as the
\* code for INFINITY: the test after strtoll() wants a colon or the end there.
parse_rlimit_params(fields, hard) ==
    LET resource == Resource(fields[1])
        soft     == fields[2]
        limit    == fields[3]
        has_max  == Len(fields) > 2
    IN IF \/ Len(fields) \notin {2, 3} \/ ~IsNumber(soft)
          \/ has_max /\ ~IsInfinity(limit) /\ ~IsNumber(limit)
          \/ resource = Nil
          \/ ~has_max /\ resource \notin DOMAIN hard
       THEN Nil
       ELSE [resource |-> resource,
             rlim_cur |-> rlim_t(strtoll(soft)),
             rlim_max |-> IF ~has_max THEN hard[resource]
                          ELSE IF IsInfinity(limit) THEN RLIM_INFINITY
                          ELSE rlim_t(strtoll(limit))]
-----------------------------------------------------------------------------
\* getpwuid_r(), getpwnam_r(), and the same for groups: `entries' are [name, id].
ById(entries, id)     == {e.id : e \in {e \in entries : e.id = id}}
ByName(entries, text) == {e.id : e \in {e \in entries : e.name = text}}

\* A number that fits is an id, and must have an entry; no name is looked up then.
get_id_from_name(entries, text) ==
    IF IsNumber(text) /\ strtoul(text) <= UINT_MAX
    THEN ById(entries, strtoul(text))
    ELSE ByName(entries, text)
=============================================================================
