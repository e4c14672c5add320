---------------------------- MODULE InputsProofs ----------------------------
(***************************************************************************)
(* Proofs about what a start is given besides paths.                       *)
(*                                                                         *)
(* Settings: whatever the options, whoever gives them and whatever the     *)
(* ranges of the integers, the service runs as it was asked to, and what   *)
(* is refused is rightly refused.                                          *)
(*                                                                         *)
(* HelpText: whatever the text, and however wide the terminal, no word is  *)
(* lost, no line is too long that could be shorter, and what follows a     *)
(* break is indented as its line asks for.                                 *)
(***************************************************************************)
EXTENDS Settings, HelpText, SequenceFacts

(* Settings: numbers, as they are read and as they are meant.              *)

\* A number within the range of its type is read as it is.
LEMMA Remainder ==
    ASSUME NEW n \in Nat, NEW m \in Nat, n < m
    PROVE  n % m = n
OBVIOUS

LEMMA Ranges ==
    /\ INT_MAX \in Nat /\ LONG_MAX \in Nat /\ LLONG_MAX \in Nat
    /\ 511 <= INT_MAX /\ INT_MAX <= LONG_MAX /\ LONG_MAX <= LLONG_MAX
    /\ UINT_MAX \in Nat /\ ULONG_MAX \in Nat /\ RLIM_INFINITY = ULONG_MAX
    /\ INT_MAX <= UINT_MAX /\ UINT_MAX <= ULONG_MAX /\ LONG_MAX < ULONG_MAX
BY LimitsAssumption DEF UINT_MAX, ULONG_MAX, RLIM_INFINITY

LEMMA TextType ==
    ASSUME NEW str \in Texts
    PROVE  /\ str.value \in Int
           /\ IsNumber(str) => str = Number(str.value)
<1>1. CASE str \in [digits : {TRUE}, value : Int, rest : STRING]
  <2>1. str = [digits |-> TRUE, value |-> str.value, rest |-> str.rest]
    BY <1>1
  <2>. QED  BY <1>1, <2>1 DEF IsNumber, Number
<1>2. CASE str \in [digits : {FALSE}, value : {0}, rest : STRING]
  <2>1. str = [digits |-> FALSE, value |-> 0, rest |-> str.rest]
    BY <1>2
  <2>2. IsNumber(str) => str = Empty
    BY <2>1 DEF IsNumber, Empty, Word
  <2>3. ~IsNumber(str)
    BY <2>2 DEF IsNumber
  <2>. QED  BY <1>2, <2>3
<1>. QED  BY <1>1, <1>2 DEF Texts

LEMMA UnsignedReads ==
    ASSUME NEW str \in Texts
    PROVE  /\ strtoul(str) \in 0 .. ULONG_MAX
           /\ str.value \in 0 .. ULONG_MAX => strtoul(str) = str.value
           /\ str.value > ULONG_MAX => strtoul(str) = ULONG_MAX
<1>. DEFINE v == str.value
<1>1. v \in Int /\ ULONG_MAX \in Nat
  BY TextType, Ranges
<1>2. CASE v \in 0 .. ULONG_MAX
  <2>1. v % (ULONG_MAX + 1) = v
    BY <1>1, <1>2, Remainder
  <2>. QED  BY <1>1, <1>2, <2>1 DEF strtoul
<1>3. CASE v \in -ULONG_MAX .. -1
  <2>1. v % (ULONG_MAX + 1) \in 0 .. ULONG_MAX
    BY <1>1, Z3
  <2>. QED  BY <1>1, <1>3, <2>1 DEF strtoul
<1>4. CASE v \notin -ULONG_MAX .. ULONG_MAX
  BY <1>1, <1>4 DEF strtoul
<1>. QED  BY <1>1, <1>2, <1>3, <1>4

LEMMA BoundedReads ==
    ASSUME NEW max \in Nat, NEW n \in Int
    PROVE  /\ Bounded(-max - 1, max, n) \in Int
           /\ n \in -max - 1 .. max => Bounded(-max - 1, max, n) = n
           /\ Bounded(-max - 1, max, n) \in -max .. max - 1 => Bounded(-max - 1, max, n) = n
BY DEF Bounded

LEMMA SignedReads ==
    ASSUME NEW str \in Texts
    PROVE  /\ strtol(str) \in Int /\ strtoll(str) \in Int
           /\ str.value \in -512 .. 511 => strtol(str) = str.value
           /\ strtol(str) \in -20 .. 19 => strtol(str) = str.value
           /\ str.value \in 0 .. LLONG_MAX => strtoll(str) = str.value
<1>1. /\ str.value \in Int /\ LONG_MAX \in Nat /\ LLONG_MAX \in Nat
      /\ 511 <= LONG_MAX
  BY TextType, Ranges
<1>2. /\ strtol(str) = Bounded(-LONG_MAX - 1, LONG_MAX, str.value)
      /\ strtoll(str) = Bounded(-LLONG_MAX - 1, LLONG_MAX, str.value)
  BY DEF strtol, strtoll, Signed
<1>3. strtol(str) \in Int /\ strtoll(str) \in Int
  BY <1>1, <1>2, BoundedReads
<1>4. ASSUME str.value \in -512 .. 511
      PROVE  strtol(str) = str.value
  <2>1. str.value \in -LONG_MAX - 1 .. LONG_MAX
    BY <1>1, <1>4
  <2>. QED  BY <1>1, <1>2, <2>1, BoundedReads
<1>5. ASSUME strtol(str) \in -20 .. 19
      PROVE  strtol(str) = str.value
  <2>1. strtol(str) \in -LONG_MAX .. LONG_MAX - 1
    BY <1>1, <1>5
  <2>. QED  BY <1>1, <1>2, <2>1, BoundedReads
<1>6. ASSUME str.value \in 0 .. LLONG_MAX
      PROVE  strtoll(str) = str.value
  <2>1. str.value \in -LLONG_MAX - 1 .. LLONG_MAX
    BY <1>1, <1>6
  <2>. QED  BY <1>1, <1>2, <2>1, BoundedReads
<1>. QED  BY <1>3, <1>4, <1>5, <1>6

LEMMA LimitReads ==
    ASSUME NEW n \in Int
    PROVE  /\ rlim_t(n) \in Nat
           /\ n \in 0 .. ULONG_MAX => rlim_t(n) = n
<1>1. n % (ULONG_MAX + 1) \in 0 .. ULONG_MAX
  BY Ranges, Z3
<1>2. n \in 0 .. ULONG_MAX => n % (ULONG_MAX + 1) = n
  BY Ranges, Remainder
<1>. QED  BY <1>1, <1>2, Ranges DEF rlim_t
-----------------------------------------------------------------------------
(* --rlimit.                                                               *)

LEMMA ResourceType ==
    ASSUME NEW str \in Texts
    PROVE  Resource(str) \in 0 .. INT_MAX \union {Nil}
<1>1. \A name \in DOMAIN RLIMIT_ : RLIMIT_[name] \in 0 .. 15
  BY DEF RLIMIT_
<1>2. strtoul(str) \in Nat
  BY UnsignedReads, Ranges
<1>. QED  BY <1>1, <1>2, Ranges DEF Resource

\* An argument about a resource is about no other one.
LEMMA ResourceMeant ==
    ASSUME NEW str \in Texts, NEW q \in Resources, IsResource(str, q), NEW r \in Resources
    PROVE  Resource(str) = r <=> IsResource(str, r)
<1>1. /\ q \in 0 .. INT_MAX /\ r \in 0 .. INT_MAX
  BY SettingsAssumption
<1>2. CASE ~str.digits
  <2>1. str # Number(q) /\ str # Number(r)
    <3>1. Number(q).digits /\ Number(r).digits
      BY DEF Number
    <3>. QED  BY <1>2, <3>1
  <2>2. str.rest \in DOMAIN RLIMIT_ /\ RLIMIT_[str.rest] = q
    BY <2>1 DEF IsResource
  <2>3. Resource(str) = RLIMIT_[str.rest]
    BY <1>2, <2>2 DEF Resource
  <2>. QED  BY <1>2, <2>1, <2>2, <2>3 DEF IsResource
<1>3. CASE str.digits
  <2>1. str = Number(q)
    BY <1>3 DEF IsResource
  <2>2. IsNumber(str) /\ str.value = q
    BY <2>1 DEF IsNumber, Number, Empty, Word
  <2>3. strtoul(str) = q
    BY <1>1, <2>2, UnsignedReads, Ranges
  <2>4. Resource(str) = q
    BY <1>1, <1>3, <2>2, <2>3 DEF Resource
  <2>5. IsResource(str, r) => r = q
    <3>1. Number(q).value = q /\ Number(r).value = r
      BY DEF Number
    <3>. QED  BY <1>3, <2>1, <3>1 DEF IsResource
  <2>. QED  BY <2>4, <2>5
<1>4. str.digits \in BOOLEAN
  BY DEF Texts
<1>. QED  BY <1>2, <1>3, <1>4

LEMMA ParseType ==
    ASSUME NEW fields \in Seq(Texts)
    PROVE  parse_rlimit_params(fields, Hard) \in Parameters \union {Nil}
<1>. DEFINE p == parse_rlimit_params(fields, Hard)
<1>. SUFFICES ASSUME p # Nil
              PROVE  p \in Parameters
  OBVIOUS
<1>1. Len(fields) \in {2, 3}
  BY DEF parse_rlimit_params
<1>2. /\ fields[1] \in Texts /\ fields[2] \in Texts
      /\ Len(fields) > 2 => fields[3] \in Texts
  BY <1>1
<1>3. Resource(fields[1]) \in 0 .. INT_MAX
  BY <1>2, ResourceType DEF parse_rlimit_params
<1>4. Len(fields) <= 2 => Hard[Resource(fields[1])] \in Nat
  BY <1>1, SettingsAssumption DEF parse_rlimit_params, Hard, Resources
<1>5. rlim_t(strtoll(fields[2])) \in Nat
  BY <1>2, SignedReads, LimitReads
<1>6. Len(fields) > 2 => rlim_t(strtoll(fields[3])) \in Nat
  BY <1>2, SignedReads, LimitReads
<1>7. RLIM_INFINITY \in Nat
  BY Ranges
<1>. QED  BY <1>1, <1>3, <1>4, <1>5, <1>6, <1>7 DEF parse_rlimit_params, Parameters

\* A well-formed argument is read, and in a 64-bit process as what it means.
LEMMA ParseMeant ==
    ASSUME NEW fields \in Seq(Texts), WellFormed(fields)
    PROVE  LET p == parse_rlimit_params(fields, Hard) IN
           /\ p \in Parameters /\ p.resource \in Resources
           /\ \A r \in Resources : p.resource = r <=> IsResource(fields[1], r)
           /\ LONG_MAX = LLONG_MAX =>
                MeantBy(fields, p.resource) = [cur |-> p.rlim_cur, max |-> p.rlim_max]
<1>. DEFINE p == parse_rlimit_params(fields, Hard)
<1>1. PICK q \in Resources : IsResource(fields[1], q)
  BY DEF WellFormed, Documented
<1>2. /\ Len(fields) \in {2, 3}
      /\ fields[1] \in Texts /\ fields[2] \in Texts
      /\ Len(fields) = 3 => fields[3] \in Texts
  BY DEF WellFormed, Documented
<1>3. Resource(fields[1]) = q
  BY <1>1, <1>2, ResourceMeant
<1>4. IsLimit(fields[2])
  BY <1>2 DEF WellFormed, Documented
<1>5. Len(fields) = 3 => IsLimit(fields[3]) \/ IsInfinity(fields[3])
  BY <1>2 DEF WellFormed, Documented
<1>6. q # Nil /\ q \in DOMAIN Hard /\ Hard[q] = Initially[q].max
  BY SettingsAssumption DEF Hard, Resources
<1>7. p = [resource |-> q,
           rlim_cur |-> rlim_t(strtoll(fields[2])),
           rlim_max |-> IF Len(fields) = 2 THEN Initially[q].max
                        ELSE IF IsInfinity(fields[3]) THEN RLIM_INFINITY
                        ELSE rlim_t(strtoll(fields[3]))]
  BY <1>2, <1>3, <1>4, <1>5, <1>6 DEF parse_rlimit_params, IsLimit
<1>8. /\ q \in 0 .. INT_MAX /\ Initially[q].max \in Nat /\ RLIM_INFINITY \in Nat
      /\ rlim_t(strtoll(fields[2])) \in Nat
      /\ Len(fields) = 3 => rlim_t(strtoll(fields[3])) \in Nat
  BY <1>2, SettingsAssumption, Ranges, SignedReads, LimitReads DEF Resources
<1>9. p \in Parameters /\ p.resource = q
  BY <1>2, <1>7, <1>8 DEF Parameters
<1>10. \A r \in Resources : p.resource = r <=> IsResource(fields[1], r)
  BY <1>1, <1>2, <1>3, <1>9, ResourceMeant
<1>11. ASSUME LONG_MAX = LLONG_MAX
       PROVE  MeantBy(fields, q) = [cur |-> p.rlim_cur, max |-> p.rlim_max]
  <2>1. ASSUME NEW str \in Texts, IsLimit(str)
        PROVE  rlim_t(strtoll(str)) = str.value /\ str.digits
    <3>1. str.value \in 0 .. LLONG_MAX /\ strtoll(str) = str.value
      BY <2>1, SignedReads DEF IsLimit
    <3>2. str.value \in 0 .. ULONG_MAX /\ str.value \in Int
      BY <1>11, <3>1, Ranges
    <3>3. str.digits
      <4>1. str = Number(str.value)
        BY <2>1, TextType DEF IsLimit
      <4>2. Number(str.value).digits
        BY DEF Number
      <4>. QED  BY <4>1, <4>2
    <3>. QED  BY <3>1, <3>2, <3>3, LimitReads
  <2>2. p.rlim_cur = Meant(fields[2])
    BY <1>2, <1>4, <1>7, <2>1 DEF Meant, IsInfinity
  <2>3. Len(fields) = 3 => p.rlim_max = Meant(fields[3])
    BY <1>2, <1>5, <1>7, <2>1 DEF Meant
  <2>4. Len(fields) = 2 => p.rlim_max = Initially[q].max
    BY <1>7
  <2>. QED  BY <1>2, <2>2, <2>3, <2>4 DEF MeantBy
<1>. QED  BY <1>1, <1>9, <1>10, <1>11
-----------------------------------------------------------------------------
(* Type correctness.                                                       *)

USE DEF AfterExecv, FromExecv, FromSetUid, FromSetGid, FromSetGroups, FromChroot, FromLimits,
        FromPidfile, FromPriority, FromCommand, FromIds, Stages

\* What an option's text, if there is one, is.
LEMMA GivenType ==
    ASSUME given \in Given
    PROVE  /\ given.limits \in Seq(Seq(Texts))
           /\ \A i \in DOMAIN given.limits : given.limits[i] \in Seq(Texts)
           /\ given.priority # Nil => given.priority \in Texts
           /\ given.umask # Nil => given.umask \in Texts
           /\ given.sleep # Nil => given.sleep \in Texts
           /\ given.user \in OptionalText /\ given.group \in OptionalText
           /\ given.self \in Credentials
BY SettingsAssumption DEF OptionalText

\* The ids that are looked up are those of the database.
LEMMA IdsType ==
    ASSUME NEW str, NEW entries, entries \subseteq Accounts,
           NEW id \in FoundIds(str, entries)
    PROVE  IF str = Nil THEN id = Nil ELSE \E e \in entries : id = e.id /\ id \in 0 .. UINT_MAX - 1
<1>1. CASE str = Nil
  BY <1>1 DEF FoundIds
<1>2. CASE str # Nil
  <2>1. id \in get_id_from_name(entries, str)
    BY <1>2 DEF FoundIds
  <2>2. PICK e \in entries : id = e.id
    BY <2>1 DEF get_id_from_name, ById, ByName
  <2>. QED  BY <1>2, <2>2 DEF Accounts
<1>. QED  BY <1>1, <1>2

LEMMA FoundType ==
    ASSUME NEW str, NEW entries, entries \subseteq Accounts,
           NEW id \in FoundIds(str, entries)
    PROVE  id \in Int \union {Nil} /\ (id = Nil <=> str = Nil)
BY IdsType, Ranges, SettingsAssumption

LEMMA DatabaseType == Users \subseteq Accounts /\ Groups \subseteq Accounts
BY SettingsAssumption

LEMMA SettingsTypeInit == SettingsInit => SettingsTypeOK
<1>. SUFFICES ASSUME SettingsInit
              PROVE  SettingsTypeOK
  OBVIOUS
<1>1. given \in Given /\ given.self \in Credentials /\ given.limits \in Seq(Seq(Texts))
  BY GivenType DEF SettingsInit
<1>2. Initially \in [Resources -> [cur : Nat, max : Nat]]
  BY SettingsAssumption
<1>3. Len(<<>>) = 0 /\ <<>> \in Seq(Parameters) /\ Len(given.limits) \in Nat
  BY <1>1
<1>. QED
  BY <1>1, <1>2, <1>3 DEF SettingsInit, Fresh, SettingsTypeOK, Umask

LEMMA SettingsTypeNext == SettingsTypeOK /\ [SettingsNext]_settings => SettingsTypeOK'
<1>. SUFFICES ASSUME SettingsTypeOK, [SettingsNext]_settings
              PROVE  SettingsTypeOK'
  OBVIOUS
<1>. USE DEF SettingsTypeOK
<1>1. given \in Given /\ given.limits \in Seq(Seq(Texts)) /\ given.self \in Credentials
  BY GivenType
<1>2. CASE ReadLimit
  <2>. DEFINE fields == given.limits[Len(rlimits) + 1]
              p == parse_rlimit_params(fields, Hard)
  <2>1. fields \in Seq(Texts)
    BY <1>1, <1>2 DEF ReadLimit
  <2>2. p \in Parameters \union {Nil}
    BY <2>1, ParseType
  <2>. HIDE DEF fields, p
  <2>3. /\ stage' \in Stages
        /\ rlimits' = IF p = Nil THEN rlimits ELSE Append(rlimits, p)
        /\ Len(rlimits) < Len(given.limits)
    BY <1>2 DEF ReadLimit, Proceed, fields, p
  <2>4. rlimits' \in Seq(Parameters) /\ Len(rlimits') <= Len(given.limits)
        /\ applied \in 0 .. Len(rlimits')
    BY <1>1, <2>2, <2>3
  <2>. QED  BY <1>2, <2>3, <2>4 DEF ReadLimit, process
<1>3. CASE ReadNumbers
  BY <1>3 DEF ReadNumbers, Proceed, process
<1>4. CASE LookUp
  <2>1. uid' \in Int \union {Nil} /\ gid' \in Int \union {Nil}
    BY <1>4, DatabaseType, FoundType DEF LookUp
  <2>. QED  BY <1>4, <2>1 DEF LookUp, process
<1>5. CASE LookUpFails
  BY <1>5 DEF LookUpFails, process
<1>6. CASE CheckCommand
  BY <1>6 DEF CheckCommand, Proceed, process
<1>7. CASE SetPriority
  <2>1. given.priority # Nil => strtol(given.priority) \in Int
    BY GivenType, SignedReads
  <2>. QED  BY <1>7, <2>1 DEF SetPriority, Proceed
<1>8. CASE CheckPidfile
  BY <1>8 DEF CheckPidfile, Proceed, process
<1>9. CASE SetLimit
  <2>. DEFINE p == rlimits[applied + 1]
  <2>1. p \in Parameters /\ applied + 1 \in 0 .. Len(rlimits)
    BY <1>9 DEF SetLimit
  <2>2. [cur |-> p.rlim_cur, max |-> p.rlim_max] \in [cur : Nat, max : Nat]
    BY <2>1 DEF Parameters
  <2>3. limit' \in [Resources -> [cur : Nat, max : Nat]]
    BY <1>9, <2>2 DEF SetLimit
  <2>. QED  BY <1>9, <2>1, <2>3 DEF SetLimit, Proceed
<1>10. CASE SetUmask
  <2>1. given.umask # Nil => strtoul(given.umask) \in Nat
    BY GivenType, UnsignedReads, Ranges
  <2>. QED  BY <1>10, <2>1 DEF SetUmask
<1>11. CASE EnterChroot
  BY <1>11 DEF EnterChroot, Proceed, process
<1>12. CASE SetGroups
  <2>1. cred' \in Credentials
    BY <1>12 DEF SetGroups, Credentials
  <2>. QED  BY <1>12, <2>1 DEF SetGroups, Proceed
<1>13. CASE SetGid
  <2>1. cred' \in Credentials
    BY <1>13 DEF SetGid, Credentials
  <2>. QED  BY <1>13, <2>1 DEF SetGid, Proceed
<1>14. CASE SetUid
  <2>1. cred' \in Credentials
    BY <1>14 DEF SetUid, Credentials
  <2>. QED  BY <1>14, <2>1 DEF SetUid, Proceed
<1>15. CASE Execv
  BY <1>15 DEF Execv, Proceed, process
<1>16. CASE UNCHANGED settings
  BY <1>16 DEF settings, process
<1>. QED
  BY <1>2, <1>3, <1>4, <1>5, <1>6, <1>7, <1>8, <1>9, <1>10, <1>11, <1>12, <1>13, <1>14,
     <1>15, <1>16 DEF SettingsNext, Settled
-----------------------------------------------------------------------------
(* The invariants.                                                         *)

LEMMA OptionsReadNext ==
    SettingsTypeOK /\ OptionsRead /\ [SettingsNext]_settings => OptionsRead'
<1>. SUFFICES ASSUME SettingsTypeOK, OptionsRead, [SettingsNext]_settings
              PROVE  OptionsRead'
  OBVIOUS
<1>1. CASE ReadLimit
  <2>. DEFINE fields == given.limits[Len(rlimits) + 1]
              p == parse_rlimit_params(fields, Hard)
  <2>1. p \in Parameters \union {Nil} /\ rlimits \in Seq(Parameters)
    <3>1. fields \in Seq(Texts)
      BY <1>1, GivenType DEF ReadLimit, SettingsTypeOK
    <3>. QED  BY <3>1, ParseType DEF SettingsTypeOK
  <2>2. p = parse_rlimit_params(given.limits[Len(rlimits) + 1], Hard)
    OBVIOUS
  <2>3. rlimits' = (IF p = Nil THEN rlimits ELSE Append(rlimits, p)) /\ given' = given
        /\ stage' \notin FromIds
    BY <1>1 DEF ReadLimit, Proceed
  <2>4. Hard' = Hard
    BY DEF Hard
  <2>. HIDE DEF fields, p
  <2>5. \A i \in DOMAIN rlimits' : rlimits'[i] = parse_rlimit_params(given.limits[i], Hard)
    BY <2>1, <2>2, <2>3 DEF OptionsRead
  <2>. QED  BY <2>3, <2>4, <2>5 DEF OptionsRead
<1>2. CASE ReadNumbers
  BY <1>2 DEF ReadNumbers, Proceed, OptionsRead, Hard
<1>3. given' = given /\ rlimits' = rlimits /\ (stage' \in FromIds => stage \in FromIds)
      => OptionsRead'
  BY DEF OptionsRead, Hard
<1>4. CASE LookUp \/ LookUpFails \/ CheckCommand \/ SetPriority \/ CheckPidfile
  BY <1>3, <1>4 DEF LookUp, LookUpFails, CheckCommand, SetPriority, CheckPidfile
<1>5. CASE SetLimit \/ SetUmask
  BY <1>3, <1>5 DEF SetLimit, SetUmask
<1>6. CASE EnterChroot \/ SetGroups \/ SetGid \/ SetUid \/ Execv
  BY <1>3, <1>6 DEF EnterChroot, SetGroups, SetGid, SetUid, Execv
<1>7. CASE UNCHANGED settings
  BY <1>3, <1>7 DEF settings
<1>. QED
  BY <1>1, <1>2, <1>4, <1>5, <1>6, <1>7 DEF SettingsNext, Settled

LEMMA ServiceKnownNext == ServiceKnown /\ [SettingsNext]_settings => ServiceKnown'
<1>. SUFFICES ASSUME ServiceKnown, [SettingsNext]_settings
              PROVE  ServiceKnown'
  OBVIOUS
<1>1. CASE LookUp
  BY <1>1 DEF LookUp, ServiceKnown
<1>2. CASE CheckCommand
  BY <1>2 DEF CheckCommand, Proceed, ServiceKnown, xuid, xgid, stat, can_execute
<1>3. /\ given' = given /\ uid' = uid /\ gid' = gid
      /\ stage' \in FromCommand => stage \in FromPriority
      => ServiceKnown'
  BY DEF ServiceKnown, xuid, xgid
<1>4. CASE UNCHANGED settings
  BY <1>4 DEF settings, ServiceKnown, xuid, xgid
<1>5. CASE ReadLimit \/ ReadNumbers \/ LookUpFails
  BY <1>3, <1>5 DEF ReadLimit, ReadNumbers, LookUpFails, Proceed
<1>6. CASE SetPriority \/ CheckPidfile
  BY <1>3, <1>6 DEF SetPriority, CheckPidfile
<1>7. CASE SetLimit \/ SetUmask
  BY <1>3, <1>7 DEF SetLimit, SetUmask
<1>8. CASE EnterChroot \/ SetGroups \/ SetGid \/ SetUid \/ Execv
  BY <1>3, <1>8 DEF EnterChroot, SetGroups, SetGid, SetUid, Execv
<1>. QED
  BY <1>1, <1>2, <1>4, <1>5, <1>6, <1>7, <1>8 DEF SettingsNext, Settled

LEMMA LimitsSetNext ==
    SettingsTypeOK /\ LimitsSet /\ [SettingsNext]_settings => LimitsSet'
<1>. SUFFICES ASSUME SettingsTypeOK, LimitsSet, [SettingsNext]_settings
              PROVE  LimitsSet'
  OBVIOUS
<1>1. applied \in 0 .. Len(rlimits) /\ rlimits \in Seq(Parameters)
  BY DEF SettingsTypeOK
<1>2. CASE ReadLimit
  <2>1. \A i \in 1 .. applied : rlimits'[i] = rlimits[i]
    BY <1>1, <1>2 DEF ReadLimit
  <2>2. /\ applied' = applied /\ limit' = limit
        /\ stage # "premature" /\ stage' \notin FromChroot
    BY <1>2 DEF ReadLimit, Proceed, process
  <2>3. \A r \in Resources :
            \/ limit[r] = Initially[r] /\ \A i \in 1 .. applied : rlimits'[i].resource # r
            \/ \E i \in 1 .. applied :
                /\ rlimits'[i].resource = r
                /\ limit[r] = [cur |-> rlimits'[i].rlim_cur, max |-> rlimits'[i].rlim_max]
                /\ \A j \in i + 1 .. applied : rlimits'[j].resource # r
    <3>. TAKE r \in Resources
    <3>1. CASE limit[r] = Initially[r] /\ \A i \in 1 .. applied : rlimits[i].resource # r
      BY <2>1, <3>1
    <3>2. ASSUME NEW i \in 1 .. applied, rlimits[i].resource = r,
                 limit[r] = [cur |-> rlimits[i].rlim_cur, max |-> rlimits[i].rlim_max],
                 \A j \in i + 1 .. applied : rlimits[j].resource # r
          PROVE  /\ rlimits'[i] = rlimits[i]
                 /\ \A j \in i + 1 .. applied : rlimits'[j].resource # r
      BY <1>1, <2>1, <3>2
    <3>. QED  BY <2>2, <3>1, <3>2 DEF LimitsSet
  <2>. QED  BY <2>2, <2>3 DEF LimitsSet, Resources
<1>3. CASE SetLimit
  <2>. DEFINE p == rlimits[applied + 1]
  <2>1. SUFFICES ASSUME stage' # "premature", NEW r \in Resources
                 PROVE  \/ limit'[r] = Initially[r] /\ \A i \in 1 .. applied' : rlimits[i].resource # r
                        \/ \E i \in 1 .. applied' :
                            /\ rlimits[i].resource = r
                            /\ limit'[r] = [cur |-> rlimits[i].rlim_cur, max |-> rlimits[i].rlim_max]
                            /\ \A j \in i + 1 .. applied' : rlimits[j].resource # r
    <3>1. rlimits' = rlimits /\ stage' \notin FromChroot
      BY <1>3 DEF SetLimit, Proceed
    <3>. QED  BY <3>1 DEF LimitsSet, Resources
  <2>2. /\ stage # "premature" /\ applied' = applied + 1 /\ p.resource \in Resources
        /\ limit' = [limit EXCEPT ![p.resource] = [cur |-> p.rlim_cur, max |-> p.rlim_max]]
    BY <1>3, <2>1 DEF SetLimit, Proceed, MaySetLimit
  <2>3. r \in DOMAIN limit
    BY DEF SettingsTypeOK
  <2>4. CASE p.resource = r
    <3>1. /\ applied + 1 \in 1 .. applied' /\ (applied + 1) + 1 .. applied' = {}
          /\ limit'[r] = [cur |-> p.rlim_cur, max |-> p.rlim_max]
      BY <1>1, <2>2, <2>3, <2>4
    <3>. QED  BY <2>4, <3>1
  <2>5. CASE p.resource # r
    <3>1. limit'[r] = limit[r]
      BY <2>2, <2>3, <2>5
    <3>2. \A j \in 1 .. applied' : j \in 1 .. applied \/ rlimits[j].resource # r
      BY <1>1, <2>2, <2>5
    <3>3. CASE limit[r] = Initially[r] /\ \A i \in 1 .. applied : rlimits[i].resource # r
      BY <3>1, <3>2, <3>3
    <3>4. ASSUME NEW i \in 1 .. applied, rlimits[i].resource = r,
                 limit[r] = [cur |-> rlimits[i].rlim_cur, max |-> rlimits[i].rlim_max],
                 \A j \in i + 1 .. applied : rlimits[j].resource # r
          PROVE  /\ i \in 1 .. applied'
                 /\ \A j \in i + 1 .. applied' : rlimits[j].resource # r
      BY <1>1, <2>2, <2>5, <3>4
    <3>5. \/ limit[r] = Initially[r] /\ \A i \in 1 .. applied : rlimits[i].resource # r
          \/ \E i \in 1 .. applied :
              /\ rlimits[i].resource = r
              /\ limit[r] = [cur |-> rlimits[i].rlim_cur, max |-> rlimits[i].rlim_max]
              /\ \A j \in i + 1 .. applied : rlimits[j].resource # r
      BY <2>2 DEF LimitsSet
    <3>. QED  BY <3>1, <3>3, <3>4, <3>5
  <2>. QED  BY <2>4, <2>5
<1>4. CASE SetUmask
  BY <1>4 DEF SetUmask, LimitsSet, Resources
<1>5. /\ applied' = applied /\ limit' = limit /\ rlimits' = rlimits
      /\ stage' \in FromChroot => stage \in FromChroot
      /\ stage' # "premature" => stage # "premature"
      => LimitsSet'
  BY DEF LimitsSet, Resources
<1>6. CASE ReadNumbers \/ LookUp \/ LookUpFails \/ CheckCommand \/ SetPriority \/ CheckPidfile
  BY <1>5, <1>6 DEF ReadNumbers, LookUp, LookUpFails, CheckCommand, SetPriority, CheckPidfile,
     Proceed, process
<1>7. CASE EnterChroot \/ SetGroups \/ SetGid \/ SetUid \/ Execv
  BY <1>5, <1>7 DEF EnterChroot, SetGroups, SetGid, SetUid, Execv, Proceed, process
<1>8. CASE UNCHANGED settings
  BY <1>5, <1>8 DEF settings, process
<1>. QED
  BY <1>2, <1>3, <1>4, <1>6, <1>7, <1>8 DEF SettingsNext, Settled

LEMMA ProcessSetNext == ProcessSet /\ [SettingsNext]_settings => ProcessSet'
<1>. SUFFICES ASSUME ProcessSet, [SettingsNext]_settings
              PROVE  ProcessSet'
  OBVIOUS
<1>1. CASE SetPriority
  BY <1>1 DEF SetPriority, Proceed, ProcessSet
<1>2. CASE SetUmask
  BY <1>2 DEF SetUmask, ProcessSet, do_pipe
<1>3. /\ nice' = nice /\ mask' = mask /\ output' = output /\ given' = given
      /\ rlimits' = rlimits \/ stage' \notin FromChroot
      /\ stage' \in {"options"} \union FromIds => stage \in {"options"} \union FromIds
      /\ stage' \in FromPidfile <=> stage \in FromPidfile
      /\ stage' \in FromChroot <=> stage \in FromChroot
      => ProcessSet'
  BY DEF ProcessSet, do_pipe
<1>4. CASE ReadLimit \/ ReadNumbers \/ LookUp \/ LookUpFails \/ CheckCommand
  BY <1>3, <1>4 DEF ReadLimit, ReadNumbers, LookUp, LookUpFails, CheckCommand, Proceed, process
<1>5. CASE CheckPidfile
  BY <1>5 DEF CheckPidfile, Proceed, process, ProcessSet
<1>6. CASE SetLimit
  BY <1>6 DEF SetLimit, Proceed, ProcessSet
<1>7. CASE EnterChroot \/ Execv
  BY <1>7 DEF EnterChroot, Execv, Proceed, process, ProcessSet, do_pipe
<1>8. CASE SetGroups \/ SetGid \/ SetUid
  BY <1>8 DEF SetGroups, SetGid, SetUid, Proceed, ProcessSet, do_pipe
<1>9. CASE UNCHANGED settings
  BY <1>3, <1>9 DEF settings, process
<1>. QED
  BY <1>1, <1>2, <1>4, <1>5, <1>6, <1>7, <1>8, <1>9 DEF SettingsNext, Settled

LEMMA CredentialsSetNext ==
    SettingsTypeOK /\ CredentialsSet /\ [SettingsNext]_settings => CredentialsSet'
<1>. SUFFICES ASSUME SettingsTypeOK, CredentialsSet, [SettingsNext]_settings
              PROVE  CredentialsSet'
  OBVIOUS
<1>1. cred = [uid |-> cred.uid, gid |-> cred.gid, groups |-> cred.groups]
  BY DEF SettingsTypeOK, Credentials
<1>2. CASE SetGroups
  BY <1>1, <1>2 DEF SetGroups, Proceed, CredentialsSet
<1>3. CASE SetGid
  BY <1>1, <1>3 DEF SetGid, Proceed, CredentialsSet, xgid
<1>4. CASE SetUid
  BY <1>1, <1>4 DEF SetUid, Proceed, CredentialsSet, xuid, xgid
<1>5. /\ cred' = cred /\ given' = given /\ uid' = uid /\ gid' = gid
      /\ stage' \in {"options"} \union FromIds => stage \in {"options"} \union FromIds
      /\ stage' \in FromSetGid <=> stage \in FromSetGid
      /\ stage' \in FromSetUid <=> stage \in FromSetUid
      /\ stage' \in FromExecv <=> stage \in FromExecv
      => CredentialsSet'
  BY DEF CredentialsSet, xuid, xgid
<1>6. CASE LookUp
  BY <1>6 DEF LookUp, process, CredentialsSet
<1>7. CASE ReadLimit \/ ReadNumbers \/ LookUpFails \/ CheckCommand \/ SetPriority \/ CheckPidfile
  BY <1>5, <1>7 DEF ReadLimit, ReadNumbers, LookUpFails, CheckCommand, SetPriority, CheckPidfile,
     Proceed, process
<1>8. CASE SetLimit \/ SetUmask
  BY <1>5, <1>8 DEF SetLimit, SetUmask, Proceed
<1>9. CASE EnterChroot
  BY <1>5, <1>9 DEF EnterChroot, Proceed, process
<1>10. CASE Execv
  BY <1>10 DEF Execv, Proceed, process, CredentialsSet, xuid, xgid
<1>11. CASE UNCHANGED settings
  BY <1>5, <1>11 DEF settings, process
<1>. QED
  BY <1>2, <1>3, <1>4, <1>6, <1>7, <1>8, <1>9, <1>10, <1>11 DEF SettingsNext, Settled
-----------------------------------------------------------------------------
(* What the service runs with.                                             *)

\* A user or group that was found is one that was meant.
LEMMA FoundMeant ==
    ASSUME NEW str \in OptionalText, NEW entries, entries \subseteq Accounts, NEW own,
           NEW id \in FoundIds(str, entries), Negative(str) => ~IsNumber(str)
    PROVE  (IF id = Nil THEN own ELSE id) \in MeantIds(str, entries, own)
<1>1. CASE str = Nil
  BY <1>1, FoundType DEF MeantIds
<1>2. CASE str # Nil
  <2>1. str \in Texts /\ id # Nil /\ (IsNumber(str) => str.value >= 0)
    BY <1>2, FoundType, TextType DEF OptionalText, Negative
  <2>2. CASE IsNumber(str) /\ strtoul(str) <= UINT_MAX
    <3>1. PICK e \in entries : e.id = strtoul(str) /\ id = e.id
      BY <1>2, <2>2 DEF FoundIds, get_id_from_name, ById
    <3>2. e.id \in 0 .. UINT_MAX - 1
      BY DEF Accounts
    <3>3. str.value \in 0 .. ULONG_MAX
      BY <2>1, <2>2, <3>1, <3>2, TextType, UnsignedReads, Ranges
    <3>4. str = Number(e.id)
      BY <2>1, <2>2, <3>1, <3>3, TextType, UnsignedReads
    <3>. QED  BY <1>2, <2>1, <3>1, <3>4 DEF MeantIds
  <2>3. CASE ~(IsNumber(str) /\ strtoul(str) <= UINT_MAX)
    <3>1. PICK e \in entries : e.name = str /\ id = e.id
      BY <1>2, <2>3 DEF FoundIds, get_id_from_name, ByName
    <3>. QED  BY <1>2, <2>1, <3>1 DEF MeantIds
  <2>. QED  BY <2>2, <2>3
<1>. QED  BY <1>1, <1>2

LEMMA LimitsMeant ==
    ASSUME SettingsTypeOK, OptionsRead, AllWellFormed, LONG_MAX = LLONG_MAX,
           NEW i \in DOMAIN rlimits
    PROVE  /\ rlimits[i].resource \in Resources
           /\ \A r \in Resources : rlimits[i].resource = r <=> i \in About(r)
           /\ MeantBy(given.limits[i], rlimits[i].resource)
                = [cur |-> rlimits[i].rlim_cur, max |-> rlimits[i].rlim_max]
<1>1. given \in Given /\ i \in DOMAIN given.limits
  BY GivenType DEF SettingsTypeOK
<1>2. given.limits[i] \in Seq(Texts) /\ WellFormed(given.limits[i])
  BY <1>1, GivenType DEF AllWellFormed
<1>3. rlimits[i] = parse_rlimit_params(given.limits[i], Hard)
  BY DEF OptionsRead
<1>. QED  BY <1>1, <1>2, <1>3, ParseMeant DEF About

LEMMA LimitsAsMeant ==
    ASSUME SettingsTypeOK, OptionsRead, LimitsSet, stage = "service", AllWellFormed,
           LONG_MAX = LLONG_MAX, NEW r \in Resources
    PROVE  LimitAsMeant(r)
<1>1. /\ applied = Len(rlimits) /\ Len(rlimits) = Len(given.limits)
      /\ rlimits \in Seq(Parameters) /\ given.limits \in Seq(Seq(Texts))
  BY GivenType DEF LimitsSet, OptionsRead, SettingsTypeOK
<1>2. DOMAIN rlimits = 1 .. applied /\ DOMAIN given.limits = 1 .. applied /\ applied \in Nat
  BY <1>1
<1>3. \A i \in 1 .. applied : rlimits[i].resource = r <=> i \in About(r)
  BY <1>2, LimitsMeant
<1>4. CASE limit[r] = Initially[r] /\ \A i \in 1 .. applied : rlimits[i].resource # r
  BY <1>2, <1>3, <1>4 DEF LimitAsMeant, About
<1>5. ASSUME NEW i \in 1 .. applied, rlimits[i].resource = r,
             limit[r] = [cur |-> rlimits[i].rlim_cur, max |-> rlimits[i].rlim_max],
             \A j \in i + 1 .. applied : rlimits[j].resource # r
      PROVE  LimitAsMeant(r)
  <2>1. i \in About(r) /\ limit[r] = MeantBy(given.limits[i], r)
    BY <1>2, <1>5, LimitsMeant
  <2>2. \A j \in About(r) : j <= i
    BY <1>2, <1>3, <1>5 DEF About
  <2>. QED  BY <2>1, <2>2 DEF LimitAsMeant
<1>. QED  BY <1>4, <1>5 DEF LimitsSet

LEMMA SettingsInvariantHolds == SettingsSpec => []SettingsInvariant
<1>1. SettingsInit => SettingsInvariant
  BY SettingsTypeInit
  DEF SettingsInit, Fresh, SettingsInvariant, OptionsRead, ServiceKnown, LimitsSet, ProcessSet,
      CredentialsSet
<1>2. SettingsInvariant /\ [SettingsNext]_settings => SettingsInvariant'
  BY SettingsTypeNext, OptionsReadNext, ServiceKnownNext, LimitsSetNext, ProcessSetNext,
     CredentialsSetNext DEF SettingsInvariant
<1>. QED  BY <1>1, <1>2, PTL DEF SettingsSpec

\* Whatever is asked for, in a 64-bit process the service runs with it: its limits are those of
\* the last --rlimit about them, its umask, priority, user, group and supplementary groups are
\* what the options say or those of its starter (start.c:1333-1785, 2016-2117).
THEOREM AsAsked ==
    ASSUME LONG_MAX = LLONG_MAX
    PROVE  SettingsSpec => []RunsAsAsked
<1>1. SettingsInvariant => RunsAsAsked
  <2>. SUFFICES ASSUME SettingsInvariant, stage = "service"
                PROVE  RunsAsAsked
    BY DEF RunsAsAsked
  <2>. USE DEF SettingsInvariant
  <2>1. given \in Given /\ rlimits \in Seq(Parameters)
    BY DEF SettingsTypeOK
  <2>2. AllWellFormed => \A r \in Resources : LimitAsMeant(r)
    BY LimitsAsMeant
  <2>3. limit[RLIMIT_.FSIZE] # Initially[RLIMIT_.FSIZE] => output = "pipe"
    <3>. SUFFICES ASSUME limit[RLIMIT_.FSIZE] # Initially[RLIMIT_.FSIZE]
                  PROVE  do_pipe
      BY DEF ProcessSet
    <3>1. PICK i \in 1 .. applied : rlimits[i].resource = RLIMIT_.FSIZE
      BY SettingsAssumption DEF LimitsSet
    <3>2. i \in DOMAIN rlimits
      BY <2>1 DEF SettingsTypeOK
    <3>. QED  BY <3>1, <3>2 DEF do_pipe
  <2>4. Within(given.umask, 0 .. 511) => mask = (IF given.umask = Nil THEN Umask ELSE given.umask.value)
    <3>1. mask = (IF given.umask = Nil THEN Umask ELSE strtoul(given.umask))
      BY DEF ProcessSet
    <3>2. given.umask # Nil /\ given.umask.value \in 0 .. 511
          => strtoul(given.umask) = given.umask.value
      <4>1. 0 .. 511 \subseteq 0 .. ULONG_MAX
        BY Ranges
      <4>2. given.umask # Nil => given.umask \in Texts
        BY <2>1, GivenType
      <4>. QED  BY <4>1, <4>2, UnsignedReads
    <3>. QED  BY <3>1, <3>2 DEF Within
  <2>5. nice = (IF given.priority = Nil THEN 0 ELSE given.priority.value)
    BY <2>1, GivenType, SignedReads DEF OptionsRead, ReadsPriority, ProcessSet
  <2>6. /\ uid \in FoundIds(given.user, Users) /\ gid \in FoundIds(given.group, Groups)
        /\ given.user \in OptionalText /\ given.group \in OptionalText
    BY <2>1, GivenType DEF ServiceKnown
  <2>7. ~Negative(given.user) => cred.uid \in MeantIds(given.user, Users, given.self.uid)
    <3>1. cred.uid = (IF uid = Nil THEN given.self.uid ELSE uid)
      BY DEF CredentialsSet, xuid
    <3>. QED  BY <2>6, <3>1, FoundMeant, DatabaseType
  <2>8. ~Negative(given.group) => cred.gid \in MeantIds(given.group, Groups, given.self.gid)
    <3>1. cred.gid = (IF gid = Nil THEN given.self.gid ELSE gid)
      BY DEF CredentialsSet, xgid
    <3>. QED  BY <2>6, <3>1, FoundMeant, DatabaseType
  <2>9. cred.groups = (IF given.group = Nil THEN given.self.groups ELSE {})
    BY <2>6, FoundType, DatabaseType DEF CredentialsSet
  <2>. QED
    BY <2>2, <2>3, <2>4, <2>5, <2>7, <2>8, <2>9 DEF RunsAsAsked
<1>. QED  BY <1>1, SettingsInvariantHolds, PTL
-----------------------------------------------------------------------------
(* What is refused.                                                        *)

\* A user or group that is meant is found, and nobody else.
LEMMA MeantFound ==
    ASSUME NEW str \in OptionalText, NEW entries, entries \subseteq Accounts, NEW own,
           \A e \in entries : ~IsNumber(e.name), MeantIds(str, entries, own) # {}
    PROVE  /\ FoundIds(str, entries) # {}
           /\ \A id \in FoundIds(str, entries) :
                (IF id = Nil THEN own ELSE id) \in MeantIds(str, entries, own)
<1>1. CASE str = Nil
  BY <1>1, FoundType DEF FoundIds, MeantIds
<1>2. CASE str # Nil
  <2>1. PICK e \in entries : e.name = str \/ str = Number(e.id)
    BY <1>2 DEF MeantIds
  <2>2. e.id \in 0 .. UINT_MAX - 1
    BY DEF Accounts
  <2>3. CASE str = Number(e.id)
    <3>1. str.value = e.id /\ IsNumber(str) /\ str \in Texts
      BY <1>2, <2>3 DEF Number, IsNumber, Empty, Word, OptionalText
    <3>2. str.value >= 0 /\ strtoul(str) = e.id /\ strtoul(str) <= UINT_MAX
      BY <2>2, <3>1, UnsignedReads, Ranges
    <3>3. e.id \in FoundIds(str, entries)
      BY <1>2, <3>1, <3>2 DEF FoundIds, get_id_from_name, ById
    <3>4. ~Negative(str)
      BY <2>2, <3>1, Ranges DEF Negative
    <3>. QED  BY <3>3, <3>4, FoundMeant
  <2>4. CASE e.name = str
    <3>1. ~IsNumber(str)
      BY <2>4
    <3>2. e.id \in FoundIds(str, entries)
      BY <1>2, <2>4, <3>1 DEF FoundIds, get_id_from_name, ByName
    <3>. QED  BY <3>1, <3>2, FoundMeant
  <2>. QED  BY <2>1, <2>3, <2>4
<1>. QED  BY <1>1, <1>2

\* Whoever has a right in his first class has it in any, and where rights grow from the
\* others to the owner the converse is true.
LEMMA FirstIsAny ==
    ASSUME NEW meta, NEW right, NEW u, NEW g
    PROVE  right \in FirstClass(meta, [uid |-> u, gid |-> g, groups |-> {}])
           => AnyClass(meta, right, u, g)
BY DEF FirstClass, AnyClass

LEMMA ExecutesMonotone ==
    ASSUME NEW meta, NEW path, NEW c,
           can_execute(meta, c.uid, c.gid), Monotone(meta), Searches(path, c)
    PROVE  Executes(meta, path, c)
BY DEF can_execute, AnyClass, Executes, FirstClass, Monotone

LEMMA MayReadWrite ==
    ASSUME NEW meta, NEW parent, NEW c \in Credentials, Searches({parent}, c),
           OpensReadWrite(meta, parent, [c EXCEPT !.groups = {}])
    PROVE  can_read_write(meta, parent, c)
<1>1. [c EXCEPT !.groups = {}] = [uid |-> c.uid, gid |-> c.gid, groups |-> {}]
  BY DEF Credentials
<1>. QED
  BY <1>1, FirstIsAny DEF OpensReadWrite, can_read_write

\* Credentials are searched by their fields.
LEMMA EntersByFields ==
    ASSUME NEW dir, NEW c, NEW d, c.uid = d.uid, c.gid = d.gid, c.groups = d.groups
    PROVE  Enters(dir, c) <=> Enters(dir, d)
BY DEF Enters, Searches, FirstClass

Wanted == WellMeant /\ Permitted /\ PermittedByRights

\* The credentials a service may come to have, one by one.
LEMMA MeantTogether ==
    ASSUME NEW u \in MeantIds(given.user, Users, given.self.uid),
           NEW g \in MeantIds(given.group, Groups, given.self.gid)
    PROVE  [uid |-> u, gid |-> g, groups |-> IF given.group = Nil THEN given.self.groups ELSE {}]
             \in MeantCredentials
BY DEF MeantCredentials

LEMMA WantedIds ==
    ASSUME SettingsTypeOK, Wanted, \A e \in Users \union Groups : ~IsNumber(e.name)
    PROVE  /\ FoundIds(given.user, Users) # {} /\ FoundIds(given.group, Groups) # {}
           /\ uid \in FoundIds(given.user, Users) =>
                xuid \in MeantIds(given.user, Users, given.self.uid)
           /\ gid \in FoundIds(given.group, Groups) =>
                xgid \in MeantIds(given.group, Groups, given.self.gid)
<1>1. given.user \in OptionalText /\ given.group \in OptionalText
  BY GivenType DEF SettingsTypeOK
<1>2. /\ MeantIds(given.user, Users, given.self.uid) # {}
      /\ MeantIds(given.group, Groups, given.self.gid) # {}
  <2>1. MeantCredentials # {}
    BY DEF Wanted, Permitted
  <2>. QED  BY <2>1 DEF MeantCredentials
<1>. QED  BY <1>1, <1>2, MeantFound, DatabaseType DEF xuid, xgid

\* What the checks of the command ask for: the way is open to the starter, and the rights of
\* the command and of the directories to the service's user.
LEMMA WantedRights ==
    ASSUME SettingsTypeOK, Wanted,
           xuid \in MeantIds(given.user, Users, given.self.uid),
           xgid \in MeantIds(given.group, Groups, given.self.gid)
    PROVE  /\ can_execute(stat(given.command, given.path, given.self), xuid, xgid)
           /\ \A dir \in given.entered : can_list(dir, xuid, xgid)
<1>. DEFINE groups == IF given.group = Nil THEN given.self.groups ELSE {}
            c == [uid |-> xuid, gid |-> xgid, groups |-> groups]
            own == [uid |-> xuid, gid |-> xgid, groups |-> {}]
<1>1. c \in MeantCredentials
  BY MeantTogether
<1>2. [c EXCEPT !.groups = {}] = own
  OBVIOUS
<1>. HIDE DEF c, own
<1>3. Executes(given.command, given.path, c)
  BY <1>1 DEF Wanted, Permitted
<1>4. \A file \in {given.command} \union given.entered : "x" \in FirstClass(file, own)
  BY <1>1, <1>2 DEF Wanted, PermittedByRights
<1>5. \A file \in {given.command} \union given.entered : AnyClass(file, "x", xuid, xgid)
  BY <1>4, FirstIsAny DEF own
<1>6. Searches(given.path, given.self)
  <2>1. CASE given.self.uid = 0
    BY <2>1 DEF Searches
  <2>2. CASE given.self.uid # 0
    <3>1. given.user = Nil /\ given.group = Nil
      BY <2>2 DEF Wanted, Permitted
    <3>2. /\ given.self.uid \in MeantIds(given.user, Users, given.self.uid)
          /\ given.self.gid \in MeantIds(given.group, Groups, given.self.gid)
      BY <3>1 DEF MeantIds
    <3>3. [uid |-> given.self.uid, gid |-> given.self.gid, groups |-> given.self.groups]
             \in MeantCredentials
      BY <3>1, <3>2, MeantTogether
    <3>4. Searches(given.path,
            [uid |-> given.self.uid, gid |-> given.self.gid, groups |-> given.self.groups])
      BY <3>3 DEF Wanted, Permitted, Executes
    <3>. QED  BY <3>4 DEF Searches, FirstClass
  <2>. QED  BY <2>1, <2>2
<1>7. \A dir \in given.entered : Enters(dir, given.self)
  BY DEF Wanted, Permitted
<1>. QED
  BY <1>3, <1>5, <1>6, <1>7 DEF can_execute, can_list, stat, Executes, Enters

LEMMA WantedNumbers ==
    ASSUME SettingsTypeOK, Wanted
    PROVE  /\ given.priority # Nil => ReadsPriority(given.priority)
           /\ given.umask # Nil => ReadsUmask(given.umask)
           /\ given.sleep # Nil => ReadsSleep(given.sleep)
<1>1. /\ given.priority # Nil => given.priority \in Texts
      /\ given.umask # Nil => given.umask \in Texts
      /\ given.sleep # Nil => given.sleep \in Texts
  BY GivenType DEF SettingsTypeOK
<1>2. /\ Within(given.priority, -20 .. 19) /\ Within(given.umask, 0 .. 511)
      /\ Within(given.sleep, 0 .. UINT_MAX)
  BY DEF Wanted, WellMeant
<1>3. given.priority # Nil => ReadsPriority(given.priority)
  <2>. SUFFICES ASSUME given.priority # Nil
                PROVE  ReadsPriority(given.priority)
    OBVIOUS
  <2>1. given.priority \in Texts /\ IsNumber(given.priority) /\ given.priority.value \in -20 .. 19
    BY <1>1, <1>2 DEF Within
  <2>2. strtol(given.priority) = given.priority.value
    BY <2>1, SignedReads
  <2>. QED  BY <2>1, <2>2 DEF ReadsPriority
<1>4. given.umask # Nil => ReadsUmask(given.umask)
  <2>1. 0 .. 511 \subseteq 0 .. ULONG_MAX
    BY Ranges
  <2>2. given.umask # Nil => strtoul(given.umask) \in 0 .. 511
    BY <1>1, <1>2, <2>1, UnsignedReads DEF Within
  <2>. QED  BY <1>2, <2>2 DEF Within, ReadsUmask
<1>5. given.sleep # Nil => ReadsSleep(given.sleep)
  <2>1. 0 .. UINT_MAX \subseteq 0 .. ULONG_MAX
    BY Ranges
  <2>. QED  BY <1>1, <1>2, <2>1, UnsignedReads DEF Within, ReadsSleep
<1>. QED  BY <1>3, <1>4, <1>5

\* The kernel takes each of the limits: none exceeds its hard limit, nor those before it.
LEMMA WantedLimits ==
    ASSUME SettingsTypeOK, OptionsRead, LimitsSet, CredentialsSet, Wanted, LONG_MAX = LLONG_MAX,
           stage = "limits", applied < Len(rlimits)
    PROVE  MaySetLimit(rlimits[applied + 1])
<1>. DEFINE n == applied + 1
            p == rlimits[n]
            r == p.resource
<1>1. n \in DOMAIN rlimits /\ n \in Nat /\ rlimits \in Seq(Parameters) /\ applied = n - 1
  BY DEF SettingsTypeOK
<1>2. AllWellFormed
  BY DEF Wanted, WellMeant
<1>3. r \in Resources /\ n \in About(r)
      /\ MeantBy(given.limits[n], r) = [cur |-> p.rlim_cur, max |-> p.rlim_max]
  BY <1>1, <1>2, LimitsMeant
<1>4. \/ given.self.uid = 0
      \/ /\ p.rlim_max <= Initially[r].max
         /\ \A j \in About(r) : j < n => p.rlim_max <= MeantBy(given.limits[j], r).max
  BY <1>3 DEF Wanted, Permitted
<1>5. p.rlim_cur <= p.rlim_max
  BY <1>3 DEF Wanted, Permitted
<1>6. Privileged <=> given.self.uid = 0
  BY DEF CredentialsSet, Privileged
<1>7. ASSUME given.self.uid # 0
      PROVE  p.rlim_max <= limit[r].max
  <2>1. CASE limit[r] = Initially[r]
    BY <1>4, <1>7, <2>1
  <2>2. ASSUME NEW i \in 1 .. applied, rlimits[i].resource = r,
               limit[r] = [cur |-> rlimits[i].rlim_cur, max |-> rlimits[i].rlim_max]
        PROVE  p.rlim_max <= limit[r].max
    <3>1. i \in DOMAIN rlimits /\ i < n
      BY <1>1
    <3>2. i \in About(r) /\ MeantBy(given.limits[i], r) = limit[r]
      BY <1>2, <1>3, <2>2, <3>1, LimitsMeant
    <3>. QED  BY <1>4, <1>7, <3>1, <3>2
  <2>. QED  BY <1>3, <2>1, <2>2 DEF LimitsSet
<1>. QED  BY <1>3, <1>5, <1>6, <1>7 DEF MaySetLimit

LEMMA RefusalsNext ==
    ASSUME LONG_MAX = LLONG_MAX, \A e \in Users \union Groups : ~IsNumber(e.name)
    PROVE  SettingsInvariant /\ RefusalsAreRight /\ [SettingsNext]_settings => RefusalsAreRight'
<1>. SUFFICES ASSUME SettingsInvariant, RefusalsAreRight, [SettingsNext]_settings
              PROVE  RefusalsAreRight'
  OBVIOUS
<1>. USE DEF SettingsInvariant
<1>1. given' = given
  BY DEF SettingsNext, Settled, settings, ReadLimit, ReadNumbers, LookUp, LookUpFails, CheckCommand,
     SetPriority, CheckPidfile, SetLimit, SetUmask, EnterChroot, SetGroups, SetGid, SetUid, Execv
<1>2. Wanted' <=> Wanted
  BY <1>1
  DEF Wanted, WellMeant, AllWellFormed, Permitted, PermittedByRights, MeantCredentials, About,
      MeantBy, MeantIds, Resources
<1>3. RefusalsAreRight' <=> /\ stage' \in {"refused", "premature"} => ~Wanted
                            /\ stage' = "denied" =>
                                ~Monotone(given.command) \/ ~Searches(given.path, cred')
  BY <1>1, <1>2 DEF RefusalsAreRight, Wanted
<1>4. ASSUME Wanted
      PROVE  /\ ReadLimit => stage' # "refused"
             /\ ReadNumbers => stage' # "refused"
             /\ ~LookUpFails
             /\ CheckCommand => stage' # "refused"
             /\ SetPriority => stage' # "refused"
             /\ CheckPidfile => stage' # "refused"
  <2>. USE DEF Proceed
  <2>1. ReadLimit => stage' # "refused"
    <3>. SUFFICES ASSUME ReadLimit
                  PROVE  parse_rlimit_params(given.limits[Len(rlimits) + 1], Hard) # Nil
      BY DEF ReadLimit
    <3>1. /\ Len(rlimits) + 1 \in DOMAIN given.limits
          /\ given.limits[Len(rlimits) + 1] \in Seq(Texts)
      BY GivenType DEF ReadLimit, SettingsTypeOK
    <3>2. WellFormed(given.limits[Len(rlimits) + 1])
      BY <1>4, <3>1 DEF Wanted, WellMeant, AllWellFormed
    <3>. QED  BY <3>1, <3>2, ParseMeant, SettingsAssumption
  <2>2. ReadNumbers => stage' # "refused"
    BY <1>4, WantedNumbers DEF ReadNumbers
  <2>3. ~LookUpFails
    BY <1>4, WantedIds DEF LookUpFails
  <2>4. CheckCommand => stage' # "refused"
    <3>. SUFFICES ASSUME stage = "command"
                  PROVE  /\ can_execute(stat(given.command, given.path, given.self), xuid, xgid)
                         /\ \A dir \in given.entered : can_list(dir, xuid, xgid)
      BY DEF CheckCommand
    <3>1. /\ xuid \in MeantIds(given.user, Users, given.self.uid)
          /\ xgid \in MeantIds(given.group, Groups, given.self.gid)
      BY <1>4, WantedIds DEF ServiceKnown
    <3>. QED  BY <1>4, <3>1, WantedRights
  <2>5. SetPriority => stage' # "refused"
    <3>. SUFFICES ASSUME stage = "priority", given.priority # Nil
                  PROVE  Privileged \/ strtol(given.priority) >= nice
      BY DEF SetPriority
    <3>1. nice = 0 /\ (Privileged <=> given.self.uid = 0)
      BY DEF ProcessSet, CredentialsSet, Privileged
    <3>2. given.self.uid = 0 \/ given.priority.value >= 0
      BY <1>4 DEF Wanted, Permitted
    <3>3. strtol(given.priority) = given.priority.value
      BY <1>4, WantedNumbers, GivenType, SignedReads DEF ReadsPriority, SettingsTypeOK
    <3>. QED  BY <3>1, <3>2, <3>3
  <2>6. CheckPidfile => stage' # "refused"
    <3>1. given.self \in Credentials /\ Searches({given.parent}, given.self)
      BY <1>4, GivenType DEF Wanted, Permitted, OpensReadWrite, SettingsTypeOK
    <3>2. can_read_write(given.pidfile, given.parent, given.self)
      BY <1>4, <3>1, MayReadWrite DEF Wanted, PermittedByRights
    <3>. QED  BY <3>2 DEF CheckPidfile
  <2>. QED  BY <2>1, <2>2, <2>3, <2>4, <2>5, <2>6
<1>5. ASSUME Wanted
      PROVE  /\ SetLimit => stage' # "premature"
             /\ EnterChroot => stage' # "premature"
             /\ SetGroups => stage' # "premature"
             /\ SetGid => stage' # "premature"
             /\ SetUid => stage' # "premature"
  <2>1. SetLimit => stage' # "premature"
    BY <1>5, WantedLimits DEF SetLimit, Proceed
  <2>2. stage \in FromChroot \ FromExecv => (Privileged <=> given.self.uid = 0)
    BY DEF CredentialsSet, Privileged
  <2>3. stage \in FromChroot /\ given.self.uid # 0 => uid = Nil /\ gid = Nil /\ ~given.chroots
    BY <1>5, FoundType, DatabaseType DEF ServiceKnown, Wanted, Permitted
  <2>4. stage = "chroot" => \A dir \in given.entered : Enters(dir, cred)
    <3>. SUFFICES ASSUME stage = "chroot", NEW dir \in given.entered
                  PROVE  Enters(dir, cred)
      OBVIOUS
    <3>1. cred.uid = given.self.uid /\ cred.gid = given.self.gid /\ cred.groups = given.self.groups
      BY DEF CredentialsSet
    <3>2. Enters(dir, given.self)
      BY <1>5 DEF Wanted, Permitted
    <3>. QED  BY <3>1, <3>2, EntersByFields
  <2>. QED
    BY <2>1, <2>2, <2>3, <2>4 DEF EnterChroot, MayEnter, SetGroups, SetGid, SetUid, Proceed
<1>6. ASSUME Execv, stage' = "denied"
      PROVE  ~Monotone(given.command) \/ ~Searches(given.path, cred')
  <2>1. cred.uid = xuid /\ cred.gid = xgid
    BY <1>6 DEF Execv, CredentialsSet
  <2>2. can_execute(given.command, cred.uid, cred.gid)
    BY <1>6, <2>1 DEF Execv, ServiceKnown
  <2>3. cred' = cred
    BY <1>6 DEF Execv, process
  <2>. QED  BY <1>6, <2>2, <2>3, ExecutesMonotone DEF Execv, Proceed
<1>7. CASE ReadLimit \/ ReadNumbers \/ LookUp \/ LookUpFails
  BY <1>3, <1>4, <1>7 DEF ReadLimit, ReadNumbers, LookUp, LookUpFails, Proceed
<1>8. CASE CheckCommand \/ SetPriority \/ CheckPidfile
  BY <1>3, <1>4, <1>8 DEF CheckCommand, SetPriority, CheckPidfile, Proceed
<1>9. CASE SetLimit \/ SetUmask \/ EnterChroot
  BY <1>3, <1>5, <1>9 DEF SetLimit, SetUmask, EnterChroot, Proceed
<1>10. CASE SetGroups \/ SetGid \/ SetUid
  BY <1>3, <1>5, <1>10 DEF SetGroups, SetGid, SetUid, Proceed
<1>11. CASE Execv
  BY <1>3, <1>6, <1>11 DEF Execv, Proceed
<1>12. CASE UNCHANGED settings
  BY <1>3, <1>12 DEF settings, process, RefusalsAreRight, Wanted
<1>. QED
  BY <1>7, <1>8, <1>9, <1>10, <1>11, <1>12 DEF SettingsNext, Settled

\* In a 64-bit process, and where no user or group is named by a number, neither the checks of
\* the command nor a call of the child refuse what the kernel would let run without the help
\* of supplementary groups or of what root may do; and a command that has passed the checks is
\* only denied where its owner may do less than others, or where a directory on the way is
\* closed to the service's user (start.c:939-1071, 1558-1785).
THEOREM RightlyRefused ==
    ASSUME LONG_MAX = LLONG_MAX, \A e \in Users \union Groups : ~IsNumber(e.name)
    PROVE  SettingsSpec => []RefusalsAreRight
<1>1. SettingsInit => RefusalsAreRight
  BY DEF SettingsInit, Fresh, RefusalsAreRight
<1>. QED
  BY <1>1, RefusalsNext, SettingsInvariantHolds, PTL DEF SettingsSpec

-----------------------------------------------------------------------------
(* HelpText: what the functions on texts return.                           *)

Nul == ""

LEMMA CharThere ==
    ASSUME NEW s, NEW i, i < Len(s)
    PROVE  Char(s, i) = s[i + 1]
BY DEF Char

LEMMA CharEnd ==
    ASSUME NEW s, NEW i, ~(i < Len(s))
    PROVE  Char(s, i) = Nul
BY DEF Char, Nul

\* The characters of a text, counted from 0.
LEMMA CharFacts ==
    ASSUME NEW s \in Seq(Characters)
    PROVE  /\ Len(s) \in Nat /\ Char(s, Len(s)) = Nul
           /\ \A i \in 0 .. Len(s) - 1 :
                /\ i \in 0 .. Len(s) /\ i + 1 \in 1 .. Len(s)
                /\ Char(s, i) = s[i + 1] /\ Char(s, i) \in Characters /\ Char(s, i) # Nul
<1>1. Len(s) \in Nat /\ \A i \in 1 .. Len(s) : s[i] \in Characters
  BY ElementFacts
<1>2. Nul \notin Characters
  BY DEF Characters, Nul
<1>3. \A i \in 0 .. Len(s) - 1 : i \in 0 .. Len(s) /\ i + 1 \in 1 .. Len(s) /\ i < Len(s)
  BY <1>1
<1>4. ~(Len(s) < Len(s))
  BY <1>1
<1>. QED  BY <1>1, <1>2, <1>3, <1>4, CharThere, CharEnd

\* j is where the word at i ends.
EndsWord(s, i, j) ==
    /\ j \in i .. Len(s) /\ Char(s, j) \in Spaces \union {Nul}
    /\ \A k \in i .. j - 1 : Char(s, k) \notin Spaces

\* There is one such place, and find_word_end() finds it.
LEMMA WordEnds ==
    ASSUME NEW s \in Seq(Characters), NEW i \in 0 .. Len(s)
    PROVE  /\ EndsWord(s, i, find_word_end(s, i))
           /\ \A j : EndsWord(s, i, j) => j = find_word_end(s, i)
<1>. DEFINE T == {j \in i .. Len(s) : Char(s, j) \in Spaces \union {Nul}}
            E(j) == Char(s, j) \in Spaces \union {Nul} /\ \A k \in i .. j - 1 : Char(s, k) \notin Spaces
<1>1. i \in Nat /\ Len(s) \in Nat
  BY CharFacts
<1>2. Len(s) \in T
  BY <1>1, CharFacts
<1>3. PICK j \in T : \A k \in i .. j - 1 : k \in i .. Len(s) /\ k \notin T
  <2>1. T \subseteq i .. Len(s) /\ T # {}
    BY <1>2
  <2>. HIDE DEF T
  <2>. QED  BY <1>1, <2>1, FirstPlace
<1>4. j \in i .. Len(s) /\ E(j)
  BY <1>3
<1>5. find_word_end(s, i) = CHOOSE k \in i .. Len(s) : E(k)
  BY DEF find_word_end, Nul
<1>. HIDE DEF E
<1>6. find_word_end(s, i) \in i .. Len(s) /\ E(find_word_end(s, i))
  BY <1>4, <1>5, Zenon
<1>. USE DEF E
<1>7. ASSUME NEW m, EndsWord(s, i, m), NEW n, EndsWord(s, i, n), m < n PROVE FALSE
  <2>1. m \in i .. n - 1 /\ m \in Nat /\ n \in Nat /\ n \in i .. Len(s) /\ Char(s, m) \in Spaces \union {Nul}
    BY <1>1, <1>7 DEF EndsWord
  <2>2. Char(s, m) \notin Spaces
    BY <1>7, <2>1 DEF EndsWord
  <2>3. m \in 0 .. Len(s) - 1
    BY <1>1, <2>1
  <2>. QED  BY <2>1, <2>2, <2>3, CharFacts
<1>8. EndsWord(s, i, find_word_end(s, i))
  BY <1>6 DEF EndsWord
<1>9. ASSUME NEW m, EndsWord(s, i, m) PROVE m = find_word_end(s, i)
  <2>. DEFINE n == find_word_end(s, i)
  <2>1. m \in Nat /\ n \in Nat
    BY <1>1, <1>8, <1>9 DEF EndsWord
  <2>2. ~(m < n) /\ ~(n < m)
    BY <1>7, <1>8, <1>9
  <2>. HIDE DEF n
  <2>. QED  BY <2>1, <2>2 DEF n
<1>. QED  BY <1>8, <1>9

Blanks == {" ", "\t"}

\* j is the first place from i on without a blank.
EndsGap(s, i, j) ==
    /\ j \in i .. Len(s) /\ Char(s, j) \notin Blanks
    /\ \A k \in i .. j - 1 : Char(s, k) \in Blanks

\* There is one, and find_word_start() finds it.
LEMMA GapEnds ==
    ASSUME NEW s \in Seq(Characters), NEW i \in 0 .. Len(s)
    PROVE  /\ EndsGap(s, i, find_word_start(s, i))
           /\ \A j : EndsGap(s, i, j) => j = find_word_start(s, i)
<1>. DEFINE T == {j \in i .. Len(s) : Char(s, j) \notin Blanks}
            E(j) == Char(s, j) \notin Blanks /\ \A k \in i .. j - 1 : Char(s, k) \in Blanks
<1>1. i \in Nat /\ Len(s) \in Nat
  BY CharFacts
<1>2. Len(s) \in T
  <2>1. Nul \notin Blanks
    BY DEF Nul, Blanks
  <2>. QED  BY <1>1, <2>1, CharFacts
<1>3. PICK j \in T : \A k \in i .. j - 1 : k \in i .. Len(s) /\ k \notin T
  <2>1. T \subseteq i .. Len(s) /\ T # {}
    BY <1>2
  <2>. HIDE DEF T
  <2>. QED  BY <1>1, <2>1, FirstPlace
<1>4. j \in i .. Len(s) /\ E(j)
  BY <1>3
<1>5. find_word_start(s, i) = CHOOSE k \in i .. Len(s) : E(k)
  BY DEF find_word_start, Blanks
<1>. HIDE DEF E
<1>6. find_word_start(s, i) \in i .. Len(s) /\ E(find_word_start(s, i))
  BY <1>4, <1>5, Zenon
<1>. USE DEF E
<1>7. ASSUME NEW m, EndsGap(s, i, m), NEW n, EndsGap(s, i, n), m < n PROVE FALSE
  <2>1. m \in i .. n - 1 /\ m \in Nat /\ n \in Nat /\ Char(s, m) \notin Blanks
    BY <1>1, <1>7 DEF EndsGap
  <2>2. Char(s, m) \in Blanks
    BY <1>7, <2>1 DEF EndsGap
  <2>. QED  BY <2>1, <2>2
<1>8. EndsGap(s, i, find_word_start(s, i))
  BY <1>6 DEF EndsGap
<1>9. ASSUME NEW m, EndsGap(s, i, m) PROVE m = find_word_start(s, i)
  <2>. DEFINE n == find_word_start(s, i)
  <2>1. m \in Nat /\ n \in Nat
    BY <1>1, <1>8, <1>9 DEF EndsGap
  <2>2. ~(m < n) /\ ~(n < m)
    BY <1>7, <1>8, <1>9
  <2>. HIDE DEF n
  <2>. QED  BY <2>1, <2>2 DEF n
<1>. QED  BY <1>8, <1>9

\* A function that takes the steps of a run, one value after the other, is that run.
LEMMA ChosenRun ==
    ASSUME NEW N \in Nat, NEW S, NEW first \in S, NEW next \in [1 .. N -> [S -> S]],
           NEW f, f = [n \in 0 .. N |-> f[n]], f[0] = first,
           \A n \in 1 .. N : f[n - 1] \in S => f[n] = next[n][f[n - 1]]
    PROVE  IsRun(f, S, first, N, next)
<1>. DEFINE T == {n \in Nat : f[n] \in S}
<1>1. 0 \in T
  OBVIOUS
<1>2. ASSUME NEW n \in 1 .. N, n - 1 \in T PROVE n \in T
  <2>1. f[n - 1] \in S /\ n \in Nat
    BY <1>2
  <2>2. f[n] = next[n][f[n - 1]] /\ next[n] \in [S -> S]
    BY <2>1
  <2>. QED  BY <2>1, <2>2
<1>3. \A n \in 0 .. N : n \in T
  <2>. HIDE DEF T
  <2>. QED  BY <1>1, <1>2, Climb
<1>4. \A n \in 1 .. N : n - 1 \in 0 .. N
  OBVIOUS
<1>5. f \in [0 .. N -> S]
  <2>1. \A n \in 0 .. N : f[n] \in S
    BY <1>3
  <2>. QED  BY <2>1
<1>. QED  BY <1>3, <1>4, <1>5 DEF IsRun

LEMMA WidthType == \A c : Width(c) \in Nat
BY DEF Width

\* The widths up to each place.
Counts(f, s) ==
    f \in [0 .. Len(s) -> Nat] /\ f[0] = 0 /\ \A n \in 1 .. Len(s) : f[n] = f[n - 1] + Width(s[n])

LEMMA CountIs ==
    ASSUME NEW s \in Seq(Characters)
    PROVE  \E f : Counts(f, s) /\ count_graphemes(s) = f[Len(s)]
<1>. DEFINE N == Len(s)
            next == [n \in 1 .. N |-> [x \in Nat |-> x + Width(s[n])]]
            Body(f) == [n \in 0 .. N |-> IF n = 0 THEN 0 ELSE f[n - 1] + Width(s[n])]
            upto == CHOOSE f : f = Body(f)
<1>1. N \in Nat
  BY CharFacts
<1>2. count_graphemes(s) = upto[N]
  BY DEF count_graphemes
<1>. HIDE DEF N
<1>3. next \in [1 .. N -> [Nat -> Nat]]
  <2>1. \A n \in 1 .. N, x \in Nat : x + Width(s[n]) \in Nat
    BY WidthType
  <2>. QED  BY <2>1
<1>4. \A n \in 1 .. N, x \in Nat : next[n][x] = x + Width(s[n])
  OBVIOUS
<1>5. \A n \in 0 .. N : n # 0 => n \in 1 .. N /\ n - 1 \in 0 .. N
  BY <1>1
<1>. HIDE DEF next
<1>6. PICK g : IsRun(g, Nat, 0, N, next)
  BY <1>1, <1>3, Iterates
<1>7. g = Body(g)
  <2>1. g \in [0 .. N -> Nat] /\ g[0] = 0 /\ \A n \in 1 .. N : g[n] = next[n][g[n - 1]]
    BY <1>6 DEF IsRun
  <2>2. \A n \in 1 .. N : g[n] = g[n - 1] + Width(s[n])
    BY <1>4, <1>5, <2>1
  <2>. QED  BY <1>5, <2>1, <2>2
<1>8. upto = Body(upto)
  <2>. HIDE DEF Body
  <2>. QED  BY <1>7
<1>. HIDE DEF upto
<1>9. /\ upto = [n \in 0 .. N |-> upto[n]] /\ upto[0] = 0
      /\ \A n \in 1 .. N : upto[n] = upto[n - 1] + Width(s[n])
  BY <1>1, <1>8
<1>10. IsRun(upto, Nat, 0, N, next)
  <2>1. \A n \in 1 .. N : upto[n - 1] \in Nat => upto[n] = next[n][upto[n - 1]]
    BY <1>4, <1>9
  <2>. QED  BY <1>1, <1>3, <1>9, <2>1, ChosenRun
<1>11. Counts(upto, s)
  BY <1>9, <1>10 DEF IsRun, Counts, N
<1>. QED  BY <1>2, <1>11 DEF N

\* It adds up.
LEMMA CountConcat ==
    ASSUME NEW a \in Seq(Characters), NEW b \in Seq(Characters)
    PROVE  /\ count_graphemes(a \o b) = count_graphemes(a) + count_graphemes(b)
           /\ count_graphemes(a) \in Nat /\ count_graphemes(b) \in Nat
<1>. DEFINE c == a \o b
<1>1. PICK f : Counts(f, a) /\ count_graphemes(a) = f[Len(a)]
  BY CountIs
<1>2. PICK g : Counts(g, b) /\ count_graphemes(b) = g[Len(b)]
  BY CountIs
<1>3. /\ c \in Seq(Characters) /\ Len(c) = Len(a) + Len(b) /\ Len(a) \in Nat /\ Len(b) \in Nat
      /\ \A i \in 1 .. Len(a) : c[i] = a[i]
      /\ \A i \in Len(a) + 1 .. Len(a) + Len(b) : c[i] = b[i - Len(a)]
  BY ConcatFacts, CharFacts
<1>. HIDE DEF c
<1>4. PICK h : Counts(h, c) /\ count_graphemes(c) = h[Len(c)]
  BY <1>3, CountIs
<1>5. /\ f \in [0 .. Len(a) -> Nat] /\ f[0] = 0 /\ \A n \in 1 .. Len(a) : f[n] = f[n - 1] + Width(a[n])
      /\ g \in [0 .. Len(b) -> Nat] /\ g[0] = 0 /\ \A n \in 1 .. Len(b) : g[n] = g[n - 1] + Width(b[n])
      /\ h \in [0 .. Len(c) -> Nat] /\ h[0] = 0 /\ \A n \in 1 .. Len(c) : h[n] = h[n - 1] + Width(c[n])
  BY <1>1, <1>2, <1>4 DEF Counts
<1>6. \A n \in 0 .. Len(a) : h[n] = f[n]
  <2>. DEFINE T == {n \in Nat : h[n] = f[n]}
  <2>1. 0 \in T
    BY <1>5
  <2>2. ASSUME NEW n \in 1 .. Len(a), n - 1 \in T PROVE n \in T
    <3>1. n \in 1 .. Len(c) /\ n \in Nat /\ c[n] = a[n] /\ h[n - 1] = f[n - 1]
      BY <1>3, <2>2
    <3>. QED  BY <1>5, <3>1
  <2>3. \A n \in 0 .. Len(a) : n \in T
    <3>. HIDE DEF T
    <3>. QED  BY <1>3, <2>1, <2>2, Climb
  <2>. QED  BY <2>3
<1>7. \A n \in 0 .. Len(b) : h[Len(a) + n] = f[Len(a)] + g[n]
  <2>. DEFINE T == {n \in Nat : h[Len(a) + n] = f[Len(a)] + g[n]}
  <2>0. f[Len(a)] \in Nat /\ \A n \in 0 .. Len(b) : g[n] \in Nat
    <3>1. Len(a) \in 0 .. Len(a)
      BY <1>3
    <3>. QED  BY <1>5, <3>1
  <2>1. 0 \in T
    <3>1. Len(a) + 0 = Len(a) /\ Len(a) \in 0 .. Len(a)
      BY <1>3
    <3>2. h[Len(a) + 0] = f[Len(a)] /\ g[0] = 0
      BY <1>5, <1>6, <3>1
    <3>. QED  BY <2>0, <3>2
  <2>2. ASSUME NEW n \in 1 .. Len(b), n - 1 \in T PROVE n \in T
    <3>1. /\ Len(a) + n \in 1 .. Len(c) /\ Len(a) + n \in Len(a) + 1 .. Len(a) + Len(b)
          /\ (Len(a) + n) - Len(a) = n /\ (Len(a) + n) - 1 = Len(a) + (n - 1) /\ n \in Nat
          /\ n - 1 \in 0 .. Len(b)
      BY <1>3
    <3>2. h[Len(a) + n] = h[Len(a) + (n - 1)] + Width(b[n]) /\ g[n] = g[n - 1] + Width(b[n])
      <4>1. c[Len(a) + n] = b[n]
        BY <1>3, <3>1
      <4>2. h[Len(a) + n] = h[(Len(a) + n) - 1] + Width(c[Len(a) + n])
        BY <1>5, <3>1
      <4>. QED  BY <1>5, <3>1, <4>1, <4>2
    <3>3. h[Len(a) + (n - 1)] = f[Len(a)] + g[n - 1] /\ g[n - 1] \in Nat /\ Width(b[n]) \in Nat
      BY <2>0, <2>2, <3>1, WidthType
    <3>4. h[Len(a) + n] = f[Len(a)] + g[n]
      BY <2>0, <3>2, <3>3
    <3>. QED  BY <3>1, <3>4
  <2>3. \A n \in 0 .. Len(b) : n \in T
    <3>. HIDE DEF T
    <3>. QED  BY <1>3, <2>1, <2>2, Climb
  <2>. QED  BY <2>3
<1>8. Len(b) \in 0 .. Len(b) /\ Len(a) \in 0 .. Len(a)
  BY <1>3
<1>9. h[Len(c)] = f[Len(a)] + g[Len(b)] /\ f[Len(a)] \in Nat /\ g[Len(b)] \in Nat
  BY <1>3, <1>5, <1>7, <1>8
<1>. QED  BY <1>1, <1>2, <1>4, <1>9 DEF c

\* What has no line ends is at least as wide as it is long, and exactly as wide without tabs.
LEMMA CountBounds ==
    ASSUME NEW s \in Seq(Characters)
    PROVE  /\ count_graphemes(s) \in Nat
           /\ Len(s) = 0 => count_graphemes(s) = 0
           /\ (\A i \in 1 .. Len(s) : s[i] # "\n") => count_graphemes(s) >= Len(s)
           /\ (\A i \in 1 .. Len(s) : s[i] # "\n" /\ s[i] # "\t") => count_graphemes(s) = Len(s)
<1>1. PICK f : Counts(f, s) /\ count_graphemes(s) = f[Len(s)]
  BY CountIs
<1>2. /\ Len(s) \in Nat /\ Len(s) \in 0 .. Len(s)
      /\ f \in [0 .. Len(s) -> Nat] /\ f[0] = 0 /\ \A n \in 1 .. Len(s) : f[n] = f[n - 1] + Width(s[n])
  BY <1>1, CharFacts DEF Counts
<1>3. \A n \in 1 .. Len(s) : f[n - 1] \in Nat /\ f[n] \in Nat /\ Width(s[n]) \in Nat /\ n \in Nat
  <2>1. \A n \in 1 .. Len(s) : n \in 0 .. Len(s) /\ n - 1 \in 0 .. Len(s) /\ n \in Nat
    BY <1>2
  <2>. QED  BY <1>2, <2>1, WidthType
<1>4. ASSUME \A i \in 1 .. Len(s) : s[i] # "\n"
      PROVE  f[Len(s)] >= Len(s)
  <2>. DEFINE T == {n \in Nat : f[n] >= n}
  <2>1. ASSUME NEW n \in 1 .. Len(s), n - 1 \in T PROVE n \in T
    <3>1. Width(s[n]) >= 1
      BY <1>4 DEF Width
    <3>. QED  BY <1>2, <1>3, <2>1, <3>1
  <2>2. 0 \in T
    BY <1>2
  <2>3. \A n \in 0 .. Len(s) : n \in T
    <3>. HIDE DEF T
    <3>. QED  BY <1>2, <2>1, <2>2, Climb
  <2>. QED  BY <1>2, <2>3
<1>5. ASSUME \A i \in 1 .. Len(s) : s[i] # "\n" /\ s[i] # "\t"
      PROVE  f[Len(s)] = Len(s)
  <2>. DEFINE T == {n \in Nat : f[n] = n}
  <2>1. ASSUME NEW n \in 1 .. Len(s), n - 1 \in T PROVE n \in T
    <3>1. Width(s[n]) = 1
      BY <1>5 DEF Width
    <3>. QED  BY <1>2, <1>3, <2>1, <3>1
  <2>2. 0 \in T
    BY <1>2
  <2>3. \A n \in 0 .. Len(s) : n \in T
    <3>. HIDE DEF T
    <3>. QED  BY <1>2, <2>1, <2>2, Climb
  <2>. QED  BY <1>2, <2>3
<1>. QED  BY <1>1, <1>2, <1>4, <1>5

-----------------------------------------------------------------------------
(* Words.                                                                  *)

\* The word at i ends at j.
WordTo(s, i, j) ==
    /\ j \in i .. Len(s) /\ (j = Len(s) \/ s[j + 1] \in Spaces)
    /\ \A k \in i + 1 .. j : s[k] \notin Spaces

LEMMA WordSpan ==
    ASSUME NEW s \in Seq(Characters), NEW i \in 0 .. Len(s)
    PROVE  /\ WordTo(s, i, find_word_end(s, i))
           /\ \A j : WordTo(s, i, j) => j = find_word_end(s, i)
<1>0. Nul \notin Spaces
  BY DEF Spaces, Nul
<1>1. i \in Nat /\ Len(s) \in Nat /\ Nul \notin Spaces
  BY <1>0, CharFacts
<1>2. ASSUME NEW j \in i .. Len(s) PROVE EndsWord(s, i, j) <=> WordTo(s, i, j)
  <2>1. Char(s, j) \in Spaces \union {Nul} <=> j = Len(s) \/ s[j + 1] \in Spaces
    <3>1. j = Len(s) \/ j \in 0 .. Len(s) - 1
      BY <1>1
    <3>. QED  BY <1>1, <3>1, CharFacts
  <2>2. \A k \in i .. j - 1 : Char(s, k) = s[k + 1] /\ k + 1 \in i + 1 .. j
    <3>1. \A k \in i .. j - 1 : k \in 0 .. Len(s) - 1 /\ k + 1 \in i + 1 .. j
      BY <1>1
    <3>. QED  BY <3>1, CharFacts
  <2>3. \A k \in i + 1 .. j : k - 1 \in i .. j - 1 /\ (k - 1) + 1 = k
    BY <1>1
  <2>4. (\A k \in i .. j - 1 : Char(s, k) \notin Spaces) <=> (\A k \in i + 1 .. j : s[k] \notin Spaces)
    BY <2>2, <2>3
  <2>. QED  BY <2>1, <2>4 DEF EndsWord, WordTo
<1>3. EndsWord(s, i, find_word_end(s, i)) /\ find_word_end(s, i) \in i .. Len(s)
  BY WordEnds DEF EndsWord
<1>4. ASSUME NEW j, WordTo(s, i, j) PROVE j = find_word_end(s, i)
  <2>1. j \in i .. Len(s)
    BY <1>4 DEF WordTo
  <2>. QED  BY <1>2, <1>4, <2>1, WordEnds
<1>. QED  BY <1>2, <1>3, <1>4

\* Where words begin.
LEMMA StartsAre ==
    ASSUME NEW s \in Seq(Characters), NEW i
    PROVE  i \in Starts(s) <=> /\ i \in 0 .. Len(s) - 1 /\ s[i + 1] \notin Spaces
                               /\ i = 0 \/ s[i] \in Spaces
<1>1. \A k \in 0 .. Len(s) - 1 : Char(s, k) = s[k + 1] /\ Len(s) \in Nat
  BY CharFacts
<1>2. \A k \in 0 .. Len(s) - 1 : k # 0 => Char(s, k - 1) = s[k]
  <2>1. \A k \in 0 .. Len(s) - 1 : k # 0 => k - 1 \in 0 .. Len(s) - 1 /\ (k - 1) + 1 = k
    BY <1>1
  <2>2. \A k \in 0 .. Len(s) - 1 : k # 0 => Char(s, k - 1) = s[(k - 1) + 1]
    BY <1>1, <2>1
  <2>. QED  BY <2>1, <2>2
<1>. QED  BY <1>1, <1>2 DEF Starts

\* A word.
LEMMA WordFacts ==
    ASSUME NEW s \in Seq(Characters), NEW i \in Starts(s)
    PROVE  LET e == find_word_end(s, i) IN
           /\ i \in 0 .. Len(s) - 1 /\ e \in i + 1 .. Len(s)
           /\ WordAt(s, i) \in Seq(Characters) /\ Len(WordAt(s, i)) = e - i
           /\ \A k \in 1 .. e - i : WordAt(s, i)[k] = s[i + k] /\ s[i + k] \notin Spaces
<1>. DEFINE e == find_word_end(s, i)
<1>1. i \in 0 .. Len(s) - 1 /\ s[i + 1] \notin Spaces /\ Len(s) \in Nat /\ i \in 0 .. Len(s)
  BY StartsAre, CharFacts
<1>2. WordTo(s, i, e)
  BY <1>1, WordSpan
<1>3. WordAt(s, i) = SubSeq(s, i + 1, e)
  BY DEF WordAt
<1>. HIDE DEF e
<1>4. e \in i + 1 .. Len(s) /\ \A k \in i + 1 .. e : s[k] \notin Spaces
  <2>1. e \in i .. Len(s) /\ (e = Len(s) \/ s[e + 1] \in Spaces) /\ \A k \in i + 1 .. e : s[k] \notin Spaces
    BY <1>2 DEF WordTo
  <2>2. e # i
    BY <1>1, <2>1
  <2>. QED  BY <1>1, <2>1, <2>2
<1>5. i + 1 \in 1 .. Len(s) + 1 /\ e \in (i + 1) - 1 .. Len(s) /\ e - (i + 1) + 1 = e - i
      /\ \A k \in 1 .. e - i : (i + 1) + k - 1 = i + k /\ i + k \in i + 1 .. e
  BY <1>1, <1>4
<1>6. /\ SubSeq(s, i + 1, e) \in Seq(Characters) /\ Len(SubSeq(s, i + 1, e)) = e - (i + 1) + 1
      /\ \A k \in 1 .. e - (i + 1) + 1 : SubSeq(s, i + 1, e)[k] = s[(i + 1) + k - 1]
  BY <1>5, SubSeqType
<1>7. \A k \in 1 .. e - i : SubSeq(s, i + 1, e)[k] = s[i + k] /\ s[i + k] \notin Spaces
  BY <1>4, <1>5, <1>6
<1>. QED  BY <1>1, <1>3, <1>4, <1>5, <1>6, <1>7 DEF e

\* The words up to each place.
Worded(f, s) ==
    /\ f \in [0 .. Len(s) -> Seq(CStrings)] /\ f[0] = <<>>
    /\ \A n \in 1 .. Len(s) :
        f[n] = IF n - 1 \in Starts(s) THEN Append(f[n - 1], WordAt(s, n - 1)) ELSE f[n - 1]

LEMMA WordsAre ==
    ASSUME NEW s \in Seq(Characters)
    PROVE  \E f : Worded(f, s) /\ Words(s) = f[Len(s)]
<1>. DEFINE N == Len(s)
            S == Seq(CStrings)
            On(n, x) == IF n - 1 \in Starts(s) THEN Append(x, WordAt(s, n - 1)) ELSE x
            next == [n \in 1 .. N |-> [x \in S |-> On(n, x)]]
            Body(f) == [n \in 0 .. N |->
                          IF n = 0 THEN <<>>
                          ELSE IF n - 1 \in Starts(s) THEN Append(f[n - 1], WordAt(s, n - 1)) ELSE f[n - 1]]
            upto == CHOOSE f : f = Body(f)
<1>1. N \in Nat
  BY CharFacts
<1>2. Words(s) = upto[N]
  BY DEF Words
<1>3. \A i \in Starts(s) : WordAt(s, i) \in CStrings
  BY WordFacts DEF CStrings
<1>. HIDE DEF N
<1>4. <<>> \in S /\ \A n \in 1 .. N, x \in S : On(n, x) \in S
  <2>1. \A T, x, y : x \in Seq(T) /\ y \in T => Append(x, y) \in Seq(T)
    OBVIOUS
  <2>2. <<>> \in S
    OBVIOUS
  <2>. QED  BY <1>3, <2>1, <2>2, Zenon
<1>. HIDE DEF S
<1>5. next \in [1 .. N -> [S -> S]]
  <2>. HIDE DEF On
  <2>. QED  BY <1>4
<1>6. \A n \in 1 .. N, x \in S : next[n][x] = On(n, x)
  <2>. HIDE DEF On
  <2>. QED  OBVIOUS
<1>7. \A n \in 0 .. N : n # 0 => n \in 1 .. N /\ n - 1 \in 0 .. N
  BY <1>1
<1>. HIDE DEF next
<1>8. PICK g : IsRun(g, S, <<>>, N, next)
  BY <1>1, <1>4, <1>5, Iterates
<1>9. Body(g) = [n \in 0 .. N |-> IF n = 0 THEN <<>> ELSE On(n, g[n - 1])]
  OBVIOUS
<1>10. g = Body(g)
  <2>1. g \in [0 .. N -> S] /\ g[0] = <<>> /\ \A n \in 1 .. N : g[n] = next[n][g[n - 1]]
    BY <1>8 DEF IsRun
  <2>. HIDE DEF On, Body
  <2>2. \A n \in 1 .. N : g[n] = On(n, g[n - 1])
    BY <1>6, <1>7, <2>1
  <2>. QED  BY <1>7, <1>9, <2>1, <2>2
<1>11. upto = Body(upto)
  <2>. HIDE DEF Body
  <2>. QED  BY <1>10
<1>. HIDE DEF upto
<1>12. Body(upto) = [n \in 0 .. N |-> IF n = 0 THEN <<>> ELSE On(n, upto[n - 1])]
  OBVIOUS
<1>. HIDE DEF Body
<1>13. /\ upto = [n \in 0 .. N |-> upto[n]] /\ upto[0] = <<>>
       /\ \A n \in 1 .. N : upto[n] = On(n, upto[n - 1])
  <2>. HIDE DEF On
  <2>1. upto = [n \in 0 .. N |-> IF n = 0 THEN <<>> ELSE On(n, upto[n - 1])]
    BY <1>11, <1>12, Zenon
  <2>2. \A n \in 1 .. N : n \in 0 .. N /\ n # 0
    BY <1>1
  <2>3. 0 \in 0 .. N
    BY <1>1
  <2>. QED  BY <2>1, <2>2, <2>3
<1>14. IsRun(upto, S, <<>>, N, next)
  <2>. HIDE DEF On
  <2>1. \A n \in 1 .. N : upto[n - 1] \in S => upto[n] = next[n][upto[n - 1]]
    BY <1>6, <1>13
  <2>. QED  BY <1>1, <1>4, <1>5, <1>13, <2>1, ChosenRun
<1>15. Worded(upto, s)
  BY <1>13, <1>14 DEF IsRun, Worded, N, S
<1>. QED  BY <1>2, <1>15 DEF N

\* No word goes from one to the other.
Apart(a, b) == Len(a) = 0 \/ Len(b) = 0 \/ a[Len(a)] \in Spaces \/ b[1] \in Spaces

\* The words of the first of two texts.
LEMMA WordsInFront ==
    ASSUME NEW a \in Seq(Characters), NEW b \in Seq(Characters), NEW i \in 0 .. Len(a) - 1
    PROVE  /\ i \in Starts(a \o b) <=> i \in Starts(a)
           /\ Apart(a, b) /\ i \in Starts(a) => WordAt(a \o b, i) = WordAt(a, i)
<1>. DEFINE c == a \o b
            e == find_word_end(a, i)
<1>1. /\ c \in Seq(Characters) /\ Len(c) = Len(a) + Len(b) /\ Len(a) \in Nat /\ Len(b) \in Nat
      /\ \A k \in 1 .. Len(a) : c[k] = a[k]
      /\ \A k \in Len(a) + 1 .. Len(a) + Len(b) : c[k] = b[k - Len(a)]
  BY ConcatFacts, CharFacts
<1>. HIDE DEF c
<1>2. i \in 0 .. Len(c) - 1 /\ i + 1 \in 1 .. Len(a) /\ (i # 0 => i \in 1 .. Len(a))
  BY <1>1
<1>3. i \in Starts(c) <=> i \in Starts(a)
  <2>1. i \in Starts(c) <=> c[i + 1] \notin Spaces /\ (i = 0 \/ c[i] \in Spaces)
    BY <1>1, <1>2, StartsAre
  <2>2. i \in Starts(a) <=> a[i + 1] \notin Spaces /\ (i = 0 \/ a[i] \in Spaces)
    BY StartsAre
  <2>. QED  BY <1>1, <1>2, <2>1, <2>2
<1>4. ASSUME Apart(a, b), i \in Starts(a) PROVE WordAt(c, i) = WordAt(a, i)
  <2>1. /\ e \in i + 1 .. Len(a)
        /\ WordAt(a, i) \in Seq(Characters) /\ Len(WordAt(a, i)) = e - i
        /\ \A k \in 1 .. e - i : WordAt(a, i)[k] = a[i + k] /\ a[i + k] \notin Spaces
    BY <1>4, WordFacts
  <2>2. WordTo(a, i, e)
    BY <1>1, WordSpan
  <2>. HIDE DEF e
  <2>3. WordTo(c, i, e)
    <3>1. e \in i .. Len(c)
      BY <1>1, <2>1
    <3>2. \A k \in i + 1 .. e : c[k] \notin Spaces
      <4>1. \A k \in i + 1 .. e : k \in 1 .. Len(a) /\ a[k] \notin Spaces
        BY <1>1, <2>1, <2>2 DEF WordTo
      <4>. QED  BY <1>1, <4>1
    <3>3. e = Len(c) \/ c[e + 1] \in Spaces
      <4>1. CASE e # Len(a)
        <5>1. e + 1 \in 1 .. Len(a) /\ a[e + 1] \in Spaces
          BY <1>1, <2>1, <2>2, <4>1 DEF WordTo
        <5>. QED  BY <1>1, <5>1
      <4>2. CASE e = Len(a) /\ Len(b) = 0
        BY <1>1, <4>2
      <4>3. CASE e = Len(a) /\ Len(b) # 0
        <5>1. a[Len(a)] \notin Spaces /\ Len(a) # 0
          <6>1. Len(a) \in i + 1 .. e
            BY <1>1, <2>1, <4>3
          <6>. QED  BY <1>1, <2>1, <2>2, <4>3, <6>1 DEF WordTo
        <5>2. b[1] \in Spaces
          BY <1>4, <4>3, <5>1 DEF Apart
        <5>3. e + 1 \in Len(a) + 1 .. Len(a) + Len(b) /\ (e + 1) - Len(a) = 1
          BY <1>1, <4>3
        <5>. QED  BY <1>1, <5>2, <5>3
      <4>. QED  BY <4>1, <4>2, <4>3
    <3>. QED  BY <3>1, <3>2, <3>3 DEF WordTo
  <2>4. e = find_word_end(c, i)
    BY <1>1, <1>2, <2>3, WordSpan
  <2>5. /\ WordAt(c, i) \in Seq(Characters) /\ Len(WordAt(c, i)) = e - i
        /\ \A k \in 1 .. e - i : WordAt(c, i)[k] = c[i + k]
    BY <1>1, <1>3, <1>4, <2>4, WordFacts
  <2>6. \A k \in 1 .. e - i : i + k \in 1 .. Len(a)
    BY <1>1, <2>1
  <2>7. \A k \in 1 .. e - i : WordAt(c, i)[k] = WordAt(a, i)[k]
    BY <1>1, <2>1, <2>5, <2>6
  <2>8. Len(WordAt(c, i)) = Len(WordAt(a, i)) /\ \A k \in 1 .. Len(WordAt(c, i)) : WordAt(c, i)[k] = WordAt(a, i)[k]
    BY <2>1, <2>5, <2>7
  <2>. QED  BY <2>1, <2>5, <2>8, SameSequence
<1>. QED  BY <1>3, <1>4 DEF c

\* And of the second.
LEMMA WordsBehind ==
    ASSUME NEW a \in Seq(Characters), NEW b \in Seq(Characters), Apart(a, b), NEW i \in 0 .. Len(b) - 1
    PROVE  /\ Len(a) + i \in Starts(a \o b) <=> i \in Starts(b)
           /\ i \in Starts(b) => WordAt(a \o b, Len(a) + i) = WordAt(b, i)
<1>. DEFINE c == a \o b
            e == find_word_end(b, i)
            j == Len(a) + i
<1>1. /\ c \in Seq(Characters) /\ Len(c) = Len(a) + Len(b) /\ Len(a) \in Nat /\ Len(b) \in Nat
      /\ \A k \in 1 .. Len(a) : c[k] = a[k]
      /\ \A k \in Len(a) + 1 .. Len(a) + Len(b) : c[k] = b[k - Len(a)]
  BY ConcatFacts, CharFacts
<1>. HIDE DEF c
<1>2. \A k \in 1 .. Len(b) : c[Len(a) + k] = b[k]
  <2>1. \A k \in 1 .. Len(b) : Len(a) + k \in Len(a) + 1 .. Len(a) + Len(b) /\ (Len(a) + k) - Len(a) = k
    BY <1>1
  <2>. QED  BY <1>1, <2>1
<1>3. j \in 0 .. Len(c) - 1 /\ i + 1 \in 1 .. Len(b) /\ (i # 0 => i \in 1 .. Len(b)) /\ j + 1 = Len(a) + (i + 1)
      /\ i \in 0 .. Len(b) /\ j \in 0 .. Len(c)
  BY <1>1
<1>4. c[j + 1] = b[i + 1]
  BY <1>2, <1>3
<1>5. b[i + 1] \notin Spaces => (i = 0 \/ b[i] \in Spaces <=> j = 0 \/ c[j] \in Spaces)
  <2>1. CASE i # 0
    <3>1. j # 0 /\ c[j] = b[i]
      BY <1>1, <1>2, <1>3, <2>1
    <3>. QED  BY <2>1, <3>1
  <2>2. CASE i = 0
    <3>1. Len(a) # 0 => j \in 1 .. Len(a) /\ c[j] = a[Len(a)]
      BY <1>1, <2>2
    <3>2. Len(b) # 0 /\ b[i + 1] = b[1] /\ (Len(a) = 0 => j = 0)
      BY <1>1, <2>2
    <3>. QED  BY <2>2, <3>1, <3>2 DEF Apart
  <2>. QED  BY <2>1, <2>2
<1>6. j \in Starts(c) <=> i \in Starts(b)
  <2>. HIDE DEF j
  <2>1. j \in Starts(c) <=> c[j + 1] \notin Spaces /\ (j = 0 \/ c[j] \in Spaces)
    BY <1>1, <1>3, StartsAre
  <2>2. i \in Starts(b) <=> b[i + 1] \notin Spaces /\ (i = 0 \/ b[i] \in Spaces)
    BY <1>1, <1>3, StartsAre
  <2>. QED  BY <1>4, <1>5, <2>1, <2>2
<1>7. ASSUME i \in Starts(b) PROVE WordAt(c, j) = WordAt(b, i)
  <2>1. /\ e \in i + 1 .. Len(b)
        /\ WordAt(b, i) \in Seq(Characters) /\ Len(WordAt(b, i)) = e - i
        /\ \A k \in 1 .. e - i : WordAt(b, i)[k] = b[i + k] /\ b[i + k] \notin Spaces
    BY <1>7, WordFacts
  <2>2. WordTo(b, i, e)
    BY <1>3, WordSpan
  <2>. HIDE DEF e
  <2>3. WordTo(c, j, Len(a) + e)
    <3>1. Len(a) + e \in j .. Len(c)
      BY <1>1, <2>1
    <3>2. \A k \in j + 1 .. Len(a) + e : c[k] \notin Spaces
      <4>1. \A k \in j + 1 .. Len(a) + e : /\ k - Len(a) \in 1 .. Len(b) /\ Len(a) + (k - Len(a)) = k
                                         /\ k - Len(a) \in i + 1 .. e
        BY <1>1, <2>1
      <4>2. \A k \in i + 1 .. e : b[k] \notin Spaces
        BY <2>2 DEF WordTo
      <4>3. \A k \in j + 1 .. Len(a) + e : c[k] = b[k - Len(a)]
        BY <1>2, <4>1
      <4>. HIDE DEF j
      <4>. QED  BY <4>1, <4>2, <4>3
    <3>3. Len(a) + e = Len(c) \/ c[(Len(a) + e) + 1] \in Spaces
      <4>1. CASE e = Len(b)
        BY <1>1, <4>1
      <4>2. CASE e # Len(b)
        <5>1. e + 1 \in 1 .. Len(b) /\ b[e + 1] \in Spaces /\ (Len(a) + e) + 1 = Len(a) + (e + 1)
          BY <1>1, <2>1, <2>2, <4>2 DEF WordTo
        <5>. QED  BY <1>2, <5>1
      <4>. QED  BY <4>1, <4>2
    <3>. HIDE DEF j
    <3>. QED  BY <3>1, <3>2, <3>3 DEF WordTo
  <2>. HIDE DEF j
  <2>4. Len(a) + e = find_word_end(c, j)
    BY <1>1, <1>3, <2>3, WordSpan
  <2>5. /\ WordAt(c, j) \in Seq(Characters) /\ Len(WordAt(c, j)) = (Len(a) + e) - j
        /\ \A k \in 1 .. (Len(a) + e) - j : WordAt(c, j)[k] = c[j + k]
    <3>1. j \in Starts(c)
      BY <1>6, <1>7
    <3>. QED  BY <1>1, <2>4, <3>1, WordFacts
  <2>6. (Len(a) + e) - j = e - i /\ \A k \in 1 .. e - i : i + k \in 1 .. Len(b) /\ j + k = Len(a) + (i + k)
    BY <1>1, <2>1 DEF j
  <2>7. \A k \in 1 .. e - i : WordAt(c, j)[k] = WordAt(b, i)[k]
    BY <1>2, <2>1, <2>5, <2>6
  <2>8. Len(WordAt(c, j)) = Len(WordAt(b, i)) /\ \A k \in 1 .. Len(WordAt(c, j)) : WordAt(c, j)[k] = WordAt(b, i)[k]
    BY <2>1, <2>5, <2>6, <2>7
  <2>. QED  BY <2>1, <2>5, <2>8, SameSequence
<1>. QED  BY <1>6, <1>7 DEF c

LEMMA TextsAppended ==
    ASSUME NEW x \in Seq(CStrings), NEW y \in Seq(CStrings), NEW e \in CStrings
    PROVE  Append(x \o y, e) = x \o Append(y, e)
OBVIOUS

LEMMA ConcatEmpty ==
    ASSUME NEW S, NEW x \in Seq(S)
    PROVE  x \o <<>> = x /\ <<>> \o x = x
OBVIOUS

\* The words of two texts are those of the first and those of the second.
LEMMA WordsConcat ==
    ASSUME NEW a \in Seq(Characters), NEW b \in Seq(Characters), Apart(a, b)
    PROVE  Words(a \o b) = Words(a) \o Words(b) /\ Words(a) \in Seq(CStrings) /\ Words(b) \in Seq(CStrings)
<1>. DEFINE c == a \o b
<1>1. PICK f : Worded(f, a) /\ Words(a) = f[Len(a)]
  BY WordsAre
<1>2. PICK g : Worded(g, b) /\ Words(b) = g[Len(b)]
  BY WordsAre
<1>3. c \in Seq(Characters) /\ Len(c) = Len(a) + Len(b) /\ Len(a) \in Nat /\ Len(b) \in Nat
  BY ConcatFacts, CharFacts
<1>4. PICK h : Worded(h, c) /\ Words(c) = h[Len(c)]
  BY <1>3, WordsAre
<1>. DEFINE On(s, x, i) == IF i \in Starts(s) THEN Append(x, WordAt(s, i)) ELSE x
<1>5. /\ f \in [0 .. Len(a) -> Seq(CStrings)] /\ f[0] = <<>> /\ \A n \in 1 .. Len(a) : f[n] = On(a, f[n - 1], n - 1)
      /\ g \in [0 .. Len(b) -> Seq(CStrings)] /\ g[0] = <<>> /\ \A n \in 1 .. Len(b) : g[n] = On(b, g[n - 1], n - 1)
      /\ h \in [0 .. Len(c) -> Seq(CStrings)] /\ h[0] = <<>> /\ \A n \in 1 .. Len(c) : h[n] = On(c, h[n - 1], n - 1)
  BY <1>1, <1>2, <1>4 DEF Worded
<1>. DEFINE WL == Seq(CStrings)
<1>6. f \in [0 .. Len(a) -> WL] /\ g \in [0 .. Len(b) -> WL] /\ h \in [0 .. Len(c) -> WL]
  BY <1>5
<1>7. \A n \in 0 .. Len(a) : h[n] = f[n]
  <2>. DEFINE T == {n \in Nat : h[n] = f[n]}
  <2>1. 0 \in T
    BY <1>5
  <2>2. ASSUME NEW n \in 1 .. Len(a), n - 1 \in T PROVE n \in T
    <3>1. n \in 1 .. Len(c) /\ n \in Nat /\ n - 1 \in 0 .. Len(a) - 1
      BY <1>3
    <3>2. h[n - 1] = f[n - 1]
      BY <2>2
    <3>3. On(c, h[n - 1], n - 1) = On(a, f[n - 1], n - 1)
      BY <3>1, <3>2, WordsInFront
    <3>. HIDE DEF On, c
    <3>. QED  BY <1>5, <3>1, <3>3
  <2>3. \A n \in 0 .. Len(a) : n \in T
    <3>. HIDE DEF T
    <3>. QED  BY <1>3, <2>1, <2>2, Climb
  <2>. QED  BY <2>3
<1>8. Len(b) \in 0 .. Len(b) /\ Len(a) \in 0 .. Len(a)
  BY <1>3
<1>9. f[Len(a)] \in WL /\ \A n \in 0 .. Len(b) : g[n] \in WL
  <2>. HIDE DEF WL
  <2>. QED  BY <1>6, <1>8
<1>10. \A x, y \in WL : \A e \in CStrings : Append(x \o y, e) = x \o Append(y, e)
  BY TextsAppended
<1>11. \A x \in WL : x \o <<>> = x
  BY ConcatEmpty
<1>12. \A i \in Starts(b) : WordAt(b, i) \in CStrings
  BY WordFacts DEF CStrings
<1>13. \A n \in 0 .. Len(b) : h[Len(a) + n] = f[Len(a)] \o g[n]
  <2>. DEFINE x == f[Len(a)]
              T == {n \in Nat : h[Len(a) + n] = x \o g[n]}
  <2>. HIDE DEF WL, On, c
  <2>1. 0 \in T
    <3>1. Len(a) + 0 = Len(a) /\ g[0] = <<>> /\ h[Len(a)] = x
      BY <1>3, <1>5, <1>7, <1>8
    <3>2. x \o <<>> = x
      BY <1>9, <1>11, Zenon
    <3>3. h[Len(a) + 0] = x \o g[0]
      BY <3>1, <3>2
    <3>. QED  BY <3>3
  <2>2. ASSUME NEW n \in 1 .. Len(b), n - 1 \in T PROVE n \in T
    <3>1. /\ Len(a) + n \in 1 .. Len(c) /\ (Len(a) + n) - 1 = Len(a) + (n - 1) /\ n \in Nat
          /\ n - 1 \in 0 .. Len(b) - 1 /\ n - 1 \in 0 .. Len(b)
      BY <1>3
    <3>2. h[Len(a) + (n - 1)] = x \o g[n - 1] /\ g[n - 1] \in WL /\ x \in WL
      BY <1>9, <2>2, <3>1
    <3>3. h[Len(a) + n] = On(c, x \o g[n - 1], Len(a) + (n - 1))
      <4>1. h[Len(a) + n] = On(c, h[(Len(a) + n) - 1], (Len(a) + n) - 1)
        BY <1>5, <3>1
      <4>. QED  BY <3>1, <3>2, <4>1
    <3>4. g[n] = On(b, g[n - 1], n - 1)
      BY <1>5
    <3>5. On(c, x \o g[n - 1], Len(a) + (n - 1)) = x \o On(b, g[n - 1], n - 1)
      <4>. DEFINE y == g[n - 1]
                  i == n - 1
      <4>1. /\ Len(a) + i \in Starts(c) <=> i \in Starts(b)
            /\ i \in Starts(b) => WordAt(c, Len(a) + i) = WordAt(b, i)
        BY <3>1, WordsBehind DEF c
      <4>2. x \in WL /\ y \in WL
        BY <3>2
      <4>. HIDE DEF x, y, i
      <4>3. CASE i \in Starts(b)
        <5>1. Append(x \o y, WordAt(b, i)) = x \o Append(y, WordAt(b, i))
          BY <1>10, <1>12, <4>2, <4>3
        <5>. QED  BY <4>1, <4>3, <5>1 DEF On, y, i
      <4>4. CASE i \notin Starts(b)
        BY <4>1, <4>4 DEF On, y, i
      <4>. QED  BY <4>3, <4>4
    <3>6. h[Len(a) + n] = x \o g[n]
      BY <3>3, <3>4, <3>5
    <3>. QED  BY <3>1, <3>6
  <2>3. \A n \in 0 .. Len(b) : n \in T
    <3>. HIDE DEF T
    <3>. QED  BY <1>3, <2>1, <2>2, Climb
  <2>. QED  BY <2>3
<1>14. Words(c) = Words(a) \o Words(b)
  <2>. HIDE DEF c
  <2>. QED  BY <1>1, <1>2, <1>3, <1>4, <1>8, <1>13
<1>15. Words(a) \in WL /\ Words(b) \in WL
  <2>. HIDE DEF WL
  <2>. QED  BY <1>1, <1>2, <1>8, <1>9
<1>. QED  BY <1>14, <1>15

\* There are none among spaces.
LEMMA NoWords ==
    ASSUME NEW s \in Seq(Characters), \A i \in 1 .. Len(s) : s[i] \in Spaces
    PROVE  Words(s) = <<>>
<1>1. PICK f : Worded(f, s) /\ Words(s) = f[Len(s)]
  BY WordsAre
<1>2. Len(s) \in Nat /\ Len(s) \in 0 .. Len(s)
  BY CharFacts
<1>3. f[0] = <<>> /\ \A n \in 1 .. Len(s) : n - 1 \notin Starts(s) => f[n] = f[n - 1]
  BY <1>1 DEF Worded
<1>4. \A n \in 1 .. Len(s) : n - 1 \notin Starts(s)
  <2>1. \A n \in 1 .. Len(s) : (n - 1) + 1 = n
    BY <1>2
  <2>. QED  BY <2>1, StartsAre
<1>. DEFINE T == {n \in Nat : f[n] = <<>>}
<1>5. 0 \in T /\ \A n \in 1 .. Len(s) : n - 1 \in T => n \in T
  BY <1>3, <1>4
<1>6. \A n \in 0 .. Len(s) : n \in T
  <2>. HIDE DEF T
  <2>. QED  BY <1>2, <1>5, Climb
<1>. QED  BY <1>1, <1>2, <1>6

\* Without a space there is one, if anything.
LEMMA OneWord ==
    ASSUME NEW s \in Seq(Characters), Len(s) # 0, \A i \in 1 .. Len(s) : s[i] \notin Spaces
    PROVE  Words(s) = <<s>>
<1>1. PICK f : Worded(f, s) /\ Words(s) = f[Len(s)]
  BY WordsAre
<1>2. Len(s) \in Nat /\ Len(s) \in 1 .. Len(s) /\ 1 \in 1 .. Len(s) /\ 0 \in 0 .. Len(s) - 1 /\ 0 + 1 = 1
      /\ 0 \in 0 .. Len(s)
  BY CharFacts
<1>3. f[0] = <<>> /\ \A n \in 1 .. Len(s) : f[n] = IF n - 1 \in Starts(s) THEN Append(f[n - 1], WordAt(s, n - 1)) ELSE f[n - 1]
  BY <1>1 DEF Worded
<1>4. 0 \in Starts(s) /\ \A n \in 2 .. Len(s) : n - 1 \notin Starts(s)
  <2>1. \A n \in 2 .. Len(s) : n - 1 # 0 /\ n - 1 \in 1 .. Len(s)
    BY <1>2
  <2>2. 0 \in Starts(s)
    BY <1>2, StartsAre
  <2>. QED  BY <2>1, <2>2, StartsAre
<1>5. WordAt(s, 0) = s
  <2>1. WordTo(s, 0, Len(s))
    BY <1>2 DEF WordTo
  <2>2. find_word_end(s, 0) = Len(s)
    BY <1>2, <2>1, WordSpan
  <2>3. /\ WordAt(s, 0) \in Seq(Characters) /\ Len(WordAt(s, 0)) = Len(s) - 0
        /\ \A k \in 1 .. Len(s) - 0 : WordAt(s, 0)[k] = s[0 + k]
    BY <1>4, <2>2, WordFacts
  <2>4. \A k \in 1 .. Len(s) : 0 + k = k /\ k \in 1 .. Len(s) - 0
    BY <1>2
  <2>5. Len(WordAt(s, 0)) = Len(s) /\ \A k \in 1 .. Len(WordAt(s, 0)) : WordAt(s, 0)[k] = s[k]
    BY <1>2, <2>3, <2>4
  <2>. QED  BY <2>3, <2>5, SameSequence
<1>6. f[1] = <<s>>
  <2>1. f[1] = Append(f[0], WordAt(s, 0))
    <3>1. 1 - 1 = 0
      OBVIOUS
    <3>. QED  BY <1>2, <1>3, <1>4, <3>1
  <2>2. \A e : Append(<<>>, e) = <<e>>
    OBVIOUS
  <2>. QED  BY <1>3, <1>5, <2>1, <2>2
<1>. DEFINE T == {n \in Nat : n >= 1 => f[n] = <<s>>}
<1>7. 0 \in T
  OBVIOUS
<1>8. ASSUME NEW n \in 1 .. Len(s), n - 1 \in T PROVE n \in T
  <2>1. n \in Nat
    OBVIOUS
  <2>2. CASE n = 1
    BY <1>6, <2>2
  <2>3. CASE n # 1
    <3>1. n \in 2 .. Len(s) /\ n - 1 >= 1
      BY <2>3
    <3>2. f[n] = f[n - 1]
      BY <1>3, <1>4, <3>1
    <3>. QED  BY <1>8, <2>1, <3>1, <3>2
  <2>. QED  BY <2>2, <2>3
<1>9. \A n \in 0 .. Len(s) : n \in T
  <2>. HIDE DEF T
  <2>. QED  BY <1>2, <1>7, <1>8, Climb
<1>10. Len(s) \in 0 .. Len(s) /\ Len(s) >= 1
  BY <1>2
<1>. QED  BY <1>1, <1>9, <1>10

-----------------------------------------------------------------------------
(* Lines.                                                                  *)

\* The lines, with one more character.
Lengthened(lines, c) ==
    IF c = "\n" THEN Append(lines, <<>>) ELSE Append(Front(lines), Append(Last(lines), c))

\* The lines up to each place.
SomeLines == {lines \in Seq(CStrings) : Len(lines) # 0}
Lined(f, s) ==
    /\ f \in [0 .. Len(s) -> SomeLines] /\ f[0] = <<<<>>>>
    /\ \A n \in 1 .. Len(s) : f[n] = Lengthened(f[n - 1], s[n])

\* A sequence and its last element.
LEMMA LastFacts ==
    ASSUME NEW S, NEW s \in Seq(S), Len(s) # 0
    PROVE  /\ Front(s) \in Seq(S) /\ Last(s) \in S /\ Len(Front(s)) = Len(s) - 1
           /\ Last(s) = s[Len(s)] /\ \A i \in 1 .. Len(s) - 1 : Front(s)[i] = s[i]
           /\ s = Append(Front(s), Last(s))
<1>1. Len(s) \in Nat /\ Len(s) - 1 \in 0 .. Len(s) /\ Len(s) \in 1 .. Len(s) /\ (Len(s) - 1) + 1 = Len(s)
  OBVIOUS
<1>2. Front(s) = SubSeq(s, 1, Len(s) - 1) /\ Last(s) = s[Len(s)]
  BY DEF Front, Last
<1>3. /\ Front(s) \in Seq(S) /\ Len(Front(s)) = Len(s) - 1
      /\ \A i \in 1 .. Len(s) - 1 : Front(s)[i] = s[i]
  BY <1>1, <1>2, FrontFacts
<1>4. Last(s) \in S
  BY <1>1, <1>2, ElementFacts
<1>5. /\ Append(Front(s), Last(s)) \in Seq(S) /\ Len(Append(Front(s), Last(s))) = Len(s)
      /\ \A i \in 1 .. Len(s) - 1 : Append(Front(s), Last(s))[i] = Front(s)[i]
      /\ Append(Front(s), Last(s))[Len(s)] = Last(s)
  <2>. DEFINE t == Append(Front(s), Last(s))
  <2>1. /\ t \in Seq(S) /\ Len(t) = Len(Front(s)) + 1
        /\ \A i \in 1 .. Len(Front(s)) : t[i] = Front(s)[i]
        /\ t[Len(Front(s)) + 1] = Last(s)
    BY <1>3, <1>4, AppendFacts
  <2>. QED  BY <1>1, <1>3, <2>1
<1>6. \A i \in 1 .. Len(s) : i = Len(s) \/ i \in 1 .. Len(s) - 1
  OBVIOUS
<1>7. \A i \in 1 .. Len(s) : s[i] = Append(Front(s), Last(s))[i]
  BY <1>2, <1>3, <1>5, <1>6
<1>8. s = Append(Front(s), Last(s))
  <2>. DEFINE t == Append(Front(s), Last(s))
  <2>1. t \in Seq(S) /\ Len(s) = Len(t) /\ \A i \in 1 .. Len(s) : s[i] = t[i]
    BY <1>5, <1>7
  <2>. HIDE DEF t
  <2>2. s = t
    BY <2>1, SameSequence
  <2>. QED  BY <2>2 DEF t
<1>. QED  BY <1>2, <1>3, <1>4, <1>8

LEMMA LengthenedType ==
    ASSUME NEW lines \in SomeLines, NEW c \in Characters
    PROVE  Lengthened(lines, c) \in SomeLines
<1>1. lines \in Seq(CStrings) /\ Len(lines) # 0
  BY DEF SomeLines
<1>2. Front(lines) \in Seq(CStrings) /\ Last(lines) \in CStrings
  BY <1>1, LastFacts
<1>3. <<>> \in CStrings /\ Append(Last(lines), c) \in CStrings
  BY <1>2 DEF CStrings
<1>4. \A x \in Seq(CStrings), y \in CStrings : Append(x, y) \in Seq(CStrings) /\ Len(Append(x, y)) # 0
  OBVIOUS
<1>. QED  BY <1>1, <1>2, <1>3, <1>4 DEF Lengthened, SomeLines

LEMMA LinesAre ==
    ASSUME NEW s \in Seq(Characters)
    PROVE  \E f : Lined(f, s) /\ LinesOf(s) = f[Len(s)]
<1>. DEFINE N == Len(s)
            S == SomeLines
            next == [n \in 1 .. N |-> [x \in S |-> Lengthened(x, s[n])]]
            Body(f) == [n \in 0 .. N |->
                          IF n = 0 THEN <<<<>>>>
                          ELSE IF s[n] = "\n" THEN Append(f[n - 1], <<>>)
                          ELSE Append(Front(f[n - 1]), Append(Last(f[n - 1]), s[n]))]
            upto == CHOOSE f : f = Body(f)
<1>1. N \in Nat /\ \A n \in 1 .. N : s[n] \in Characters
  BY ElementFacts
<1>2. LinesOf(s) = upto[N]
  BY DEF LinesOf
<1>. HIDE DEF N
<1>3. <<<<>>>> \in S
  BY DEF SomeLines, CStrings
<1>. HIDE DEF S
<1>4. next \in [1 .. N -> [S -> S]]
  <2>1. \A n \in 1 .. N, x \in S : Lengthened(x, s[n]) \in S
    BY <1>1, LengthenedType DEF S
  <2>. QED  BY <2>1
<1>5. \A n \in 1 .. N, x \in S : next[n][x] = Lengthened(x, s[n])
  OBVIOUS
<1>6. \A n \in 0 .. N : n # 0 => n \in 1 .. N /\ n - 1 \in 0 .. N
  BY <1>1
<1>. HIDE DEF next
<1>7. PICK g : IsRun(g, S, <<<<>>>>, N, next)
  BY <1>1, <1>3, <1>4, Iterates
<1>8. \A f : Body(f) = [n \in 0 .. N |-> IF n = 0 THEN <<<<>>>> ELSE Lengthened(f[n - 1], s[n])]
  BY DEF Lengthened
<1>. HIDE DEF Body
<1>. DEFINE first == <<<<>>>>
<1>9. g = Body(g)
  <2>1. g \in [0 .. N -> S] /\ g[0] = first /\ \A n \in 1 .. N : g[n] = next[n][g[n - 1]]
    BY <1>7 DEF IsRun
  <2>2. \A n \in 1 .. N : g[n] = Lengthened(g[n - 1], s[n])
    BY <1>5, <1>6, <2>1
  <2>3. Body(g) = [n \in 0 .. N |-> IF n = 0 THEN first ELSE Lengthened(g[n - 1], s[n])]
    BY <1>8
  <2>. HIDE DEF first
  <2>. QED  BY <1>6, <2>1, <2>2, <2>3
<1>10. upto = Body(upto)
  BY <1>9
<1>. HIDE DEF upto
<1>11. /\ upto = [n \in 0 .. N |-> upto[n]] /\ upto[0] = first
       /\ \A n \in 1 .. N : upto[n] = Lengthened(upto[n - 1], s[n])
  <2>1. upto = [n \in 0 .. N |-> IF n = 0 THEN first ELSE Lengthened(upto[n - 1], s[n])]
    BY <1>8, <1>10
  <2>2. \A n \in 1 .. N : n \in 0 .. N /\ n # 0
    BY <1>1
  <2>3. 0 \in 0 .. N
    BY <1>1
  <2>. HIDE DEF first
  <2>. QED  BY <2>1, <2>2, <2>3
<1>12. IsRun(upto, S, first, N, next)
  <2>1. \A n \in 1 .. N : upto[n - 1] \in S => upto[n] = next[n][upto[n - 1]]
    BY <1>5, <1>11
  <2>2. first \in S
    BY <1>3
  <2>. HIDE DEF first
  <2>. QED  BY <1>1, <1>4, <1>11, <2>1, <2>2, ChosenRun
<1>13. Lined(upto, s)
  BY <1>11, <1>12 DEF IsRun, Lined, N, S
<1>. QED  BY <1>2, <1>13 DEF N

\* Lines that go on with another text.
LEMMA LinesGoOn ==
    ASSUME NEW a \in Seq(Characters), NEW b \in Seq(Characters)
    PROVE  \E h \in [0 .. Len(b) -> SomeLines] :
               /\ h[0] = LinesOf(a) /\ h[Len(b)] = LinesOf(a \o b)
               /\ \A n \in 1 .. Len(b) : h[n] = Lengthened(h[n - 1], b[n])
<1>. DEFINE c == a \o b
<1>1. PICK f : Lined(f, a) /\ LinesOf(a) = f[Len(a)]
  BY LinesAre
<1>2. /\ c \in Seq(Characters) /\ Len(c) = Len(a) + Len(b) /\ Len(a) \in Nat /\ Len(b) \in Nat
      /\ \A i \in 1 .. Len(a) : c[i] = a[i]
      /\ \A i \in Len(a) + 1 .. Len(a) + Len(b) : c[i] = b[i - Len(a)]
  BY ConcatFacts, CharFacts
<1>. HIDE DEF c
<1>3. PICK g : Lined(g, c) /\ LinesOf(c) = g[Len(c)]
  BY <1>2, LinesAre
<1>4. /\ f[0] = <<<<>>>> /\ \A n \in 1 .. Len(a) : f[n] = Lengthened(f[n - 1], a[n])
      /\ g \in [0 .. Len(c) -> SomeLines]
      /\ g[0] = <<<<>>>> /\ \A n \in 1 .. Len(c) : g[n] = Lengthened(g[n - 1], c[n])
  BY <1>1, <1>3 DEF Lined
<1>5. \A n \in 0 .. Len(a) : g[n] = f[n]
  <2>. DEFINE T == {n \in Nat : g[n] = f[n]}
  <2>1. 0 \in T
    BY <1>4
  <2>2. ASSUME NEW n \in 1 .. Len(a), n - 1 \in T PROVE n \in T
    <3>1. n \in 1 .. Len(c) /\ n \in Nat /\ c[n] = a[n] /\ g[n - 1] = f[n - 1]
      BY <1>2, <2>2
    <3>. QED  BY <1>4, <3>1
  <2>3. \A n \in 0 .. Len(a) : n \in T
    <3>. HIDE DEF T
    <3>. QED  BY <1>2, <2>1, <2>2, Climb
  <2>. QED  BY <2>3
<1>. DEFINE h == [n \in 0 .. Len(b) |-> g[Len(a) + n]]
<1>6. \A n \in 0 .. Len(b) : Len(a) + n \in 0 .. Len(c) /\ h[n] = g[Len(a) + n]
  BY <1>2
<1>7. h \in [0 .. Len(b) -> SomeLines]
  <2>1. \A n \in 0 .. Len(b) : g[Len(a) + n] \in SomeLines
    BY <1>4, <1>6
  <2>. QED  BY <2>1
<1>. HIDE DEF h
<1>8. h[0] = LinesOf(a) /\ h[Len(b)] = LinesOf(c)
  <2>1. 0 \in 0 .. Len(b) /\ Len(b) \in 0 .. Len(b) /\ Len(a) \in 0 .. Len(a) /\ Len(a) + 0 = Len(a)
    BY <1>2
  <2>. QED  BY <1>1, <1>2, <1>3, <1>5, <1>6, <2>1
<1>9. ASSUME NEW n \in 1 .. Len(b) PROVE h[n] = Lengthened(h[n - 1], b[n])
  <2>1. /\ Len(a) + n \in 1 .. Len(c) /\ Len(a) + n \in Len(a) + 1 .. Len(a) + Len(b)
        /\ (Len(a) + n) - Len(a) = n /\ (Len(a) + n) - 1 = Len(a) + (n - 1)
        /\ n - 1 \in 0 .. Len(b) /\ n \in 0 .. Len(b)
    BY <1>2
  <2>2. c[Len(a) + n] = b[n]
    BY <1>2, <2>1
  <2>3. g[Len(a) + n] = Lengthened(g[(Len(a) + n) - 1], c[Len(a) + n])
    BY <1>4, <2>1
  <2>. QED  BY <1>6, <2>1, <2>2, <2>3
<1>. QED  BY <1>7, <1>8, <1>9 DEF c

\* At least one line.
LEMMA LinesType ==
    ASSUME NEW a \in Seq(Characters)
    PROVE  LinesOf(a) \in Seq(CStrings) /\ Len(LinesOf(a)) # 0
<1>1. PICK f : Lined(f, a) /\ LinesOf(a) = f[Len(a)]
  BY LinesAre
<1>2. Len(a) \in 0 .. Len(a)
  BY CharFacts
<1>3. f[Len(a)] \in SomeLines
  BY <1>1, <1>2 DEF Lined
<1>. QED  BY <1>1, <1>3 DEF SomeLines

LEMMA NoLines ==
    ASSUME NEW a \in Seq(Characters), Len(a) = 0
    PROVE  LinesOf(a) = <<<<>>>>
<1>1. PICK f : Lined(f, a) /\ LinesOf(a) = f[Len(a)]
  BY LinesAre
<1>. QED  BY <1>1 DEF Lined

\* What is put at the end of a sequence can be told from it again.
LEMMA AppendedLast ==
    ASSUME NEW S, NEW s \in Seq(S), NEW x \in S
    PROVE  Front(Append(s, x)) = s /\ Last(Append(s, x)) = x
<1>. DEFINE t == Append(s, x)
<1>1. t \in Seq(S) /\ Len(t) = Len(s) + 1 /\ (\A i \in 1 .. Len(s) : t[i] = s[i]) /\ t[Len(s) + 1] = x
      /\ Len(s) \in Nat
  BY AppendFacts, ElementFacts
<1>. HIDE DEF t
<1>2. /\ Front(t) \in Seq(S) /\ Len(Front(t)) = Len(t) - 1 /\ Last(t) = t[Len(t)]
      /\ \A i \in 1 .. Len(t) - 1 : Front(t)[i] = t[i]
  BY <1>1, LastFacts
<1>3. Len(t) - 1 = Len(s)
  BY <1>1
<1>4. \A i \in 1 .. Len(s) : Front(t)[i] = s[i]
  BY <1>1, <1>2, <1>3
<1>5. Front(t) = s
  BY <1>2, <1>3, <1>4, SameSequence
<1>. QED  BY <1>1, <1>2, <1>5 DEF t

\* Text without line ends goes to the last line.
LEMMA LinesExtended ==
    ASSUME NEW a \in Seq(Characters), NEW b \in Seq(Characters), \A i \in 1 .. Len(b) : b[i] # "\n"
    PROVE  LinesOf(a \o b) = Append(Front(LinesOf(a)), Last(LinesOf(a)) \o b)
<1>. DEFINE L == LinesOf(a)
            F == Front(L)
            l == Last(L)
<1>1. L \in Seq(CStrings) /\ Len(L) # 0
  BY LinesType
<1>2. F \in Seq(CStrings) /\ l \in CStrings /\ L = Append(F, l)
  BY <1>1, LastFacts
<1>3. PICK h \in [0 .. Len(b) -> SomeLines] :
        /\ h[0] = L /\ h[Len(b)] = LinesOf(a \o b)
        /\ \A n \in 1 .. Len(b) : h[n] = Lengthened(h[n - 1], b[n])
  BY LinesGoOn
<1>. HIDE DEF L, F, l
<1>4. Len(b) \in Nat /\ \A n \in 1 .. Len(b) : b[n] \in Characters
  BY ElementFacts
<1>. DEFINE Upto(n) == SubSeq(b, 1, n)
            T == {n \in Nat : h[n] = Append(F, l \o Upto(n))}
<1>5. \A n \in 0 .. Len(b) : Upto(n) \in CStrings /\ Len(Upto(n)) = n /\ \A i \in 1 .. n : Upto(n)[i] = b[i]
  BY FrontFacts DEF CStrings
<1>. HIDE DEF Upto
<1>6. Upto(0) = <<>>
  <2>1. 0 \in 0 .. Len(b)
    BY <1>4
  <2>. QED  BY <1>5, <2>1 DEF CStrings
<1>7. 0 \in T
  <2>1. l \o <<>> = l
    BY <1>2, ConcatEmpty DEF CStrings
  <2>. QED  BY <1>2, <1>3, <1>6, <2>1
<1>8. ASSUME NEW n \in 1 .. Len(b), n - 1 \in T PROVE n \in T
  <2>1. n - 1 \in 0 .. Len(b) /\ n \in 0 .. Len(b) /\ n \in Nat /\ b[n] \in Characters
    BY <1>4
  <2>2. Upto(n) = Append(Upto(n - 1), b[n])
    <3>. DEFINE t == Append(Upto(n - 1), b[n])
                u == Upto(n)
    <3>1. /\ t \in Seq(Characters) /\ Len(t) = (n - 1) + 1 /\ (\A i \in 1 .. n - 1 : t[i] = Upto(n - 1)[i])
          /\ t[(n - 1) + 1] = b[n]
      <4>1. Upto(n - 1) \in Seq(Characters) /\ Len(Upto(n - 1)) = n - 1
        BY <1>5, <2>1 DEF CStrings
      <4>. QED  BY <2>1, <4>1, AppendFacts
    <3>2. u \in Seq(Characters) /\ Len(u) = n /\ \A i \in 1 .. n : u[i] = b[i]
      BY <1>5, <2>1 DEF CStrings
    <3>3. \A i \in 1 .. n - 1 : t[i] = b[i]
      BY <1>5, <2>1, <3>1
    <3>4. t[n] = b[n] /\ Len(t) = n
      BY <2>1, <3>1
    <3>. HIDE DEF t, u
    <3>5. \A i \in 1 .. n : i = n \/ i \in 1 .. n - 1
      BY <2>1
    <3>6. Len(u) = Len(t) /\ \A i \in 1 .. Len(u) : u[i] = t[i]
      BY <3>2, <3>3, <3>4, <3>5
    <3>7. u = t
      BY <3>1, <3>2, <3>6, SameSequence
    <3>. QED  BY <3>7 DEF t, u
  <2>3. h[n - 1] = Append(F, l \o Upto(n - 1))
    BY <1>8
  <2>. DEFINE x == l \o Upto(n - 1)
  <2>4. x \in CStrings /\ Append(x, b[n]) = l \o Upto(n)
    <3>1. l \in Seq(Characters) /\ Upto(n - 1) \in Seq(Characters)
      BY <1>2, <1>5, <2>1 DEF CStrings
    <3>2. \A y \in Seq(Characters), z \in Seq(Characters) : \A c \in Characters :
            y \o z \in Seq(Characters) /\ Append(y \o z, c) = y \o Append(z, c)
      OBVIOUS
    <3>3. x \in Seq(Characters) /\ Append(x, b[n]) = l \o Append(Upto(n - 1), b[n])
      BY <2>1, <3>1, <3>2, Zenon
    <3>. HIDE DEF x
    <3>. QED  BY <2>2, <3>3 DEF CStrings
  <2>. HIDE DEF x
  <2>5. Front(h[n - 1]) = F /\ Last(h[n - 1]) = x
    <3>1. h[n - 1] = Append(F, x)
      BY <2>3 DEF x
    <3>. QED  BY <1>2, <2>4, <3>1, AppendedLast
  <2>6. h[n] = Append(F, Append(x, b[n]))
    <3>1. h[n] = Lengthened(h[n - 1], b[n]) /\ b[n] # "\n"
      BY <1>3
    <3>. QED  BY <2>5, <3>1 DEF Lengthened
  <2>. QED  BY <2>1, <2>4, <2>6
<1>9. Len(b) \in T
  <2>1. Len(b) \in 0 .. Len(b)
    BY <1>4
  <2>. HIDE DEF T
  <2>. QED  BY <1>4, <1>7, <1>8, <2>1, Climb
<1>10. Upto(Len(b)) = b
  <2>. DEFINE u == Upto(Len(b))
  <2>1. Len(b) \in 0 .. Len(b)
    BY <1>4
  <2>2. u \in Seq(Characters) /\ Len(u) = Len(b) /\ \A i \in 1 .. Len(b) : u[i] = b[i]
    BY <1>5, <2>1 DEF CStrings
  <2>. HIDE DEF u
  <2>3. Len(u) = Len(b) /\ \A i \in 1 .. Len(u) : u[i] = b[i]
    BY <2>2
  <2>4. u = b
    BY <2>2, <2>3, SameSequence
  <2>. QED  BY <2>4 DEF u
<1>. QED  BY <1>3, <1>9, <1>10 DEF L, F, l

\* More lines, in front of which there are others.
LEMMA LengthenedBehind ==
    ASSUME NEW x \in Seq(CStrings), NEW y \in SomeLines, NEW c \in Characters
    PROVE  x \o y \in SomeLines /\ Lengthened(x \o y, c) = x \o Lengthened(y, c)
<1>. DEFINE z == x \o y
            F == Front(y)
            l == Last(y)
<1>1. y \in Seq(CStrings) /\ Len(y) # 0
  BY DEF SomeLines
<1>2. F \in Seq(CStrings) /\ l \in CStrings /\ y = Append(F, l)
  BY <1>1, LastFacts
<1>3. <<>> \in CStrings /\ Append(l, c) \in CStrings
  BY <1>2 DEF CStrings
<1>. HIDE DEF F, l
<1>4. z \in Seq(CStrings) /\ x \o F \in Seq(CStrings)
  <2>1. \A u \in Seq(CStrings), v \in Seq(CStrings) : u \o v \in Seq(CStrings)
    OBVIOUS
  <2>. QED  BY <1>1, <1>2, <2>1
<1>5. z = Append(x \o F, l)
  BY <1>2, TextsAppended
<1>6. z \in SomeLines
  <2>1. \A u \in Seq(CStrings), e \in CStrings : Len(Append(u, e)) # 0
    OBVIOUS
  <2>2. Len(z) # 0
    <3>. HIDE DEF z
    <3>. QED  BY <1>2, <1>4, <1>5, <2>1
  <2>. HIDE DEF z
  <2>. QED  BY <1>4, <2>2 DEF SomeLines
<1>7. Front(z) = x \o F /\ Last(z) = l
  <2>1. Front(Append(x \o F, l)) = x \o F /\ Last(Append(x \o F, l)) = l
    BY <1>2, <1>4, AppendedLast
  <2>. HIDE DEF z
  <2>. QED  BY <1>5, <2>1
<1>8. Append(z, <<>>) = x \o Append(y, <<>>)
  BY <1>1, <1>3, TextsAppended
<1>9. Append(x \o F, Append(l, c)) = x \o Append(F, Append(l, c))
  BY <1>2, <1>3, TextsAppended
<1>10. Lengthened(z, c) = x \o Lengthened(y, c)
  <2>1. CASE c = "\n"
    <3>1. Lengthened(z, c) = Append(z, <<>>) /\ Lengthened(y, c) = Append(y, <<>>)
      BY <2>1 DEF Lengthened
    <3>. HIDE DEF z
    <3>. QED  BY <1>8, <3>1
  <2>2. CASE c # "\n"
    <3>1. /\ Lengthened(z, c) = Append(Front(z), Append(Last(z), c))
          /\ Lengthened(y, c) = Append(Front(y), Append(Last(y), c))
      BY <2>2 DEF Lengthened
    <3>. HIDE DEF z
    <3>. QED  BY <1>7, <1>9, <3>1 DEF F, l
  <2>. QED  BY <2>1, <2>2
<1>. QED  BY <1>6, <1>10

LEMMA OneMore ==
    ASSUME NEW x \in Seq(CStrings), NEW e \in CStrings
    PROVE  Append(x, e) = x \o <<e>>
OBVIOUS

\* Lines after a line end.
LEMMA LinesBroken ==
    ASSUME NEW a \in Seq(Characters), NEW b \in Seq(Characters)
    PROVE  LinesOf((a \o <<"\n">>) \o b) = LinesOf(a) \o LinesOf(b)
<1>. DEFINE nl == <<"\n">>
            d == a \o nl
            L == LinesOf(a)
            first == <<<<>>>>
<1>1. nl \in Seq(Characters) /\ Len(nl) = 1 /\ nl[1] = "\n"
  <2>1. "\n" \in Characters
    BY SpacesAssumption DEF Spaces
  <2>. QED  BY <2>1
<1>. HIDE DEF nl
<1>2. d \in Seq(Characters)
  BY <1>1, ConcatFacts
<1>3. LinesOf(d) = Append(L, <<>>) /\ L \in Seq(CStrings)
  <2>1. PICK h \in [0 .. Len(nl) -> SomeLines] :
           /\ h[0] = LinesOf(a) /\ h[Len(nl)] = LinesOf(a \o nl)
           /\ \A n \in 1 .. Len(nl) : h[n] = Lengthened(h[n - 1], nl[n])
    BY <1>1, LinesGoOn
  <2>2. h[1] = Lengthened(h[0], "\n")
    <3>1. 1 \in 1 .. Len(nl) /\ 1 - 1 = 0
      BY <1>1
    <3>. QED  BY <1>1, <2>1, <3>1
  <2>. QED  BY <1>1, <2>1, <2>2, LinesType DEF Lengthened
<1>. HIDE DEF d, L
<1>4. PICK h \in [0 .. Len(b) -> SomeLines] :
        /\ h[0] = LinesOf(d) /\ h[Len(b)] = LinesOf(d \o b)
        /\ \A n \in 1 .. Len(b) : h[n] = Lengthened(h[n - 1], b[n])
  BY <1>2, LinesGoOn
<1>5. PICK g : Lined(g, b) /\ LinesOf(b) = g[Len(b)]
  BY LinesAre
<1>6. /\ g \in [0 .. Len(b) -> SomeLines] /\ g[0] = first
      /\ \A n \in 1 .. Len(b) : g[n] = Lengthened(g[n - 1], b[n])
  BY <1>5 DEF Lined
<1>7. Len(b) \in Nat /\ \A n \in 1 .. Len(b) : b[n] \in Characters
  BY ElementFacts
<1>8. Append(L, <<>>) = L \o first
  <2>1. <<>> \in CStrings
    BY DEF CStrings
  <2>. QED  BY <1>3, <2>1, OneMore
<1>. HIDE DEF first
<1>. DEFINE T == {n \in Nat : h[n] = L \o g[n]}
<1>9. 0 \in T
  BY <1>3, <1>4, <1>6, <1>8
<1>10. ASSUME NEW n \in 1 .. Len(b), n - 1 \in T PROVE n \in T
  <2>1. n - 1 \in 0 .. Len(b) /\ n \in Nat /\ b[n] \in Characters /\ h[n - 1] = L \o g[n - 1]
    BY <1>7, <1>10
  <2>2. g[n - 1] \in SomeLines
    BY <1>6, <2>1
  <2>3. Lengthened(L \o g[n - 1], b[n]) = L \o Lengthened(g[n - 1], b[n])
    BY <1>3, <2>1, <2>2, LengthenedBehind
  <2>4. h[n] = Lengthened(h[n - 1], b[n]) /\ g[n] = Lengthened(g[n - 1], b[n])
    BY <1>4, <1>6
  <2>5. h[n] = L \o g[n]
    BY <2>1, <2>3, <2>4
  <2>. QED  BY <2>1, <2>5
<1>11. Len(b) \in T
  <2>1. Len(b) \in 0 .. Len(b)
    BY <1>7
  <2>. HIDE DEF T
  <2>. QED  BY <1>7, <1>9, <1>10, <2>1, Climb
<1>. QED  BY <1>4, <1>5, <1>11 DEF d, L, nl

-----------------------------------------------------------------------------
(* Turns.                                                                  *)

\* Where a turn begins: at a word, or the end of a line.
Positions == [index : Nat, indent : Nat, current : Nat, wrapped : BOOLEAN, dots : BOOLEAN, out : CStrings]
Stops(s) ==
    {at \in Positions : /\ at.index \in 0 .. Len(s)
                        /\ at.index = Len(s) \/ s[at.index + 1] = "\n" \/ at.index \in Starts(s)}

NextAt(s, i) == find_word_start(s, find_word_end(s, i))
GapAt(s, i)  == SubSeq(s, find_word_end(s, i) + 1, NextAt(s, i))

\* What is not a blank, or is no space.
LEMMA SpaceFacts ==
    /\ "\n" \notin Blanks /\ Blanks \subseteq Spaces /\ Nul \notin Spaces /\ Nul \notin Blanks
    /\ Spaces \subseteq Characters /\ Spaces = Blanks \union {"\n"} /\ "\n" # Nul
BY SpacesAssumption DEF Blanks, Spaces, Nul

\* The gap at i ends at j.
GapTo(s, i, j) ==
    /\ j \in i .. Len(s) /\ (j = Len(s) \/ s[j + 1] \notin Blanks)
    /\ \A k \in i + 1 .. j : s[k] \in Blanks

LEMMA GapSpan ==
    ASSUME NEW s \in Seq(Characters), NEW i \in 0 .. Len(s)
    PROVE  /\ GapTo(s, i, find_word_start(s, i))
           /\ \A j : GapTo(s, i, j) => j = find_word_start(s, i)
<1>1. i \in Nat /\ Len(s) \in Nat /\ Nul \notin Blanks
  BY SpaceFacts, CharFacts
<1>2. ASSUME NEW j \in i .. Len(s) PROVE EndsGap(s, i, j) <=> GapTo(s, i, j)
  <2>1. Char(s, j) \notin Blanks <=> j = Len(s) \/ s[j + 1] \notin Blanks
    <3>1. j = Len(s) \/ j \in 0 .. Len(s) - 1
      BY <1>1
    <3>. QED  BY <1>1, <3>1, CharFacts
  <2>2. \A k \in i .. j - 1 : Char(s, k) = s[k + 1] /\ k + 1 \in i + 1 .. j
    <3>1. \A k \in i .. j - 1 : k \in 0 .. Len(s) - 1 /\ k + 1 \in i + 1 .. j
      BY <1>1
    <3>. QED  BY <3>1, CharFacts
  <2>3. \A k \in i + 1 .. j : k - 1 \in i .. j - 1 /\ (k - 1) + 1 = k
    BY <1>1
  <2>4. (\A k \in i .. j - 1 : Char(s, k) \in Blanks) <=> (\A k \in i + 1 .. j : s[k] \in Blanks)
    BY <2>2, <2>3
  <2>. QED  BY <2>1, <2>4 DEF EndsGap, GapTo
<1>3. EndsGap(s, i, find_word_start(s, i)) /\ find_word_start(s, i) \in i .. Len(s)
  BY GapEnds DEF EndsGap
<1>4. ASSUME NEW j, GapTo(s, i, j) PROVE j = find_word_start(s, i)
  <2>1. j \in i .. Len(s)
    BY <1>4 DEF GapTo
  <2>. QED  BY <1>2, <1>4, <2>1, GapEnds
<1>. QED  BY <1>2, <1>3, <1>4

\* A text up to a place, and from there to another.
LEMMA SpanConcat ==
    ASSUME NEW s \in Seq(Characters), NEW i \in 0 .. Len(s), NEW j \in i .. Len(s)
    PROVE  /\ SubSeq(s, 1, j) = SubSeq(s, 1, i) \o SubSeq(s, i + 1, j)
           /\ SubSeq(s, 1, i) \in CStrings /\ SubSeq(s, i + 1, j) \in CStrings /\ SubSeq(s, 1, j) \in CStrings
           /\ Len(SubSeq(s, 1, i)) = i /\ Len(SubSeq(s, i + 1, j)) = j - i
           /\ \A k \in 1 .. j - i : SubSeq(s, i + 1, j)[k] = s[i + k]
           /\ \A k \in 1 .. i : SubSeq(s, 1, i)[k] = s[k]
<1>. DEFINE a == SubSeq(s, 1, i)
            b == SubSeq(s, i + 1, j)
            c == SubSeq(s, 1, j)
<1>1. Len(s) \in Nat /\ j \in 0 .. Len(s) /\ i \in Nat /\ j \in Nat
  BY ElementFacts
<1>2. a \in Seq(Characters) /\ Len(a) = i /\ \A k \in 1 .. i : a[k] = s[k]
  BY FrontFacts
<1>3. c \in Seq(Characters) /\ Len(c) = j /\ \A k \in 1 .. j : c[k] = s[k]
  BY <1>1, FrontFacts
<1>4. b \in Seq(Characters) /\ Len(b) = j - i /\ \A k \in 1 .. j - i : b[k] = s[i + k]
  <2>1. i + 1 \in 1 .. Len(s) + 1 /\ j \in (i + 1) - 1 .. Len(s) /\ j - (i + 1) + 1 = j - i
        /\ \A k \in 1 .. j - i : (i + 1) + k - 1 = i + k
    BY <1>1
  <2>2. /\ b \in Seq(Characters) /\ Len(b) = j - (i + 1) + 1
        /\ \A k \in 1 .. j - (i + 1) + 1 : b[k] = s[(i + 1) + k - 1]
    BY <2>1, SubSeqType
  <2>. QED  BY <2>1, <2>2
<1>. HIDE DEF a, b, c
<1>. DEFINE d == a \o b
<1>5. /\ d \in Seq(Characters) /\ Len(d) = i + (j - i)
      /\ (\A k \in 1 .. i : d[k] = a[k]) /\ \A k \in i + 1 .. i + (j - i) : d[k] = b[k - i]
  BY <1>2, <1>4, ConcatFacts
<1>. HIDE DEF d
<1>6. \A k \in 1 .. j : k \in 1 .. i \/ (k \in i + 1 .. i + (j - i) /\ k - i \in 1 .. j - i /\ i + (k - i) = k)
  BY <1>1
<1>7. ASSUME NEW k \in 1 .. j PROVE c[k] = d[k]
  <2>1. CASE k \in 1 .. i
    BY <1>2, <1>3, <1>5, <2>1
  <2>2. CASE k \in i + 1 .. i + (j - i) /\ k - i \in 1 .. j - i /\ i + (k - i) = k
    <3>1. d[k] = b[k - i] /\ b[k - i] = s[i + (k - i)] /\ c[k] = s[k]
      BY <1>3, <1>4, <1>5, <2>2
    <3>. QED  BY <2>2, <3>1
  <2>. QED  BY <1>6, <2>1, <2>2
<1>8. c = d
  <2>1. i + (j - i) = j
    BY <1>1
  <2>2. Len(c) = Len(d) /\ \A k \in 1 .. Len(c) : c[k] = d[k]
    BY <1>3, <1>5, <1>7, <2>1
  <2>. QED  BY <1>3, <1>5, <2>2, SameSequence
<1>. QED  BY <1>2, <1>3, <1>4, <1>8 DEF a, b, c, d, CStrings

\* A word, the gap behind it, and what follows.
LEMMA PieceFacts ==
    ASSUME NEW s \in Seq(Characters), NEW i \in Starts(s)
    PROVE  LET e == find_word_end(s, i)
               n == NextAt(s, i) IN
           /\ i \in 0 .. Len(s) - 1 /\ e \in i + 1 .. Len(s) /\ n \in e .. Len(s)
           /\ WordAt(s, i) \in CStrings /\ Len(WordAt(s, i)) = e - i
           /\ \A k \in 1 .. e - i : WordAt(s, i)[k] = s[i + k] /\ s[i + k] \notin Spaces
           /\ GapAt(s, i) \in CStrings /\ Len(GapAt(s, i)) = n - e
           /\ \A k \in 1 .. n - e : GapAt(s, i)[k] = s[e + k] /\ s[e + k] \in Blanks
           /\ n = Len(s) \/ s[n + 1] = "\n" \/ (n \in Starts(s) /\ n > e)
           /\ SubSeq(s, 1, n) = (SubSeq(s, 1, i) \o WordAt(s, i)) \o GapAt(s, i)
<1>. DEFINE e == find_word_end(s, i)
            n == NextAt(s, i)
<1>1. /\ i \in 0 .. Len(s) - 1 /\ e \in i + 1 .. Len(s) /\ Len(s) \in Nat
      /\ WordAt(s, i) \in CStrings /\ Len(WordAt(s, i)) = e - i
      /\ \A k \in 1 .. e - i : WordAt(s, i)[k] = s[i + k] /\ s[i + k] \notin Spaces
  BY WordFacts, ElementFacts DEF CStrings
<1>2. i \in 0 .. Len(s) /\ e \in 0 .. Len(s) /\ e \in i .. Len(s)
  BY <1>1
<1>3. WordTo(s, i, e)
  BY <1>2, WordSpan
<1>4. GapTo(s, e, n)
  <2>. HIDE DEF e
  <2>1. GapTo(s, e, find_word_start(s, e))
    BY <1>2, GapSpan
  <2>. QED  BY <2>1 DEF NextAt, e
<1>5. n \in e .. Len(s) /\ (n = Len(s) \/ s[n + 1] \notin Blanks) /\ \A k \in e + 1 .. n : s[k] \in Blanks
  BY <1>4 DEF GapTo
<1>6. e = Len(s) \/ s[e + 1] \in Spaces
  BY <1>3 DEF WordTo
<1>7. WordAt(s, i) = SubSeq(s, i + 1, e) /\ GapAt(s, i) = SubSeq(s, e + 1, n)
  BY DEF WordAt, GapAt
<1>. HIDE DEF e, n
<1>8. SubSeq(s, 1, e) = SubSeq(s, 1, i) \o WordAt(s, i)
  BY <1>2, <1>7, SpanConcat
<1>9. /\ SubSeq(s, 1, n) = SubSeq(s, 1, e) \o GapAt(s, i)
      /\ GapAt(s, i) \in CStrings /\ Len(GapAt(s, i)) = n - e
      /\ \A k \in 1 .. n - e : GapAt(s, i)[k] = s[e + k]
  <2>1. n \in e .. Len(s) /\ e \in 0 .. Len(s)
    BY <1>2, <1>5
  <2>. QED  BY <1>7, <2>1, SpanConcat
<1>10. \A k \in 1 .. n - e : e + k \in e + 1 .. n
  BY <1>2, <1>5
<1>11. n = Len(s) \/ s[n + 1] = "\n" \/ (n \in Starts(s) /\ n > e)
  <2>1. SUFFICES ASSUME n # Len(s), s[n + 1] # "\n" PROVE n \in Starts(s) /\ n > e
    OBVIOUS
  <2>2. s[n + 1] \notin Blanks /\ s[n + 1] \notin Spaces
    BY <1>5, <2>1, SpaceFacts
  <2>3. n # e
    BY <1>6, <2>1, <2>2
  <2>4. n > e /\ n \in e + 1 .. n /\ n \in 0 .. Len(s) - 1
    BY <1>2, <1>5, <2>1, <2>3
  <2>5. s[n] \in Spaces
    BY <1>5, <2>4, SpaceFacts
  <2>. QED  BY <2>2, <2>4, <2>5, StartsAre
<1>. QED  BY <1>1, <1>5, <1>8, <1>9, <1>10, <1>11 DEF e, n

LEMMA TextsConcat ==
    ASSUME NEW a \in CStrings, NEW b \in CStrings
    PROVE  a \o b \in CStrings /\ Len(a \o b) = Len(a) + Len(b) /\ Len(a) \in Nat /\ Len(b) \in Nat
BY ConcatFacts, ElementFacts DEF CStrings

\* A line end is a text of its own.
LineEnd == <<"\n">>
LEMMA LineEndFacts == LineEnd \in CStrings /\ Len(LineEnd) = 1 /\ LineEnd[1] = "\n"
<1>1. \A c \in Characters : <<c>> \in CStrings /\ Len(<<c>>) = 1 /\ <<c>>[1] = c
  BY DEF CStrings
<1>2. "\n" \in Characters
  BY SpacesAssumption DEF Spaces
<1>. QED  BY <1>1, <1>2 DEF LineEnd

LEMMA SpacesPrinted ==
    ASSUME NEW n \in Nat
    PROVE  /\ print_spaces(n) \in CStrings /\ Len(print_spaces(n)) = n
           /\ \A i \in 1 .. n : print_spaces(n)[i] = " " /\ print_spaces(n)[i] \in Blanks
<1>1. " " \in Characters /\ " " \in Blanks
  BY SpacesAssumption DEF Spaces, Blanks
<1>2. \A c \in Characters : [i \in 1 .. n |-> c] \in CStrings /\ Len([i \in 1 .. n |-> c]) = n
  BY DEF CStrings
<1>. QED  BY <1>1, <1>2 DEF print_spaces

\* What is printed of an indentation.
Lead(space, room)      == IF count_graphemes(space) >= room THEN <<>> ELSE space
LeadWidth(space, room) == IF count_graphemes(space) >= room THEN 0 ELSE count_graphemes(space)

LEMMA BeginIs ==
    ASSUME NEW at \in Positions, NEW space \in CStrings, NEW room \in Nat
    PROVE  LET b == Begin(at, space, room) IN
           /\ b \in Positions /\ Lead(space, room) \in CStrings /\ LeadWidth(space, room) \in Nat
           /\ b.index = at.index + Len(space) /\ b.out = at.out \o Lead(space, room)
           /\ b.indent = LeadWidth(space, room) /\ b.current = LeadWidth(space, room)
           /\ b.wrapped = FALSE /\ b.dots = FALSE
           /\ count_graphemes(Lead(space, room)) = LeadWidth(space, room)
<1>1. count_graphemes(space) \in Nat /\ Len(space) \in Nat /\ at.index + Len(space) \in Nat
  BY CountBounds, ElementFacts DEF CStrings, Positions
<1>2. <<>> \in CStrings /\ Len(<<>>) = 0
  BY DEF CStrings
<1>3. count_graphemes(<<>>) = 0
  BY <1>2, CountBounds DEF CStrings
<1>. DEFINE w == LeadWidth(space, room)
            l == Lead(space, room)
            o == at.out \o l
<1>4. w \in Nat /\ l \in CStrings /\ count_graphemes(l) = w
  BY <1>1, <1>2, <1>3 DEF LeadWidth, Lead
<1>5. Begin(at, space, room) = [at EXCEPT !.index = @ + Len(space), !.indent = w, !.current = w,
                                         !.wrapped = FALSE, !.dots = FALSE, !.out = o]
  BY DEF Begin, LeadWidth, Lead
<1>. HIDE DEF w, l
<1>6. at.out \in CStrings
  BY DEF Positions
<1>7. o \in CStrings
  BY <1>4, <1>6, TextsConcat
<1>8. o = at.out \o l
  OBVIOUS
<1>. HIDE DEF o
<1>9. LET b == Begin(at, space, room) IN
       /\ b \in Positions /\ b.index = at.index + Len(space) /\ b.out = o /\ b.indent = w /\ b.current = w
       /\ b.wrapped = FALSE /\ b.dots = FALSE
  BY <1>1, <1>4, <1>5, <1>7 DEF Positions
<1>. QED  BY <1>4, <1>8, <1>9 DEF w, l

LEMMA BreakIs ==
    ASSUME NEW at \in Positions
    PROVE  /\ Break(at) \in Positions /\ Break(at).index = at.index /\ Break(at).indent = at.indent
           /\ Break(at).current = at.indent /\ Break(at).wrapped = TRUE /\ Break(at).dots = at.dots
           /\ Break(at).out = (at.out \o LineEnd) \o print_spaces(at.indent)
           /\ at.out \o LineEnd \in CStrings /\ print_spaces(at.indent) \in CStrings
<1>. DEFINE o == (at.out \o LineEnd) \o print_spaces(at.indent)
<1>1. at.out \in CStrings /\ at.indent \in Nat
  BY DEF Positions
<1>2. at.out \o LineEnd \in CStrings /\ print_spaces(at.indent) \in CStrings
  BY <1>1, LineEndFacts, SpacesPrinted, TextsConcat
<1>3. o \in CStrings
  BY <1>2, TextsConcat
<1>4. Break(at) = [at EXCEPT !.out = o, !.current = at.indent, !.wrapped = TRUE]
  BY DEF Break, LineEnd
<1>5. o = (at.out \o LineEnd) \o print_spaces(at.indent)
  OBVIOUS
<1>. HIDE DEF o
<1>6. /\ Break(at) \in Positions /\ Break(at).index = at.index /\ Break(at).indent = at.indent
      /\ Break(at).current = at.indent /\ Break(at).wrapped = TRUE /\ Break(at).dots = at.dots
      /\ Break(at).out = o
  BY <1>1, <1>3, <1>4 DEF Positions
<1>. QED  BY <1>2, <1>5, <1>6

\* Before a word, after it, and after the gap behind it.
AtWord(s, from, room) ==
    IF Overflows(from, count_graphemes(WordAt(s, from.index)), room) THEN Break(from) ELSE from

AfterWord(s, at) ==
    [at EXCEPT !.index = NextAt(s, at.index), !.out = @ \o WordAt(s, at.index),
               !.current = @ + count_graphemes(WordAt(s, at.index)),
               !.indent = IF at.wrapped THEN @ ELSE Indent(s, at, WordAt(s, at.index)),
               !.dots = IF at.wrapped THEN @ ELSE is_all_dots(WordAt(s, at.index))]

Spaced(at, gap) == [at EXCEPT !.out = @ \o gap, !.current = @ + count_graphemes(gap)]

LEMMA WordTurnIs ==
    ASSUME NEW s, NEW from, NEW room, Break(from).index = from.index
    PROVE  LET after == AfterWord(s, AtWord(s, from, room)) IN
           Word_(s, from, room) =
             IF after.current + count_graphemes(GapAt(s, from.index)) < room
             THEN Spaced(after, GapAt(s, from.index))
             ELSE IF Char(s, NextAt(s, from.index)) \in {"\n", Nul} THEN after ELSE Break(after)
<1>1. AtWord(s, from, room).index = from.index
  BY DEF AtWord
<1>. DEFINE b == AtWord(s, from, room)
            i == from.index
            after == [b EXCEPT !.index = NextAt(s, i), !.out = @ \o WordAt(s, i),
                               !.current = @ + count_graphemes(WordAt(s, i)),
                               !.indent = IF b.wrapped THEN @ ELSE Indent(s, b, WordAt(s, i)),
                               !.dots = IF b.wrapped THEN @ ELSE is_all_dots(WordAt(s, i))]
<1>2. AfterWord(s, b) = after
  <2>. HIDE DEF b
  <2>. QED  BY <1>1 DEF AfterWord, b
<1>3. Word_(s, from, room) =
             IF after.current + count_graphemes(GapAt(s, from.index)) < room
             THEN [after EXCEPT !.out = @ \o GapAt(s, i), !.current = @ + count_graphemes(GapAt(s, i))]
             ELSE IF Char(s, NextAt(s, from.index)) \in {"\n", ""} THEN after ELSE Break(after)
  BY DEF Word_, AtWord, WordAt, GapAt, NextAt
<1>. HIDE DEF after, b
<1>. QED  BY <1>2, <1>3 DEF Nul, Spaced, b

LEMMA IndentType ==
    ASSUME NEW s, NEW at \in Positions, NEW word
    PROVE  Indent(s, at, word) \in Nat
<1>1. at.current \in Nat /\ at.indent \in Nat /\ at.current + 2 \in Nat
  BY DEF Positions
<1>2. \/ Indent(s, at, word) = at.current + 2
      \/ Indent(s, at, word) = at.current
      \/ Indent(s, at, word) = at.indent
  BY DEF Indent
<1>. QED  BY <1>1, <1>2

LEMMA PrintedIs ==
    ASSUME NEW s \in Seq(Characters), NEW at \in Positions, at.index \in Starts(s)
    PROVE  LET u == AfterWord(s, at)
               w == WordAt(s, at.index) IN
           /\ u \in Positions /\ u.index = NextAt(s, at.index) /\ u.out = at.out \o w
           /\ u.current = at.current + count_graphemes(w) /\ u.wrapped = at.wrapped
           /\ u.indent = IF at.wrapped THEN at.indent ELSE Indent(s, at, w)
           /\ u.dots = IF at.wrapped THEN at.dots ELSE is_all_dots(w)
<1>. DEFINE w == WordAt(s, at.index)
            n == NextAt(s, at.index)
            i == IF at.wrapped THEN at.indent ELSE Indent(s, at, w)
            d == IF at.wrapped THEN at.dots ELSE is_all_dots(w)
            c == at.current + count_graphemes(w)
            o == at.out \o w
<1>1. at.out \in CStrings /\ at.indent \in Nat /\ at.current \in Nat /\ at.wrapped \in BOOLEAN /\ at.dots \in BOOLEAN
  BY DEF Positions
<1>2. w \in CStrings /\ n \in Nat
  <2>1. find_word_end(s, at.index) \in Nat
    BY PieceFacts
  <2>. QED  BY <2>1, PieceFacts
<1>3. o \in CStrings /\ c \in Nat
  BY <1>1, <1>2, TextsConcat, CountBounds DEF CStrings
<1>4. i \in Nat /\ d \in BOOLEAN
  BY <1>1, IndentType DEF is_all_dots
<1>5. AfterWord(s, at) = [at EXCEPT !.index = n, !.out = o, !.current = c, !.indent = i, !.dots = d]
  BY DEF AfterWord
<1>6. o = at.out \o w /\ c = at.current + count_graphemes(w)
  OBVIOUS
<1>. HIDE DEF o, c, i, d, n
<1>7. LET u == AfterWord(s, at) IN
       u \in Positions /\ u.index = n /\ u.out = o /\ u.current = c /\ u.wrapped = at.wrapped /\ u.indent = i /\ u.dots = d
  BY <1>2, <1>3, <1>4, <1>5 DEF Positions
<1>. QED  BY <1>6, <1>7 DEF i, d, n

LEMMA SpacedIs ==
    ASSUME NEW at \in Positions, NEW gap \in CStrings
    PROVE  LET u == Spaced(at, gap) IN
           /\ u \in Positions /\ u.index = at.index /\ u.out = at.out \o gap
           /\ u.current = at.current + count_graphemes(gap) /\ u.wrapped = at.wrapped
           /\ u.indent = at.indent /\ u.dots = at.dots
<1>. DEFINE c == at.current + count_graphemes(gap)
            o == at.out \o gap
<1>1. at.out \in CStrings /\ at.current \in Nat
  BY DEF Positions
<1>2. o \in CStrings /\ c \in Nat
  BY <1>1, TextsConcat, CountBounds DEF CStrings
<1>3. Spaced(at, gap) = [at EXCEPT !.out = o, !.current = c]
  BY DEF Spaced
<1>4. o = at.out \o gap /\ c = at.current + count_graphemes(gap)
  OBVIOUS
<1>. HIDE DEF o, c
<1>5. LET u == Spaced(at, gap) IN
       u \in Positions /\ u.index = at.index /\ u.out = o /\ u.current = c /\ u.wrapped = at.wrapped
       /\ u.indent = at.indent /\ u.dots = at.dots
  BY <1>1, <1>2, <1>3 DEF Positions
<1>. QED  BY <1>4, <1>5

\* How a turn that prints a word ends.
LEMMA WordTurn ==
    ASSUME NEW s \in Seq(Characters), NEW room \in Nat, NEW from \in Stops(s), from.index \in Starts(s)
    PROVE  LET b     == AtWord(s, from, room)
               after == AfterWord(s, b)
               gap   == GapAt(s, from.index)
               u     == Word_(s, from, room) IN
           /\ b \in Positions /\ b.index = from.index /\ after \in Positions
           /\ \/ u = Spaced(after, gap) /\ after.current + count_graphemes(gap) < room
              \/ /\ u = after
                 /\ NextAt(s, from.index) = Len(s) \/ s[NextAt(s, from.index) + 1] = "\n"
              \/ /\ u = Break(after)
                 /\ NextAt(s, from.index) # Len(s) /\ s[NextAt(s, from.index) + 1] # "\n"
           /\ u \in Positions /\ u.index = NextAt(s, from.index)
<1>. DEFINE b     == AtWord(s, from, room)
            after == AfterWord(s, b)
            gap   == GapAt(s, from.index)
            u     == Word_(s, from, room)
            n     == NextAt(s, from.index)
<1>1. from \in Positions
  BY DEF Stops
<1>2. Break(from).index = from.index /\ Break(from) \in Positions
  BY <1>1, BreakIs
<1>3. b \in Positions /\ b.index = from.index
  BY <1>1, <1>2 DEF AtWord
<1>4. u = IF after.current + count_graphemes(gap) < room THEN Spaced(after, gap)
          ELSE IF Char(s, n) \in {"\n", Nul} THEN after ELSE Break(after)
  BY <1>2, WordTurnIs
<1>. HIDE DEF b
<1>5. after \in Positions /\ after.index = n
  BY <1>3, PrintedIs
<1>6. gap \in CStrings /\ n \in 0 .. Len(s) /\ Len(s) \in Nat
  <2>1. find_word_end(s, from.index) \in Nat
    BY PieceFacts
  <2>. QED  BY <2>1, PieceFacts, ElementFacts
<1>. HIDE DEF after, gap, n, u
<1>7. Char(s, n) \in {"\n", Nul} <=> n = Len(s) \/ s[n + 1] = "\n"
  <2>1. n = Len(s) \/ n \in 0 .. Len(s) - 1
    BY <1>6
  <2>. QED  BY <2>1, CharFacts
<1>8. u \in Positions /\ u.index = n
  BY <1>4, <1>5, <1>6, SpacedIs, BreakIs
<1>. QED  BY <1>3, <1>4, <1>5, <1>7, <1>8 DEF b, after, gap, n, u

\* The indentation at i.
LEMMA IndentationFacts ==
    ASSUME NEW s \in Seq(Characters), NEW i \in 0 .. Len(s), i = 0 \/ s[i] \in Spaces
    PROVE  LET n == find_word_start(s, i)
               space == SubSeq(s, i + 1, n) IN
           /\ n \in i .. Len(s) /\ space \in CStrings /\ Len(space) = n - i
           /\ \A k \in 1 .. n - i : space[k] = s[i + k] /\ space[k] \in Blanks
           /\ n = Len(s) \/ s[n + 1] = "\n" \/ n \in Starts(s)
           /\ SubSeq(s, 1, n) = SubSeq(s, 1, i) \o space
<1>. DEFINE n == find_word_start(s, i)
<1>1. GapTo(s, i, n) /\ Len(s) \in Nat
  BY GapSpan, ElementFacts
<1>. HIDE DEF n
<1>2. n \in i .. Len(s) /\ (n = Len(s) \/ s[n + 1] \notin Blanks) /\ \A k \in i + 1 .. n : s[k] \in Blanks
  BY <1>1 DEF GapTo
<1>3. /\ SubSeq(s, 1, n) = SubSeq(s, 1, i) \o SubSeq(s, i + 1, n)
      /\ SubSeq(s, i + 1, n) \in CStrings /\ Len(SubSeq(s, i + 1, n)) = n - i
      /\ \A k \in 1 .. n - i : SubSeq(s, i + 1, n)[k] = s[i + k]
  BY <1>2, SpanConcat
<1>4. \A k \in 1 .. n - i : i + k \in i + 1 .. n
  BY <1>2
<1>5. n = Len(s) \/ s[n + 1] = "\n" \/ n \in Starts(s)
  <2>1. SUFFICES ASSUME n # Len(s), s[n + 1] # "\n" PROVE n \in Starts(s)
    OBVIOUS
  <2>2. s[n + 1] \notin Spaces /\ n \in 0 .. Len(s) - 1
    BY <1>1, <1>2, <2>1, SpaceFacts
  <2>3. n = 0 \/ s[n] \in Spaces
    <3>1. n = i \/ n \in i + 1 .. n
      BY <1>2
    <3>. QED  BY <1>2, <3>1, SpaceFacts
  <2>. QED  BY <2>2, <2>3, StartsAre
<1>. QED  BY <1>2, <1>3, <1>4, <1>5 DEF n

LEMMA NewLineIs ==
    ASSUME NEW s \in Seq(Characters), NEW room \in Nat, NEW at \in Stops(s), at.index # Len(s),
           s[at.index + 1] = "\n"
    PROVE  LET n == find_word_start(s, at.index + 1)
               space == SubSeq(s, (at.index + 1) + 1, n)
               u == NewLine(s, at, room) IN
           /\ at.index + 1 \in 1 .. Len(s) /\ n \in at.index + 1 .. Len(s)
           /\ space \in CStrings /\ Len(space) = n - (at.index + 1)
           /\ \A k \in 1 .. n - (at.index + 1) : space[k] = s[(at.index + 1) + k] /\ space[k] \in Blanks
           /\ n = Len(s) \/ s[n + 1] = "\n" \/ n \in Starts(s)
           /\ SubSeq(s, 1, n) = (SubSeq(s, 1, at.index) \o LineEnd) \o space
           /\ SubSeq(s, 1, at.index) \in CStrings
           /\ u \in Positions /\ u.index = n /\ u.out = (at.out \o LineEnd) \o Lead(space, room)
           /\ Lead(space, room) \in CStrings /\ at.out \o LineEnd \in CStrings
           /\ u.indent = LeadWidth(space, room) /\ u.current = LeadWidth(space, room)
           /\ u.wrapped = FALSE /\ u.dots = FALSE
<1>. DEFINE i == at.index + 1
            n == find_word_start(s, i)
            space == SubSeq(s, i + 1, n)
            o == at.out \o LineEnd
            x == [at EXCEPT !.index = i, !.out = o]
<1>1. at \in Positions /\ at.index \in 0 .. Len(s) /\ at.out \in CStrings /\ Len(s) \in Nat /\ at.index \in Nat
  BY ElementFacts DEF Stops, Positions
<1>2. i \in 1 .. Len(s) /\ i \in 0 .. Len(s) /\ s[i] \in Spaces /\ i + 1 = at.index + 2 /\ i \in Nat
      /\ at.index + 1 \in at.index + 1 .. i
  BY <1>1, SpaceFacts
<1>3. /\ n \in i .. Len(s) /\ space \in CStrings /\ Len(space) = n - i
      /\ \A k \in 1 .. n - i : space[k] = s[i + k] /\ space[k] \in Blanks
      /\ n = Len(s) \/ s[n + 1] = "\n" \/ n \in Starts(s)
      /\ SubSeq(s, 1, n) = SubSeq(s, 1, i) \o space
  <2>. HIDE DEF i
  <2>. QED  BY <1>2, IndentationFacts
<1>4. SubSeq(s, 1, i) = SubSeq(s, 1, at.index) \o LineEnd /\ SubSeq(s, 1, at.index) \in CStrings
  <2>. DEFINE l == SubSeq(s, at.index + 1, i)
  <2>1. /\ SubSeq(s, 1, i) = SubSeq(s, 1, at.index) \o l /\ SubSeq(s, 1, at.index) \in CStrings
        /\ l \in CStrings /\ Len(l) = i - at.index /\ \A k \in 1 .. i - at.index : l[k] = s[at.index + k]
    <3>1. i \in at.index .. Len(s)
      BY <1>1, <1>2
    <3>. QED  BY <1>1, <3>1, SpanConcat
  <2>2. Len(l) = 1 /\ l[1] = "\n"
    <3>1. i - at.index = 1 /\ 1 \in 1 .. i - at.index
      BY <1>1
    <3>. QED  BY <2>1, <3>1
  <2>. HIDE DEF l
  <2>3. \A k \in 1 .. Len(l) : l[k] = LineEnd[k]
    BY <2>2, LineEndFacts
  <2>4. l = LineEnd
    BY <2>1, <2>2, <2>3, LineEndFacts, SameSequence DEF CStrings
  <2>. QED  BY <2>1, <2>4
<1>5. Append(at.out, "\n") = o /\ o \in CStrings
  <2>1. \A y \in CStrings, c \in Characters : Append(y, c) = y \o <<c>>
    BY DEF CStrings
  <2>2. "\n" \in Characters
    BY SpacesAssumption DEF Spaces
  <2>. QED  BY <1>1, <2>1, <2>2, LineEndFacts, TextsConcat DEF LineEnd
<1>6. NewLine(s, at, room) = Begin(x, space, room)
  BY <1>2, <1>5 DEF NewLine
<1>7. o = at.out \o LineEnd
  OBVIOUS
<1>. HIDE DEF i, n, space, o
<1>8. x \in Positions /\ x.index = i /\ x.out = o
  BY <1>1, <1>2, <1>5 DEF Positions
<1>9. i + Len(space) = n
  BY <1>2, <1>3
<1>. HIDE DEF x
<1>. DEFINE u == NewLine(s, at, room)
<1>10. /\ u \in Positions /\ u.index = n /\ u.out = o \o Lead(space, room) /\ Lead(space, room) \in CStrings
       /\ u.indent = LeadWidth(space, room) /\ u.current = LeadWidth(space, room)
       /\ u.wrapped = FALSE /\ u.dots = FALSE
  <2>. DEFINE b == Begin(x, space, room)
  <2>1. /\ b \in Positions /\ b.index = x.index + Len(space) /\ b.out = x.out \o Lead(space, room)
        /\ b.indent = LeadWidth(space, room) /\ b.current = LeadWidth(space, room)
        /\ b.wrapped = FALSE /\ b.dots = FALSE /\ Lead(space, room) \in CStrings
    BY <1>3, <1>8, BeginIs
  <2>2. u = b
    BY <1>6
  <2>. HIDE DEF b, u
  <2>. QED  BY <1>8, <1>9, <2>1, <2>2
<1>. HIDE DEF u
<1>11. /\ i \in 1 .. Len(s) /\ n \in i .. Len(s) /\ space \in CStrings /\ Len(space) = n - i
       /\ SubSeq(s, 1, n) = (SubSeq(s, 1, at.index) \o LineEnd) \o space
  BY <1>2, <1>3, <1>4
<1>. QED  BY <1>3, <1>4, <1>5, <1>7, <1>10, <1>11 DEF i, n, space, u

FirstStop(s, room) == Begin(Nothing, SubSeq(s, 1, find_word_start(s, 0)), room)

LEMMA FirstIs ==
    ASSUME NEW s \in Seq(Characters), NEW room \in Nat
    PROVE  LET n == find_word_start(s, 0)
               space == SubSeq(s, 1, n)
               u == FirstStop(s, room) IN
           /\ n \in 0 .. Len(s) /\ space \in CStrings /\ Len(space) = n
           /\ \A k \in 1 .. n : space[k] = s[k] /\ space[k] \in Blanks
           /\ n = Len(s) \/ s[n + 1] = "\n" \/ n \in Starts(s)
           /\ u \in Stops(s) /\ u.index = n /\ u.out = Lead(space, room) /\ Lead(space, room) \in CStrings
           /\ u.indent = LeadWidth(space, room) /\ u.current = LeadWidth(space, room)
           /\ u.wrapped = FALSE /\ u.dots = FALSE
<1>. DEFINE n == find_word_start(s, 0)
            space == SubSeq(s, 1, n)
            l == Lead(space, room)
<1>1. 0 \in 0 .. Len(s) /\ Len(s) \in Nat /\ 0 + 1 = 1
  BY ElementFacts
<1>2. /\ n \in 0 .. Len(s) /\ space \in CStrings /\ Len(space) = n - 0
      /\ \A k \in 1 .. n - 0 : space[k] = s[0 + k] /\ space[k] \in Blanks
      /\ n = Len(s) \/ s[n + 1] = "\n" \/ n \in Starts(s)
  BY <1>1, IndentationFacts
<1>3. n - 0 = n /\ \A k \in 1 .. n : 0 + k = k
  BY <1>1, <1>2
<1>4. Nothing \in Positions /\ Nothing.index = 0 /\ Nothing.out = <<>>
  BY DEF Nothing, Positions, CStrings
<1>. DEFINE u == FirstStop(s, room)
<1>. HIDE DEF n, space
<1>5. u = Begin(Nothing, space, room)
  BY DEF FirstStop, n, space
<1>6. /\ u \in Positions /\ u.index = 0 + Len(space) /\ u.out = <<>> \o l /\ l \in CStrings
      /\ u.indent = LeadWidth(space, room) /\ u.current = LeadWidth(space, room)
      /\ u.wrapped = FALSE /\ u.dots = FALSE
  <2>. DEFINE b == Begin(Nothing, space, room)
  <2>1. /\ b \in Positions /\ b.index = Nothing.index + Len(space) /\ b.out = Nothing.out \o l
        /\ b.indent = LeadWidth(space, room) /\ b.current = LeadWidth(space, room)
        /\ b.wrapped = FALSE /\ b.dots = FALSE /\ l \in CStrings
    BY <1>2, <1>4, BeginIs
  <2>2. u = b
    BY <1>5
  <2>. HIDE DEF b, u
  <2>. QED  BY <1>4, <2>1, <2>2
<1>. HIDE DEF u, l
<1>7. u.out = l
  BY <1>6, ConcatEmpty DEF CStrings
<1>8. u.index = n
  BY <1>1, <1>2, <1>3, <1>6
<1>9. u \in Stops(s)
  BY <1>2, <1>6, <1>8 DEF Stops
<1>. QED  BY <1>2, <1>3, <1>6, <1>7, <1>8, <1>9 DEF n, space, u, l

\* The three kinds of turns, and that each gets on.
LEMMA PrintOnIs ==
    ASSUME NEW s \in Seq(Characters), NEW room \in Nat, NEW at \in Stops(s)
    PROVE  /\ at.index = Len(s) => PrintOn(s, at, room) = at
           /\ at.index # Len(s) /\ s[at.index + 1] = "\n" => PrintOn(s, at, room) = NewLine(s, at, room)
           /\ at.index \in Starts(s) => PrintOn(s, at, room) = Word_(s, at, room)
           /\ at.index = Len(s) \/ (at.index # Len(s) /\ s[at.index + 1] = "\n")
                \/ (at.index # Len(s) /\ at.index \in Starts(s))
           /\ PrintOn(s, at, room) \in Stops(s)
           /\ at.index # Len(s) => PrintOn(s, at, room).index \in at.index + 1 .. Len(s)
<1>1. at \in Positions /\ at.index \in 0 .. Len(s) /\ Len(s) \in Nat
      /\ (at.index = Len(s) \/ s[at.index + 1] = "\n" \/ at.index \in Starts(s))
  BY ElementFacts DEF Stops
<1>2. PrintOn(s, at, room) = IF Char(s, at.index) = Nul THEN at
                             ELSE IF Char(s, at.index) = "\n" THEN NewLine(s, at, room)
                             ELSE Word_(s, at, room)
  BY DEF PrintOn, Nul
<1>3. CASE at.index = Len(s)
  <2>1. Char(s, at.index) = Nul /\ at.index \notin Starts(s)
    BY <1>1, <1>3, CharFacts, StartsAre
  <2>. QED  BY <1>1, <1>2, <1>3, <2>1
<1>4. CASE at.index # Len(s) /\ s[at.index + 1] = "\n"
  <2>1. at.index \in 0 .. Len(s) - 1
    BY <1>1, <1>4
  <2>2. Char(s, at.index) = "\n" /\ Char(s, at.index) # Nul /\ at.index \notin Starts(s)
    <3>1. Char(s, at.index) = s[at.index + 1] /\ Char(s, at.index) # Nul
      BY <2>1, CharFacts
    <3>. QED  BY <1>4, <3>1, StartsAre, SpaceFacts
  <2>. DEFINE n == find_word_start(s, at.index + 1)
              u == NewLine(s, at, room)
  <2>3. /\ n \in at.index + 1 .. Len(s) /\ u \in Positions /\ u.index = n
        /\ n = Len(s) \/ s[n + 1] = "\n" \/ n \in Starts(s)
    BY <1>4, NewLineIs
  <2>4. PrintOn(s, at, room) = u
    BY <1>2, <2>2
  <2>. HIDE DEF n, u
  <2>5. u \in Stops(s) /\ u.index \in at.index + 1 .. Len(s)
    BY <1>1, <2>3 DEF Stops
  <2>. QED  BY <1>4, <2>2, <2>4, <2>5 DEF u
<1>5. CASE at.index # Len(s) /\ s[at.index + 1] # "\n"
  <2>1. at.index \in Starts(s) /\ at.index \in 0 .. Len(s) - 1
    BY <1>1, <1>5
  <2>2. Char(s, at.index) # "\n" /\ Char(s, at.index) # Nul
    <3>1. Char(s, at.index) = s[at.index + 1] /\ Char(s, at.index) # Nul
      BY <2>1, CharFacts
    <3>. QED  BY <1>5, <3>1
  <2>. DEFINE e == find_word_end(s, at.index)
              n == NextAt(s, at.index)
              u == Word_(s, at, room)
  <2>3. u \in Positions /\ u.index = n
    BY <2>1, WordTurn
  <2>4. /\ e \in at.index + 1 .. Len(s) /\ n \in e .. Len(s)
        /\ n = Len(s) \/ s[n + 1] = "\n" \/ (n \in Starts(s) /\ n > e)
    BY <2>1, PieceFacts
  <2>5. PrintOn(s, at, room) = u
    BY <1>2, <2>2
  <2>. HIDE DEF e, n, u
  <2>6. n \in 0 .. Len(s) /\ n \in at.index + 1 .. Len(s)
    BY <1>1, <2>4
  <2>7. u \in Stops(s) /\ u.index \in at.index + 1 .. Len(s)
    BY <2>3, <2>4, <2>6 DEF Stops
  <2>. QED  BY <1>5, <2>1, <2>5, <2>7 DEF u
<1>. QED  BY <1>1, <1>3, <1>4, <1>5

\* The turns.
LEMMA TurnsAre ==
    ASSUME NEW s \in Seq(Characters), NEW room \in Nat
    PROVE  /\ Turns(s, room) \in [0 .. Len(s) -> Stops(s)] /\ Turns(s, room)[0] = FirstStop(s, room)
           /\ \A n \in 1 .. Len(s) : Turns(s, room)[n] = PrintOn(s, Turns(s, room)[n - 1], room)
<1>. DEFINE N == Len(s)
            S == Stops(s)
            next == [n \in 1 .. N |-> [x \in S |-> PrintOn(s, x, room)]]
            Body(f) == [n \in 0 .. N |->
                          IF n = 0 THEN Begin(Nothing, SubSeq(s, 1, find_word_start(s, 0)), room)
                          ELSE PrintOn(s, f[n - 1], room)]
            first == FirstStop(s, room)
            upto == CHOOSE f : f = Body(f)
<1>1. N \in Nat
  BY ElementFacts
<1>2. Turns(s, room) = upto
  BY DEF Turns
<1>3. first \in S /\ \A x \in S : PrintOn(s, x, room) \in S
  BY FirstIs, PrintOnIs
<1>. HIDE DEF N, S
<1>4. next \in [1 .. N -> [S -> S]]
  BY <1>3
<1>5. \A n \in 1 .. N, x \in S : next[n][x] = PrintOn(s, x, room)
  OBVIOUS
<1>6. \A n \in 0 .. N : n # 0 => n \in 1 .. N /\ n - 1 \in 0 .. N
  BY <1>1
<1>7. \A f : Body(f) = [n \in 0 .. N |-> IF n = 0 THEN first ELSE PrintOn(s, f[n - 1], room)]
  BY DEF FirstStop
<1>. HIDE DEF next, Body, first
<1>8. PICK g : IsRun(g, S, first, N, next)
  BY <1>1, <1>3, <1>4, Iterates
<1>9. g = Body(g)
  <2>1. g \in [0 .. N -> S] /\ g[0] = first /\ \A n \in 1 .. N : g[n] = next[n][g[n - 1]]
    BY <1>8 DEF IsRun
  <2>2. \A n \in 1 .. N : g[n] = PrintOn(s, g[n - 1], room)
    BY <1>5, <1>6, <2>1
  <2>3. Body(g) = [n \in 0 .. N |-> IF n = 0 THEN first ELSE PrintOn(s, g[n - 1], room)]
    BY <1>7
  <2>. QED  BY <1>6, <2>1, <2>2, <2>3
<1>10. upto = Body(upto)
  BY <1>9
<1>. HIDE DEF upto
<1>11. /\ upto = [n \in 0 .. N |-> upto[n]] /\ upto[0] = first
       /\ \A n \in 1 .. N : upto[n] = PrintOn(s, upto[n - 1], room)
  <2>1. upto = [n \in 0 .. N |-> IF n = 0 THEN first ELSE PrintOn(s, upto[n - 1], room)]
    BY <1>7, <1>10
  <2>2. \A n \in 1 .. N : n \in 0 .. N /\ n # 0
    BY <1>1
  <2>3. 0 \in 0 .. N
    BY <1>1
  <2>. QED  BY <2>1, <2>2, <2>3
<1>12. IsRun(upto, S, first, N, next)
  <2>1. \A n \in 1 .. N : upto[n - 1] \in S => upto[n] = next[n][upto[n - 1]]
    BY <1>5, <1>11
  <2>. QED  BY <1>1, <1>3, <1>4, <1>11, <2>1, ChosenRun
<1>. QED  BY <1>2, <1>11, <1>12 DEF IsRun, N, S, first

\* Once at the end, it stays there; and the turns suffice to get there.
LEMMA TurnsEnd ==
    ASSUME NEW s \in Seq(Characters), NEW room \in Nat
    PROVE  /\ \A n \in 0 .. Len(s) : Turns(s, room)[n].index = Len(s) =>
                 print_wrapped_text(s, room) = Turns(s, room)[n].out
           /\ Turns(s, room)[Len(s)].index = Len(s)
<1>. DEFINE f == Turns(s, room)
<1>1. f \in [0 .. Len(s) -> Stops(s)] /\ (\A n \in 1 .. Len(s) : f[n] = PrintOn(s, f[n - 1], room)) /\ Len(s) \in Nat
  BY TurnsAre, ElementFacts
<1>2. print_wrapped_text(s, room) = f[Len(s)].out
  BY DEF print_wrapped_text
<1>. HIDE DEF f
<1>3. \A n \in 0 .. Len(s) : f[n] \in Stops(s) /\ f[n].index \in 0 .. Len(s)
  BY <1>1 DEF Stops
<1>4. \A n \in 1 .. Len(s) :
        /\ n - 1 \in 0 .. Len(s) /\ n \in 0 .. Len(s) /\ f[n - 1] \in Stops(s) /\ f[n] \in Stops(s)
        /\ f[n - 1].index = Len(s) => f[n] = f[n - 1]
        /\ f[n - 1].index # Len(s) => f[n].index \in f[n - 1].index + 1 .. Len(s)
  <2>1. \A n \in 1 .. Len(s) : n - 1 \in 0 .. Len(s) /\ n \in 0 .. Len(s)
    BY <1>1
  <2>. QED  BY <1>1, <1>3, <2>1, PrintOnIs
<1>5. f[Len(s)].index = Len(s)
  <2>. DEFINE T == {n \in Nat : f[n].index = Len(s) \/ f[n].index >= n}
  <2>1. 0 \in T
    <3>1. 0 \in 0 .. Len(s)
      BY <1>1
    <3>. QED  BY <1>3, <3>1
  <2>2. ASSUME NEW n \in 1 .. Len(s), n - 1 \in T PROVE n \in T
    <3>1. n \in Nat /\ f[n - 1].index \in 0 .. Len(s) /\ (f[n - 1].index = Len(s) \/ f[n - 1].index >= n - 1)
      BY <1>3, <1>4, <2>2
    <3>2. CASE f[n - 1].index = Len(s)
      BY <1>4, <3>1, <3>2
    <3>3. CASE f[n - 1].index # Len(s)
      <4>1. f[n].index \in f[n - 1].index + 1 .. Len(s) /\ f[n - 1].index >= n - 1
        BY <1>4, <3>1, <3>3
      <4>. QED  BY <1>1, <3>1, <4>1
    <3>. QED  BY <3>2, <3>3
  <2>3. Len(s) \in 0 .. Len(s) /\ \A n \in 0 .. Len(s) : n \in T
    <3>. HIDE DEF T
    <3>1. \A n \in 0 .. Len(s) : n \in T
      BY <1>1, <2>1, <2>2, Climb
    <3>. QED  BY <1>1, <3>1
  <2>4. f[Len(s)].index = Len(s) \/ f[Len(s)].index >= Len(s)
    BY <2>3
  <2>. QED  BY <1>1, <1>3, <2>3, <2>4
<1>6. ASSUME NEW n \in 0 .. Len(s), f[n].index = Len(s)
      PROVE  f[Len(s)] = f[n]
  <2>. DEFINE T == {m \in Nat : m >= n => f[m] = f[n]}
  <2>1. 0 \in T
    <3>1. 0 >= n => n = 0
      OBVIOUS
    <3>. QED  BY <3>1
  <2>2. ASSUME NEW m \in 1 .. Len(s), m - 1 \in T PROVE m \in T
    <3>1. m \in Nat /\ m - 1 \in Nat
      OBVIOUS
    <3>2. m >= n => m = n \/ m - 1 >= n
      BY <3>1
    <3>3. m - 1 >= n => f[m - 1] = f[n] /\ f[m] = f[m - 1]
      BY <1>4, <1>6, <2>2
    <3>. QED  BY <3>1, <3>2, <3>3
  <2>3. Len(s) \in 0 .. Len(s) /\ \A m \in 0 .. Len(s) : m \in T
    <3>. HIDE DEF T
    <3>1. \A m \in 0 .. Len(s) : m \in T
      BY <1>1, <2>1, <2>2, Climb
    <3>. QED  BY <1>1, <3>1
  <2>. QED  BY <2>3
<1>. QED  BY <1>2, <1>5, <1>6 DEF f

\* The states of a print.
Reached(s, room) == {Turns(s, room)[n] : n \in 0 .. Len(s)}

LEMMA ReachedFacts ==
    ASSUME NEW s \in Seq(Characters), NEW room \in Nat
    PROVE  /\ Reached(s, room) \subseteq Stops(s) /\ FirstStop(s, room) \in Reached(s, room)
           /\ \A at \in Reached(s, room) :
                /\ at.index # Len(s) => PrintOn(s, at, room) \in Reached(s, room)
                /\ at.index = Len(s) => print_wrapped_text(s, room) = at.out
<1>. DEFINE f == Turns(s, room)
<1>1. /\ f \in [0 .. Len(s) -> Stops(s)] /\ f[0] = FirstStop(s, room) /\ Len(s) \in Nat
      /\ \A n \in 1 .. Len(s) : f[n] = PrintOn(s, f[n - 1], room)
      /\ \A n \in 0 .. Len(s) : f[n].index = Len(s) => print_wrapped_text(s, room) = f[n].out
      /\ f[Len(s)].index = Len(s)
  BY TurnsAre, TurnsEnd, ElementFacts
<1>2. Reached(s, room) = {f[n] : n \in 0 .. Len(s)}
  BY DEF Reached
<1>. HIDE DEF f
<1>3. Reached(s, room) \subseteq Stops(s) /\ FirstStop(s, room) \in Reached(s, room)
  <2>1. 0 \in 0 .. Len(s)
    BY <1>1
  <2>. QED  BY <1>1, <1>2, <2>1
<1>4. ASSUME NEW at \in Reached(s, room), at.index # Len(s) PROVE PrintOn(s, at, room) \in Reached(s, room)
  <2>1. PICK n \in 0 .. Len(s) : at = f[n]
    BY <1>2
  <2>2. n # Len(s)
    BY <1>1, <1>4, <2>1
  <2>3. n + 1 \in 1 .. Len(s) /\ n + 1 \in 0 .. Len(s) /\ (n + 1) - 1 = n
    BY <1>1, <2>2
  <2>4. f[n + 1] = PrintOn(s, at, room)
    BY <1>1, <2>1, <2>3
  <2>. QED  BY <1>2, <2>3, <2>4
<1>. QED  BY <1>1, <1>2, <1>3, <1>4

\* What holds at the beginning, and goes on holding, holds of the state it ends in.
LEMMA PrintedAll ==
    ASSUME NEW s \in Seq(Characters), NEW room \in Nat, NEW T, FirstStop(s, room) \in T,
           \A at \in T \intersect Stops(s) : at.index # Len(s) => PrintOn(s, at, room) \in T
    PROVE  \E at \in T \intersect Stops(s) : at.index = Len(s) /\ at.out = print_wrapped_text(s, room)
<1>. DEFINE f == Turns(s, room)
<1>1. /\ f \in [0 .. Len(s) -> Stops(s)] /\ f[0] = FirstStop(s, room) /\ Len(s) \in Nat
      /\ \A n \in 1 .. Len(s) : f[n] = PrintOn(s, f[n - 1], room)
      /\ \A n \in 0 .. Len(s) : f[n].index = Len(s) => print_wrapped_text(s, room) = f[n].out
      /\ f[Len(s)].index = Len(s)
  BY TurnsAre, TurnsEnd, ElementFacts
<1>. HIDE DEF f
<1>. DEFINE U == {n \in Nat : f[n] \in T}
<1>2. 0 \in U
  BY <1>1
<1>3. ASSUME NEW n \in 1 .. Len(s), n - 1 \in U PROVE n \in U
  <2>1. n \in Nat /\ n - 1 \in 0 .. Len(s) /\ f[n - 1] \in T
    BY <1>1, <1>3
  <2>2. f[n - 1] \in T \intersect Stops(s) /\ f[n] = PrintOn(s, f[n - 1], room)
    BY <1>1, <2>1
  <2>3. f[n] \in T
    <3>1. f[n - 1].index = Len(s) => f[n] = f[n - 1]
      BY <2>2, PrintOnIs
    <3>. QED  BY <2>2, <3>1
  <2>. QED  BY <2>1, <2>3
<1>4. Len(s) \in 0 .. Len(s) /\ \A n \in 0 .. Len(s) : n \in U
  <2>. HIDE DEF U
  <2>1. \A n \in 0 .. Len(s) : n \in U
    BY <1>1, <1>2, <1>3, Climb
  <2>. QED  BY <1>1, <2>1
<1>. QED  BY <1>1, <1>4

-----------------------------------------------------------------------------
(* No word is lost, split or moved.                                        *)

Open(a) == Len(a) = 0 \/ a[Len(a)] \in Spaces
SpacesOnly(g) == \A i \in 1 .. Len(g) : g[i] \in Spaces

LEMMA TextsGlued ==
    ASSUME NEW a \in CStrings, NEW b \in CStrings, NEW c \in CStrings
    PROVE  (a \o b) \o c = a \o (b \o c)
BY DEF CStrings

LEMMA NoText == <<>> \in CStrings /\ Len(<<>>) = 0 /\ \A t \in CStrings : Len(t) = 0 => t = <<>>
<1>1. <<>> \in CStrings /\ Len(<<>>) = 0
  BY DEF CStrings
<1>2. ASSUME NEW t \in CStrings, Len(t) = 0 PROVE t = <<>>
  BY <1>2 DEF CStrings
<1>. QED  BY <1>1, <1>2

\* Spaces add no words, and leave room for one.
LEMMA WordsSpaced ==
    ASSUME NEW a \in CStrings, NEW g \in CStrings, SpacesOnly(g)
    PROVE  /\ a \o g \in CStrings /\ Words(a \o g) = Words(a) /\ Words(a) \in Seq(CStrings)
           /\ Open(a) \/ Len(g) # 0 => Open(a \o g)
<1>1. /\ a \o g \in CStrings /\ Len(a \o g) = Len(a) + Len(g) /\ Len(a) \in Nat /\ Len(g) \in Nat
      /\ \A i \in 1 .. Len(a) : (a \o g)[i] = a[i]
      /\ \A i \in Len(a) + 1 .. Len(a) + Len(g) : (a \o g)[i] = g[i - Len(a)]
  BY ConcatFacts, ElementFacts DEF CStrings
<1>2. Apart(a, g)
  <2>1. Len(g) # 0 => 1 \in 1 .. Len(g)
    BY <1>1
  <2>. QED  BY <1>1, <2>1 DEF Apart, SpacesOnly
<1>3. Words(a \o g) = Words(a) \o Words(g) /\ Words(a) \in Seq(CStrings)
  BY <1>2, WordsConcat DEF CStrings
<1>4. Words(g) = <<>>
  BY NoWords DEF CStrings, SpacesOnly
<1>5. Words(a \o g) = Words(a)
  BY <1>3, <1>4, ConcatEmpty
<1>6. ASSUME Open(a) \/ Len(g) # 0 PROVE Open(a \o g)
  <2>. DEFINE c == a \o g
  <2>1. CASE Len(g) # 0
    <3>1. Len(c) \in Len(a) + 1 .. Len(a) + Len(g) /\ Len(c) - Len(a) \in 1 .. Len(g)
      BY <1>1, <2>1
    <3>2. c[Len(c)] \in Spaces
      BY <1>1, <3>1 DEF SpacesOnly
    <3>. QED  BY <3>2 DEF Open
  <2>2. CASE Len(g) = 0 /\ Open(a)
    <3>1. Len(c) = Len(a) /\ (Len(a) # 0 => Len(a) \in 1 .. Len(a))
      BY <1>1, <2>2
    <3>2. Len(a) # 0 => c[Len(a)] = a[Len(a)]
      BY <1>1, <3>1
    <3>. HIDE DEF c
    <3>3. Open(c)
      BY <2>2, <3>1, <3>2 DEF Open
    <3>. QED  BY <3>3 DEF c
  <2>. QED  BY <1>6, <2>1, <2>2
<1>. QED  BY <1>1, <1>3, <1>5, <1>6

\* A word that is apart from what is before it.
LEMMA WordsOneMore ==
    ASSUME NEW a \in CStrings, Open(a), NEW w \in CStrings, Len(w) # 0, \A i \in 1 .. Len(w) : w[i] \notin Spaces
    PROVE  a \o w \in CStrings /\ Words(a \o w) = Words(a) \o <<w>>
<1>1. Apart(a, w)
  BY DEF Open, Apart
<1>2. Words(a \o w) = Words(a) \o Words(w)
  BY <1>1, WordsConcat DEF CStrings
<1>3. Words(w) = <<w>>
  BY OneWord DEF CStrings
<1>. QED  BY <1>2, <1>3, TextsConcat

\* What is printed of a word: it, between spaces.
LEMMA WordTurnOut ==
    ASSUME NEW s \in Seq(Characters), NEW room \in Nat, NEW from \in Stops(s), from.index \in Starts(s)
    PROVE  LET w == WordAt(s, from.index)
               u == Word_(s, from, room) IN
           \E g \in CStrings, h \in CStrings :
               /\ u.out = ((from.out \o g) \o w) \o h /\ SpacesOnly(g) /\ SpacesOnly(h)
               /\ u.index \in Starts(s) => Len(h) # 0
<1>. DEFINE i     == from.index
            w     == WordAt(s, i)
            n     == NextAt(s, i)
            e     == find_word_end(s, i)
            gap   == GapAt(s, i)
            b     == AtWord(s, from, room)
            after == AfterWord(s, b)
            u     == Word_(s, from, room)
            Ind(k) == LineEnd \o print_spaces(k)
<1>1. from \in Positions /\ from.out \in CStrings
  BY DEF Stops, Positions
<1>2. /\ w \in CStrings /\ gap \in CStrings /\ Len(gap) = n - e /\ n \in e .. Len(s) /\ e \in i + 1 .. Len(s)
      /\ i \in 0 .. Len(s) - 1 /\ Len(s) \in Nat
      /\ \A k \in 1 .. n - e : gap[k] = s[e + k] /\ s[e + k] \in Blanks
      /\ n = Len(s) \/ s[n + 1] = "\n" \/ (n \in Starts(s) /\ n > e)
  BY PieceFacts, ElementFacts
<1>3. /\ b \in Positions /\ b.index = i /\ after \in Positions
      /\ \/ u = Spaced(after, gap) /\ after.current + count_graphemes(gap) < room
         \/ u = after /\ (n = Len(s) \/ s[n + 1] = "\n")
         \/ u = Break(after) /\ n # Len(s) /\ s[n + 1] # "\n"
      /\ u.index = n
  BY WordTurn
<1>4. \A k \in Nat : Ind(k) \in CStrings /\ SpacesOnly(Ind(k)) /\ Len(Ind(k)) # 0
  <2>. SUFFICES ASSUME NEW k \in Nat PROVE Ind(k) \in CStrings /\ SpacesOnly(Ind(k)) /\ Len(Ind(k)) # 0
    OBVIOUS
  <2>. DEFINE p == print_spaces(k)
              t == Ind(k)
  <2>1. p \in CStrings /\ Len(p) = k /\ \A j \in 1 .. k : p[j] \in Spaces
    BY SpacesPrinted, SpaceFacts
  <2>. HIDE DEF p
  <2>2. /\ t \in CStrings /\ Len(t) = 1 + k /\ (\A j \in 1 .. 1 : t[j] = LineEnd[j])
        /\ \A j \in 1 + 1 .. 1 + k : t[j] = p[j - 1]
    <3>1. LineEnd \in Seq(Characters) /\ p \in Seq(Characters)
      BY <2>1, LineEndFacts DEF CStrings
    <3>2. /\ t \in Seq(Characters) /\ Len(t) = Len(LineEnd) + Len(p) /\ (\A j \in 1 .. Len(LineEnd) : t[j] = LineEnd[j])
          /\ \A j \in Len(LineEnd) + 1 .. Len(LineEnd) + Len(p) : t[j] = p[j - Len(LineEnd)]
      BY <3>1, ConcatFacts DEF p
    <3>. HIDE DEF t
    <3>. QED  BY <2>1, <3>2, LineEndFacts DEF CStrings
  <2>. HIDE DEF t
  <2>3. \A j \in 1 .. 1 + k : j \in 1 .. 1 \/ (j \in 1 + 1 .. 1 + k /\ j - 1 \in 1 .. k)
    OBVIOUS
  <2>4. LineEnd[1] \in Spaces /\ \A j \in 1 .. 1 : j = 1
    BY LineEndFacts, SpaceFacts
  <2>5. SpacesOnly(t)
    BY <2>1, <2>2, <2>3, <2>4 DEF SpacesOnly
  <2>. QED  BY <2>2, <2>5 DEF t
<1>5. \A k \in Nat, x \in CStrings : (x \o LineEnd) \o print_spaces(k) = x \o Ind(k)
  BY LineEndFacts, SpacesPrinted, TextsGlued
<1>6. SpacesOnly(<<>>) /\ <<>> \in CStrings /\ SpacesOnly(gap)
  <2>1. SpacesOnly(<<>>) /\ <<>> \in CStrings
    BY NoText DEF SpacesOnly
  <2>2. SpacesOnly(gap)
    BY <1>2, SpaceFacts DEF SpacesOnly
  <2>. QED  BY <2>1, <2>2
<1>7. n \in Starts(s) => n # Len(s) /\ s[n + 1] # "\n"
  <2>1. n \in Starts(s) => n \in 0 .. Len(s) - 1 /\ s[n + 1] \notin Spaces
    BY StartsAre
  <2>. QED  BY <1>2, <2>1, SpaceFacts
<1>8. PICK g \in CStrings : SpacesOnly(g) /\ b.out = from.out \o g
  <2>1. CASE b = from
    <3>1. from.out \o <<>> = from.out
      BY <1>1, ConcatEmpty DEF CStrings
    <3>. QED  BY <1>6, <2>1, <3>1
  <2>2. CASE b = Break(from)
    <3>1. from.indent \in Nat
      BY <1>1 DEF Positions
    <3>2. b.out = from.out \o Ind(from.indent)
      BY <1>1, <1>5, <2>2, <3>1, BreakIs
    <3>. QED  BY <1>4, <3>1, <3>2
  <2>. QED  BY <2>1, <2>2 DEF AtWord
<1>9. after.out = (from.out \o g) \o w /\ after.out \in CStrings
  <2>1. after.out = b.out \o w
    <3>. HIDE DEF b
    <3>. QED  BY <1>3, PrintedIs, ZenonT(60)
  <2>. QED  BY <1>3, <1>8, <2>1 DEF Positions
<1>10. PICK h \in CStrings : /\ u.out = after.out \o h /\ SpacesOnly(h) /\ (n \in Starts(s) => Len(h) # 0)
  <2>. HIDE DEF after, u, n, e, gap, Ind
  <2>1. CASE u = Spaced(after, gap)
    <3>1. u.out = after.out \o gap
      BY <1>2, <1>3, <2>1, SpacedIs
    <3>2. n \in Starts(s) => Len(gap) # 0
      BY <1>2, <1>7
    <3>. QED  BY <1>2, <1>6, <3>1, <3>2
  <2>2. CASE u = after /\ (n = Len(s) \/ s[n + 1] = "\n")
    <3>1. after.out \o <<>> = after.out
      BY <1>9, ConcatEmpty DEF CStrings
    <3>. QED  BY <1>6, <1>7, <2>2, <3>1
  <2>3. CASE u = Break(after)
    <3>1. after.indent \in Nat
      BY <1>3 DEF Positions
    <3>2. u.out = after.out \o Ind(after.indent)
      BY <1>3, <1>5, <1>9, <2>3, <3>1, BreakIs DEF Ind
    <3>. QED  BY <1>4, <3>1, <3>2
  <2>. QED  BY <1>3, <2>1, <2>2, <2>3
<1>. HIDE DEF after, u, n, w, b
<1>11. u.out = ((from.out \o g) \o w) \o h /\ (u.index \in Starts(s) => Len(h) # 0)
  BY <1>3, <1>9, <1>10
<1>. QED  BY <1>8, <1>10, <1>11 DEF u, w

LEMMA WordsKept ==
    ASSUME NEW s \in Seq(Characters), NEW room \in Nat
    PROVE  Words(print_wrapped_text(s, room)) = Words(s)
<1>. DEFINE Upto(i) == SubSeq(s, 1, i)
            T == {at \in Positions : Words(at.out) = Words(Upto(at.index)) /\ (at.index \in Starts(s) => Open(at.out))}
<1>1. FirstStop(s, room) \in T
  <2>. DEFINE n == find_word_start(s, 0)
              u == FirstStop(s, room)
              space == SubSeq(s, 1, n)
              l == Lead(space, room)
  <2>1. /\ n \in 0 .. Len(s) /\ space \in CStrings /\ Len(space) = n
        /\ \A k \in 1 .. n : space[k] = s[k] /\ space[k] \in Blanks
        /\ u \in Stops(s) /\ u.index = n /\ u.out = l /\ l \in CStrings
    BY FirstIs
  <2>. HIDE DEF n, u
  <2>2. SpacesOnly(space) /\ SpacesOnly(<<>>)
    <3>1. SpacesOnly(<<>>)
      BY NoText DEF SpacesOnly
    <3>2. \A k \in 1 .. Len(space) : space[k] \in Blanks
      BY <2>1
    <3>. HIDE DEF space
    <3>. QED  BY <3>1, <3>2, SpaceFacts DEF SpacesOnly
  <2>. HIDE DEF space
  <2>3. l = space \/ l = <<>>
    BY DEF Lead
  <2>4. SpacesOnly(l)
    BY <2>2, <2>3
  <2>. HIDE DEF l
  <2>5. Words(l) = <<>> /\ Words(space) = <<>>
    BY <2>1, <2>2, <2>4, NoWords DEF CStrings, SpacesOnly
  <2>6. Open(l)
    <3>1. Len(l) # 0 => Len(l) \in 1 .. Len(l)
      BY <2>1, ElementFacts DEF CStrings
    <3>. QED  BY <2>4, <3>1 DEF Open, SpacesOnly
  <2>7. Upto(u.index) = space /\ u \in Positions
    BY <2>1 DEF space, Stops
  <2>8. u \in T
    BY <2>1, <2>5, <2>6, <2>7
  <2>. QED  BY <2>8 DEF u
<1>2. ASSUME NEW at \in T \intersect Stops(s), at.index # Len(s) PROVE PrintOn(s, at, room) \in T
  <2>0. /\ Words(at.out) = Words(Upto(at.index)) /\ (at.index \in Starts(s) => Open(at.out))
        /\ at \in Positions /\ at \in Stops(s) /\ at.out \in CStrings /\ at.index \in 0 .. Len(s)
    BY DEF Stops, Positions
  <2>1. CASE s[at.index + 1] = "\n"
    <3>. DEFINE n == find_word_start(s, at.index + 1)
                space == SubSeq(s, (at.index + 1) + 1, n)
                u == NewLine(s, at, room)
                l == Lead(space, room)
                x == at.out \o LineEnd
                y == Upto(at.index) \o LineEnd
    <3>1. /\ space \in CStrings /\ Len(space) = n - (at.index + 1)
          /\ \A k \in 1 .. n - (at.index + 1) : space[k] = s[(at.index + 1) + k] /\ space[k] \in Blanks
          /\ Upto(n) = y \o space /\ Upto(at.index) \in CStrings
          /\ u \in Positions /\ u.index = n /\ u.out = x \o l /\ l \in CStrings /\ x \in CStrings
      BY <1>2, <2>0, <2>1, NewLineIs
    <3>. HIDE DEF n, u
    <3>2. SpacesOnly(space) /\ SpacesOnly(<<>>)
      <4>1. SpacesOnly(<<>>)
        BY NoText DEF SpacesOnly
      <4>2. \A k \in 1 .. Len(space) : space[k] \in Blanks
        BY <3>1
      <4>. HIDE DEF space
      <4>. QED  BY <4>1, <4>2, SpaceFacts DEF SpacesOnly
    <3>. HIDE DEF space
    <3>3. SpacesOnly(l)
      BY <3>2 DEF Lead
    <3>4. SpacesOnly(LineEnd) /\ Len(LineEnd) # 0 /\ LineEnd \in CStrings
      <4>1. \A i \in 1 .. 1 : i = 1
        OBVIOUS
      <4>. QED  BY <4>1, LineEndFacts, SpaceFacts DEF SpacesOnly
    <3>5. Words(x) = Words(at.out) /\ Open(x) /\ Words(y) = Words(Upto(at.index)) /\ y \in CStrings
      BY <2>0, <3>1, <3>4, WordsSpaced
    <3>. HIDE DEF x, y, l, Upto
    <3>6. Words(x \o l) = Words(x) /\ Open(x \o l) /\ Words(y \o space) = Words(y)
      BY <3>1, <3>2, <3>3, <3>5, WordsSpaced
    <3>7. u \in T
      BY <2>0, <3>1, <3>5, <3>6
    <3>8. PrintOn(s, at, room) = u
      BY <1>2, <2>0, <2>1, PrintOnIs DEF u
    <3>. QED  BY <3>7, <3>8
  <2>2. CASE at.index \in Starts(s)
    <3>. DEFINE i == at.index
                w == WordAt(s, i)
                u == Word_(s, at, room)
                n == NextAt(s, i)
                e == find_word_end(s, i)
                gap == GapAt(s, i)
    <3>1. /\ w \in CStrings /\ Len(w) = e - i /\ e \in i + 1 .. Len(s) /\ gap \in CStrings /\ Len(gap) = n - e
          /\ \A k \in 1 .. e - i : w[k] = s[i + k] /\ s[i + k] \notin Spaces
          /\ \A k \in 1 .. n - e : gap[k] = s[e + k] /\ s[e + k] \in Blanks
          /\ Upto(n) = (Upto(i) \o w) \o gap /\ i \in 0 .. Len(s) - 1
      BY <2>2, PieceFacts
    <3>2. u \in Positions /\ u.index = n
      BY <2>0, <2>2, WordTurn
    <3>3. PICK g \in CStrings, h \in CStrings :
             /\ u.out = ((at.out \o g) \o w) \o h /\ SpacesOnly(g) /\ SpacesOnly(h)
             /\ u.index \in Starts(s) => Len(h) # 0
      BY <2>0, <2>2, WordTurnOut
    <3>4. Upto(i) \in CStrings /\ Len(Upto(i)) = i /\ \A k \in 1 .. i : Upto(i)[k] = s[k]
      <4>1. i \in i .. Len(s)
        BY <3>1
      <4>. QED  BY <2>0, <4>1, SpanConcat
    <3>5. Len(w) # 0 /\ (\A k \in 1 .. Len(w) : w[k] \notin Spaces) /\ SpacesOnly(gap)
      <4>1. Len(w) # 0
        BY <3>1
      <4>2. SpacesOnly(gap)
        <5>1. \A k \in 1 .. Len(gap) : gap[k] \in Blanks
          BY <3>1
        <5>. QED  BY <5>1, SpaceFacts DEF SpacesOnly
      <4>. QED  BY <3>1, <4>1, <4>2
    <3>6. Open(Upto(i))
      <4>1. i = 0 \/ s[i] \in Spaces
        BY <2>2, StartsAre
      <4>2. i # 0 => i \in 1 .. i
        BY <3>1
      <4>. HIDE DEF Upto
      <4>. QED  BY <3>4, <4>1, <4>2 DEF Open
    <3>7. PrintOn(s, at, room) = u
      BY <2>0, <2>2, PrintOnIs
    <3>. HIDE DEF w, u, n, gap, Upto
    <3>. DEFINE x == at.out \o g
                y == x \o w
                z == Upto(i) \o w
    <3>8. x \in CStrings /\ Words(x) = Words(at.out) /\ Open(x)
      BY <2>0, <2>2, <3>3, WordsSpaced
    <3>9. z \in CStrings /\ Words(z) = Words(Upto(i)) \o <<w>>
      BY <3>1, <3>4, <3>5, <3>6, WordsOneMore
    <3>. HIDE DEF x, z
    <3>10. y \in CStrings /\ Words(y) = Words(x) \o <<w>>
      BY <3>1, <3>5, <3>8, WordsOneMore
    <3>. HIDE DEF y
    <3>11. /\ Words(y \o h) = Words(y) /\ (Len(h) # 0 => Open(y \o h))
           /\ Words(z \o gap) = Words(z)
      BY <3>1, <3>3, <3>5, <3>9, <3>10, WordsSpaced
    <3>12. u.out = y \o h /\ Upto(n) = z \o gap
      BY <3>1, <3>3 DEF x, y, z
    <3>13. Words(u.out) = Words(Upto(n))
      BY <2>0, <3>8, <3>9, <3>10, <3>11, <3>12
    <3>14. u \in T
      BY <3>2, <3>3, <3>11, <3>12, <3>13
    <3>. QED  BY <3>7, <3>14
  <2>. QED  BY <1>2, <2>0, <2>1, <2>2, PrintOnIs
<1>. HIDE DEF T
<1>3. PICK at \in T \intersect Stops(s) : at.index = Len(s) /\ at.out = print_wrapped_text(s, room)
  BY <1>1, <1>2, PrintedAll
<1>4. Upto(Len(s)) = s
  <2>1. Len(s) \in 0 .. Len(s)
    BY ElementFacts
  <2>2. Upto(Len(s)) \in Seq(Characters) /\ Len(Upto(Len(s))) = Len(s) /\ \A k \in 1 .. Len(s) : Upto(Len(s))[k] = s[k]
    BY <2>1, FrontFacts
  <2>. HIDE DEF Upto
  <2>. QED  BY <2>2, SameSequence
<1>. HIDE DEF Upto
<1>. QED  BY <1>3, <1>4 DEF T

-----------------------------------------------------------------------------
(* Each line of the text is printed by itself.                             *)

Joined(a, b) == (a \o LineEnd) \o b

LEMMA JoinedFacts ==
    ASSUME NEW a \in CStrings, NEW b \in CStrings
    PROVE  LET c == Joined(a, b) IN
           /\ c \in CStrings /\ Len(c) = Len(a) + 1 + Len(b) /\ Len(a) \in Nat /\ Len(b) \in Nat
           /\ \A k \in 1 .. Len(a) : c[k] = a[k]
           /\ c[Len(a) + 1] = "\n"
           /\ \A k \in 1 .. Len(b) : c[Len(a) + 1 + k] = b[k]
<1>. DEFINE d == a \o LineEnd
            c == d \o b
<1>1. Len(a) \in Nat /\ Len(b) \in Nat /\ Len(LineEnd) = 1 /\ LineEnd \in CStrings
  BY LineEndFacts, ElementFacts DEF CStrings
<1>2. /\ d \in CStrings /\ Len(d) = Len(a) + 1 /\ (\A k \in 1 .. Len(a) : d[k] = a[k]) /\ d[Len(a) + 1] = "\n"
  <2>1. /\ d \in CStrings /\ Len(d) = Len(a) + Len(LineEnd) /\ (\A k \in 1 .. Len(a) : d[k] = a[k])
        /\ \A k \in Len(a) + 1 .. Len(a) + Len(LineEnd) : d[k] = LineEnd[k - Len(a)]
    BY <1>1, ConcatFacts DEF CStrings
  <2>2. Len(a) + 1 \in Len(a) + 1 .. Len(a) + Len(LineEnd) /\ (Len(a) + 1) - Len(a) = 1
    BY <1>1
  <2>. HIDE DEF d
  <2>. QED  BY <1>1, <2>1, <2>2, LineEndFacts
<1>. HIDE DEF d
<1>3. /\ c \in CStrings /\ Len(c) = Len(d) + Len(b) /\ (\A k \in 1 .. Len(d) : c[k] = d[k])
      /\ \A k \in Len(d) + 1 .. Len(d) + Len(b) : c[k] = b[k - Len(d)]
  BY <1>2, ConcatFacts DEF CStrings
<1>. HIDE DEF c
<1>4. \A k \in 1 .. Len(a) : k \in 1 .. Len(d)
  BY <1>1, <1>2
<1>5. Len(a) + 1 \in 1 .. Len(d)
  BY <1>1, <1>2
<1>6. \A k \in 1 .. Len(b) : Len(a) + 1 + k \in Len(d) + 1 .. Len(d) + Len(b) /\ (Len(a) + 1 + k) - Len(d) = k
  BY <1>1, <1>2
<1>7. c = Joined(a, b)
  BY DEF Joined, c, d
<1>8. Len(c) = Len(a) + 1 + Len(b)
  BY <1>1, <1>2, <1>3
<1>9. (\A k \in 1 .. Len(a) : c[k] = a[k]) /\ c[Len(a) + 1] = "\n"
  BY <1>2, <1>3, <1>4, <1>5
<1>10. \A k \in 1 .. Len(b) : c[Len(a) + 1 + k] = b[k]
  BY <1>3, <1>6
<1>. QED  BY <1>1, <1>3, <1>7, <1>8, <1>9, <1>10

\* What the functions find before the line end,
LEMMA FoundBefore ==
    ASSUME NEW a \in CStrings, NEW b \in CStrings, NEW i \in 0 .. Len(a)
    PROVE  LET c == Joined(a, b) IN
           /\ find_word_end(c, i) = find_word_end(a, i) /\ find_word_end(a, i) \in i .. Len(a)
           /\ find_word_start(c, i) = find_word_start(a, i) /\ find_word_start(a, i) \in i .. Len(a)
           /\ i # Len(a) => (i \in Starts(c) <=> i \in Starts(a)) /\ c[i + 1] = a[i + 1]
           /\ Char(c, i) = IF i = Len(a) THEN "\n" ELSE Char(a, i)
<1>. DEFINE c == Joined(a, b)
<1>1. /\ c \in CStrings /\ Len(c) = Len(a) + 1 + Len(b) /\ Len(a) \in Nat /\ Len(b) \in Nat
      /\ \A k \in 1 .. Len(a) : c[k] = a[k]
      /\ c[Len(a) + 1] = "\n"
  BY JoinedFacts
<1>. HIDE DEF c
<1>2. i \in 0 .. Len(c) /\ i \in Nat /\ i \in 0 .. Len(c) - 1 /\ a \in Seq(Characters) /\ c \in Seq(Characters)
  BY <1>1 DEF CStrings
<1>3. ASSUME NEW j \in i .. Len(a)
      PROVE  /\ j \in i .. Len(c) /\ \A k \in i + 1 .. j : c[k] = a[k]
             /\ j = Len(a) \/ (j # Len(c) /\ c[j + 1] = a[j + 1])
             /\ j = Len(a) => j # Len(c) /\ c[j + 1] = "\n"
  <2>1. \A k \in i + 1 .. j : k \in 1 .. Len(a)
    BY <1>2
  <2>2. j = Len(a) \/ j + 1 \in 1 .. Len(a)
    BY <1>1, <1>2
  <2>3. j \in i .. Len(c) /\ j # Len(c)
    BY <1>1, <1>2
  <2>. QED  BY <1>1, <2>1, <2>2, <2>3
<1>4. find_word_end(c, i) = find_word_end(a, i) /\ find_word_end(a, i) \in i .. Len(a)
  <2>. DEFINE j == find_word_end(a, i)
  <2>1. WordTo(a, i, j)
    BY <1>2, WordSpan
  <2>. HIDE DEF j
  <2>2. j \in i .. Len(a) /\ (j = Len(a) \/ a[j + 1] \in Spaces) /\ \A k \in i + 1 .. j : a[k] \notin Spaces
    BY <2>1 DEF WordTo
  <2>3. WordTo(c, i, j)
    BY <1>3, <2>2, SpaceFacts DEF WordTo
  <2>. QED  BY <1>2, <2>2, <2>3, WordSpan DEF j
<1>5. find_word_start(c, i) = find_word_start(a, i) /\ find_word_start(a, i) \in i .. Len(a)
  <2>. DEFINE j == find_word_start(a, i)
  <2>1. GapTo(a, i, j)
    BY <1>2, GapSpan
  <2>. HIDE DEF j
  <2>2. j \in i .. Len(a) /\ (j = Len(a) \/ a[j + 1] \notin Blanks) /\ \A k \in i + 1 .. j : a[k] \in Blanks
    BY <2>1 DEF GapTo
  <2>3. GapTo(c, i, j)
    BY <1>3, <2>2, SpaceFacts DEF GapTo
  <2>. QED  BY <1>2, <2>2, <2>3, GapSpan DEF j
<1>6. ASSUME i # Len(a) PROVE (i \in Starts(c) <=> i \in Starts(a)) /\ c[i + 1] = a[i + 1]
  <2>1. i \in 0 .. Len(a) - 1 /\ i + 1 \in 1 .. Len(a) /\ (i = 0 \/ i \in 1 .. Len(a))
    BY <1>1, <1>6
  <2>. QED  BY <1>1, <1>2, <2>1, StartsAre
<1>7. Char(c, i) = IF i = Len(a) THEN "\n" ELSE Char(a, i)
  <2>1. Char(c, i) = c[i + 1]
    BY <1>2, CharFacts
  <2>2. i # Len(a) => Char(a, i) = a[i + 1]
    <3>1. i # Len(a) => i \in 0 .. Len(a) - 1
      BY <1>1
    <3>. QED  BY <1>2, <3>1, CharFacts
  <2>. QED  BY <1>1, <1>6, <2>1, <2>2
<1>. QED  BY <1>4, <1>5, <1>6, <1>7 DEF c

LEMMA Shifted ==
    ASSUME NEW m \in Nat, NEW n \in Nat, NEW i \in 0 .. n
    PROVE  m + i \in 0 .. m + n /\ (m + i = m + n <=> i = n) /\ i \in Nat
OBVIOUS

\* and behind it.
LEMMA FoundBehind ==
    ASSUME NEW a \in CStrings, NEW b \in CStrings, NEW i \in 0 .. Len(b)
    PROVE  LET c == Joined(a, b)
               m == Len(a) + 1 IN
           /\ m + i \in 0 .. Len(c) /\ (m + i = Len(c) <=> i = Len(b)) /\ m \in Nat
           /\ find_word_end(c, m + i) = m + find_word_end(b, i) /\ find_word_end(b, i) \in i .. Len(b)
           /\ find_word_start(c, m + i) = m + find_word_start(b, i) /\ find_word_start(b, i) \in i .. Len(b)
           /\ i # Len(b) => (m + i \in Starts(c) <=> i \in Starts(b)) /\ c[(m + i) + 1] = b[i + 1]
           /\ Char(c, m + i) = Char(b, i)
<1>. DEFINE c == Joined(a, b)
            m == Len(a) + 1
<1>1. /\ c \in CStrings /\ Len(c) = m + Len(b) /\ Len(a) \in Nat /\ Len(b) \in Nat
      /\ c[m] = "\n"
      /\ \A k \in 1 .. Len(b) : c[m + k] = b[k]
  BY JoinedFacts
<1>. HIDE DEF c
<1>2. m \in Nat /\ m >= 1
  BY <1>1
<1>. HIDE DEF m
<1>3. /\ m + i \in 0 .. Len(c) /\ (m + i = Len(c) <=> i = Len(b)) /\ i \in Nat
      /\ b \in Seq(Characters) /\ c \in Seq(Characters)
  <2>1. m + i \in 0 .. m + Len(b) /\ (m + i = m + Len(b) <=> i = Len(b)) /\ i \in Nat
    BY <1>1, <1>2, Shifted
  <2>. QED  BY <1>1, <2>1 DEF CStrings
<1>4. ASSUME NEW j \in i .. Len(b)
      PROVE  /\ m + j \in m + i .. Len(c) /\ (m + j = Len(c) <=> j = Len(b))
             /\ \A k \in (m + i) + 1 .. m + j : k - m \in i + 1 .. j /\ c[k] = b[k - m]
             /\ j # Len(b) => c[(m + j) + 1] = b[j + 1]
  <2>1. \A k \in (m + i) + 1 .. m + j : k - m \in i + 1 .. j /\ k - m \in 1 .. Len(b) /\ m + (k - m) = k
    BY <1>2, <1>3
  <2>2. j # Len(b) => j + 1 \in 1 .. Len(b) /\ (m + j) + 1 = m + (j + 1)
    BY <1>1, <1>2, <1>3
  <2>3. m + j \in m + i .. Len(c) /\ (m + j = Len(c) <=> j = Len(b))
    <3>1. j \in 0 .. Len(b) /\ j >= i
      BY <1>1, <1>3
    <3>2. m + j \in 0 .. m + Len(b) /\ (m + j = m + Len(b) <=> j = Len(b)) /\ m + j >= m + i
      BY <1>1, <1>2, <1>3, <3>1, Shifted
    <3>3. m + j \in m + i .. m + Len(b)
      BY <1>2, <1>3, <3>2
    <3>. QED  BY <1>1, <3>2, <3>3
  <2>4. \A k \in (m + i) + 1 .. m + j : c[k] = b[k - m]
    <3>1. \A k \in (m + i) + 1 .. m + j : c[m + (k - m)] = b[k - m]
      BY <1>1, <2>1
    <3>. QED  BY <2>1, <3>1
  <2>5. j # Len(b) => c[(m + j) + 1] = b[j + 1]
    <3>1. j # Len(b) => c[m + (j + 1)] = b[j + 1]
      BY <1>1, <2>2
    <3>. QED  BY <2>2, <3>1
  <2>. QED  BY <2>1, <2>3, <2>4, <2>5
<1>5. find_word_end(c, m + i) = m + find_word_end(b, i) /\ find_word_end(b, i) \in i .. Len(b)
  <2>. DEFINE j == find_word_end(b, i)
  <2>1. WordTo(b, i, j)
    BY <1>3, WordSpan
  <2>. HIDE DEF j
  <2>2. j \in i .. Len(b) /\ (j = Len(b) \/ b[j + 1] \in Spaces) /\ \A k \in i + 1 .. j : b[k] \notin Spaces
    BY <2>1 DEF WordTo
  <2>3. WordTo(c, m + i, m + j)
    BY <1>4, <2>2 DEF WordTo
  <2>. QED  BY <1>3, <2>2, <2>3, WordSpan DEF j
<1>6. find_word_start(c, m + i) = m + find_word_start(b, i) /\ find_word_start(b, i) \in i .. Len(b)
  <2>. DEFINE j == find_word_start(b, i)
  <2>1. GapTo(b, i, j)
    BY <1>3, GapSpan
  <2>. HIDE DEF j
  <2>2. j \in i .. Len(b) /\ (j = Len(b) \/ b[j + 1] \notin Blanks) /\ \A k \in i + 1 .. j : b[k] \in Blanks
    BY <2>1 DEF GapTo
  <2>3. GapTo(c, m + i, m + j)
    BY <1>4, <2>2 DEF GapTo
  <2>. QED  BY <1>3, <2>2, <2>3, GapSpan DEF j
<1>7. ASSUME i # Len(b) PROVE (m + i \in Starts(c) <=> i \in Starts(b)) /\ c[(m + i) + 1] = b[i + 1]
  <2>1. c[(m + i) + 1] = b[i + 1]
    <3>1. i \in i .. Len(b)
      BY <1>3
    <3>. QED  BY <1>4, <1>7, <3>1
  <2>2. i \in 0 .. Len(b) - 1 /\ m + i \in 0 .. Len(c) - 1 /\ m + i # 0
    BY <1>1, <1>2, <1>3, <1>7
  <2>3. i = 0 => m + i = m /\ c[m + i] \in Spaces
    <3>1. i = 0 => m + i = m
      BY <1>2
    <3>. QED  BY <1>1, <3>1, SpaceFacts
  <2>4. i # 0 => c[m + i] = b[i]
    <3>1. i # 0 => i \in 1 .. Len(b)
      BY <1>3
    <3>. QED  BY <1>1, <3>1
  <2>. QED  BY <1>3, <2>1, <2>2, <2>3, <2>4, StartsAre
<1>8. Char(c, m + i) = Char(b, i)
  <2>1. CASE i = Len(b)
    BY <1>3, <2>1, CharFacts
  <2>2. CASE i # Len(b)
    <3>1. i \in 0 .. Len(b) - 1 /\ m + i \in 0 .. Len(c) - 1
      BY <1>1, <1>2, <1>3, <2>2
    <3>2. Char(c, m + i) = c[(m + i) + 1] /\ Char(b, i) = b[i + 1]
      BY <1>3, <3>1, CharFacts
    <3>. QED  BY <1>7, <2>2, <3>2
  <2>. QED  BY <2>1, <2>2
<1>. QED  BY <1>2, <1>3, <1>5, <1>6, <1>7, <1>8 DEF c, m

\* The same piece of two texts.
LEMMA SamePiece ==
    ASSUME NEW s \in CStrings, NEW t \in CStrings, NEW m \in Nat, NEW i \in 0 .. Len(t), NEW j \in i .. Len(t),
           m + j \in 0 .. Len(s), \A k \in i + 1 .. j : s[m + k] = t[k]
    PROVE  SubSeq(s, (m + i) + 1, m + j) = SubSeq(t, i + 1, j)
<1>. DEFINE x == SubSeq(s, (m + i) + 1, m + j)
            y == SubSeq(t, i + 1, j)
<1>1. Len(t) \in Nat /\ Len(s) \in Nat /\ s \in Seq(Characters) /\ t \in Seq(Characters) /\ i \in Nat /\ j \in Nat
  BY ElementFacts DEF CStrings
<1>2. m + i \in 0 .. Len(s) /\ m + j \in m + i .. Len(s)
  BY <1>1
<1>3. /\ x \in CStrings /\ Len(x) = (m + j) - (m + i)
      /\ \A k \in 1 .. (m + j) - (m + i) : x[k] = s[(m + i) + k]
  BY <1>1, <1>2, SpanConcat
<1>4. y \in CStrings /\ Len(y) = j - i /\ \A k \in 1 .. j - i : y[k] = t[i + k]
  BY <1>1, SpanConcat
<1>. HIDE DEF x, y
<1>5. (m + j) - (m + i) = j - i /\ \A k \in 1 .. j - i : (m + i) + k = m + (i + k) /\ i + k \in i + 1 .. j
  BY <1>1
<1>6. \A k \in 1 .. j - i : x[k] = y[k]
  BY <1>3, <1>4, <1>5
<1>7. Len(x) = Len(y) /\ \A k \in 1 .. Len(x) : x[k] = y[k]
  BY <1>3, <1>4, <1>5, <1>6
<1>8. x = y
  BY <1>3, <1>4, <1>7, SameSequence DEF CStrings
<1>. QED  BY <1>8 DEF x, y

LEMMA SamePrints ==
    ASSUME NEW x \in Positions, NEW y \in Positions, x.index = y.index, x.indent = y.indent, x.current = y.current,
           x.wrapped = y.wrapped, x.dots = y.dots, x.out = y.out
    PROVE  x = y
BY DEF Positions

\* The same, farther on in a text, and behind more output.
Moved(u, m, o) == [u EXCEPT !.index = m + @, !.out = o \o @]

LEMMA MovedIs ==
    ASSUME NEW u \in Positions, NEW m \in Nat, NEW o \in CStrings
    PROVE  LET v == Moved(u, m, o) IN
           /\ v \in Positions /\ v.index = m + u.index /\ v.out = o \o u.out /\ v.indent = u.indent
           /\ v.current = u.current /\ v.wrapped = u.wrapped /\ v.dots = u.dots
<1>. DEFINE x == o \o u.out
            n == m + u.index
<1>1. u.out \in CStrings /\ u.index \in Nat
  BY DEF Positions
<1>2. x \in CStrings /\ n \in Nat
  BY <1>1, TextsConcat
<1>3. Moved(u, m, o) = [u EXCEPT !.index = n, !.out = x]
  BY DEF Moved
<1>4. x = o \o u.out /\ n = m + u.index
  OBVIOUS
<1>. HIDE DEF x, n
<1>5. LET v == Moved(u, m, o) IN
       /\ v \in Positions /\ v.index = n /\ v.out = x /\ v.indent = u.indent
       /\ v.current = u.current /\ v.wrapped = u.wrapped /\ v.dots = u.dots
  BY <1>2, <1>3 DEF Positions
<1>. QED  BY <1>4, <1>5

\* Not at all.
LEMMA Unmoved ==
    ASSUME NEW u \in Positions
    PROVE  Moved(u, 0, <<>>) = u
<1>. DEFINE v == Moved(u, 0, <<>>)
<1>1. /\ v \in Positions /\ v.index = 0 + u.index /\ v.out = <<>> \o u.out /\ v.indent = u.indent
      /\ v.current = u.current /\ v.wrapped = u.wrapped /\ v.dots = u.dots
  BY MovedIs, NoText, ZenonT(60)
<1>2. u.out \in CStrings /\ u.index \in Nat
  BY DEF Positions
<1>. HIDE DEF v
<1>3. v.index = u.index /\ v.out = u.out
  BY <1>1, <1>2, ConcatEmpty DEF CStrings
<1>4. v = u
  BY <1>1, <1>3, SamePrints
<1>. QED  BY <1>4 DEF v

LEMMA MovedBreak ==
    ASSUME NEW u \in Positions, NEW m \in Nat, NEW o \in CStrings
    PROVE  Break(Moved(u, m, o)) = Moved(Break(u), m, o)
<1>. DEFINE v == Moved(u, m, o)
            x == Break(v)
            y == Moved(Break(u), m, o)
            p == print_spaces(u.indent)
<1>1. /\ v \in Positions /\ v.index = m + u.index /\ v.out = o \o u.out /\ v.indent = u.indent
      /\ v.current = u.current /\ v.wrapped = u.wrapped /\ v.dots = u.dots
  BY MovedIs
<1>. HIDE DEF v
<1>2. /\ x \in Positions /\ x.index = v.index /\ x.indent = v.indent
      /\ x.current = v.indent /\ x.wrapped = TRUE /\ x.dots = v.dots
      /\ x.out = (v.out \o LineEnd) \o print_spaces(v.indent)
  BY <1>1, BreakIs
<1>3. /\ Break(u) \in Positions /\ Break(u).index = u.index /\ Break(u).indent = u.indent
      /\ Break(u).current = u.indent /\ Break(u).wrapped = TRUE /\ Break(u).dots = u.dots
      /\ Break(u).out = (u.out \o LineEnd) \o p /\ u.out \o LineEnd \in CStrings /\ p \in CStrings /\ u.out \in CStrings
  BY BreakIs DEF Positions
<1>4. /\ y \in Positions /\ y.index = m + Break(u).index /\ y.out = o \o Break(u).out /\ y.indent = Break(u).indent
      /\ y.current = Break(u).current /\ y.wrapped = Break(u).wrapped /\ y.dots = Break(u).dots
  BY <1>3, MovedIs
<1>. HIDE DEF x, y, p
<1>5. ((o \o u.out) \o LineEnd) \o p = o \o ((u.out \o LineEnd) \o p)
  <2>. DEFINE q == u.out \o LineEnd
              r == (o \o u.out) \o LineEnd
  <2>1. r = o \o q /\ q \in CStrings
    BY <1>3, LineEndFacts, TextsGlued, ZenonT(60)
  <2>. HIDE DEF q, r
  <2>2. r \o p = o \o (q \o p)
    BY <1>3, <2>1, TextsGlued, ZenonT(60)
  <2>. QED  BY <2>2 DEF q, r
<1>6. x.out = y.out
  BY <1>1, <1>2, <1>3, <1>4, <1>5 DEF p
<1>7. x = y
  <2>1. /\ x.index = y.index /\ x.indent = y.indent /\ x.current = y.current
        /\ x.wrapped = y.wrapped /\ x.dots = y.dots /\ x.out = y.out
    BY <1>1, <1>2, <1>3, <1>4, <1>6
  <2>. QED  BY <1>2, <1>4, <2>1, SamePrints
<1>. QED  BY <1>7 DEF x, y, v

LEMMA MovedSpaced ==
    ASSUME NEW u \in Positions, NEW m \in Nat, NEW o \in CStrings, NEW gap \in CStrings
    PROVE  Spaced(Moved(u, m, o), gap) = Moved(Spaced(u, gap), m, o)
<1>. DEFINE v == Moved(u, m, o)
            x == Spaced(v, gap)
            z == Spaced(u, gap)
            y == Moved(z, m, o)
<1>1. /\ v \in Positions /\ v.index = m + u.index /\ v.out = o \o u.out /\ v.indent = u.indent
      /\ v.current = u.current /\ v.wrapped = u.wrapped /\ v.dots = u.dots
  BY MovedIs
<1>. HIDE DEF v
<1>2. /\ x \in Positions /\ x.index = v.index /\ x.out = v.out \o gap
      /\ x.current = v.current + count_graphemes(gap) /\ x.wrapped = v.wrapped
      /\ x.indent = v.indent /\ x.dots = v.dots
  BY <1>1, SpacedIs
<1>3. /\ z \in Positions /\ z.index = u.index /\ z.out = u.out \o gap
      /\ z.current = u.current + count_graphemes(gap) /\ z.wrapped = u.wrapped
      /\ z.indent = u.indent /\ z.dots = u.dots /\ u.out \in CStrings
  BY SpacedIs DEF Positions
<1>. HIDE DEF z
<1>4. /\ y \in Positions /\ y.index = m + z.index /\ y.out = o \o z.out /\ y.indent = z.indent
      /\ y.current = z.current /\ y.wrapped = z.wrapped /\ y.dots = z.dots
  BY <1>3, MovedIs
<1>. HIDE DEF x, y
<1>5. (o \o u.out) \o gap = o \o (u.out \o gap)
  BY <1>3, TextsGlued
<1>6. x = y
  <2>1. /\ x.index = y.index /\ x.indent = y.indent /\ x.current = y.current
        /\ x.wrapped = y.wrapped /\ x.dots = y.dots /\ x.out = y.out
    BY <1>1, <1>2, <1>3, <1>4, <1>5
  <2>. QED  BY <1>2, <1>4, <2>1, SamePrints
<1>. QED  BY <1>6 DEF x, y, v, z

\* What is before a place sets it off.
Preceding(s, i) ==
    \/ i >= 2 /\ Char(s, i - 2) \in Blanks /\ Char(s, i - 1) = " "
    \/ i >= 1 /\ Char(s, i - 1) = "\t"

LEMMA IndentIs ==
    ASSUME NEW s, NEW at, NEW word, at.index \in Nat
    PROVE  Indent(s, at, word) =
             IF IsBullet(word) /\ at.current = at.indent THEN at.current + 2
             ELSE IF Preceding(s, at.index) \/ at.dots THEN at.current ELSE at.indent
<1>. DEFINE before(n) == IF at.index >= n THEN Char(s, at.index - n) ELSE ""
<1>1. Indent(s, at, word) =
        IF IsBullet(word) /\ at.current = at.indent THEN at.current + 2
        ELSE IF (before(2) \in {" ", "\t"} /\ before(1) = " ") \/ before(1) = "\t" \/ at.dots
             THEN at.current ELSE at.indent
  BY DEF Indent
<1>2. before(2) \in {" ", "\t"} <=> at.index >= 2 /\ Char(s, at.index - 2) \in Blanks
  BY DEF Blanks
<1>3. before(1) = " " <=> at.index >= 1 /\ Char(s, at.index - 1) = " "
  OBVIOUS
<1>4. before(1) = "\t" <=> at.index >= 1 /\ Char(s, at.index - 1) = "\t"
  OBVIOUS
<1>. HIDE DEF before
<1>5. at.index >= 2 => at.index >= 1
  OBVIOUS
<1>6. (before(2) \in {" ", "\t"} /\ before(1) = " ") \/ before(1) = "\t" <=> Preceding(s, at.index)
  BY <1>2, <1>3, <1>4, <1>5 DEF Preceding
<1>. QED  BY <1>1, <1>6

\* A turn goes by the word and the gap, and what is before and behind them.
LEMMA MovedTurn ==
    ASSUME NEW s \in CStrings, NEW t \in CStrings, NEW room \in Nat, NEW m \in Nat, NEW o \in CStrings,
           NEW u \in Stops(t), u.index \in Starts(t), m + u.index \in Starts(s),
           WordAt(s, m + u.index) = WordAt(t, u.index), GapAt(s, m + u.index) = GapAt(t, u.index),
           NextAt(s, m + u.index) = m + NextAt(t, u.index),
           Char(s, NextAt(s, m + u.index)) \in {"\n", Nul} <=> Char(t, NextAt(t, u.index)) \in {"\n", Nul},
           Preceding(s, m + u.index) <=> Preceding(t, u.index)
    PROVE  Word_(s, Moved(u, m, o), room) = Moved(Word_(t, u, room), m, o)
<1>. DEFINE i   == u.index
            v   == Moved(u, m, o)
            w   == WordAt(t, i)
            gap == GapAt(t, i)
            b   == AtWord(t, u, room)
            x   == AfterWord(t, b)
<1>1. u \in Positions /\ i \in Nat /\ t \in Seq(Characters) /\ s \in Seq(Characters)
  BY DEF Stops, Positions, CStrings
<1>2. /\ v \in Positions /\ v.index = m + i /\ v.out = o \o u.out /\ v.indent = u.indent
      /\ v.current = u.current /\ v.wrapped = u.wrapped /\ v.dots = u.dots
  BY <1>1, MovedIs
<1>3. Break(v) = Moved(Break(u), m, o) /\ Break(u) \in Positions /\ Break(u).index = i
  BY <1>1, MovedBreak, BreakIs
<1>4. b \in Positions /\ b.index = i /\ w \in CStrings /\ gap \in CStrings
  <2>1. b \in Positions /\ b.index = i
    BY <1>1, WordTurn
  <2>2. w \in CStrings /\ gap \in CStrings
    BY <1>1, PieceFacts
  <2>. QED  BY <2>1, <2>2
<1>5. AtWord(s, v, room) = Moved(b, m, o)
  <2>1. Overflows(v, count_graphemes(w), room) <=> Overflows(u, count_graphemes(w), room)
    <3>. HIDE DEF v, w
    <3>. QED  BY <1>2 DEF Overflows
  <2>. QED  BY <1>2, <1>3, <2>1 DEF AtWord
<1>. HIDE DEF b
<1>. DEFINE c == Moved(b, m, o)
            y == AfterWord(s, c)
<1>6. /\ c \in Positions /\ c.index = m + i /\ c.out = o \o b.out /\ c.indent = b.indent
      /\ c.current = b.current /\ c.wrapped = b.wrapped /\ c.dots = b.dots
  <2>1. b \in Positions /\ b.index = i
    BY <1>4
  <2>2. /\ c \in Positions /\ c.index = m + b.index /\ c.out = o \o b.out /\ c.indent = b.indent
        /\ c.current = b.current /\ c.wrapped = b.wrapped /\ c.dots = b.dots
    BY <2>1, MovedIs
  <2>. HIDE DEF c
  <2>. QED  BY <2>1, <2>2
<1>7. Indent(s, c, w) = Indent(t, b, w)
  <2>1. m + i \in Nat
    BY <1>1
  <2>2. /\ Indent(s, c, w) =
             IF IsBullet(w) /\ c.current = c.indent THEN c.current + 2
             ELSE IF Preceding(s, c.index) \/ c.dots THEN c.current ELSE c.indent
        /\ Indent(t, b, w) =
             IF IsBullet(w) /\ b.current = b.indent THEN b.current + 2
             ELSE IF Preceding(t, b.index) \/ b.dots THEN b.current ELSE b.indent
    BY <1>1, <1>4, <1>6, <2>1, IndentIs
  <2>. HIDE DEF c
  <2>. QED  BY <1>4, <1>6, <2>2
<1>. HIDE DEF c
<1>8. y = Moved(x, m, o)
  <2>. DEFINE n == NextAt(t, i)
              z == Moved(x, m, o)
  <2>1. /\ x \in Positions /\ x.index = n /\ x.out = b.out \o w
        /\ x.current = b.current + count_graphemes(w) /\ x.wrapped = b.wrapped
        /\ x.indent = IF b.wrapped THEN b.indent ELSE Indent(t, b, w)
        /\ x.dots = IF b.wrapped THEN b.dots ELSE is_all_dots(w)
    <3>1. b \in Positions /\ b.index = i /\ b.index \in Starts(t)
      BY <1>4
    <3>2. /\ x \in Positions /\ x.index = NextAt(t, b.index) /\ x.out = b.out \o WordAt(t, b.index)
          /\ x.current = b.current + count_graphemes(WordAt(t, b.index)) /\ x.wrapped = b.wrapped
          /\ x.indent = IF b.wrapped THEN b.indent ELSE Indent(t, b, WordAt(t, b.index))
          /\ x.dots = IF b.wrapped THEN b.dots ELSE is_all_dots(WordAt(t, b.index))
      BY <1>1, <3>1, PrintedIs
    <3>. HIDE DEF x
    <3>. QED  BY <3>1, <3>2
  <2>2. /\ y \in Positions /\ y.index = m + n /\ y.out = c.out \o w
        /\ y.current = c.current + count_graphemes(w) /\ y.wrapped = c.wrapped
        /\ y.indent = IF c.wrapped THEN c.indent ELSE Indent(s, c, w)
        /\ y.dots = IF c.wrapped THEN c.dots ELSE is_all_dots(w)
    <3>. DEFINE ww == WordAt(s, m + i)
    <3>1. c.index \in Starts(s) /\ ww = w
      BY <1>6
    <3>2. /\ y \in Positions /\ y.index = NextAt(s, c.index) /\ y.out = c.out \o WordAt(s, c.index)
          /\ y.current = c.current + count_graphemes(WordAt(s, c.index)) /\ y.wrapped = c.wrapped
          /\ y.indent = IF c.wrapped THEN c.indent ELSE Indent(s, c, WordAt(s, c.index))
          /\ y.dots = IF c.wrapped THEN c.dots ELSE is_all_dots(WordAt(s, c.index))
      BY <1>1, <1>6, <3>1, PrintedIs
    <3>3. WordAt(s, c.index) = w /\ NextAt(s, c.index) = m + n
      BY <1>6
    <3>. HIDE DEF w, n, y
    <3>. QED  BY <3>2, <3>3
  <2>. HIDE DEF x, y, n, w
  <2>3. /\ z \in Positions /\ z.index = m + x.index /\ z.out = o \o x.out /\ z.indent = x.indent
        /\ z.current = x.current /\ z.wrapped = x.wrapped /\ z.dots = x.dots
    BY <2>1, MovedIs
  <2>. HIDE DEF z
  <2>4. (o \o b.out) \o w = o \o (b.out \o w)
    BY <1>4, TextsGlued DEF Positions
  <2>5. y.out = z.out
    BY <1>6, <2>1, <2>2, <2>3, <2>4
  <2>6. y = z
    <3>1. /\ y.index = z.index /\ y.indent = z.indent /\ y.current = z.current
        /\ y.wrapped = z.wrapped /\ y.dots = z.dots /\ y.out = z.out
      BY <1>6, <1>7, <2>1, <2>2, <2>3, <2>5
    <3>. QED  BY <2>2, <2>3, <3>1, SamePrints
  <2>. QED  BY <2>6 DEF z
<1>9. x \in Positions
  BY <1>1, <1>4, PrintedIs
<1>10. Word_(t, u, room) = IF x.current + count_graphemes(gap) < room THEN Spaced(x, gap)
                           ELSE IF Char(t, NextAt(t, i)) \in {"\n", Nul} THEN x ELSE Break(x)
  BY <1>3, WordTurnIs DEF b
<1>11. Word_(s, v, room) = IF y.current + count_graphemes(gap) < room THEN Spaced(y, gap)
                           ELSE IF Char(s, NextAt(s, m + i)) \in {"\n", Nul} THEN y ELSE Break(y)
  <2>1. Break(v).index = v.index /\ GapAt(s, m + i) = gap
    BY <1>2, BreakIs
  <2>. HIDE DEF gap
  <2>2. Word_(s, v, room) = IF AfterWord(s, AtWord(s, v, room)).current + count_graphemes(GapAt(s, v.index)) < room
                            THEN Spaced(AfterWord(s, AtWord(s, v, room)), GapAt(s, v.index))
                            ELSE IF Char(s, NextAt(s, v.index)) \in {"\n", Nul} THEN AfterWord(s, AtWord(s, v, room))
                            ELSE Break(AfterWord(s, AtWord(s, v, room)))
    BY <2>1, WordTurnIs
  <2>3. AfterWord(s, AtWord(s, v, room)) = y
    BY <1>5 DEF c
  <2>. HIDE DEF y, v
  <2>. QED  BY <1>2, <2>1, <2>2, <2>3
<1>12. /\ y.current = x.current /\ Spaced(y, gap) = Moved(Spaced(x, gap), m, o)
       /\ Break(y) = Moved(Break(x), m, o)
  <2>. HIDE DEF x, y, gap
  <2>. QED  BY <1>4, <1>8, <1>9, MovedIs, MovedSpaced, MovedBreak, ZenonT(60)
<1>. HIDE DEF x, y, gap, v
<1>13. Word_(s, v, room) = Moved(Word_(t, u, room), m, o)
  BY <1>8, <1>10, <1>11, <1>12
<1>. QED  BY <1>13 DEF v

\* Two places with the same indentation.
SameIndentation(s, i, t, j, m) ==
    /\ find_word_start(s, i) = m + find_word_start(t, j)
    /\ SubSeq(s, i + 1, m + find_word_start(t, j)) = SubSeq(t, j + 1, find_word_start(t, j))

LEMMA MovedNewLine ==
    ASSUME NEW s \in CStrings, NEW t \in CStrings, NEW room \in Nat, NEW m \in Nat, NEW o \in CStrings,
           NEW u \in Stops(t), u.index # Len(t), t[u.index + 1] = "\n",
           Moved(u, m, o) \in Stops(s), m + u.index # Len(s), s[(m + u.index) + 1] = "\n",
           SameIndentation(s, (m + u.index) + 1, t, u.index + 1, m)
    PROVE  NewLine(s, Moved(u, m, o), room) = Moved(NewLine(t, u, room), m, o)
<1>. DEFINE n == find_word_start(t, u.index + 1)
            v == Moved(u, m, o)
            l == Lead(SubSeq(t, (u.index + 1) + 1, n), room)
            k == LeadWidth(SubSeq(t, (u.index + 1) + 1, n), room)
            x == NewLine(s, v, room)
            z == NewLine(t, u, room)
            y == Moved(z, m, o)
<1>1. u \in Positions /\ u.out \in CStrings /\ t \in Seq(Characters) /\ s \in Seq(Characters)
  BY DEF Stops, Positions, CStrings
<1>2. v.index = m + u.index /\ v.out = o \o u.out
  BY <1>1, MovedIs
<1>3. /\ z \in Positions /\ z.index = n /\ z.out = (u.out \o LineEnd) \o l /\ l \in CStrings /\ u.out \o LineEnd \in CStrings
      /\ z.indent = k /\ z.current = k /\ z.wrapped = FALSE /\ z.dots = FALSE
  <2>. DEFINE nn == find_word_start(t, u.index + 1)
              space == SubSeq(t, (u.index + 1) + 1, nn)
  <2>1. /\ z \in Positions /\ z.index = nn /\ z.out = (u.out \o LineEnd) \o Lead(space, room)
        /\ Lead(space, room) \in CStrings /\ u.out \o LineEnd \in CStrings
        /\ z.indent = LeadWidth(space, room) /\ z.current = LeadWidth(space, room)
        /\ z.wrapped = FALSE /\ z.dots = FALSE
    BY <1>1, NewLineIs
  <2>2. nn = n
    OBVIOUS
  <2>. HIDE DEF nn, z
  <2>. QED  BY <2>1, <2>2
<1>4. /\ x \in Positions /\ x.index = m + n /\ x.out = (v.out \o LineEnd) \o l
      /\ x.indent = k /\ x.current = k /\ x.wrapped = FALSE /\ x.dots = FALSE
  <2>. HIDE DEF v
  <2>. DEFINE nn == find_word_start(s, v.index + 1)
              space == SubSeq(s, (v.index + 1) + 1, nn)
  <2>0. v \in Stops(s) /\ v.index # Len(s) /\ s[v.index + 1] = "\n"
    BY <1>2 DEF v
  <2>1. /\ x \in Positions /\ x.index = nn /\ x.out = (v.out \o LineEnd) \o Lead(space, room)
        /\ x.indent = LeadWidth(space, room) /\ x.current = LeadWidth(space, room)
        /\ x.wrapped = FALSE /\ x.dots = FALSE
    BY <1>1, <2>0, NewLineIs
  <2>2. nn = m + n
    BY <1>2 DEF SameIndentation
  <2>3. space = SubSeq(t, (u.index + 1) + 1, n)
    <3>1. space = SubSeq(s, ((m + u.index) + 1) + 1, m + n)
      BY <1>2, <2>2
    <3>. HIDE DEF nn
    <3>. QED  BY <3>1 DEF SameIndentation
  <2>. HIDE DEF nn, x, space, n
  <2>. QED  BY <2>1, <2>2, <2>3
<1>. HIDE DEF x, z, l, k, v, n
<1>5. /\ y \in Positions /\ y.index = m + z.index /\ y.out = o \o z.out /\ y.indent = z.indent
      /\ y.current = z.current /\ y.wrapped = z.wrapped /\ y.dots = z.dots
  BY <1>3, MovedIs
<1>. HIDE DEF y
<1>6. ((o \o u.out) \o LineEnd) \o l = o \o ((u.out \o LineEnd) \o l)
  <2>. DEFINE q == u.out \o LineEnd
              r == (o \o u.out) \o LineEnd
  <2>1. r = o \o q /\ q \in CStrings
    BY <1>1, <1>3, LineEndFacts, TextsGlued, ZenonT(60)
  <2>. HIDE DEF q, r
  <2>2. r \o l = o \o (q \o l)
    BY <1>3, <2>1, TextsGlued, ZenonT(60)
  <2>. QED  BY <2>2 DEF q, r
<1>7. x = y
  <2>1. /\ x.index = y.index /\ x.indent = y.indent /\ x.current = y.current
        /\ x.wrapped = y.wrapped /\ x.dots = y.dots /\ x.out = y.out
    BY <1>2, <1>3, <1>4, <1>5, <1>6
  <2>. QED  BY <1>4, <1>5, <2>1, SamePrints
<1>. QED  BY <1>7 DEF x, y, z, v

\* A turn before the line end.
LEMMA TurnBefore ==
    ASSUME NEW a \in CStrings, NEW b \in CStrings, NEW room \in Nat,
           NEW at \in Stops(a), at \in Stops(Joined(a, b)), at.index # Len(a)
    PROVE  PrintOn(Joined(a, b), at, room) = PrintOn(a, at, room)
<1>. DEFINE c == Joined(a, b)
            i == at.index
<1>1. /\ c \in CStrings /\ Len(c) = Len(a) + 1 + Len(b) /\ Len(a) \in Nat /\ Len(b) \in Nat
      /\ \A k \in 1 .. Len(a) : c[k] = a[k]
  BY JoinedFacts
<1>2. /\ a \in Seq(Characters) /\ at \in Positions /\ i \in 0 .. Len(a) /\ i \in Nat /\ i \in 0 .. Len(a) - 1
      /\ i + 1 \in 0 .. Len(a)
  <2>1. a \in Seq(Characters) /\ at \in Positions /\ i \in 0 .. Len(a)
    BY DEF Stops, CStrings
  <2>2. i # Len(a)
    OBVIOUS
  <2>. HIDE DEF i
  <2>. QED  BY <1>1, <2>1, <2>2
<1>3. c \in Seq(Characters) /\ i # Len(c) /\ (i \in Starts(c) <=> i \in Starts(a)) /\ c[i + 1] = a[i + 1]
  <2>1. i # Len(c)
    BY <1>1, <1>2
  <2>. QED  BY <1>1, <1>2, <2>1, FoundBefore DEF CStrings
<1>4. Moved(at, 0, <<>>) = at /\ <<>> \in CStrings /\ 0 + i = i
  BY <1>2, Unmoved, NoText
<1>5. ASSUME NEW x \in Positions PROVE Moved(x, 0, <<>>) = x
  BY Unmoved
<1>6. ASSUME NEW k \in 0 .. Len(a), NEW j \in k .. Len(a)
      PROVE  SubSeq(c, k + 1, j) = SubSeq(a, k + 1, j)
  <2>1. 0 + k = k /\ 0 + j = j /\ j \in 0 .. Len(c) /\ \A h \in k + 1 .. j : h \in 1 .. Len(a) /\ 0 + h = h
    BY <1>1
  <2>2. SubSeq(c, (0 + k) + 1, 0 + j) = SubSeq(a, k + 1, j)
    <3>. HIDE DEF c
    <3>. QED  BY <1>1, <2>1, SamePiece
  <2>. QED  BY <2>1, <2>2
<1>7. CASE a[i + 1] = "\n"
  <2>. DEFINE n == find_word_start(a, i + 1)
  <2>1. find_word_start(c, i + 1) = n /\ n \in i + 1 .. Len(a)
    BY <1>2, FoundBefore
  <2>2. NewLine(a, at, room) \in Positions
    BY <1>2, <1>7, NewLineIs
  <2>. HIDE DEF n, c
  <2>3. SubSeq(c, (i + 1) + 1, n) = SubSeq(a, (i + 1) + 1, n)
    BY <1>2, <1>6, <2>1 DEF c
  <2>4. SameIndentation(c, (0 + i) + 1, a, i + 1, 0) /\ 0 + i # Len(c) /\ c[(0 + i) + 1] = "\n"
    <3>1. n \in Nat /\ 0 + n = n /\ 0 + i = i
      BY <1>2, <2>1
    <3>2. find_word_start(c, (0 + i) + 1) = 0 + n
      BY <2>1, <3>1
    <3>3. SubSeq(c, ((0 + i) + 1) + 1, 0 + n) = SubSeq(a, (i + 1) + 1, n)
      BY <2>3, <3>1
    <3>4. 0 + i # Len(c) /\ c[(0 + i) + 1] = "\n"
      BY <1>3, <1>7, <3>1 DEF c
    <3>. QED  BY <3>2, <3>3, <3>4 DEF n, SameIndentation
  <2>5. Moved(at, 0, <<>>) \in Stops(c) /\ c \in CStrings
    BY <1>1, <1>4 DEF c
  <2>6. NewLine(c, Moved(at, 0, <<>>), room) = Moved(NewLine(a, at, room), 0, <<>>)
    BY <1>4, <1>7, <2>4, <2>5, MovedNewLine
  <2>7. NewLine(c, at, room) = NewLine(a, at, room)
    BY <1>4, <1>5, <2>2, <2>6
  <2>8. PrintOn(c, at, room) = NewLine(c, at, room) /\ PrintOn(a, at, room) = NewLine(a, at, room)
    BY <1>2, <1>3, <1>7, PrintOnIs DEF c
  <2>. QED  BY <2>7, <2>8 DEF c
<1>8. CASE i \in Starts(a)
  <2>. DEFINE e == find_word_end(a, i)
              n == NextAt(a, i)
  <2>1. find_word_end(c, i) = e /\ e \in i .. Len(a)
    BY <1>2, FoundBefore
  <2>. HIDE DEF e
  <2>2. e \in 0 .. Len(a)
    BY <1>2, <2>1
  <2>3. NextAt(c, i) = n /\ n \in e .. Len(a)
    BY <2>1, <2>2, FoundBefore DEF NextAt, e
  <2>. HIDE DEF n
  <2>5. WordAt(c, i) = WordAt(a, i) /\ GapAt(c, i) = GapAt(a, i)
    <3>1. WordAt(c, i) = SubSeq(c, i + 1, e) /\ WordAt(a, i) = SubSeq(a, i + 1, e)
      BY <2>1 DEF WordAt, e
    <3>2. GapAt(c, i) = SubSeq(c, e + 1, n) /\ GapAt(a, i) = SubSeq(a, e + 1, n)
      BY <2>1, <2>3 DEF GapAt, e, n
    <3>. HIDE DEF c
    <3>. QED  BY <1>2, <2>1, <2>2, <2>3, <1>6, <3>1, <3>2 DEF c
  <2>6. Char(c, n) \in {"\n", Nul} <=> Char(a, n) \in {"\n", Nul}
    <3>1. n \in 0 .. Len(a)
      BY <2>2, <2>3
    <3>2. Char(c, n) = IF n = Len(a) THEN "\n" ELSE Char(a, n)
      BY <3>1, FoundBefore
    <3>3. Char(a, Len(a)) = Nul
      BY <1>2, CharFacts
    <3>. HIDE DEF c
    <3>. QED  BY <3>2, <3>3
  <2>7. Preceding(c, i) <=> Preceding(a, i)
    <3>1. \A k \in 0 .. Len(a) - 1 : Char(c, k) = Char(a, k)
      <4>1. \A k \in 0 .. Len(a) - 1 : k \in 0 .. Len(a) /\ k # Len(a)
        BY <1>1
      <4>. QED  BY <4>1, FoundBefore
    <3>2. (i >= 1 => i - 1 \in 0 .. Len(a) - 1) /\ (i >= 2 => i - 2 \in 0 .. Len(a) - 1 /\ i >= 1)
      BY <1>2
    <3>. HIDE DEF c, i
    <3>. QED  BY <3>1, <3>2 DEF Preceding
  <2>8. Word_(c, Moved(at, 0, <<>>), room) = Moved(Word_(a, at, room), 0, <<>>)
    <3>1. /\ 0 + i \in Starts(c) /\ WordAt(c, 0 + i) = WordAt(a, i) /\ GapAt(c, 0 + i) = GapAt(a, i)
          /\ NextAt(c, 0 + i) = 0 + NextAt(a, i)
          /\ Char(c, NextAt(c, 0 + i)) \in {"\n", Nul} <=> Char(a, NextAt(a, i)) \in {"\n", Nul}
          /\ Preceding(c, 0 + i) <=> Preceding(a, i)
      <4>1. n \in Nat /\ 0 + n = n
        BY <2>2, <2>3
      <4>. HIDE DEF c, i
      <4>. QED  BY <1>3, <1>4, <1>8, <2>3, <2>5, <2>6, <2>7, <4>1 DEF n
    <3>. HIDE DEF c
    <3>. QED  BY <1>1, <1>4, <1>8, <3>1, MovedTurn
  <2>9. Word_(a, at, room) \in Positions
    BY <1>2, <1>8, WordTurn
  <2>10. Word_(c, at, room) = Word_(a, at, room)
    BY <1>4, <1>5, <2>8, <2>9
  <2>11. PrintOn(c, at, room) = Word_(c, at, room) /\ PrintOn(a, at, room) = Word_(a, at, room)
    BY <1>2, <1>3, <1>8, PrintOnIs
  <2>. QED  BY <2>10, <2>11
<1>. QED  BY <1>2, <1>7, <1>8 DEF Stops

LEMMA TwoBack ==
    ASSUME NEW m \in Nat, NEW n \in Nat, NEW i \in 0 .. n, i >= 2
    PROVE  /\ i - 1 \in 0 .. n /\ i - 2 \in 0 .. n /\ m + i >= 2 /\ m + i >= 1 /\ i >= 1
           /\ (m + i) - 1 = m + (i - 1) /\ (m + i) - 2 = m + (i - 2)
OBVIOUS

\* A turn behind it.
LEMMA TurnBehind ==
    ASSUME NEW a \in CStrings, NEW b \in CStrings, NEW room \in Nat, NEW o \in CStrings,
           NEW u \in Stops(b), u.index # Len(b), Moved(u, Len(a) + 1, o) \in Stops(Joined(a, b))
    PROVE  PrintOn(Joined(a, b), Moved(u, Len(a) + 1, o), room) = Moved(PrintOn(b, u, room), Len(a) + 1, o)
<1>. DEFINE c == Joined(a, b)
            m == Len(a) + 1
            i == u.index
            v == Moved(u, m, o)
<1>1. /\ c \in CStrings /\ c \in Seq(Characters) /\ b \in Seq(Characters) /\ m \in Nat /\ m >= 1
      /\ Len(c) = m + Len(b) /\ Len(b) \in Nat /\ v \in Stops(c)
      /\ \A k \in 1 .. Len(b) : c[m + k] = b[k]
  <2>1. /\ c \in CStrings /\ Len(c) = m + Len(b) /\ Len(b) \in Nat /\ Len(a) \in Nat
        /\ \A k \in 1 .. Len(b) : c[m + k] = b[k]
    BY JoinedFacts
  <2>2. m \in Nat /\ m >= 1
    BY <2>1
  <2>. HIDE DEF c, m
  <2>. QED  BY <2>1, <2>2 DEF CStrings, c, m
<1>2. ASSUME NEW j \in 0 .. Len(b)
      PROVE  /\ m + j \in 0 .. Len(c) /\ (m + j = Len(c) <=> j = Len(b))
             /\ find_word_end(c, m + j) = m + find_word_end(b, j) /\ find_word_end(b, j) \in j .. Len(b)
             /\ find_word_start(c, m + j) = m + find_word_start(b, j) /\ find_word_start(b, j) \in j .. Len(b)
             /\ j # Len(b) => (m + j \in Starts(c) <=> j \in Starts(b)) /\ c[(m + j) + 1] = b[j + 1]
             /\ Char(c, m + j) = Char(b, j)
  BY FoundBehind, ZenonT(60)
<1>3. Char(c, m - 1) = "\n"
  <2>1. Char(c, Len(a)) = "\n" /\ m - 1 = Len(a)
    <3>1. Len(a) \in 0 .. Len(a) /\ Len(a) \in Nat
      BY JoinedFacts
    <3>. QED  BY <3>1, FoundBefore
  <2>. HIDE DEF c, m
  <2>. QED  BY <2>1
<1>. HIDE DEF c, m
<1>4. i \in 0 .. Len(b) /\ i \in 0 .. Len(b) - 1 /\ i + 1 \in 0 .. Len(b) /\ i \in Nat /\ u \in Positions
  <2>1. i \in 0 .. Len(b) /\ u \in Positions
    BY DEF Stops
  <2>2. i # Len(b)
    OBVIOUS
  <2>. HIDE DEF i
  <2>. QED  BY <1>1, <2>1, <2>2
<1>5. v.index = m + i /\ m + i # Len(c) /\ (m + i \in Starts(c) <=> i \in Starts(b)) /\ c[(m + i) + 1] = b[i + 1]
  <2>1. v.index = m + i
    BY <1>1, <1>4, MovedIs
  <2>. QED  BY <1>2, <1>4, <2>1
<1>6. ASSUME NEW k \in 0 .. Len(b), NEW j \in k .. Len(b)
      PROVE  SubSeq(c, (m + k) + 1, m + j) = SubSeq(b, k + 1, j)
  <2>1. j \in 0 .. Len(b) /\ \A h \in k + 1 .. j : h \in 1 .. Len(b)
    BY <1>1
  <2>2. m + j \in 0 .. Len(c)
    BY <1>2, <2>1
  <2>. QED  BY <1>1, <2>1, <2>2, SamePiece
<1>7. CASE b[i + 1] = "\n"
  <2>. DEFINE n == find_word_start(b, i + 1)
  <2>1. find_word_start(c, (m + i) + 1) = m + n /\ n \in i + 1 .. Len(b)
    <3>1. m + (i + 1) = (m + i) + 1
      BY <1>1, <1>4
    <3>. QED  BY <1>2, <1>4, <3>1
  <2>. HIDE DEF n
  <2>2. SubSeq(c, ((m + i) + 1) + 1, m + n) = SubSeq(b, (i + 1) + 1, n)
    <3>1. m + (i + 1) = (m + i) + 1
      BY <1>1, <1>4
    <3>2. SubSeq(c, (m + (i + 1)) + 1, m + n) = SubSeq(b, (i + 1) + 1, n)
      BY <1>4, <1>6, <2>1
    <3>. QED  BY <3>1, <3>2
  <2>3. SameIndentation(c, (m + i) + 1, b, i + 1, m)
    BY <2>1, <2>2 DEF n, SameIndentation
  <2>4. NewLine(c, v, room) = Moved(NewLine(b, u, room), m, o)
    <3>1. v.index = m + i /\ (m + i) + 1 = (m + u.index) + 1
      BY <1>5
    <3>2. /\ v \in Stops(c) /\ c \in CStrings /\ m + u.index # Len(c) /\ c[(m + u.index) + 1] = "\n"
          /\ b[u.index + 1] = "\n" /\ SameIndentation(c, (m + u.index) + 1, b, u.index + 1, m)
      BY <1>1, <1>5, <1>7, <2>3
    <3>3. m + u.index # Len(c) /\ Moved(u, m, o) \in Stops(c) /\ m \in Nat /\ u.index # Len(b)
      BY <1>1, <3>2
    <3>. HIDE DEF v, i
    <3>4. NewLine(c, Moved(u, m, o), room) = Moved(NewLine(b, u, room), m, o)
      BY <3>2, <3>3, MovedNewLine
    <3>. QED  BY <3>4 DEF v
  <2>5. PrintOn(c, v, room) = NewLine(c, v, room) /\ PrintOn(b, u, room) = NewLine(b, u, room)
    BY <1>1, <1>5, <1>7, PrintOnIs
  <2>. QED  BY <2>4, <2>5 DEF c, m
<1>8. CASE i \in Starts(b)
  <2>. DEFINE e == find_word_end(b, i)
              n == NextAt(b, i)
  <2>1. find_word_end(c, m + i) = m + e /\ e \in i .. Len(b)
    BY <1>2, <1>4
  <2>. HIDE DEF e
  <2>2. e \in 0 .. Len(b)
    BY <1>4, <2>1
  <2>3. NextAt(c, m + i) = m + n /\ n \in e .. Len(b)
    BY <1>2, <2>1, <2>2 DEF NextAt, e
  <2>. HIDE DEF n
  <2>4. WordAt(c, m + i) = WordAt(b, i)
    <3>1. WordAt(c, m + i) = SubSeq(c, (m + i) + 1, m + e) /\ WordAt(b, i) = SubSeq(b, i + 1, e)
      BY <2>1 DEF WordAt, e
    <3>. HIDE DEF i
    <3>. QED  BY <1>4, <1>6, <2>1, <3>1
  <2>5. GapAt(c, m + i) = GapAt(b, i)
    <3>1. GapAt(c, m + i) = SubSeq(c, (m + e) + 1, m + n) /\ GapAt(b, i) = SubSeq(b, e + 1, n)
      BY <2>1, <2>3 DEF GapAt, e, n
    <3>. HIDE DEF i
    <3>. QED  BY <1>6, <2>2, <2>3, <3>1
  <2>6. Char(c, m + n) \in {"\n", Nul} <=> Char(b, n) \in {"\n", Nul}
    <3>1. n \in 0 .. Len(b)
      BY <2>2, <2>3
    <3>2. Char(c, m + n) = Char(b, n)
      BY <1>2, <3>1
    <3>. QED  BY <3>2
  <2>7. Preceding(c, m + i) <=> Preceding(b, i)
    <3>1. \A k \in 0 .. Len(b) : Char(c, m + k) = Char(b, k)
      BY <1>2
    <3>2. CASE i >= 2
      <4>1. /\ i - 1 \in 0 .. Len(b) /\ i - 2 \in 0 .. Len(b) /\ m + i >= 2 /\ m + i >= 1 /\ i >= 1
            /\ (m + i) - 1 = m + (i - 1) /\ (m + i) - 2 = m + (i - 2)
        <5>. HIDE DEF i
        <5>. QED  BY <1>1, <1>4, <3>2, TwoBack
      <4>2. Char(c, (m + i) - 1) = Char(b, i - 1) /\ Char(c, (m + i) - 2) = Char(b, i - 2)
        BY <3>1, <4>1
      <4>. HIDE DEF i
      <4>. QED  BY <3>2, <4>1, <4>2 DEF Preceding
    <3>3. CASE i = 1
      <4>1. m + i >= 2 /\ m + i >= 1 /\ ~(i >= 2) /\ i >= 1 /\ (m + i) - 1 = m + 0 /\ i - 1 = 0 /\ (m + i) - 2 = m - 1
        BY <1>1, <3>3
      <4>2. Char(c, (m + i) - 1) = Char(b, i - 1) /\ Char(c, (m + i) - 2) \notin Blanks
        <5>1. 0 \in 0 .. Len(b)
          BY <1>1
        <5>. QED  BY <1>3, <3>1, <4>1, <5>1, SpaceFacts
      <4>. HIDE DEF i
      <4>. QED  BY <4>1, <4>2 DEF Preceding
    <3>4. CASE i = 0
      <4>1. m + i >= 1 /\ ~(i >= 2) /\ ~(i >= 1) /\ (m + i) - 1 = m - 1
        BY <1>1, <3>4
      <4>2. Char(c, (m + i) - 1) # " " /\ Char(c, (m + i) - 1) # "\t"
        BY <1>3, <4>1
      <4>. HIDE DEF i
      <4>. QED  BY <4>1, <4>2 DEF Preceding
    <3>. QED  BY <1>4, <3>2, <3>3, <3>4
  <2>8. Word_(c, v, room) = Moved(Word_(b, u, room), m, o)
    <3>1. Char(c, NextAt(c, m + i)) \in {"\n", Nul} <=> Char(b, NextAt(b, i)) \in {"\n", Nul}
      BY <2>3, <2>6 DEF n
    <3>2. NextAt(c, m + i) = m + NextAt(b, i)
      BY <2>3 DEF n
    <3>3. m + i \in Starts(c)
      BY <1>5, <1>8
    <3>. QED  BY <1>1, <1>8, <2>4, <2>5, <2>7, <3>1, <3>2, <3>3, MovedTurn
  <2>9. PrintOn(c, v, room) = Word_(c, v, room) /\ PrintOn(b, u, room) = Word_(b, u, room)
    BY <1>1, <1>5, <1>8, PrintOnIs
  <2>. QED  BY <2>8, <2>9 DEF c, m
<1>. QED  BY <1>4, <1>7, <1>8 DEF Stops

\* And the line end itself.
LEMMA TurnBetween ==
    ASSUME NEW a \in CStrings, NEW b \in CStrings, NEW room \in Nat,
           NEW at \in Stops(Joined(a, b)), at.index = Len(a)
    PROVE  PrintOn(Joined(a, b), at, room) = Moved(FirstStop(b, room), Len(a) + 1, at.out \o LineEnd)
<1>. DEFINE c == Joined(a, b)
            m == Len(a) + 1
            n == find_word_start(b, 0)
            space == SubSeq(b, 1, n)
            o == at.out \o LineEnd
            l == Lead(space, room)
            k == LeadWidth(space, room)
            x == NewLine(c, at, room)
            f == FirstStop(b, room)
            y == Moved(f, m, o)
<1>1. /\ c \in CStrings /\ Len(c) = m + Len(b) /\ Len(b) \in Nat /\ Len(a) \in Nat /\ c[m] = "\n"
      /\ \A j \in 1 .. Len(b) : c[m + j] = b[j]
  BY JoinedFacts
<1>2. c \in Seq(Characters) /\ at.index # Len(c) /\ c[at.index + 1] = "\n" /\ m \in Nat /\ at.index + 1 = m + 0
      /\ 0 \in 0 .. Len(b) /\ b \in Seq(Characters)
  <2>1. c \in Seq(Characters) /\ b \in Seq(Characters)
    BY <1>1 DEF CStrings
  <2>. QED  BY <1>1, <2>1
<1>3. find_word_start(c, m + 0) = m + n /\ n \in 0 .. Len(b)
  BY <1>2, FoundBehind
<1>4. SubSeq(c, (m + 0) + 1, m + n) = space
  <2>1. m + n \in 0 .. Len(c) /\ \A j \in 0 + 1 .. n : j \in 1 .. Len(b)
    <3>1. n \in 0 .. Len(b) /\ m + n \in 0 .. m + Len(b)
      BY <1>1, <1>2, <1>3, Shifted
    <3>. HIDE DEF n, c, m
    <3>. QED  BY <1>1, <3>1
  <2>2. 0 \in 0 .. Len(b) /\ n \in 0 .. Len(b)
    BY <1>2, <1>3
  <2>. HIDE DEF c, n, m
  <2>3. SubSeq(c, (m + 0) + 1, m + n) = SubSeq(b, 0 + 1, n)
    BY <1>1, <1>2, <2>1, <2>2, SamePiece
  <2>4. 0 + 1 = 1
    OBVIOUS
  <2>. QED  BY <2>3, <2>4 DEF n
<1>. HIDE DEF c
<1>5. /\ x \in Positions /\ x.index = m + n /\ x.out = o \o l /\ l \in CStrings /\ o \in CStrings
      /\ x.indent = k /\ x.current = k /\ x.wrapped = FALSE /\ x.dots = FALSE
  <2>. DEFINE nn == find_word_start(c, at.index + 1)
              sp == SubSeq(c, (at.index + 1) + 1, nn)
  <2>1. /\ x \in Positions /\ x.index = nn /\ x.out = o \o Lead(sp, room)
        /\ Lead(sp, room) \in CStrings /\ o \in CStrings
        /\ x.indent = LeadWidth(sp, room) /\ x.current = LeadWidth(sp, room)
        /\ x.wrapped = FALSE /\ x.dots = FALSE
    BY <1>2, NewLineIs DEF c
  <2>2. nn = m + n
    BY <1>2, <1>3
  <2>. HIDE DEF nn
  <2>3. sp = space
    BY <1>2, <1>4, <2>2
  <2>. HIDE DEF x, o, sp, space
  <2>. QED  BY <2>1, <2>2, <2>3
<1>6. /\ f \in Positions /\ f.index = n /\ f.out = l
      /\ f.indent = k /\ f.current = k /\ f.wrapped = FALSE /\ f.dots = FALSE
  BY <1>2, FirstIs DEF Stops
<1>. HIDE DEF x, f, o, l, k, n, m
<1>7. /\ y \in Positions /\ y.index = m + f.index /\ y.out = o \o f.out /\ y.indent = f.indent
      /\ y.current = f.current /\ y.wrapped = f.wrapped /\ y.dots = f.dots
  BY <1>2, <1>5, <1>6, MovedIs
<1>. HIDE DEF y
<1>8. x = y
  <2>1. /\ x.index = y.index /\ x.indent = y.indent /\ x.current = y.current
        /\ x.wrapped = y.wrapped /\ x.dots = y.dots /\ x.out = y.out
    BY <1>5, <1>6, <1>7
  <2>. QED  BY <1>5, <1>7, <2>1, SamePrints
<1>9. PrintOn(c, at, room) = x
  BY <1>2, PrintOnIs DEF x, c
<1>. QED  BY <1>8, <1>9 DEF y, f, m, o, c

\* So what is printed for the two is printed for them one after the other.
LEMMA PrintJoined ==
    ASSUME NEW a \in CStrings, NEW b \in CStrings, NEW room \in Nat
    PROVE  /\ print_wrapped_text(Joined(a, b), room)
                = Joined(print_wrapped_text(a, room), print_wrapped_text(b, room))
           /\ print_wrapped_text(a, room) \in CStrings /\ print_wrapped_text(b, room) \in CStrings
<1>. DEFINE c == Joined(a, b)
            m == Len(a) + 1
            A == print_wrapped_text(a, room)
            B == print_wrapped_text(b, room)
            o == A \o LineEnd
            R == Reached(c, room)
            T == R \intersect Stops(a)
            U == {u \in Stops(b) : Moved(u, m, o) \in R}
<1>1. /\ c \in CStrings /\ Len(c) = m + Len(b) /\ Len(a) \in Nat /\ Len(b) \in Nat /\ m \in Nat
      /\ c \in Seq(Characters) /\ a \in Seq(Characters) /\ b \in Seq(Characters)
  <2>1. /\ c \in CStrings /\ Len(c) = m + Len(b) /\ Len(a) \in Nat /\ Len(b) \in Nat
    BY JoinedFacts
  <2>2. m \in Nat
    BY <2>1
  <2>. HIDE DEF c, m
  <2>. QED  BY <2>1, <2>2 DEF CStrings
<1>2. \A j \in 0 .. Len(a) : j # Len(c)
  BY <1>1
<1>. HIDE DEF c, m
<1>3. /\ R \subseteq Stops(c) /\ FirstStop(c, room) \in R
      /\ \A at \in R : /\ at.index # Len(c) => PrintOn(c, at, room) \in R
                       /\ at.index = Len(c) => print_wrapped_text(c, room) = at.out
  BY <1>1, ReachedFacts
<1>4. FirstStop(a, room) \in T
  <2>. DEFINE n == find_word_start(a, 0)
  <2>1. FirstStop(a, room) \in Stops(a) /\ FirstStop(b, room) \in Stops(b)
    BY <1>1, FirstIs
  <2>2. find_word_start(c, 0) = n /\ n \in 0 .. Len(a)
    BY <1>1, FoundBefore DEF c
  <2>3. SubSeq(c, 1, n) = SubSeq(a, 1, n)
    <3>1. n \in 0 .. Len(a) /\ 0 + n = n /\ 0 \in 0 .. Len(a) /\ (0 + 0) + 1 = 1 /\ 0 + 1 = 1 /\ n \in Nat
      BY <1>1, <2>2
    <3>2. \A k \in 1 .. Len(a) : c[k] = a[k]
      BY JoinedFacts DEF c
    <3>3. 0 + n \in 0 .. Len(c) /\ \A k \in 0 + 1 .. n : 0 + k \in 1 .. Len(a) /\ 0 + k = k
      <4>1. n \in Nat /\ n <= Len(a) /\ Len(a) <= Len(c)
        BY <1>1, <2>2 DEF m
      <4>. HIDE DEF n
      <4>. QED  BY <1>1, <4>1
    <3>. HIDE DEF n
    <3>4. SubSeq(c, (0 + 0) + 1, 0 + n) = SubSeq(a, 0 + 1, n)
      <4>1. \A k \in 0 + 1 .. n : c[0 + k] = a[k]
        BY <3>2, <3>3
      <4>. QED  BY <1>1, <3>1, <3>3, <4>1, SamePiece
    <3>. QED  BY <3>1, <3>4
  <2>. HIDE DEF n
  <2>4. FirstStop(c, room) = FirstStop(a, room)
    BY <2>2, <2>3 DEF FirstStop, n
  <2>. QED  BY <1>3, <2>1, <2>4
<1>5. ASSUME NEW at \in T \intersect Stops(a), at.index # Len(a)
      PROVE  PrintOn(a, at, room) \in T
  <2>1. at \in Stops(a) /\ at \in R /\ at \in Stops(c) /\ at.index # Len(c)
    BY <1>2, <1>3 DEF Stops
  <2>2. PrintOn(c, at, room) = PrintOn(a, at, room)
    BY <1>5, <2>1, TurnBefore DEF c
  <2>3. PrintOn(a, at, room) \in Stops(a)
    BY <1>1, <1>5, <2>1, PrintOnIs
  <2>. QED  BY <1>3, <2>1, <2>2, <2>3
<1>6. PICK at \in T \intersect Stops(a) : at.index = Len(a) /\ at.out = A
  <2>. HIDE DEF T
  <2>. QED  BY <1>1, <1>4, <1>5, PrintedAll
<1>7. at \in R /\ at \in Stops(c) /\ at.index = Len(a) /\ at.index # Len(c) /\ A \in CStrings /\ o \in CStrings
  <2>1. at \in R /\ at \in Stops(c) /\ at.index = Len(a) /\ at.index # Len(c) /\ at.out \in CStrings
    BY <1>2, <1>3, <1>6 DEF Stops, Positions
  <2>2. A \in CStrings
    BY <1>6, <2>1
  <2>. HIDE DEF A
  <2>. QED  BY <2>1, <2>2, LineEndFacts, TextsConcat
<1>8. Moved(FirstStop(b, room), m, o) \in R
  <2>1. PrintOn(c, at, room) = Moved(FirstStop(b, room), m, at.out \o LineEnd)
    BY <1>7, TurnBetween DEF c, m
  <2>. QED  BY <1>3, <1>6, <1>7, <2>1
<1>9. FirstStop(b, room) \in U
  BY <1>1, <1>8, FirstIs
<1>10. ASSUME NEW u \in U \intersect Stops(b), u.index # Len(b)
       PROVE  PrintOn(b, u, room) \in U
  <2>1. u \in Stops(b) /\ Moved(u, m, o) \in R /\ Moved(u, m, o) \in Stops(c) /\ u \in Positions /\ u.index \in 0 .. Len(b)
    BY <1>3 DEF Stops
  <2>2. Moved(u, m, o).index # Len(c)
    <3>1. Moved(u, m, o).index = m + u.index
      BY <1>1, <1>7, <2>1, MovedIs
    <3>2. m + u.index # m + Len(b)
      BY <1>1, <1>10, <2>1, Shifted
    <3>. QED  BY <1>1, <3>1, <3>2
  <2>. HIDE DEF R, o, U
  <2>3. PrintOn(c, Moved(u, m, o), room) = Moved(PrintOn(b, u, room), m, o)
    BY <1>7, <1>10, <2>1, TurnBehind DEF c, m
  <2>4. PrintOn(b, u, room) \in Stops(b)
    BY <1>1, <1>10, <2>1, PrintOnIs
  <2>. QED  BY <1>3, <2>1, <2>2, <2>3, <2>4 DEF U
<1>11. PICK u \in U \intersect Stops(b) : u.index = Len(b) /\ u.out = B
  <2>. HIDE DEF U
  <2>. QED  BY <1>1, <1>9, <1>10, PrintedAll
<1>12. /\ Moved(u, m, o) \in R /\ u \in Positions /\ B \in CStrings
       /\ Moved(u, m, o).index = m + Len(b) /\ Moved(u, m, o).out = o \o B
  <2>1. Moved(u, m, o) \in R /\ u \in Positions /\ u.out \in CStrings
    BY <1>11 DEF Stops, Positions
  <2>2. Moved(u, m, o).index = m + u.index /\ Moved(u, m, o).out = o \o u.out
    <3>. HIDE DEF o
    <3>. QED  BY <1>1, <1>7, <2>1, MovedIs
  <2>. HIDE DEF R, o, B
  <2>. QED  BY <1>11, <2>1, <2>2
<1>13. print_wrapped_text(c, room) = o \o B
  <2>. HIDE DEF R, o, B
  <2>. QED  BY <1>1, <1>3, <1>12
<1>. QED  BY <1>7, <1>12, <1>13 DEF c, Joined

-----------------------------------------------------------------------------
(* The lines of the text, one after the other.                             *)

LEMMA FlattenAppend ==
    ASSUME NEW S, NEW x \in Seq(Seq(S)), NEW y \in Seq(S)
    PROVE  FlattenSeq(Append(x, y)) = FlattenSeq(x) \o y
<1>. DEFINE z == Append(x, y)
            N == Len(x)
<1>1. /\ z \in Seq(Seq(S)) /\ Len(z) = N + 1 /\ N \in Nat
      /\ (\A i \in 1 .. N : z[i] = x[i]) /\ z[N + 1] = y
  BY AppendFacts, ElementFacts
<1>. HIDE DEF z
<1>2. PICK f : Flattening(f, S, z) /\ FlattenSeq(z) = f[Len(z)]
  BY <1>1, FlatteningExists
<1>3. PICK g : Flattening(g, S, x) /\ FlattenSeq(x) = g[N]
  BY FlatteningExists
<1>. HIDE DEF N
<1>4. /\ f[0] = <<>> /\ g[0] = <<>> /\ f[N + 1] = f[N] \o y
      /\ \A n \in 1 .. N : f[n] = f[n - 1] \o x[n] /\ g[n] = g[n - 1] \o x[n]
  <2>1. f[0] = <<>> /\ \A n \in 1 .. N + 1 : f[n] = f[n - 1] \o z[n]
    BY <1>1, <1>2 DEF Flattening
  <2>2. g[0] = <<>> /\ \A n \in 1 .. N : g[n] = g[n - 1] \o x[n]
    BY <1>3 DEF Flattening, N
  <2>3. N + 1 \in 1 .. N + 1 /\ (N + 1) - 1 = N /\ \A n \in 1 .. N : n \in 1 .. N + 1
    BY <1>1
  <2>4. f[N + 1] = f[(N + 1) - 1] \o z[N + 1]
    BY <2>1, <2>3
  <2>. QED  BY <1>1, <2>1, <2>2, <2>3, <2>4
<1>. DEFINE T == {n \in Nat : f[n] = g[n]}
<1>5. 0 \in T
  BY <1>4
<1>6. ASSUME NEW n \in 1 .. N, n - 1 \in T PROVE n \in T
  <2>1. n \in Nat /\ f[n - 1] = g[n - 1]
    BY <1>1, <1>6
  <2>2. f[n] = f[n - 1] \o x[n] /\ g[n] = g[n - 1] \o x[n]
    BY <1>4
  <2>3. f[n] = g[n]
    BY <2>1, <2>2
  <2>. QED  BY <2>1, <2>3
<1>7. N \in T
  <2>1. N \in 0 .. N
    BY <1>1
  <2>. HIDE DEF T
  <2>. QED  BY <1>1, <1>5, <1>6, <2>1, Climb
<1>. QED  BY <1>1, <1>2, <1>3, <1>4, <1>7 DEF z

\* The last line end of a text.
LEMMA CutAtLineEnd ==
    ASSUME NEW s \in CStrings
    PROVE  \/ \A i \in 1 .. Len(s) : s[i] # "\n"
           \/ \E a \in CStrings, b \in CStrings : /\ s = Joined(a, b) /\ Len(a) < Len(s)
                                                  /\ \A i \in 1 .. Len(b) : b[i] # "\n"
<1>. SUFFICES ASSUME NEW e \in 1 .. Len(s), s[e] = "\n"
              PROVE  \E a \in CStrings, b \in CStrings : /\ s = Joined(a, b) /\ Len(a) < Len(s)
                                                         /\ \A i \in 1 .. Len(b) : b[i] # "\n"
  OBVIOUS
<1>. DEFINE N == Len(s)
            T == {i \in 1 .. N : s[i] = "\n"}
<1>1. N \in Nat /\ s \in Seq(Characters)
  BY ElementFacts DEF CStrings
<1>2. PICK p \in T : \A k \in p + 1 .. N : k \notin T
  <2>1. T \subseteq 0 .. N /\ T # {}
    BY <1>1
  <2>. HIDE DEF T
  <2>. QED  BY <1>1, <2>1, LastPlace
<1>3. p \in 1 .. N /\ s[p] = "\n" /\ \A k \in p + 1 .. N : s[k] # "\n"
  <2>1. \A k \in p + 1 .. N : k \in 1 .. N
    BY <1>1
  <2>. QED  BY <1>2, <2>1
<1>. HIDE DEF N, T
<1>. DEFINE a == SubSeq(s, 1, p - 1)
            b == SubSeq(s, p + 1, N)
            c == Joined(a, b)
<1>4. p - 1 \in 0 .. N /\ p \in 0 .. N /\ N \in p .. N
  BY <1>1, <1>3
<1>5. a \in CStrings /\ Len(a) = p - 1 /\ \A k \in 1 .. p - 1 : a[k] = s[k]
  BY <1>1, <1>4, FrontFacts DEF N, CStrings
<1>6. b \in CStrings /\ Len(b) = N - p /\ \A k \in 1 .. N - p : b[k] = s[p + k]
  BY <1>1, <1>4, SpanConcat DEF N
<1>. HIDE DEF a, b
<1>7. /\ c \in CStrings /\ Len(c) = Len(a) + 1 + Len(b)
      /\ \A k \in 1 .. Len(a) : c[k] = a[k]
      /\ c[Len(a) + 1] = "\n"
      /\ \A k \in 1 .. Len(b) : c[Len(a) + 1 + k] = b[k]
  BY <1>5, <1>6, JoinedFacts
<1>. HIDE DEF c
<1>8. Len(c) = N /\ Len(a) < N /\ Len(a) + 1 = p
  BY <1>1, <1>3, <1>5, <1>6, <1>7
<1>9. ASSUME NEW k \in 1 .. N PROVE s[k] = c[k]
  <2>1. CASE k < p
    <3>1. k \in 1 .. p - 1
      BY <1>3, <2>1
    <3>. QED  BY <1>5, <1>7, <3>1
  <2>2. CASE k = p
    BY <1>3, <1>7, <1>8, <2>2
  <2>3. CASE k > p
    <3>1. k - p \in 1 .. N - p /\ p + (k - p) = k
      BY <1>1, <1>3, <2>3
    <3>2. b[k - p] = s[p + (k - p)] /\ c[p + (k - p)] = b[k - p]
      BY <1>6, <1>7, <1>8, <3>1
    <3>. QED  BY <3>1, <3>2
  <2>4. k < p \/ k = p \/ k > p
    BY <1>3
  <2>. QED  BY <2>1, <2>2, <2>3, <2>4
<1>10. s = c
  BY <1>1, <1>7, <1>8, <1>9, SameSequence DEF CStrings, N
<1>11. \A i \in 1 .. Len(b) : b[i] # "\n"
  <2>1. \A i \in 1 .. N - p : p + i \in p + 1 .. N
    BY <1>1, <1>3
  <2>. QED  BY <1>3, <1>6, <2>1
<1>. QED  BY <1>5, <1>6, <1>8, <1>10, <1>11 DEF c, N

LEMMA JoinedLines ==
    ASSUME NEW a \in CStrings, NEW b \in CStrings
    PROVE  LinesOf(Joined(a, b)) = LinesOf(a) \o LinesOf(b)
BY LinesBroken DEF CStrings, Joined, LineEnd

\* A text of one line.
LEMMA OneLine ==
    ASSUME NEW s \in CStrings, \A i \in 1 .. Len(s) : s[i] # "\n"
    PROVE  LinesOf(s) = <<s>>
<1>. DEFINE none == <<>>
<1>1. none \in CStrings /\ Len(none) = 0 /\ s \in Seq(Characters)
  BY NoText DEF CStrings
<1>2. LinesOf(none) = <<none>>
  <2>1. PICK f : Lined(f, none) /\ LinesOf(none) = f[Len(none)]
    BY <1>1, LinesAre DEF CStrings
  <2>. QED  BY <1>1, <2>1 DEF Lined
<1>3. LinesOf(none \o s) = Append(Front(LinesOf(none)), Last(LinesOf(none)) \o s)
  <2>. HIDE DEF none
  <2>. QED  BY <1>1, LinesExtended DEF CStrings
<1>4. none \o s = s
  BY <1>1, ConcatEmpty DEF CStrings
<1>5. Front(<<none>>) = <<>> /\ Last(<<none>>) = none
  <2>1. <<>> \in Seq(CStrings) /\ Append(<<>>, none) = <<none>>
    OBVIOUS
  <2>. HIDE DEF none
  <2>. QED  BY <1>1, <2>1, AppendedLast
<1>6. LinesOf(s) = Append(<<>>, s)
  <2>. HIDE DEF none
  <2>. QED  BY <1>2, <1>3, <1>4, <1>5
<1>. QED  BY <1>6

PrintedEach(lines, room) == [i \in DOMAIN lines |-> LinesOf(print_wrapped_text(lines[i], room))]

LEMMA PrintedOneMore ==
    ASSUME NEW lines \in Seq(CStrings), NEW b \in CStrings, NEW room \in Nat
    PROVE  /\ PrintedEach(lines, room) \in Seq(Seq(CStrings))
           /\ PrintedEach(Append(lines, b), room)
                = Append(PrintedEach(lines, room), LinesOf(print_wrapped_text(b, room)))
<1>. DEFINE P(t) == LinesOf(print_wrapped_text(t, room))
            z == Append(lines, b)
            N == Len(lines)
            x == PrintedEach(lines, room)
            y == PrintedEach(z, room)
            w == Append(x, P(b))
<1>1. \A t \in CStrings : P(t) \in Seq(CStrings)
  <2>. TAKE t \in CStrings
  <2>1. print_wrapped_text(t, room) \in CStrings
    BY PrintJoined
  <2>. QED  BY <2>1, LinesType DEF CStrings
<1>2. /\ z \in Seq(CStrings) /\ Len(z) = N + 1 /\ N \in Nat
      /\ (\A i \in 1 .. N : z[i] = lines[i] /\ z[i] \in CStrings) /\ z[N + 1] = b
  BY AppendFacts, ElementFacts
<1>3. DOMAIN lines = 1 .. N /\ DOMAIN z = 1 .. N + 1
  BY <1>2
<1>4. x = [i \in 1 .. N |-> P(lines[i])] /\ y = [i \in 1 .. N + 1 |-> P(z[i])]
  BY <1>3 DEF PrintedEach
<1>. HIDE DEF P, x, y, N, z
<1>5. x \in Seq(Seq(CStrings)) /\ Len(x) = N /\ \A i \in 1 .. N : x[i] = P(lines[i])
  <2>1. \A i \in 1 .. N : lines[i] \in CStrings
    BY <1>2, ElementFacts
  <2>2. \A i \in 1 .. N : P(lines[i]) \in Seq(CStrings)
    BY <1>1, <2>1
  <2>. QED  BY <1>2, <1>4, <2>2
<1>6. y \in Seq(Seq(CStrings)) /\ Len(y) = N + 1 /\ \A i \in 1 .. N + 1 : y[i] = P(z[i])
  <2>1. \A i \in 1 .. N + 1 : z[i] \in CStrings
    BY <1>2, ElementFacts
  <2>. QED  BY <1>1, <1>2, <1>4, <2>1
<1>7. /\ w \in Seq(Seq(CStrings)) /\ Len(w) = N + 1 /\ (\A i \in 1 .. N : w[i] = x[i]) /\ w[N + 1] = P(b)
  BY <1>1, <1>5, AppendFacts
<1>. HIDE DEF w
<1>8. ASSUME NEW i \in 1 .. N + 1 PROVE y[i] = w[i]
  <2>1. CASE i = N + 1
    BY <1>2, <1>6, <1>7, <2>1
  <2>2. CASE i # N + 1
    <3>1. i \in 1 .. N
      BY <1>2, <2>2
    <3>. QED  BY <1>2, <1>5, <1>6, <1>7, <3>1
  <2>. QED  BY <2>1, <2>2
<1>9. y = w
  BY <1>6, <1>7, <1>8, SameSequence
<1>. QED  BY <1>5, <1>9 DEF x, y, w, z, P

\* Each line of the text is printed by itself.
LEMMA LinesKept ==
    ASSUME NEW s \in CStrings, NEW room \in Nat
    PROVE  LinesOf(print_wrapped_text(s, room)) = FlattenSeq(PrintedEach(LinesOf(s), room))
<1>. DEFINE Kept(t) == LinesOf(print_wrapped_text(t, room)) = FlattenSeq(PrintedEach(LinesOf(t), room))
            T == {n \in Nat : \A t \in CStrings : Len(t) < n => Kept(t)}
<1>1. ASSUME NEW t \in CStrings PROVE Len(t) \in Nat /\ LinesOf(t) \in Seq(CStrings) /\ print_wrapped_text(t, room) \in CStrings
  <2>1. print_wrapped_text(t, room) \in CStrings
    BY PrintJoined
  <2>. QED  BY <2>1, LinesType, ElementFacts DEF CStrings
<1>2. ASSUME NEW t \in CStrings, \A i \in 1 .. Len(t) : t[i] # "\n"
      PROVE  Kept(t)
  <2>. DEFINE P == LinesOf(print_wrapped_text(t, room))
              none == <<>>
  <2>1. LinesOf(t) = Append(none, t) /\ none \in Seq(CStrings) /\ P \in Seq(CStrings)
    <3>1. LinesOf(t) = <<t>>
      BY <1>2, OneLine
    <3>2. P \in Seq(CStrings)
      BY <1>1, LinesType DEF CStrings
    <3>. HIDE DEF P
    <3>. QED  BY <3>1, <3>2
  <2>2. PrintedEach(none, room) = none
    BY DEF PrintedEach
  <2>3. FlattenSeq(none) = none
    BY DEF FlattenSeq
  <2>. HIDE DEF none, P
  <2>4. PrintedEach(LinesOf(t), room) = Append(PrintedEach(none, room), P)
    BY <2>1, PrintedOneMore DEF P
  <2>5. FlattenSeq(Append(none, P)) = none \o P
    <3>1. none \in Seq(Seq(CStrings))
      BY DEF none
    <3>. QED  BY <2>1, <2>3, <3>1, FlattenAppend
  <2>6. none \o P = P
    BY <2>1, ConcatEmpty DEF none
  <2>. QED  BY <2>2, <2>4, <2>5, <2>6 DEF P
<1>3. 0 \in T
  <2>1. \A t \in CStrings : ~(Len(t) < 0)
    BY <1>1
  <2>. HIDE DEF Kept
  <2>. QED  BY <2>1
<1>4. ASSUME NEW n \in 1 .. Len(s) + 1, n - 1 \in T PROVE n \in T
  <2>. SUFFICES ASSUME NEW t \in CStrings, Len(t) < n PROVE Kept(t)
    <3>. HIDE DEF Kept
    <3>. QED  OBVIOUS
  <2>1. ASSUME NEW a \in CStrings, NEW b \in CStrings, t = Joined(a, b), Len(a) < Len(t),
               \A i \in 1 .. Len(b) : b[i] # "\n"
        PROVE  Kept(t)
    <3>. DEFINE PA == LinesOf(print_wrapped_text(a, room))
                PB == LinesOf(print_wrapped_text(b, room))
                L  == LinesOf(a)
    <3>1. Kept(a)
      <4>1. Len(a) < n - 1
        BY <1>1, <2>1
      <4>. HIDE DEF Kept
      <4>. QED  BY <1>4, <4>1
    <3>2. LinesOf(print_wrapped_text(t, room)) = PA \o PB
      <4>1. print_wrapped_text(t, room) = Joined(print_wrapped_text(a, room), print_wrapped_text(b, room))
        BY <2>1, PrintJoined
      <4>. QED  BY <1>1, <4>1, JoinedLines
    <3>3. LinesOf(t) = Append(L, b)
      <4>1. LinesOf(t) = L \o LinesOf(b) /\ LinesOf(b) = <<b>> /\ L \in Seq(CStrings)
        BY <1>1, <2>1, JoinedLines, OneLine
      <4>. HIDE DEF L
      <4>. QED  BY <4>1, OneMore
    <3>4. PB \in Seq(CStrings) /\ L \in Seq(CStrings)
      BY <1>1, LinesType DEF CStrings
    <3>. HIDE DEF L
    <3>5. PrintedEach(LinesOf(t), room) = Append(PrintedEach(L, room), PB) /\ PrintedEach(L, room) \in Seq(Seq(CStrings))
      BY <3>3, <3>4, PrintedOneMore
    <3>6. PA = FlattenSeq(PrintedEach(L, room))
      BY <3>1 DEF L
    <3>. HIDE DEF PA, PB
    <3>7. FlattenSeq(Append(PrintedEach(L, room), PB)) = FlattenSeq(PrintedEach(L, room)) \o PB
      BY <3>4, <3>5, FlattenAppend
    <3>. QED  BY <3>2, <3>5, <3>6, <3>7
  <2>. QED  BY <1>2, <2>1, CutAtLineEnd
<1>5. Len(s) + 1 \in T
  <2>1. Len(s) + 1 \in 0 .. Len(s) + 1 /\ Len(s) + 1 \in Nat
    BY <1>1
  <2>. HIDE DEF T
  <2>. QED  BY <1>3, <1>4, <2>1, Climb
<1>6. Len(s) < Len(s) + 1
  BY <1>1
<1>. HIDE DEF Kept
<1>7. Kept(s)
  BY <1>5, <1>6
<1>. QED  BY <1>7 DEF Kept

-----------------------------------------------------------------------------
(* What the marks of a line ask for, as the line grows.                    *)

\* A line of which a is the beginning, up to the end of a word.
Grown(a, c) ==
    /\ Starts(a) = {i \in Starts(c) : i < Len(a)}
    /\ \A i \in Starts(a) : WordAt(c, i) = WordAt(a, i)
    /\ \A i \in 0 .. Len(a) - 1 : Char(c, i) = Char(a, i)
    /\ \A i \in 0 .. Len(a) : SubSeq(c, 1, i) = SubSeq(a, 1, i)

LEMMA SameFront ==
    ASSUME NEW a \in CStrings, NEW b \in CStrings
    PROVE  LET c == a \o b IN
           /\ \A i \in 0 .. Len(a) - 1 : Char(c, i) = Char(a, i)
           /\ \A i \in 0 .. Len(a) : SubSeq(c, 1, i) = SubSeq(a, 1, i)
<1>. DEFINE c == a \o b
<1>1. /\ c \in CStrings /\ Len(c) = Len(a) + Len(b) /\ Len(a) \in Nat /\ Len(b) \in Nat
      /\ \A i \in 1 .. Len(a) : c[i] = a[i]
  BY ConcatFacts, ElementFacts DEF CStrings
<1>. HIDE DEF c
<1>2. a \in Seq(Characters) /\ c \in Seq(Characters)
  BY <1>1 DEF CStrings
<1>3. ASSUME NEW i \in 0 .. Len(a) - 1 PROVE Char(c, i) = Char(a, i)
  <2>1. i \in 0 .. Len(c) - 1 /\ i + 1 \in 1 .. Len(a)
    BY <1>1
  <2>. QED  BY <1>1, <1>2, <2>1, CharFacts
<1>4. ASSUME NEW i \in 0 .. Len(a) PROVE SubSeq(c, 1, i) = SubSeq(a, 1, i)
  <2>. DEFINE x == SubSeq(c, 1, i)
              y == SubSeq(a, 1, i)
  <2>1. i \in 0 .. Len(c) /\ i \in Nat /\ \A k \in 1 .. i : k \in 1 .. Len(a)
    BY <1>1
  <2>2. x \in CStrings /\ Len(x) = i /\ \A k \in 1 .. i : x[k] = c[k]
    BY <1>2, <2>1, FrontFacts DEF CStrings
  <2>3. y \in CStrings /\ Len(y) = i /\ \A k \in 1 .. i : y[k] = a[k]
    BY <1>2, FrontFacts DEF CStrings
  <2>. HIDE DEF x, y
  <2>4. Len(x) = Len(y) /\ \A k \in 1 .. Len(x) : x[k] = y[k]
    BY <1>1, <2>1, <2>2, <2>3
  <2>5. x = y
    BY <2>2, <2>3, <2>4, SameSequence DEF CStrings
  <2>. QED  BY <2>5 DEF x, y
<1>. QED  BY <1>3, <1>4 DEF c

LEMMA GrownIs ==
    ASSUME NEW a \in CStrings, NEW b \in CStrings, Apart(a, b)
    PROVE  /\ Grown(a, a \o b) /\ Len(a) \in Nat
           /\ \A i \in Starts(a \o b) : i < Len(a) \/ (i - Len(a) \in Starts(b) /\ i >= Len(a))
           /\ \A j \in Starts(b) : /\ Len(a) + j \in Starts(a \o b)
                                   /\ WordAt(a \o b, Len(a) + j) = WordAt(b, j)
<1>. DEFINE c == a \o b
<1>1. c \in CStrings /\ Len(c) = Len(a) + Len(b) /\ Len(a) \in Nat /\ Len(b) \in Nat
  BY TextsConcat
<1>2. a \in Seq(Characters) /\ b \in Seq(Characters) /\ c \in Seq(Characters)
  BY <1>1 DEF CStrings
<1>3. \A i \in 0 .. Len(a) - 1 : /\ i \in Starts(c) <=> i \in Starts(a)
                                 /\ i \in Starts(a) => WordAt(c, i) = WordAt(a, i)
  BY <1>2, WordsInFront
<1>4. \A i \in 0 .. Len(b) - 1 : /\ Len(a) + i \in Starts(c) <=> i \in Starts(b)
                                 /\ i \in Starts(b) => WordAt(c, Len(a) + i) = WordAt(b, i)
  BY <1>2, WordsBehind
<1>5. /\ \A i \in 0 .. Len(a) - 1 : Char(c, i) = Char(a, i)
      /\ \A i \in 0 .. Len(a) : SubSeq(c, 1, i) = SubSeq(a, 1, i)
  BY SameFront
<1>. HIDE DEF c
<1>6. /\ \A i \in Starts(a) : i \in 0 .. Len(a) - 1
      /\ \A i \in Starts(b) : i \in 0 .. Len(b) - 1
      /\ \A i \in Starts(c) : i \in 0 .. Len(c) - 1
  BY DEF Starts
<1>7. ASSUME NEW i \in Starts(c), ~(i < Len(a))
      PROVE  i - Len(a) \in Starts(b) /\ i >= Len(a)
  <2>1. i - Len(a) \in 0 .. Len(b) - 1 /\ Len(a) + (i - Len(a)) = i /\ i >= Len(a)
    BY <1>1, <1>6, <1>7
  <2>. QED  BY <1>4, <2>1
<1>8. Starts(a) = {i \in Starts(c) : i < Len(a)}
  <2>1. \A i \in Starts(c) : i < Len(a) => i \in 0 .. Len(a) - 1
    BY <1>1, <1>6
  <2>2. \A i \in Starts(a) : i < Len(a)
    BY <1>1, <1>6
  <2>. QED  BY <1>3, <1>6, <2>1, <2>2
<1>9. Grown(a, c)
  BY <1>3, <1>5, <1>6, <1>8 DEF Grown
<1>. QED  BY <1>1, <1>4, <1>6, <1>7, <1>9 DEF c

\* The marks stay,
LEMMA MarksStay ==
    ASSUME NEW a \in CStrings, NEW c \in CStrings, Grown(a, c), NEW i \in Starts(a)
    PROVE  /\ ListMark(c, i) <=> ListMark(a, i)
           /\ SetOff(c, i) <=> SetOff(a, i)
           /\ SubSeq(c, 1, i) = SubSeq(a, 1, i) /\ i \in 0 .. Len(a) - 1
<1>1. /\ \A k \in Starts(a) : k \in 0 .. Len(a) - 1 /\ Char(a, k) \notin Spaces
      /\ \A k \in Starts(c) : k \in Nat
      /\ Len(a) \in Nat /\ i \in 0 .. Len(a) - 1 /\ i \in Nat /\ i < Len(a)
  <2>1. Len(a) \in Nat
    BY ElementFacts DEF CStrings
  <2>2. \A k \in Starts(c) : k \in Nat
    <3>1. Len(c) \in Nat
      BY ElementFacts DEF CStrings
    <3>. QED  BY <3>1 DEF Starts
  <2>. QED  BY <2>1, <2>2 DEF Starts
<1>2. \A k \in Starts(c) : k < Len(a) <=> k \in Starts(a)
  BY DEF Grown
<1>3. Starts(a) \subseteq Starts(c)
  BY DEF Grown
<1>4. \A k \in Starts(a) : WordAt(c, k) = WordAt(a, k)
  BY DEF Grown
<1>5. \A k \in 0 .. Len(a) - 1 : Char(c, k) = Char(a, k)
  BY DEF Grown
<1>6. ASSUME NEW k \in Starts(a), k < i
      PROVE  (Char(c, k + 1) = " " /\ k + 2 \in Starts(c)) <=> (Char(a, k + 1) = " " /\ k + 2 \in Starts(a))
  <2>1. k + 1 \in 0 .. Len(a) - 1 /\ (k + 1 = i \/ k + 2 < Len(a))
    BY <1>1, <1>6
  <2>2. Char(c, k + 1) = Char(a, k + 1)
    BY <1>5, <2>1
  <2>3. Char(a, k + 1) = " " => k + 1 # i
    BY <1>1, SpaceFacts DEF Blanks
  <2>. QED  BY <1>2, <1>3, <2>1, <2>2, <2>3
<1>7. ListMark(c, i) <=> ListMark(a, i)
  <2>1. \A k \in Starts(c) : k <= i => k \in Starts(a)
    BY <1>1, <1>2
  <2>. QED  BY <1>3, <1>4, <1>6, <2>1 DEF ListMark
<1>8. SubSeq(c, 1, i) = SubSeq(a, 1, i)
  BY <1>1 DEF Grown
<1>9. SetOff(c, i) <=> SetOff(a, i)
  <2>1. i >= 1 => Char(c, i - 1) = Char(a, i - 1)
    <3>1. i >= 1 => i - 1 \in 0 .. Len(a) - 1
      BY <1>1
    <3>. QED  BY <1>5, <3>1
  <2>2. i >= 2 => Char(c, i - 2) = Char(a, i - 2) /\ i >= 1
    <3>1. i >= 2 => i - 2 \in 0 .. Len(a) - 1 /\ i >= 1
      BY <1>1
    <3>. QED  BY <1>5, <3>1
  <2>. QED  BY <1>8, <2>1, <2>2 DEF SetOff
<1>. QED  BY <1>1, <1>7, <1>8, <1>9

MarksIn(line) == {i \in Starts(line) : ListMark(line, i) \/ SetOff(line, i)}

LEMMA HangingIs ==
    ASSUME NEW line \in CStrings, NEW base
    PROVE  /\ MarksIn(line) = {} => Hanging(line, base) = base
           /\ \A last \in MarksIn(line) :
                (\A j \in MarksIn(line) : j <= last) =>
                Hanging(line, base)
                  = count_graphemes(SubSeq(line, 1, last)) + (IF ListMark(line, last) THEN 2 ELSE 0)
<1>. DEFINE M == MarksIn(line)
            max == CHOOSE i \in M : \A j \in M : j <= i
<1>1. Hanging(line, base) = IF M = {} THEN base
        ELSE count_graphemes(SubSeq(line, 1, max)) + (IF ListMark(line, max) THEN 2 ELSE 0)
  BY DEF Hanging, MarksIn
<1>2. \A i \in M : i \in Nat
  <2>1. Len(line) \in Nat
    BY ElementFacts DEF CStrings
  <2>. QED  BY <2>1 DEF MarksIn, Starts
<1>. HIDE DEF M
<1>3. ASSUME NEW last \in M, \A j \in M : j <= last
      PROVE  max = last
  <2>1. max \in M /\ \A j \in M : j <= max
    BY <1>3
  <2>. HIDE DEF max
  <2>2. max <= last /\ last <= max /\ max \in Nat /\ last \in Nat
    BY <1>2, <1>3, <2>1
  <2>. QED  BY <2>2
<1>. HIDE DEF max
<1>4. ASSUME NEW last \in M, \A j \in M : j <= last
      PROVE  Hanging(line, base)
               = count_graphemes(SubSeq(line, 1, last)) + (IF ListMark(line, last) THEN 2 ELSE 0)
  <2>1. max = last /\ M # {}
    BY <1>3, <1>4
  <2>. QED  BY <1>1, <2>1
<1>5. M = {} => Hanging(line, base) = base
  BY <1>1
<1>. QED  BY <1>4, <1>5 DEF M

\* so they ask for the same when there is no other,
LEMMA HangingKept ==
    ASSUME NEW a \in CStrings, NEW c \in CStrings, Grown(a, c), MarksIn(c) \subseteq Starts(a), NEW base
    PROVE  Hanging(c, base) = Hanging(a, base)
<1>1. MarksIn(c) = MarksIn(a)
  <2>1. \A i \in Starts(a) : i \in Starts(c) /\ (ListMark(c, i) <=> ListMark(a, i)) /\ (SetOff(c, i) <=> SetOff(a, i))
    <3>1. Starts(a) \subseteq Starts(c)
      BY DEF Grown
    <3>. QED  BY <3>1, MarksStay
  <2>. QED  BY <2>1 DEF MarksIn
<1>2. CASE MarksIn(a) = {}
  <2>1. Hanging(a, base) = base
    BY <1>2, HangingIs
  <2>2. MarksIn(c) = {}
    BY <1>1, <1>2
  <2>3. Hanging(c, base) = base
    BY <2>2, HangingIs, Zenon
  <2>. QED  BY <2>1, <2>3
<1>3. CASE MarksIn(a) # {}
  <2>1. Len(a) \in Nat
    BY ElementFacts DEF CStrings
  <2>2. MarksIn(a) \subseteq 0 .. Len(a)
    BY <2>1 DEF MarksIn, Starts
  <2>3. PICK m \in MarksIn(a) : m \in 0 .. Len(a) /\ \A k \in m + 1 .. Len(a) : k \notin MarksIn(a)
    BY <1>3, <2>1, <2>2, LastPlace
  <2>4. \A j \in MarksIn(a) : j <= m
    <3>1. \A j \in 0 .. Len(a) : j \in m + 1 .. Len(a) \/ j <= m
      BY <2>1, <2>3
    <3>. QED  BY <2>2, <2>3, <3>1
  <2>5. (ListMark(c, m) <=> ListMark(a, m)) /\ SubSeq(c, 1, m) = SubSeq(a, 1, m)
    <3>1. m \in Starts(a)
      BY <2>3 DEF MarksIn
    <3>. QED  BY <3>1, MarksStay
  <2>6. Hanging(a, base) = count_graphemes(SubSeq(a, 1, m)) + (IF ListMark(a, m) THEN 2 ELSE 0)
    BY <2>3, <2>4, HangingIs
  <2>7. Hanging(c, base) = count_graphemes(SubSeq(c, 1, m)) + (IF ListMark(c, m) THEN 2 ELSE 0)
    BY <1>1, <2>3, <2>4, HangingIs
  <2>8. (IF ListMark(c, m) THEN 2 ELSE 0) = (IF ListMark(a, m) THEN 2 ELSE 0)
    BY <2>5
  <2>9. count_graphemes(SubSeq(c, 1, m)) = count_graphemes(SubSeq(a, 1, m))
    BY <2>5
  <2>. QED  BY <2>6, <2>7, <2>8, <2>9
<1>. QED  BY <1>2, <1>3

IsWord(w) == w \in CStrings /\ Len(w) # 0 /\ \A i \in 1 .. Len(w) : w[i] \notin Spaces

LEMMA WordItself ==
    ASSUME NEW w, IsWord(w)
    PROVE  Starts(w) = {0} /\ WordAt(w, 0) = w
<1>1. w \in Seq(Characters) /\ Len(w) \in Nat /\ Len(w) # 0 /\ \A i \in 1 .. Len(w) : w[i] \notin Spaces
  BY ElementFacts DEF IsWord, CStrings
<1>2. /\ 0 \in 0 .. Len(w) - 1 /\ 0 + 1 \in 1 .. Len(w) /\ 0 \in 0 .. Len(w)
      /\ Len(w) \in 0 .. Len(w) /\ 0 + 1 = 1
      /\ \A i \in 0 .. Len(w) - 1 : i = 0 \/ i \in 1 .. Len(w)
  BY <1>1
<1>3. Starts(w) = {0}
  <2>1. 0 \in Starts(w)
    BY <1>1, <1>2, StartsAre
  <2>2. \A i \in Starts(w) : i = 0
    BY <1>1, <1>2, StartsAre
  <2>. QED  BY <2>1, <2>2
<1>4. find_word_end(w, 0) = Len(w)
  <2>1. WordTo(w, 0, Len(w))
    BY <1>1, <1>2 DEF WordTo
  <2>. QED  BY <1>1, <1>2, <2>1, WordSpan
<1>5. SubSeq(w, 1, Len(w)) = w
  BY <1>1
<1>6. WordAt(w, 0) = w
  BY <1>2, <1>4, <1>5 DEF WordAt
<1>. QED  BY <1>3, <1>6

\* The lines a gap or a word makes.
LEMMA BehindGap ==
    ASSUME NEW a \in CStrings, NEW g \in CStrings, SpacesOnly(g)
    PROVE  Grown(a, a \o g) /\ Starts(a \o g) = Starts(a)
<1>1. Apart(a, g)
  <2>1. Len(g) = 0 \/ 1 \in 1 .. Len(g)
    <3>1. Len(g) \in Nat
      BY ElementFacts DEF CStrings
    <3>. QED  BY <3>1
  <2>. QED  BY <2>1 DEF Apart, SpacesOnly
<1>2. Starts(g) = {}
  <2>1. \A i \in 0 .. Len(g) - 1 : i + 1 \in 1 .. Len(g)
    <3>1. Len(g) \in Nat
      BY ElementFacts DEF CStrings
    <3>. QED  BY <3>1
  <2>2. g \in Seq(Characters)
    BY DEF CStrings
  <2>3. \A i : i \notin Starts(g)
    BY <2>1, <2>2, StartsAre DEF SpacesOnly
  <2>. QED  BY <2>3
<1>3. Grown(a, a \o g) /\ \A i \in Starts(a \o g) : i < Len(a)
  BY <1>1, <1>2, GrownIs
<1>4. Starts(a) = {i \in Starts(a \o g) : i < Len(a)}
  BY <1>3 DEF Grown
<1>. QED  BY <1>3, <1>4

LEMMA BehindWord ==
    ASSUME NEW a \in CStrings, Open(a), NEW w, IsWord(w)
    PROVE  /\ Grown(a, a \o w) /\ a \o w \in CStrings
           /\ Starts(a \o w) = Starts(a) \union {Len(a)} /\ WordAt(a \o w, Len(a)) = w
           /\ Len(a) \in Nat /\ \A i \in Starts(a) : i \in Nat /\ i < Len(a)
<1>1. w \in CStrings /\ a \o w \in CStrings /\ Len(a) \in Nat
  BY TextsConcat DEF IsWord
<1>2. Apart(a, w)
  BY DEF Apart, Open
<1>3. Starts(w) = {0} /\ WordAt(w, 0) = w
  BY WordItself
<1>4. /\ Grown(a, a \o w)
      /\ \A i \in Starts(a \o w) : i < Len(a) \/ (i - Len(a) = 0 /\ i >= Len(a))
      /\ Len(a) + 0 \in Starts(a \o w) /\ WordAt(a \o w, Len(a) + 0) = w
  <2>1. \A i \in Starts(a \o w) : i < Len(a) \/ (i - Len(a) \in Starts(w) /\ i >= Len(a))
    BY <1>1, <1>2, GrownIs
  <2>2. \A j \in Starts(w) : Len(a) + j \in Starts(a \o w) /\ WordAt(a \o w, Len(a) + j) = WordAt(w, j)
    BY <1>1, <1>2, GrownIs
  <2>3. Grown(a, a \o w)
    BY <1>1, <1>2, GrownIs
  <2>. QED  BY <1>3, <2>1, <2>2, <2>3
<1>5. Len(a) + 0 = Len(a)
  BY <1>1
<1>6. \A i \in Starts(a \o w) : i \in Nat
  <2>1. Len(a \o w) \in Nat
    BY <1>1, ElementFacts DEF CStrings
  <2>. QED  BY <2>1 DEF Starts
<1>7. \A i \in Starts(a \o w) : i < Len(a) \/ i = Len(a)
  BY <1>1, <1>4, <1>6
<1>8. Starts(a) = {i \in Starts(a \o w) : i < Len(a)}
  BY <1>4 DEF Grown
<1>. QED  BY <1>1, <1>4, <1>5, <1>6, <1>7, <1>8

\* What is before the place of the next word sets it off.
DotsLast(line) == Words(line) # <<>> /\ is_all_dots(Last(Words(line)))
SetBehind(line) ==
    \/ Len(line) >= 2 /\ line[Len(line) - 1] \in Blanks /\ line[Len(line)] = " "
    \/ Len(line) >= 1 /\ line[Len(line)] = "\t"
    \/ DotsLast(line)

\* All words are list marks, and the next word is where another can be.
MarksOnly(line) ==
    \A k \in Starts(line) :
        /\ IsBullet(WordAt(line, k)) /\ Char(line, k + 1) = " "
        /\ k + 2 = Len(line) \/ k + 2 \in Starts(line)

LEMMA BulletIs ==
    ASSUME NEW w
    PROVE  IsBullet(w) => Len(w) = 1
BY DEF IsBullet

LEMMA MarkBehind ==
    ASSUME NEW a \in CStrings, Open(a), NEW w, IsWord(w)
    PROVE  ListMark(a \o w, Len(a)) <=> IsBullet(w) /\ MarksOnly(a)
<1>. DEFINE c == a \o w
            n == Len(a)
<1>1. /\ Starts(c) = Starts(a) \union {n} /\ WordAt(c, n) = w /\ n \in Nat
      /\ \A k \in Starts(a) : k \in Nat /\ k < n
      /\ \A k \in Starts(a) : WordAt(c, k) = WordAt(a, k)
      /\ \A k \in 0 .. n - 1 : Char(c, k) = Char(a, k)
  BY BehindWord DEF Grown
<1>. HIDE DEF c, n
<1>2. ASSUME NEW k \in Starts(a)
      PROVE  (Char(c, k + 1) = " " /\ k + 2 \in Starts(c))
               <=> (Char(a, k + 1) = " " /\ (k + 2 = n \/ k + 2 \in Starts(a)))
  <2>1. k + 2 \in Starts(c) <=> (k + 2 = n \/ k + 2 \in Starts(a))
    BY <1>1
  <2>2. k + 2 = n \/ k + 2 \in Starts(a) => k + 1 \in 0 .. n - 1
    <3>1. k + 2 \in Starts(a) => k + 2 < n
      BY <1>1
    <3>. QED  BY <1>1, <3>1
  <2>. QED  BY <1>1, <2>1, <2>2
<1>3. ListMark(c, n) <=>
        /\ IsBullet(w)
        /\ \A k \in Starts(a) : /\ IsBullet(WordAt(a, k))
                                /\ Char(c, k + 1) = " " /\ k + 2 \in Starts(c)
  <2>1. \A k \in Starts(a) : k <= n /\ k < n
    BY <1>1
  <2>2. n <= n /\ ~(n < n)
    BY <1>1
  <2>. QED  BY <1>1, <2>1, <2>2 DEF ListMark
<1>4. MarksOnly(a) <=> \A k \in Starts(a) : /\ IsBullet(WordAt(a, k)) /\ Char(a, k + 1) = " "
                                            /\ k + 2 = n \/ k + 2 \in Starts(a)
  BY DEF MarksOnly, n
<1>5. ListMark(c, n) <=> IsBullet(w) /\ MarksOnly(a)
  BY <1>2, <1>3, <1>4
<1>. QED  BY <1>5 DEF c, n

LEMMA SetOffBehind ==
    ASSUME NEW a \in CStrings, NEW w \in CStrings
    PROVE  SetOff(a \o w, Len(a)) <=> SetBehind(a)
<1>. DEFINE c == a \o w
            n == Len(a)
<1>1. /\ n \in Nat /\ \A i \in 0 .. n - 1 : Char(c, i) = Char(a, i)
      /\ \A i \in 0 .. n : SubSeq(c, 1, i) = SubSeq(a, 1, i)
  BY SameFront, ElementFacts DEF CStrings
<1>2. SubSeq(a, 1, n) = a /\ a \in Seq(Characters) /\ n \in 0 .. n
  BY <1>1 DEF CStrings
<1>3. \A i \in 0 .. n - 1 : Char(a, i) = a[i + 1]
  BY <1>2, CharFacts
<1>. HIDE DEF c, n
<1>4. SubSeq(c, 1, n) = a
  BY <1>1, <1>2
<1>5. n >= 1 => Char(c, n - 1) = a[n]
  <2>1. n >= 1 => n - 1 \in 0 .. n - 1 /\ (n - 1) + 1 = n
    BY <1>1
  <2>. QED  BY <1>1, <1>3, <2>1
<1>6. n >= 2 => Char(c, n - 2) = a[n - 1] /\ n >= 1
  <2>1. n >= 2 => n - 2 \in 0 .. n - 1 /\ (n - 2) + 1 = n - 1 /\ n >= 1
    BY <1>1
  <2>. QED  BY <1>1, <1>3, <2>1
<1>7. SetOff(c, n) <=> \/ n >= 1 /\ Char(c, n - 1) = "\t"
                       \/ n >= 2 /\ Char(c, n - 2) \in {" ", "\t"} /\ Char(c, n - 1) = " "
                       \/ DotsLast(a)
  BY <1>4 DEF SetOff, DotsLast
<1>8. SetOff(c, n) <=> SetBehind(a)
  BY <1>5, <1>6, <1>7 DEF SetBehind, n, Blanks
<1>. QED  BY <1>8 DEF c, n

LEMMA HangingWord ==
    ASSUME NEW a \in CStrings, Open(a), NEW w, IsWord(w), NEW base
    PROVE  Hanging(a \o w, base) =
             IF IsBullet(w) /\ MarksOnly(a) THEN count_graphemes(a) + 2
             ELSE IF SetBehind(a) THEN count_graphemes(a)
             ELSE Hanging(a, base)
<1>. DEFINE c == a \o w
            n == Len(a)
<1>1. /\ Starts(c) = Starts(a) \union {n} /\ n \in Nat /\ Grown(a, c) /\ c \in CStrings
      /\ \A k \in Starts(a) : k \in Nat /\ k < n
  BY BehindWord
<1>2. (ListMark(c, n) <=> IsBullet(w) /\ MarksOnly(a)) /\ (SetOff(c, n) <=> SetBehind(a))
  <2>1. w \in CStrings
    BY DEF IsWord
  <2>. QED  BY <2>1, MarkBehind, SetOffBehind
<1>3. SubSeq(c, 1, n) = a
  <2>1. SubSeq(a, 1, n) = a /\ n \in 0 .. n
    BY <1>1 DEF CStrings
  <2>2. SubSeq(c, 1, n) = SubSeq(a, 1, n)
    <3>. HIDE DEF c
    <3>. QED  BY <1>1, <2>1 DEF Grown
  <2>. QED  BY <2>1, <2>2
<1>4. count_graphemes(a) \in Nat
  BY CountBounds DEF CStrings
<1>. HIDE DEF c, n
<1>5. CASE ListMark(c, n) \/ SetOff(c, n)
  <2>1. n \in MarksIn(c) /\ \A j \in MarksIn(c) : j <= n
    BY <1>1, <1>5 DEF MarksIn
  <2>2. Hanging(c, base) = count_graphemes(a) + (IF ListMark(c, n) THEN 2 ELSE 0)
    BY <1>1, <1>3, <2>1, HangingIs
  <2>3. count_graphemes(a) + 0 = count_graphemes(a)
    BY <1>4
  <2>4. Hanging(c, base) = IF IsBullet(w) /\ MarksOnly(a) THEN count_graphemes(a) + 2
                           ELSE count_graphemes(a)
    BY <1>2, <2>2, <2>3
  <2>. QED  BY <1>2, <1>5, <2>4 DEF c
<1>6. CASE ~(ListMark(c, n) \/ SetOff(c, n))
  <2>1. MarksIn(c) \subseteq Starts(a)
    BY <1>1, <1>6 DEF MarksIn
  <2>2. Hanging(c, base) = Hanging(a, base)
    BY <1>1, <2>1, HangingKept
  <2>. QED  BY <1>2, <1>6, <2>2 DEF c
<1>. QED  BY <1>5, <1>6

LEMMA HangingGap ==
    ASSUME NEW a \in CStrings, NEW g \in CStrings, SpacesOnly(g), NEW base
    PROVE  Hanging(a \o g, base) = Hanging(a, base)
<1>1. Grown(a, a \o g) /\ Starts(a \o g) = Starts(a) /\ a \o g \in CStrings
  BY BehindGap, TextsConcat
<1>2. MarksIn(a \o g) \subseteq Starts(a)
  BY <1>1 DEF MarksIn
<1>. QED  BY <1>1, <1>2, HangingKept

\* Nothing but an indentation.
LEMMA OnlyIndentation ==
    ASSUME NEW l \in CStrings, SpacesOnly(l), NEW base
    PROVE  MarksOnly(l) /\ Hanging(l, base) = base /\ Words(l) = <<>>
<1>1. l \in Seq(Characters) /\ Len(l) \in Nat
  BY ElementFacts DEF CStrings
<1>2. Starts(l) = {}
  <2>1. \A i \in 0 .. Len(l) - 1 : i + 1 \in 1 .. Len(l)
    BY <1>1
  <2>2. \A i : i \notin Starts(l)
    BY <1>1, <2>1, StartsAre DEF SpacesOnly
  <2>. QED  BY <2>2
<1>3. MarksIn(l) = {}
  BY <1>2 DEF MarksIn
<1>4. MarksOnly(l)
  BY <1>2 DEF MarksOnly
<1>5. Words(l) = <<>>
  BY <1>1, NoWords DEF SpacesOnly
<1>. QED  BY <1>3, <1>4, <1>5, HangingIs

LEMMA MarksOnlyOn ==
    ASSUME NEW a \in CStrings, Open(a), NEW w, IsWord(w), NEW g \in CStrings, SpacesOnly(g), Len(g) # 0
    PROVE  MarksOnly((a \o w) \o g) <=> MarksOnly(a) /\ IsBullet(w) /\ Len(g) = 1 /\ g[1] = " "
<1>. DEFINE c == a \o w
            d == c \o g
            n == Len(a)
<1>1. /\ Starts(c) = Starts(a) \union {n} /\ n \in Nat /\ Grown(a, c) /\ c \in CStrings
      /\ WordAt(c, n) = w /\ \A k \in Starts(a) : k \in Nat /\ k < n
  BY BehindWord
<1>2. w \in CStrings /\ Len(c) = n + Len(w) /\ Len(w) \in Nat /\ Len(w) # 0
  <2>1. w \in CStrings /\ Len(w) # 0
    BY DEF IsWord
  <2>. QED  BY <2>1, TextsConcat
<1>. HIDE DEF c, n
<1>3. /\ Grown(c, d) /\ Starts(d) = Starts(c) /\ d \in CStrings /\ Len(d) = Len(c) + Len(g)
      /\ Len(g) \in Nat /\ Len(g) # 0 /\ \A k \in 1 .. Len(g) : d[Len(c) + k] = g[k]
  <2>1. /\ d \in CStrings /\ Len(d) = Len(c) + Len(g)
        /\ \A i \in Len(c) + 1 .. Len(c) + Len(g) : d[i] = g[i - Len(c)]
    BY <1>1, ConcatFacts DEF CStrings
  <2>2. Len(g) \in Nat
    BY ElementFacts DEF CStrings
  <2>3. \A k \in 1 .. Len(g) : Len(c) + k \in Len(c) + 1 .. Len(c) + Len(g) /\ (Len(c) + k) - Len(c) = k
    BY <1>1, <1>2, <2>2
  <2>4. \A k \in 1 .. Len(g) : d[Len(c) + k] = g[k]
    BY <2>1, <2>3
  <2>. QED  BY <1>1, <2>1, <2>2, <2>4, BehindGap
<1>. HIDE DEF d
<1>4. /\ \A k \in Starts(a) : WordAt(d, k) = WordAt(a, k)
      /\ WordAt(d, n) = w
      /\ \A k \in 0 .. n - 1 : Char(d, k) = Char(a, k)
      /\ Starts(d) = Starts(a) \union {n}
  <2>1. \A k \in 0 .. n - 1 : k \in 0 .. Len(c) - 1
    BY <1>1, <1>2
  <2>2. \A k \in Starts(c) : WordAt(d, k) = WordAt(c, k)
    BY <1>3 DEF Grown
  <2>3. \A k \in Starts(a) : WordAt(c, k) = WordAt(a, k)
    BY <1>1 DEF Grown
  <2>4. \A k \in 0 .. Len(c) - 1 : Char(d, k) = Char(c, k)
    BY <1>3 DEF Grown
  <2>5. \A k \in 0 .. n - 1 : Char(c, k) = Char(a, k)
    BY <1>1 DEF Grown, n
  <2>. QED  BY <1>1, <1>3, <2>1, <2>2, <2>3, <2>4, <2>5
<1>5. Len(w) = 1 => Char(d, n + 1) = g[1]
  <2>1. Len(w) = 1 => n + 1 \in 0 .. Len(d) - 1 /\ (n + 1) + 1 = Len(c) + 1 /\ 1 \in 1 .. Len(g)
    BY <1>1, <1>2, <1>3
  <2>2. d \in Seq(Characters)
    BY <1>3 DEF CStrings
  <2>. QED  BY <1>3, <2>1, <2>2, CharFacts
<1>6. IsBullet(w) => Len(w) = 1
  BY BulletIs
<1>7. ASSUME NEW k \in Starts(a)
      PROVE  (Char(d, k + 1) = " " /\ (k + 2 = Len(d) \/ k + 2 \in Starts(d)))
               <=> (Char(a, k + 1) = " " /\ (k + 2 = n \/ k + 2 \in Starts(a)))
  <2>1. k + 2 # Len(d)
    BY <1>1, <1>2, <1>3
  <2>2. k + 2 \in Starts(d) <=> (k + 2 = n \/ k + 2 \in Starts(a))
    BY <1>4
  <2>3. k + 2 = n \/ k + 2 \in Starts(a) => k + 1 \in 0 .. n - 1
    <3>1. k + 2 \in Starts(a) => k + 2 < n
      BY <1>1
    <3>. QED  BY <1>1, <3>1
  <2>. QED  BY <1>4, <2>1, <2>2, <2>3
<1>8. (IsBullet(w) /\ Char(d, n + 1) = " " /\ (n + 2 = Len(d) \/ n + 2 \in Starts(d)))
        <=> (IsBullet(w) /\ Len(g) = 1 /\ g[1] = " ")
  <2>1. n + 2 \notin Starts(d)
    <3>1. n + 2 \notin Starts(a)
      BY <1>1
    <3>2. n + 2 # n
      BY <1>1
    <3>. QED  BY <1>4, <3>1, <3>2
  <2>2. Len(w) = 1 => (n + 2 = Len(d) <=> Len(g) = 1)
    <3>1. Len(w) = 1 => Len(d) = (n + 1) + Len(g) /\ n \in Nat /\ Len(g) \in Nat
      BY <1>1, <1>2, <1>3
    <3>. HIDE DEF d
    <3>2. \A x \in Nat : n + 2 = (n + 1) + x <=> x = 1
      BY <1>1
    <3>. QED  BY <3>1, <3>2
  <2>. QED  BY <1>5, <1>6, <2>1, <2>2
<1>9. MarksOnly(d) <=>
        /\ IsBullet(w) /\ Char(d, n + 1) = " " /\ (n + 2 = Len(d) \/ n + 2 \in Starts(d))
        /\ \A k \in Starts(a) : /\ IsBullet(WordAt(a, k))
                                /\ Char(d, k + 1) = " " /\ (k + 2 = Len(d) \/ k + 2 \in Starts(d))
  BY <1>4 DEF MarksOnly
<1>10. MarksOnly(a) <=> \A k \in Starts(a) : /\ IsBullet(WordAt(a, k)) /\ Char(a, k + 1) = " "
                                             /\ k + 2 = n \/ k + 2 \in Starts(a)
  BY DEF MarksOnly, n
<1>11. MarksOnly(d) <=> MarksOnly(a) /\ IsBullet(w) /\ Len(g) = 1 /\ g[1] = " "
  BY <1>7, <1>8, <1>9, <1>10
<1>. QED  BY <1>11 DEF c, d

\* So all the words are list marks.
LEMMA BulletsOnly ==
    ASSUME NEW l \in CStrings, MarksOnly(l)
    PROVE  Words(l) \in Seq(CStrings) /\ \A k \in 1 .. Len(Words(l)) : IsBullet(Words(l)[k])
<1>1. l \in Seq(Characters) /\ Len(l) \in Nat
  BY ElementFacts DEF CStrings
<1>2. PICK f : Worded(f, l) /\ Words(l) = f[Len(l)]
  BY <1>1, WordsAre
<1>3. /\ f \in [0 .. Len(l) -> Seq(CStrings)] /\ f[0] = <<>>
      /\ \A n \in 1 .. Len(l) :
            f[n] = IF n - 1 \in Starts(l) THEN Append(f[n - 1], WordAt(l, n - 1)) ELSE f[n - 1]
  BY <1>2 DEF Worded
<1>. DEFINE T == {n \in Nat : \A k \in 1 .. Len(f[n]) : IsBullet(f[n][k])}
<1>4. 0 \in T
  <2>1. Len(<<>>) = 0 /\ \A k \in 1 .. 0 : FALSE
    OBVIOUS
  <2>2. \A k \in 1 .. Len(f[0]) : FALSE
    BY <1>3, <2>1
  <2>. QED  BY <2>2
<1>5. ASSUME NEW n \in 1 .. Len(l), n - 1 \in T PROVE n \in T
  <2>1. n \in Nat /\ f[n - 1] \in Seq(CStrings) /\ \A k \in 1 .. Len(f[n - 1]) : IsBullet(f[n - 1][k])
    BY <1>1, <1>3, <1>5
  <2>2. CASE n - 1 \in Starts(l)
    <3>. DEFINE x == f[n - 1]
                w == WordAt(l, n - 1)
    <3>1. f[n] = Append(x, w) /\ IsBullet(w) /\ w \in CStrings
      <4>1. w \in CStrings
        BY <1>1, <2>2, WordFacts DEF CStrings
      <4>. QED  BY <1>3, <2>2, <4>1 DEF MarksOnly
    <3>. HIDE DEF x, w
    <3>2. /\ Len(f[n]) = Len(x) + 1 /\ Len(x) \in Nat /\ f[n][Len(x) + 1] = w
          /\ \A k \in 1 .. Len(x) : f[n][k] = x[k] /\ IsBullet(x[k])
      <4>1. x \in Seq(CStrings) /\ \A k \in 1 .. Len(x) : IsBullet(x[k])
        BY <2>1 DEF x
      <4>. QED  BY <3>1, <4>1, AppendFacts, ElementFacts
    <3>3. \A k \in 1 .. Len(x) + 1 : k \in 1 .. Len(x) \/ k = Len(x) + 1
      BY <3>2
    <3>4. \A k \in 1 .. Len(f[n]) : IsBullet(f[n][k])
      BY <3>1, <3>2, <3>3
    <3>. QED  BY <2>1, <3>4
  <2>3. CASE n - 1 \notin Starts(l)
    <3>1. f[n] = f[n - 1]
      BY <1>3, <2>3
    <3>. QED  BY <2>1, <3>1
  <2>. QED  BY <2>2, <2>3
<1>6. Len(l) \in T
  <2>1. Len(l) \in 0 .. Len(l)
    BY <1>1
  <2>. HIDE DEF T
  <2>. QED  BY <1>1, <1>4, <1>5, <2>1, Climb
<1>7. Words(l) \in Seq(CStrings)
  BY <1>1, <1>2, <1>3
<1>. QED  BY <1>2, <1>6, <1>7

-----------------------------------------------------------------------------
(* Lines that fit.                                                         *)

OneLined(t) == \A i \in 1 .. Len(t) : t[i] # "\n"

LEMMA OneLinedConcat ==
    ASSUME NEW a \in CStrings, NEW b \in CStrings, OneLined(a), OneLined(b)
    PROVE  OneLined(a \o b)
<1>. DEFINE c == a \o b
<1>1. /\ Len(c) = Len(a) + Len(b) /\ Len(a) \in Nat /\ Len(b) \in Nat
      /\ \A i \in 1 .. Len(a) : c[i] = a[i]
      /\ \A i \in Len(a) + 1 .. Len(a) + Len(b) : c[i] = b[i - Len(a)]
  BY ConcatFacts, ElementFacts DEF CStrings
<1>. HIDE DEF c
<1>2. ASSUME NEW i \in 1 .. Len(c) PROVE c[i] # "\n"
  <2>1. CASE i \in 1 .. Len(a)
    BY <1>1, <2>1 DEF OneLined
  <2>2. CASE i \notin 1 .. Len(a)
    <3>1. i \in Len(a) + 1 .. Len(a) + Len(b) /\ i - Len(a) \in 1 .. Len(b)
      BY <1>1, <2>2
    <3>. QED  BY <1>1, <3>1 DEF OneLined
  <2>. QED  BY <2>1, <2>2
<1>. QED  BY <1>2 DEF OneLined, c

\* Blanks and words have no line end.
LEMMA OneLinedPieces ==
    ASSUME NEW t
    PROVE  /\ (\A i \in 1 .. Len(t) : t[i] \in Blanks) => OneLined(t) /\ SpacesOnly(t)
           /\ IsWord(t) => OneLined(t)
BY SpaceFacts DEF OneLined, SpacesOnly, IsWord

LEMMA LinesGrow ==
    ASSUME NEW t \in CStrings, NEW done \in Seq(CStrings), NEW l \in CStrings, LinesOf(t) = Append(done, l),
           NEW b \in CStrings, OneLined(b)
    PROVE  LinesOf(t \o b) = Append(done, l \o b)
<1>1. LinesOf(t \o b) = Append(Front(LinesOf(t)), Last(LinesOf(t)) \o b)
  BY LinesExtended DEF CStrings, OneLined
<1>2. Front(Append(done, l)) = done /\ Last(Append(done, l)) = l
  BY AppendedLast
<1>. QED  BY <1>1, <1>2

LEMMA LinesBreak ==
    ASSUME NEW t \in CStrings, NEW p \in CStrings, OneLined(p)
    PROVE  LinesOf((t \o LineEnd) \o p) = Append(LinesOf(t), p) /\ LinesOf(t) \in Seq(CStrings)
<1>1. LinesOf((t \o LineEnd) \o p) = LinesOf(t) \o LinesOf(p)
  BY LinesBroken DEF CStrings, LineEnd
<1>2. LinesOf(p) = <<p>>
  BY OneLine DEF OneLined
<1>3. LinesOf(t) \in Seq(CStrings)
  BY LinesType DEF CStrings
<1>. QED  BY <1>1, <1>2, <1>3, OneMore

LEMMA ShortFits ==
    ASSUME NEW l, NEW i, NEW room \in Nat, count_graphemes(l) \in Nat, count_graphemes(l) <= room
    PROVE  Short(l, i, room)
BY DEF Short

LEMMA ShortOne ==
    ASSUME NEW l, NEW i, NEW room, Words(l) \in Seq(CStrings), Len(Words(l)) <= 1
    PROVE  Short(l, i, room)
<1>1. Len(Words(l)) \in Nat
  BY ElementFacts
<1>2. \A k \in 1 .. Len(Words(l)) - 1 : FALSE
  BY <1>1
<1>. QED  BY <1>2 DEF Short

\* The lines behind the first break: done, and r behind the indentation of the last.
Hung(at, base, room, done, r) ==
    /\ at \in Positions /\ at.wrapped = TRUE /\ done \in Seq(CStrings) /\ Len(done) # 0 /\ r \in CStrings
    /\ LinesOf(at.out) = Append(done, print_spaces(at.indent) \o r)
    /\ \A i \in 1 .. Len(done) : Short(done[i], i, room)
    /\ \A i \in 2 .. Len(done) : Hangs(done[i], done[1], base)
    /\ at.indent = Hanging(done[1], base)
    /\ at.current = at.indent + count_graphemes(r)
    /\ OneLined(r)
    /\ Len(r) # 0 => r[1] \notin Spaces /\ Words(r) # <<>>
    /\ at.current > room => Len(Words(r)) <= 1

\* An indented line.
LEMMA Indented ==
    ASSUME NEW n \in Nat, NEW r \in CStrings
    PROVE  LET l == print_spaces(n) \o r IN
           /\ l \in CStrings /\ count_graphemes(l) = n + count_graphemes(r)
           /\ Words(l) = Words(r) /\ Words(r) \in Seq(CStrings)
           /\ Len(r) # 0 /\ r[1] \notin Spaces => find_word_start(l, 0) = n
<1>. DEFINE p == print_spaces(n)
            l == p \o r
<1>1. p \in CStrings /\ Len(p) = n /\ \A i \in 1 .. n : p[i] = " " /\ p[i] \in Blanks
  BY SpacesPrinted
<1>. HIDE DEF p
<1>2. p \in Seq(Characters) /\ r \in Seq(Characters) /\ Len(r) \in Nat
  BY <1>1, ElementFacts DEF CStrings
<1>3. /\ l \in Seq(Characters) /\ Len(l) = n + Len(r) /\ (\A i \in 1 .. n : l[i] = p[i])
      /\ \A i \in n + 1 .. n + Len(r) : l[i] = r[i - n]
  BY <1>1, <1>2, ConcatFacts, ZenonT(60)
<1>4. count_graphemes(p) = n
  <2>1. \A i \in 1 .. Len(p) : p[i] # "\n" /\ p[i] # "\t"
    BY <1>1
  <2>. QED  BY <1>1, <1>2, <2>1, CountBounds
<1>5. count_graphemes(l) = n + count_graphemes(r)
  BY <1>2, <1>4, CountConcat
<1>6. Words(l) = Words(r) /\ Words(r) \in Seq(CStrings)
  <2>1. \A i \in 1 .. Len(p) : p[i] \in Spaces
    BY <1>1, SpaceFacts
  <2>2. Apart(p, r)
    <3>1. n = 0 \/ n \in 1 .. n
      OBVIOUS
    <3>2. Len(p) = n
      BY <1>1
    <3>. QED  BY <2>1, <3>1, <3>2 DEF Apart
  <2>3. Words(p) = <<>>
    BY <1>2, <2>1, NoWords
  <2>4. Words(l) = Words(p) \o Words(r) /\ Words(r) \in Seq(CStrings)
    BY <1>2, <2>2, WordsConcat
  <2>5. <<>> \o Words(r) = Words(r)
    BY <2>4, ConcatEmpty
  <2>. QED  BY <2>3, <2>4, <2>5
<1>. HIDE DEF l
<1>7. ASSUME Len(r) # 0, r[1] \notin Spaces
      PROVE  find_word_start(l, 0) = n
  <2>1. l[n + 1] = r[1]
    <3>1. n + 1 \in n + 1 .. n + Len(r) /\ (n + 1) - n = 1
      BY <1>2, <1>7
    <3>. QED  BY <1>3, <3>1
  <2>2. n \in 0 .. Len(l) /\ 0 \in 0 .. Len(l) /\ \A k \in 0 + 1 .. n : k \in 1 .. n
    BY <1>2, <1>3
  <2>3. GapTo(l, 0, n)
    BY <1>1, <1>3, <1>7, <2>1, <2>2, SpaceFacts DEF GapTo
  <2>. QED  BY <1>3, <2>2, <2>3, GapSpan
<1>. QED  BY <1>3, <1>5, <1>6, <1>7 DEF l, p, CStrings

\* A line with something on it can be broken off.
LEMMA LineDone ==
    ASSUME NEW at, NEW base, NEW room \in Nat, NEW done, NEW r,
           Hung(at, base, room, done, r), Len(r) # 0
    PROVE  Hung(Break(at), base, room, Append(done, print_spaces(at.indent) \o r), <<>>)
<1>. DEFINE n == at.indent
            p == print_spaces(n)
            l == p \o r
            d == Append(done, l)
            b == Break(at)
<1>1. /\ at \in Positions /\ done \in Seq(CStrings) /\ Len(done) # 0 /\ r \in CStrings
      /\ LinesOf(at.out) = d
      /\ \A i \in 1 .. Len(done) : Short(done[i], i, room)
      /\ \A i \in 2 .. Len(done) : Hangs(done[i], done[1], base)
      /\ n = Hanging(done[1], base)
      /\ at.current = n + count_graphemes(r)
      /\ r[1] \notin Spaces /\ Words(r) # <<>>
      /\ at.current > room => Len(Words(r)) <= 1
  BY DEF Hung
<1>2. n \in Nat /\ at.current \in Nat /\ at.out \in CStrings
  BY <1>1 DEF Positions
<1>3. p \in CStrings /\ OneLined(p)
  <2>1. p \in CStrings /\ Len(p) = n /\ \A i \in 1 .. n : p[i] \in Blanks
    BY <1>2, SpacesPrinted
  <2>. QED  BY <2>1, OneLinedPieces
<1>4. /\ l \in CStrings /\ count_graphemes(l) = at.current /\ Words(l) = Words(r) /\ Words(r) \in Seq(CStrings)
      /\ find_word_start(l, 0) = n
  BY <1>1, <1>2, Indented
<1>5. /\ b \in Positions /\ b.indent = n /\ b.current = n /\ b.wrapped = TRUE
      /\ b.out = (at.out \o LineEnd) \o p
  BY <1>1, BreakIs
<1>. HIDE DEF n, p, l, b
<1>6. /\ d \in Seq(CStrings) /\ Len(d) = Len(done) + 1 /\ Len(done) \in Nat
      /\ (\A i \in 1 .. Len(done) : d[i] = done[i]) /\ d[Len(done) + 1] = l
  BY <1>1, <1>4, AppendFacts, ElementFacts
<1>. HIDE DEF d
<1>7. d[1] = done[1]
  <2>1. 1 \in 1 .. Len(done)
    BY <1>1, <1>6
  <2>. QED  BY <1>6, <2>1
<1>8. LinesOf(b.out) = Append(d, p \o <<>>)
  <2>1. LinesOf(b.out) = Append(d, p)
    BY <1>1, <1>2, <1>3, <1>5, LinesBreak
  <2>2. p \o <<>> = p
    BY <1>3, ConcatEmpty DEF CStrings
  <2>. QED  BY <2>1, <2>2
<1>9. \A i : Short(l, i, room)
  <2>1. CASE at.current > room
    BY <1>1, <1>4, <2>1, ShortOne
  <2>2. CASE ~(at.current > room)
    <3>1. count_graphemes(l) \in Nat /\ count_graphemes(l) <= room
      BY <1>2, <1>4, <2>2
    <3>. QED  BY <3>1, ShortFits
  <2>. QED  BY <2>1, <2>2
<1>10. Hangs(l, done[1], base)
  BY <1>1, <1>4 DEF Hangs
<1>11. \A i \in 1 .. Len(d) : Short(d[i], i, room)
  <2>1. \A i \in 1 .. Len(d) : i \in 1 .. Len(done) \/ i = Len(done) + 1
    BY <1>6
  <2>. QED  BY <1>1, <1>6, <1>9, <2>1
<1>12. \A i \in 2 .. Len(d) : Hangs(d[i], d[1], base)
  <2>1. \A i \in 2 .. Len(d) : (i \in 2 .. Len(done) /\ i \in 1 .. Len(done)) \/ i = Len(done) + 1
    BY <1>6
  <2>. QED  BY <1>1, <1>6, <1>7, <1>10, <2>1
<1>13. /\ <<>> \in CStrings /\ Len(<<>>) = 0 /\ OneLined(<<>>) /\ count_graphemes(<<>>) = 0
       /\ Len(Words(<<>>)) <= 1
  <2>1. <<>> \in CStrings /\ Len(<<>>) = 0
    BY NoText
  <2>2. OneLined(<<>>) /\ SpacesOnly(<<>>)
    BY <2>1 DEF OneLined, SpacesOnly
  <2>3. Words(<<>>) = <<>>
    BY <2>1, <2>2, OnlyIndentation
  <2>4. count_graphemes(<<>>) = 0
    BY <2>1, CountBounds DEF CStrings
  <2>. QED  BY <2>1, <2>2, <2>3, <2>4
<1>14. b.current = b.indent + count_graphemes(<<>>)
  BY <1>2, <1>5, <1>13
<1>15. Len(d) # 0
  BY <1>6
<1>16. LinesOf(b.out) = Append(d, print_spaces(b.indent) \o <<>>) /\ b.indent = Hanging(d[1], base)
  BY <1>1, <1>5, <1>7, <1>8 DEF p
<1>17. Hung(b, base, room, d, <<>>)
  BY <1>5, <1>6, <1>11, <1>12, <1>13, <1>14, <1>15, <1>16 DEF Hung
<1>. QED  BY <1>17 DEF b, d, l, p, n

\* More on the last line.
LEMMA HungMore ==
    ASSUME NEW at, NEW base, NEW room \in Nat, NEW done, NEW r, Hung(at, base, room, done, r),
           NEW t \in CStrings, OneLined(t), NEW x \in Positions,
           x.wrapped = TRUE, x.indent = at.indent, x.out = at.out \o t,
           x.current = at.current + count_graphemes(t),
           Len(r \o t) # 0 => (r \o t)[1] \notin Spaces /\ Words(r \o t) # <<>>,
           x.current > room => Len(Words(r \o t)) <= 1
    PROVE  Hung(x, base, room, done, r \o t)
<1>. DEFINE n == at.indent
            p == print_spaces(n)
            q == r \o t
<1>1. /\ at \in Positions /\ done \in Seq(CStrings) /\ Len(done) # 0 /\ r \in CStrings
      /\ LinesOf(at.out) = Append(done, p \o r)
      /\ \A i \in 1 .. Len(done) : Short(done[i], i, room)
      /\ \A i \in 2 .. Len(done) : Hangs(done[i], done[1], base)
      /\ n = Hanging(done[1], base)
      /\ at.current = n + count_graphemes(r) /\ OneLined(r)
  BY DEF Hung
<1>2. n \in Nat /\ at.out \in CStrings
  BY <1>1 DEF Positions
<1>3. p \in CStrings /\ p \o r \in CStrings /\ (p \o r) \o t = p \o q
  <2>1. p \in CStrings
    BY <1>2, SpacesPrinted
  <2>. HIDE DEF p
  <2>. QED  BY <1>1, <2>1, TextsConcat, TextsGlued
<1>4. q \in CStrings /\ OneLined(q)
  BY <1>1, TextsConcat, OneLinedConcat
<1>5. count_graphemes(q) = count_graphemes(r) + count_graphemes(t)
      /\ count_graphemes(r) \in Nat /\ count_graphemes(t) \in Nat
  BY <1>1, CountConcat DEF CStrings
<1>. HIDE DEF n, p, q
<1>6. LinesOf(x.out) = Append(done, p \o q)
  <2>. DEFINE y == p \o r
              z == at.out
  <2>1. LinesOf(z) = Append(done, y) /\ z \in CStrings /\ y \in CStrings /\ done \in Seq(CStrings)
    BY <1>1, <1>2, <1>3
  <2>2. x.out = z \o t /\ y \o t = p \o q
    BY <1>3
  <2>. HIDE DEF y, z
  <2>3. LinesOf(z \o t) = Append(done, y \o t)
    BY <2>1, LinesGrow
  <2>. QED  BY <2>2, <2>3
<1>7. x.current = n + count_graphemes(q)
  BY <1>1, <1>2, <1>5
<1>8. x.indent = n /\ p = print_spaces(n)
  BY DEF n, p
<1>9. Len(q) # 0 => q[1] \notin Spaces /\ Words(q) # <<>>
  BY DEF q
<1>10. x.current > room => Len(Words(q)) <= 1
  BY DEF q
<1>11. Hung(x, base, room, done, q)
  BY <1>1, <1>4, <1>6, <1>7, <1>8, <1>9, <1>10 DEF Hung
<1>. QED  BY <1>11 DEF q

\* A word, if it fits or nothing is before it.
LEMMA HungWord ==
    ASSUME NEW at, NEW base, NEW room \in Nat, NEW done, NEW r, Hung(at, base, room, done, r),
           Open(r), NEW w, IsWord(w), NEW x \in Positions,
           x.wrapped = TRUE, x.indent = at.indent, x.out = at.out \o w,
           x.current = at.current + count_graphemes(w),
           x.current <= room \/ Len(r) = 0
    PROVE  Hung(x, base, room, done, r \o w) /\ Len(r \o w) # 0
<1>. DEFINE q == r \o w
<1>1. w \in CStrings /\ Len(w) # 0 /\ (\A i \in 1 .. Len(w) : w[i] \notin Spaces) /\ OneLined(w)
  BY OneLinedPieces DEF IsWord
<1>2. r \in CStrings /\ (Len(r) # 0 => r[1] \notin Spaces /\ Words(r) # <<>>)
  BY DEF Hung
<1>3. q \in CStrings /\ Words(q) = Words(r) \o <<w>>
  BY <1>1, <1>2, WordsOneMore
<1>4. /\ Len(q) = Len(r) + Len(w) /\ Len(r) \in Nat /\ Len(w) \in Nat
      /\ \A i \in 1 .. Len(r) : q[i] = r[i]
      /\ \A i \in Len(r) + 1 .. Len(r) + Len(w) : q[i] = w[i - Len(r)]
  BY <1>1, <1>2, ConcatFacts, ElementFacts DEF CStrings
<1>. HIDE DEF q
<1>5. Len(q) # 0
  BY <1>1, <1>4
<1>6. q[1] \notin Spaces
  <2>1. CASE Len(r) = 0
    <3>1. 1 \in Len(r) + 1 .. Len(r) + Len(w) /\ 1 - Len(r) = 1 /\ 1 \in 1 .. Len(w)
      BY <1>1, <1>4, <2>1
    <3>. QED  BY <1>1, <1>4, <3>1
  <2>2. CASE Len(r) # 0
    <3>1. 1 \in 1 .. Len(r)
      BY <1>4, <2>2
    <3>. QED  BY <1>2, <1>4, <2>2, <3>1
  <2>. QED  BY <2>1, <2>2
<1>7. Words(r) \in Seq(CStrings)
  <2>1. <<>> \in CStrings /\ SpacesOnly(<<>>)
    BY NoText DEF SpacesOnly
  <2>. QED  BY <1>2, <2>1, WordsSpaced
<1>8. Len(Words(q)) = Len(Words(r)) + 1 /\ Len(Words(r)) \in Nat
  <2>1. Words(q) = Append(Words(r), w)
    BY <1>1, <1>3, <1>7, OneMore
  <2>. QED  BY <1>1, <1>7, <2>1, AppendFacts, ElementFacts
<1>9. Words(q) # <<>>
  <2>1. Len(<<>>) = 0
    OBVIOUS
  <2>2. Len(Words(q)) # 0
    BY <1>8
  <2>. QED  BY <2>1, <2>2
<1>10. Len(r) = 0 => Len(Words(r)) = 0
  <2>1. Len(r) = 0 => r = <<>> /\ Words(<<>>) = <<>> /\ Len(<<>>) = 0
    <3>1. <<>> \in CStrings /\ SpacesOnly(<<>>)
      BY NoText DEF SpacesOnly
    <3>. QED  BY <1>2, <3>1, NoText, OnlyIndentation
  <2>. QED  BY <2>1
<1>11. x.current > room => Len(Words(q)) <= 1
  <2>1. x.current \in Nat
    BY DEF Positions
  <2>. QED  BY <1>8, <1>10, <2>1
<1>12. Hung(x, base, room, done, q)
  BY <1>1, <1>5, <1>6, <1>9, <1>11, HungMore DEF q
<1>. QED  BY <1>5, <1>12 DEF q

\* A gap, if it fits.
LEMMA HungGap ==
    ASSUME NEW at, NEW base, NEW room \in Nat, NEW done, NEW r, Hung(at, base, room, done, r),
           Len(r) # 0, NEW g \in CStrings, \A i \in 1 .. Len(g) : g[i] \in Blanks, NEW x \in Positions,
           x.wrapped = TRUE, x.indent = at.indent, x.out = at.out \o g,
           x.current = at.current + count_graphemes(g), x.current < room
    PROVE  /\ Hung(x, base, room, done, r \o g) /\ Len(r \o g) # 0
           /\ Len(g) # 0 => Open(r \o g)
<1>. DEFINE q == r \o g
<1>1. OneLined(g) /\ SpacesOnly(g)
  BY OneLinedPieces
<1>2. r \in CStrings /\ r[1] \notin Spaces /\ Words(r) # <<>>
  BY DEF Hung
<1>3. q \in CStrings /\ Words(q) = Words(r) /\ (Len(g) # 0 => Open(q))
  BY <1>1, <1>2, WordsSpaced
<1>4. /\ Len(q) = Len(r) + Len(g) /\ Len(r) \in Nat /\ Len(g) \in Nat
      /\ \A i \in 1 .. Len(r) : q[i] = r[i]
  BY <1>2, ConcatFacts, ElementFacts DEF CStrings
<1>. HIDE DEF q
<1>5. Len(q) # 0 /\ 1 \in 1 .. Len(r)
  BY <1>4
<1>6. x.current \in Nat
  BY DEF Positions
<1>7. ~(x.current > room)
  BY <1>6
<1>8. q[1] \notin Spaces /\ Words(q) # <<>>
  BY <1>2, <1>3, <1>4, <1>5
<1>9. Hung(x, base, room, done, q)
  BY <1>1, <1>7, <1>8, HungMore DEF q
<1>. QED  BY <1>3, <1>5, <1>9 DEF q

\* The pieces of a text of one line.
LEMMA PiecesOf ==
    ASSUME NEW s \in CStrings, OneLined(s), NEW i \in Starts(s)
    PROVE  LET w == WordAt(s, i)
               g == GapAt(s, i)
               n == NextAt(s, i) IN
           /\ IsWord(w) /\ g \in CStrings /\ \A k \in 1 .. Len(g) : g[k] \in Blanks
           /\ n \in 0 .. Len(s) /\ (n # Len(s) => Len(g) # 0 /\ n \in Starts(s))
<1>. DEFINE w == WordAt(s, i)
            g == GapAt(s, i)
            n == NextAt(s, i)
            e == find_word_end(s, i)
<1>1. s \in Seq(Characters) /\ Len(s) \in Nat
  BY ElementFacts DEF CStrings
<1>2. /\ i \in 0 .. Len(s) - 1 /\ e \in i + 1 .. Len(s) /\ n \in e .. Len(s)
      /\ w \in CStrings /\ Len(w) = e - i
      /\ \A k \in 1 .. e - i : w[k] = s[i + k] /\ s[i + k] \notin Spaces
      /\ g \in CStrings /\ Len(g) = n - e
      /\ \A k \in 1 .. n - e : g[k] = s[e + k] /\ s[e + k] \in Blanks
      /\ n = Len(s) \/ s[n + 1] = "\n" \/ (n \in Starts(s) /\ n > e)
  BY <1>1, PieceFacts
<1>. HIDE DEF w, g, n, e
<1>3. Len(w) # 0 /\ Len(w) = e - i /\ n \in 0 .. Len(s)
  BY <1>1, <1>2
<1>4. n # Len(s) => s[n + 1] # "\n"
  <2>1. n # Len(s) => n + 1 \in 1 .. Len(s)
    BY <1>1, <1>3
  <2>. QED  BY <2>1 DEF OneLined
<1>5. n > e => Len(g) # 0
  BY <1>1, <1>2
<1>6. \A k \in 1 .. Len(w) : w[k] \notin Spaces
  BY <1>2
<1>7. \A k \in 1 .. Len(g) : g[k] \in Blanks
  BY <1>2
<1>8. IsWord(w)
  BY <1>2, <1>3, <1>6 DEF IsWord
<1>. QED  BY <1>2, <1>3, <1>4, <1>5, <1>7, <1>8 DEF w, g, n

\* How a turn ends, behind the word.
TurnEnds(s, room, after, gap, u) ==
    \/ u = Spaced(after, gap) /\ after.current + count_graphemes(gap) < room
    \/ u = after /\ after.index = Len(s)
    \/ u = Break(after) /\ after.index # Len(s)

WrappedAt(s, base, room, at) ==
    \E done, r : /\ Hung(at, base, room, done, r)
                 /\ at.index = Len(s) => Len(r) # 0
                 /\ at.index # Len(s) => Open(r)

LEMMA WrappedTurn ==
    ASSUME NEW s \in CStrings, OneLined(s), NEW base, NEW room \in Nat, NEW b \in Positions, b.index \in Starts(s),
           NEW done, NEW r, Hung(b, base, room, done, r), Open(r),
           b.current + count_graphemes(WordAt(s, b.index)) <= room \/ Len(r) = 0,
           NEW u, TurnEnds(s, room, AfterWord(s, b), GapAt(s, b.index), u)
    PROVE  WrappedAt(s, base, room, u)
<1>. DEFINE w == WordAt(s, b.index)
            g == GapAt(s, b.index)
            x == AfterWord(s, b)
            q == r \o w
<1>1. /\ IsWord(w) /\ g \in CStrings /\ \A k \in 1 .. Len(g) : g[k] \in Blanks
      /\ NextAt(s, b.index) # Len(s) => Len(g) # 0
  BY PiecesOf
<1>2. b.wrapped = TRUE
  BY DEF Hung
<1>3. /\ x \in Positions /\ x.index = NextAt(s, b.index) /\ x.out = b.out \o w
      /\ x.current = b.current + count_graphemes(w) /\ x.wrapped = TRUE /\ x.indent = b.indent
  BY <1>2, PrintedIs DEF CStrings
<1>4. TurnEnds(s, room, x, g, u)
  OBVIOUS
<1>5. x.current <= room \/ Len(r) = 0
  BY <1>3
<1>. HIDE DEF x, w, g
<1>6. Hung(x, base, room, done, q) /\ Len(q) # 0
  BY <1>1, <1>3, <1>5, HungWord
<1>. HIDE DEF q
<1>7. CASE u = x /\ x.index = Len(s)
  BY <1>6, <1>7 DEF WrappedAt
<1>8. CASE u = Spaced(x, g) /\ x.current + count_graphemes(g) < room
  <2>1. /\ u \in Positions /\ u.index = x.index /\ u.out = x.out \o g
        /\ u.current = x.current + count_graphemes(g) /\ u.wrapped = x.wrapped /\ u.indent = x.indent
    BY <1>1, <1>3, <1>8, SpacedIs
  <2>2. Hung(u, base, room, done, q \o g) /\ Len(q \o g) # 0 /\ (Len(g) # 0 => Open(q \o g))
    <3>1. u.current < room /\ u.wrapped = TRUE
      BY <1>3, <1>8, <2>1
    <3>. QED  BY <1>1, <1>6, <2>1, <3>1, HungGap
  <2>3. u.index # Len(s) => Len(g) # 0
    BY <1>1, <1>3, <2>1
  <2>. QED  BY <2>2, <2>3 DEF WrappedAt
<1>9. CASE u = Break(x) /\ x.index # Len(s)
  <2>1. Hung(u, base, room, Append(done, print_spaces(x.indent) \o q), <<>>)
    BY <1>6, <1>9, LineDone
  <2>2. Break(x).index = x.index
    BY <1>3, BreakIs
  <2>3. u.index # Len(s)
    BY <1>9, <2>2
  <2>4. Open(<<>>)
    BY NoText DEF Open
  <2>. QED  BY <2>1, <2>3, <2>4 DEF WrappedAt
<1>. QED  BY <1>4, <1>7, <1>8, <1>9 DEF TurnEnds

\* From a state behind a break.
LEMMA WrappedOn ==
    ASSUME NEW s \in CStrings, OneLined(s), NEW base, NEW room \in Nat, NEW from \in Positions, from.index \in Starts(s),
           from.index # Len(s), WrappedAt(s, base, room, from),
           NEW u, TurnEnds(s, room, AfterWord(s, AtWord(s, from, room)), GapAt(s, from.index), u)
    PROVE  WrappedAt(s, base, room, u)
<1>. DEFINE w == WordAt(s, from.index)
            b == AtWord(s, from, room)
<1>1. PICK done, r : Hung(from, base, room, done, r) /\ Open(r)
  BY DEF WrappedAt
<1>2. /\ r \in CStrings /\ from.current = from.indent + count_graphemes(r) /\ OneLined(r)
      /\ from.current \in Nat /\ from.indent \in Nat
  BY <1>1 DEF Hung, Positions
<1>3. count_graphemes(r) \in Nat /\ (Len(r) = 0 => count_graphemes(r) = 0) /\ count_graphemes(r) >= Len(r)
      /\ Len(r) \in Nat
  BY <1>2, CountBounds, ElementFacts DEF CStrings, OneLined
<1>4. count_graphemes(w) \in Nat
  <2>1. IsWord(w)
    BY PiecesOf
  <2>. QED  BY <2>1, CountBounds DEF IsWord, CStrings
<1>5. CASE Overflows(from, count_graphemes(w), room)
  <2>1. b = Break(from)
    BY <1>5 DEF AtWord
  <2>2. Len(r) # 0
    BY <1>2, <1>3, <1>5 DEF Overflows
  <2>3. Hung(b, base, room, Append(done, print_spaces(from.indent) \o r), <<>>)
    BY <1>1, <2>1, <2>2, LineDone
  <2>4. b \in Positions /\ b.index = from.index
    BY <2>1, BreakIs
  <2>5. Open(<<>>) /\ Len(<<>>) = 0
    BY NoText DEF Open
  <2>6. TurnEnds(s, room, AfterWord(s, b), GapAt(s, b.index), u)
    BY <2>4
  <2>. HIDE DEF b
  <2>7. b.index \in Starts(s)
    BY <2>4
  <2>. QED  BY <2>3, <2>4, <2>5, <2>6, <2>7, WrappedTurn
<1>6. CASE ~Overflows(from, count_graphemes(w), room)
  <2>1. b = from
    BY <1>6 DEF AtWord
  <2>2. from.current + count_graphemes(w) <= room \/ Len(r) = 0
    <3>. HIDE DEF w
    <3>1. from.current + count_graphemes(w) <= room \/ from.current <= from.indent
      BY <1>2, <1>4, <1>6 DEF Overflows
    <3>2. from.current <= from.indent => Len(r) = 0
      BY <1>2, <1>3
    <3>. QED  BY <3>1, <3>2
  <2>3. TurnEnds(s, room, AfterWord(s, from), GapAt(s, from.index), u)
    BY <2>1
  <2>. HIDE DEF b
  <2>. QED  BY <1>1, <2>2, <2>3, WrappedTurn DEF w
<1>. QED  BY <1>5, <1>6

-----------------------------------------------------------------------------
(* Before the first break.                                                 *)

FreshLine(at, base, room) ==
    /\ at \in Positions /\ at.wrapped = FALSE /\ OneLined(at.out)
    /\ at.current = count_graphemes(at.out) /\ at.indent = Hanging(at.out, base)
    /\ Short(at.out, 1, room)

\* What is before the place of the next word, in the text and in the line.
SameEnd(s, i, l) ==
    /\ i >= 2 /\ i \in 0 .. Len(s) /\ Len(l) >= 2
    /\ l[Len(l)] = s[i] /\ l[Len(l) - 1] = s[i - 1]

FreshOn(s, at) ==
    /\ Open(at.out) /\ at.indent <= at.current
    /\ at.current = at.indent <=> MarksOnly(at.out)
    /\ at.dots <=> DotsLast(at.out)
    /\ at.current = at.indent \/ SameEnd(s, at.index, at.out)

FreshAt(s, base, room, at) == FreshLine(at, base, room) /\ (at.index # Len(s) => FreshOn(s, at))

LEMMA SameBehind ==
    ASSUME NEW s \in CStrings, NEW i, NEW l \in CStrings, SameEnd(s, i, l)
    PROVE  Preceding(s, i) \/ DotsLast(l) <=> SetBehind(l)
<1>1. i \in 0 .. Len(s) /\ i >= 2 /\ Len(s) \in Nat /\ s \in Seq(Characters)
  BY ElementFacts DEF SameEnd, CStrings
<1>2. /\ i - 1 \in 0 .. Len(s) - 1 /\ i - 2 \in 0 .. Len(s) - 1 /\ (i - 1) + 1 = i /\ (i - 2) + 1 = i - 1
      /\ i >= 1
  BY <1>1
<1>3. Char(s, i - 1) = s[i] /\ Char(s, i - 2) = s[i - 1]
  BY <1>1, <1>2, CharFacts
<1>4. Preceding(s, i) <=> (s[i - 1] \in Blanks /\ s[i] = " ") \/ s[i] = "\t"
  BY <1>1, <1>2, <1>3 DEF Preceding
<1>5. Len(l) >= 2 /\ Len(l) >= 1 /\ l[Len(l)] = s[i] /\ l[Len(l) - 1] = s[i - 1]
  <2>1. Len(l) >= 2 /\ l[Len(l)] = s[i] /\ l[Len(l) - 1] = s[i - 1]
    BY DEF SameEnd
  <2>2. Len(l) \in Nat
    BY ElementFacts DEF CStrings
  <2>3. Len(l) >= 1
    BY <2>1, <2>2
  <2>. QED  BY <2>1, <2>3
<1>6. SetBehind(l) <=> (Len(l) >= 2 /\ s[i - 1] \in Blanks /\ s[i] = " ")
                         \/ (Len(l) >= 1 /\ s[i] = "\t") \/ DotsLast(l)
  BY <1>5 DEF SetBehind
<1>. QED  BY <1>4, <1>5, <1>6

\* The indentation is the one the line asks for, with the word.
LEMMA FreshIndent ==
    ASSUME NEW s \in CStrings, NEW at, NEW base, NEW room \in Nat, FreshLine(at, base, room), FreshOn(s, at),
           NEW w, IsWord(w)
    PROVE  /\ Indent(s, at, w) = Hanging(at.out \o w, base)
           /\ ~(IsBullet(w) /\ MarksOnly(at.out)) => Hanging(at.out \o w, base) <= at.current
           /\ IsBullet(w) /\ MarksOnly(at.out) => Hanging(at.out \o w, base) = at.current + 2
<1>1. /\ at \in Positions /\ at.current = count_graphemes(at.out) /\ at.indent = Hanging(at.out, base)
      /\ at.out \in CStrings /\ at.current \in Nat /\ at.indent \in Nat /\ at.index \in Nat
  BY DEF FreshLine, Positions
<1>2. /\ Open(at.out) /\ at.indent <= at.current
      /\ at.current = at.indent <=> MarksOnly(at.out)
      /\ at.dots <=> DotsLast(at.out)
      /\ at.current = at.indent \/ SameEnd(s, at.index, at.out)
  BY DEF FreshOn
<1>3. Hanging(at.out \o w, base) =
        IF IsBullet(w) /\ MarksOnly(at.out) THEN at.current + 2
        ELSE IF SetBehind(at.out) THEN at.current ELSE at.indent
  BY <1>1, <1>2, HangingWord
<1>4. Indent(s, at, w) =
        IF IsBullet(w) /\ at.current = at.indent THEN at.current + 2
        ELSE IF Preceding(s, at.index) \/ at.dots THEN at.current ELSE at.indent
  BY <1>1, IndentIs
<1>5. CASE at.current = at.indent
  BY <1>1, <1>2, <1>3, <1>4, <1>5
<1>6. CASE at.current # at.indent
  <2>1. Preceding(s, at.index) \/ at.dots <=> SetBehind(at.out)
    BY <1>1, <1>2, <1>6, SameBehind
  <2>. QED  BY <1>1, <1>2, <1>3, <1>4, <1>6, <2>1
<1>. QED  BY <1>5, <1>6

\* The line with the word, if it fits or only marks are before it.
WithWord(s, at, w, room, x) ==
    /\ x \in Positions /\ x.wrapped = FALSE /\ x.out = at.out \o w
    /\ x.current = at.current + count_graphemes(w) /\ x.indent = Indent(s, at, w)
    /\ x.current <= room \/ at.current <= at.indent

LEMMA FreshWord ==
    ASSUME NEW s \in CStrings, NEW at, NEW base, NEW room \in Nat, FreshLine(at, base, room), FreshOn(s, at),
           NEW w, IsWord(w), NEW x, WithWord(s, at, w, room, x)
    PROVE  FreshLine(x, base, room) /\ Words(x.out) \in Seq(CStrings) /\ Len(Words(x.out)) # 0 /\ Last(Words(x.out)) = w
<1>. DEFINE l == at.out
            c == l \o w
<1>0. /\ x \in Positions /\ x.wrapped = FALSE /\ x.out = c
      /\ x.current = at.current + count_graphemes(w) /\ x.indent = Indent(s, at, w)
      /\ x.current <= room \/ at.current <= at.indent
  BY DEF WithWord
<1>1. /\ at \in Positions /\ at.current = count_graphemes(l) /\ at.indent = Hanging(l, base) /\ OneLined(l)
      /\ l \in CStrings /\ at.current \in Nat /\ at.indent \in Nat /\ Open(l) /\ at.indent <= at.current
      /\ at.current = at.indent <=> MarksOnly(l)
  BY DEF FreshLine, FreshOn, Positions
<1>2. w \in CStrings /\ OneLined(w) /\ Len(w) # 0 /\ \A i \in 1 .. Len(w) : w[i] \notin Spaces
  BY OneLinedPieces DEF IsWord
<1>3. x.indent = Hanging(c, base)
  BY <1>0, FreshIndent
<1>. HIDE DEF l
<1>4. c \in CStrings /\ OneLined(c)
  BY <1>1, <1>2, TextsConcat, OneLinedConcat
<1>5. count_graphemes(c) = at.current + count_graphemes(w) /\ count_graphemes(w) \in Nat
  BY <1>1, <1>2, CountConcat DEF CStrings
<1>6. Words(c) = Words(l) \o <<w>> /\ Words(l) \in Seq(CStrings)
  <2>1. Words(c) = Words(l) \o <<w>>
    BY <1>1, <1>2, WordsOneMore
  <2>2. <<>> \in CStrings /\ SpacesOnly(<<>>)
    BY NoText DEF SpacesOnly
  <2>3. Words(l) \in Seq(CStrings)
    BY <1>1, <2>2, WordsSpaced
  <2>. QED  BY <2>1, <2>3
<1>7. Words(c) = Append(Words(l), w)
  BY <1>2, <1>6, OneMore
<1>8. /\ Words(c) \in Seq(CStrings) /\ Len(Words(c)) = Len(Words(l)) + 1 /\ Len(Words(l)) \in Nat
      /\ \A i \in 1 .. Len(Words(l)) : Words(c)[i] = Words(l)[i]
      /\ Last(Words(c)) = w
  <2>. DEFINE x0 == Words(l)
  <2>1. x0 \in Seq(CStrings) /\ Words(c) = Append(x0, w)
    BY <1>6, <1>7
  <2>. HIDE DEF x0
  <2>2. /\ Append(x0, w) \in Seq(CStrings) /\ Len(Append(x0, w)) = Len(x0) + 1 /\ Len(x0) \in Nat
        /\ \A i \in 1 .. Len(x0) : Append(x0, w)[i] = x0[i]
    BY <1>2, <2>1, AppendFacts, ElementFacts
  <2>3. Last(Append(x0, w)) = w
    BY <1>2, <2>1, AppendedLast
  <2>. QED  BY <2>1, <2>2, <2>3 DEF x0
<1>9. Short(c, 1, room)
  <2>1. CASE x.current <= room
    <3>1. count_graphemes(c) \in Nat /\ count_graphemes(c) <= room
      BY <1>0, <1>1, <1>5, <2>1
    <3>. QED  BY <3>1, ShortFits
  <2>2. CASE at.current <= at.indent
    <3>1. MarksOnly(l)
      BY <1>1, <2>2
    <3>2. \A k \in 1 .. Len(Words(l)) : IsBullet(Words(l)[k])
      BY <1>1, <3>1, BulletsOnly
    <3>3. \A k \in 1 .. Len(Words(c)) - 1 : k \in 1 .. Len(Words(l)) /\ IsBullet(Words(c)[k])
      BY <1>8, <3>2
    <3>. QED  BY <3>3 DEF Short
  <2>. QED  BY <1>0, <2>1, <2>2
<1>10. x.out = c /\ x.current = count_graphemes(c) /\ x \in Positions /\ x.wrapped = FALSE
  BY <1>0, <1>5
<1>. HIDE DEF c
<1>11. FreshLine(x, base, room)
  BY <1>3, <1>4, <1>9, <1>10 DEF FreshLine
<1>. QED  BY <1>8, <1>10, <1>11

\* A line that is broken is the first of the lines.
LEMMA FreshBreak ==
    ASSUME NEW at, NEW base, NEW room \in Nat, FreshLine(at, base, room)
    PROVE  Hung(Break(at), base, room, <<at.out>>, <<>>)
<1>. DEFINE n == at.indent
            p == print_spaces(n)
            l == at.out
            d == <<l>>
            b == Break(at)
<1>1. at \in Positions /\ OneLined(l) /\ n = Hanging(l, base) /\ Short(l, 1, room) /\ n \in Nat /\ l \in CStrings
  BY DEF FreshLine, Positions
<1>2. p \in CStrings /\ OneLined(p)
  <2>1. p \in CStrings /\ Len(p) = n /\ \A i \in 1 .. n : p[i] \in Blanks
    BY <1>1, SpacesPrinted
  <2>. QED  BY <2>1, OneLinedPieces
<1>3. /\ b \in Positions /\ b.indent = n /\ b.current = n /\ b.wrapped = TRUE
      /\ b.out = (l \o LineEnd) \o p
  BY <1>1, BreakIs
<1>. HIDE DEF n, p, l, b
<1>4. d \in Seq(CStrings) /\ Len(d) = 1 /\ d[1] = l
  BY <1>1
<1>5. LinesOf(l) = d
  BY <1>1, OneLine DEF OneLined
<1>. HIDE DEF d
<1>6. LinesOf(b.out) = Append(d, p \o <<>>)
  <2>1. LinesOf(b.out) = Append(d, p)
    BY <1>1, <1>2, <1>3, <1>5, LinesBreak
  <2>2. p \o <<>> = p
    BY <1>2, ConcatEmpty DEF CStrings
  <2>. QED  BY <2>1, <2>2
<1>7. /\ <<>> \in CStrings /\ Len(<<>>) = 0 /\ OneLined(<<>>) /\ count_graphemes(<<>>) = 0
      /\ Len(Words(<<>>)) <= 1
  <2>1. <<>> \in CStrings /\ Len(<<>>) = 0
    BY NoText
  <2>2. OneLined(<<>>) /\ SpacesOnly(<<>>)
    BY <2>1 DEF OneLined, SpacesOnly
  <2>3. Words(<<>>) = <<>>
    BY <2>1, <2>2, OnlyIndentation
  <2>4. count_graphemes(<<>>) = 0
    BY <2>1, CountBounds DEF CStrings
  <2>. QED  BY <2>1, <2>2, <2>3, <2>4
<1>8. b.current = b.indent + count_graphemes(<<>>)
  BY <1>1, <1>3, <1>7
<1>9. /\ \A i \in 1 .. Len(d) : i = 1
      /\ \A i \in 2 .. Len(d) : FALSE
      /\ Len(d) # 0
  BY <1>4
<1>10. \A i \in 1 .. Len(d) : Short(d[i], i, room)
  BY <1>1, <1>4, <1>9
<1>11. LinesOf(b.out) = Append(d, print_spaces(b.indent) \o <<>>) /\ b.indent = Hanging(d[1], base)
  BY <1>1, <1>3, <1>4, <1>6 DEF p
<1>12. Hung(b, base, room, d, <<>>)
  BY <1>3, <1>4, <1>7, <1>8, <1>9, <1>10, <1>11 DEF Hung
<1>. QED  BY <1>12 DEF b, d, l

\* One column is one space.
LEMMA GapWidth ==
    ASSUME NEW g \in CStrings, Len(g) # 0, \A k \in 1 .. Len(g) : g[k] \in Blanks
    PROVE  /\ count_graphemes(g) \in Nat /\ count_graphemes(g) >= 1
           /\ count_graphemes(g) = 1 <=> Len(g) = 1 /\ g[1] = " "
<1>1. g \in Seq(Characters) /\ Len(g) \in Nat
  BY ElementFacts DEF CStrings
<1>2. count_graphemes(g) \in Nat /\ count_graphemes(g) >= Len(g)
  <2>1. OneLined(g)
    BY OneLinedPieces
  <2>. QED  BY <1>1, <2>1, CountBounds DEF OneLined
<1>. DEFINE N == Len(g)
            C == count_graphemes(g)
<1>3. N = 1 => 1 \in 1 .. N /\ (\A k \in 1 .. N : k = 1)
  <2>. HIDE DEF N
  <2>. QED  OBVIOUS
<1>4. ASSUME N = 1, g[1] = " " PROVE C = 1
  <2>1. \A k \in 1 .. Len(g) : g[k] # "\n" /\ g[k] # "\t"
    BY <1>3, <1>4
  <2>. QED  BY <1>1, <1>4, <2>1, CountBounds
<1>5. ASSUME N = 1, g[1] # " " PROVE C = 8
  <2>1. g[1] = "\t"
    BY <1>3, <1>5 DEF Blanks
  <2>2. PICK f : Counts(f, g) /\ C = f[N]
    BY <1>1, CountIs
  <2>3. f[0] = 0 /\ f[1] = f[1 - 1] + Width(g[1])
    BY <1>3, <1>5, <2>2 DEF Counts
  <2>4. Width(g[1]) = 8
    BY <2>1 DEF Width
  <2>. HIDE DEF C, N
  <2>5. C = f[1]
    BY <1>5, <2>2
  <2>6. f[1] = 0 + 8
    BY <2>3, <2>4
  <2>. QED  BY <2>5, <2>6
<1>6. C \in Nat /\ C >= N /\ N \in Nat /\ N # 0
  BY <1>1, <1>2
<1>7. (N = 1 /\ g[1] = " " => C = 1) /\ (N = 1 /\ g[1] # " " => C = 8)
  BY <1>4, <1>5
<1>8. C \in Nat /\ C >= 1 /\ (C = 1 <=> N = 1 /\ g[1] = " ")
  <2>. HIDE DEF C, N
  <2>1. C >= 1 /\ (C = 1 => N = 1) /\ 8 # 1
    BY <1>6
  <2>. QED  BY <1>6, <1>7, <2>1
<1>. QED  BY <1>8

LEMMA LastTwo ==
    ASSUME NEW C \in Nat, NEW G \in Nat, G >= 1
    PROVE  /\ C + G \in C + 1 .. C + G /\ (C + G) - C = G
           /\ G # 1 => (C + G) - 1 \in C + 1 .. C + G /\ ((C + G) - 1) - C = G - 1
OBVIOUS

\* The end of the text is the end of the line, behind a word and a gap.
LEMMA SameEndOn ==
    ASSUME NEW s \in CStrings, OneLined(s), NEW i \in Starts(s), NextAt(s, i) # Len(s), NEW l \in CStrings
    PROVE  SameEnd(s, NextAt(s, i), (l \o WordAt(s, i)) \o GapAt(s, i))
<1>. DEFINE w == WordAt(s, i)
            g == GapAt(s, i)
            n == NextAt(s, i)
            e == find_word_end(s, i)
            c == l \o w
            d == c \o g
            L == Len(l)
            W == Len(w)
            G == Len(g)
<1>1. /\ s \in Seq(Characters) /\ Len(s) \in Nat /\ L \in Nat
  BY ElementFacts DEF CStrings
<1>2. /\ i \in 0 .. Len(s) - 1 /\ e \in i + 1 .. Len(s) /\ n \in e .. Len(s)
      /\ w \in CStrings /\ W = e - i
      /\ \A k \in 1 .. e - i : w[k] = s[i + k]
      /\ g \in CStrings /\ G = n - e
      /\ \A k \in 1 .. n - e : g[k] = s[e + k]
  BY <1>1, PieceFacts
<1>3. G # 0
  BY PiecesOf
<1>. HIDE DEF w, g, n, e, L
<1>4. /\ c \in CStrings /\ Len(c) = L + W
      /\ \A k \in L + 1 .. L + W : c[k] = w[k - L]
  BY <1>2, ConcatFacts DEF CStrings, L
<1>. HIDE DEF c, W
<1>5. /\ d \in CStrings /\ Len(d) = Len(c) + G
      /\ \A k \in 1 .. Len(c) : d[k] = c[k]
      /\ \A k \in Len(c) + 1 .. Len(c) + G : d[k] = g[k - Len(c)]
  BY <1>2, <1>4, ConcatFacts, ZenonT(60) DEF CStrings
<1>. HIDE DEF d, G
<1>6. G \in Nat /\ W \in Nat /\ G >= 1 /\ W >= 1 /\ n = e + G /\ e = i + W /\ n \in Nat /\ n >= 2 /\ i \in Nat
  BY <1>1, <1>2, <1>3
<1>7. Len(d) = (L + W) + G /\ Len(d) >= 2
  BY <1>1, <1>4, <1>5, <1>6
<1>8. d[Len(d)] = s[n]
  <2>1. Len(d) \in Len(c) + 1 .. Len(c) + G /\ Len(d) - Len(c) = G /\ G \in 1 .. n - e /\ e + G = n
    <3>1. Len(c) \in Nat /\ Len(d) = Len(c) + G
      BY <1>1, <1>4, <1>5, <1>6
    <3>2. Len(d) \in Len(c) + 1 .. Len(c) + G /\ Len(d) - Len(c) = G
      BY <1>6, <3>1, LastTwo
    <3>3. n - e = G /\ G \in 1 .. G
      BY <1>2, <1>6
    <3>. QED  BY <1>6, <3>2, <3>3
  <2>2. d[Len(d)] = g[G]
    BY <1>5, <2>1
  <2>3. g[G] = s[e + G]
    BY <1>2, <2>1
  <2>. QED  BY <2>1, <2>2, <2>3
<1>9. d[Len(d) - 1] = s[n - 1]
  <2>1. CASE G = 1
    <3>1. /\ Len(d) - 1 = Len(c) /\ Len(c) \in 1 .. Len(c) /\ Len(c) \in L + 1 .. L + W
          /\ Len(c) - L = W /\ W \in 1 .. e - i /\ i + W = n - 1
      BY <1>1, <1>4, <1>6, <1>7, <2>1
    <3>2. d[Len(c)] = c[Len(c)] /\ c[Len(c)] = w[Len(c) - L]
      BY <1>4, <1>5, <3>1
    <3>3. w[W] = s[i + W]
      BY <1>2, <3>1
    <3>. QED  BY <3>1, <3>2, <3>3
  <2>2. CASE G # 1
    <3>1. /\ Len(d) - 1 \in Len(c) + 1 .. Len(c) + G /\ (Len(d) - 1) - Len(c) = G - 1
          /\ G - 1 \in 1 .. n - e /\ e + (G - 1) = n - 1
      <4>1. Len(c) \in Nat /\ Len(d) = Len(c) + G
        BY <1>1, <1>4, <1>5, <1>6
      <4>2. Len(d) - 1 \in Len(c) + 1 .. Len(c) + G /\ (Len(d) - 1) - Len(c) = G - 1
        BY <1>6, <2>2, <4>1, LastTwo
      <4>3. n - e = G /\ G - 1 \in 1 .. G
        BY <1>2, <1>6, <2>2
      <4>4. e \in Nat
        BY <1>6
      <4>5. e + (G - 1) = n - 1
        BY <1>6, <4>4
      <4>. QED  BY <4>2, <4>3, <4>5
    <3>2. d[Len(d) - 1] = g[G - 1]
      BY <1>5, <3>1
    <3>3. g[G - 1] = s[e + (G - 1)]
      BY <1>2, <3>1
    <3>. QED  BY <3>1, <3>2, <3>3
  <2>. QED  BY <2>1, <2>2
<1>10. n \in 0 .. Len(s)
  BY <1>1, <1>2, <1>6
<1>11. SameEnd(s, n, d)
  BY <1>6, <1>7, <1>8, <1>9, <1>10 DEF SameEnd
<1>. QED  BY <1>11 DEF n, d, c, w, g

\* The line with the gap behind the word.
LEMMA FreshGap ==
    ASSUME NEW s \in CStrings, OneLined(s), NEW base, NEW room \in Nat, NEW from \in Positions,
           from.index \in Starts(s), FreshLine(from, base, room), FreshOn(s, from),
           NEW x, x = AfterWord(s, from), FreshLine(x, base, room),
           Words(x.out) \in Seq(CStrings), Len(Words(x.out)) # 0, Last(Words(x.out)) = WordAt(s, from.index),
           NEW u, u = Spaced(x, GapAt(s, from.index)), u.current < room
    PROVE  FreshAt(s, base, room, u)
<1>. DEFINE i == from.index
            l == from.out
            w == WordAt(s, i)
            g == GapAt(s, i)
            n == NextAt(s, i)
            c == l \o w
            d == c \o g
<1>1. /\ IsWord(w) /\ g \in CStrings /\ \A k \in 1 .. Len(g) : g[k] \in Blanks
      /\ n # Len(s) => Len(g) # 0
  BY PiecesOf
<1>2. /\ from.wrapped = FALSE /\ l \in CStrings /\ from.current \in Nat /\ from.current = count_graphemes(l)
      /\ Open(l) /\ s \in Seq(Characters)
  BY DEF FreshLine, FreshOn, Positions, CStrings
<1>3. /\ x \in Positions /\ x.index = n /\ x.out = c
      /\ x.current = from.current + count_graphemes(w) /\ x.wrapped = FALSE
      /\ x.indent = Indent(s, from, w) /\ x.dots = is_all_dots(w)
  BY <1>2, PrintedIs
<1>4. x.indent = Hanging(c, base) /\ OneLined(c) /\ c \in CStrings /\ x.current = count_graphemes(c)
  BY <1>3 DEF FreshLine, Positions
<1>5. /\ ~(IsBullet(w) /\ MarksOnly(l)) => Hanging(c, base) <= from.current
      /\ IsBullet(w) /\ MarksOnly(l) => Hanging(c, base) = from.current + 2
  BY <1>1, FreshIndent
<1>6. /\ u \in Positions /\ u.index = x.index /\ u.out = x.out \o g
      /\ u.current = x.current + count_graphemes(g) /\ u.wrapped = x.wrapped
      /\ u.indent = x.indent /\ u.dots = x.dots
  BY <1>1, <1>3, SpacedIs
<1>. HIDE DEF w, g, l, n
<1>7. OneLined(g) /\ SpacesOnly(g) /\ w \in CStrings /\ Len(w) # 0
  BY <1>1, OneLinedPieces DEF IsWord
<1>. HIDE DEF c
<1>8. d \in CStrings /\ OneLined(d) /\ Words(d) = Words(c) /\ (Len(g) # 0 => Open(d)) /\ Hanging(d, base) = Hanging(c, base)
  BY <1>1, <1>4, <1>7, WordsSpaced, OneLinedConcat, HangingGap
<1>9. count_graphemes(d) = count_graphemes(c) + count_graphemes(g) /\ count_graphemes(g) \in Nat
  BY <1>1, <1>4, CountConcat DEF CStrings
<1>. HIDE DEF d
<1>10. u.out = d /\ u.current = count_graphemes(d) /\ u.indent = Hanging(d, base) /\ u.wrapped = FALSE
  BY <1>3, <1>4, <1>6, <1>8, <1>9 DEF d
<1>11. Short(d, 1, room)
  <2>1. u.current \in Nat
    BY <1>6 DEF Positions
  <2>2. count_graphemes(d) \in Nat /\ count_graphemes(d) <= room
    BY <1>10, <2>1
  <2>. QED  BY <2>2, ShortFits
<1>12. FreshLine(u, base, room)
  BY <1>6, <1>8, <1>10, <1>11 DEF FreshLine
<1>13. ASSUME u.index # Len(s)
       PROVE  FreshOn(s, u)
  <2>. DEFINE C == count_graphemes(g)
              V == count_graphemes(w)
  <2>1. Len(g) # 0 /\ Open(d)
    BY <1>1, <1>3, <1>6, <1>8, <1>13
  <2>2. C \in Nat /\ C >= 1 /\ (C = 1 <=> Len(g) = 1 /\ g[1] = " ")
    BY <1>1, <2>1, GapWidth
  <2>3. V \in Nat /\ V >= 1 /\ (IsBullet(w) => V = 1)
    <3>1. w \in Seq(Characters) /\ Len(w) \in Nat /\ OneLined(w)
      BY <1>1, <1>7, OneLinedPieces, ElementFacts DEF CStrings
    <3>2. V \in Nat /\ V >= Len(w)
      BY <3>1, CountBounds DEF OneLined
    <3>3. IsBullet(w) => V = 1
      <4>1. IsBullet(w) => Len(w) = 1 /\ \A k \in 1 .. Len(w) : w[k] # "\n" /\ w[k] # "\t"
        <5>1. IsBullet(w) => Len(w) = 1
          BY BulletIs
        <5>2. \A k \in 1 .. Len(w) : w[k] \notin Spaces
          BY <1>1 DEF IsWord
        <5>. QED  BY <5>1, <5>2 DEF Spaces
      <4>. QED  BY <3>1, <4>1, CountBounds
    <3>. HIDE DEF V
    <3>. QED  BY <1>7, <3>1, <3>2, <3>3
  <2>. HIDE DEF C, V
  <2>4. MarksOnly(d) <=> MarksOnly(l) /\ IsBullet(w) /\ C = 1
    <3>1. MarksOnly(d) <=> MarksOnly(l) /\ IsBullet(w) /\ Len(g) = 1 /\ g[1] = " "
      BY <1>1, <1>2, <1>7, <2>1, MarksOnlyOn DEF d, c
    <3>. QED  BY <2>2, <3>1
  <2>5. u.current = (from.current + V) + C /\ u.indent = Hanging(c, base) /\ u.indent \in Nat /\ u.current \in Nat
    BY <1>3, <1>4, <1>6, <1>8, <1>10 DEF C, V, Positions
  <2>6. u.indent <= u.current /\ (u.current = u.indent <=> MarksOnly(d))
    <3>1. CASE IsBullet(w) /\ MarksOnly(l)
      <4>1. u.indent = from.current + 2 /\ V = 1
        BY <1>5, <2>3, <2>5, <3>1
      <4>. DEFINE f == from.current
                  k == u.indent
      <4>2. f \in Nat /\ k \in Nat /\ k = f + 2
        BY <1>2, <2>5, <4>1
      <4>3. u.current = (f + V) + C
        BY <2>5
      <4>. HIDE DEF f, k
      <4>4. k <= (f + V) + C /\ ((f + V) + C = k <=> C = 1)
        <5>1. C \in Nat /\ C >= 1 /\ V = 1
          BY <2>2, <4>1
        <5>. QED  BY <4>2, <5>1
      <4>5. u.indent <= u.current /\ (u.current = u.indent <=> C = 1)
        BY <4>3, <4>4 DEF k
      <4>. QED  BY <2>4, <3>1, <4>5
    <3>2. CASE ~(IsBullet(w) /\ MarksOnly(l))
      <4>1. u.indent <= from.current
        BY <1>5, <2>5, <3>2
      <4>. DEFINE f == from.current
                  k == u.indent
      <4>2. f \in Nat /\ k \in Nat /\ k <= f
        BY <1>2, <2>5, <4>1
      <4>3. u.current = (f + V) + C
        BY <2>5
      <4>. HIDE DEF f, k
      <4>4. k <= (f + V) + C /\ (f + V) + C # k
        <5>1. C \in Nat /\ C >= 1 /\ V \in Nat /\ V >= 1
          BY <2>2, <2>3
        <5>. QED  BY <4>2, <5>1
      <4>5. u.indent <= u.current /\ u.current # u.indent
        BY <4>3, <4>4 DEF k
      <4>. QED  BY <2>4, <3>2, <4>5
    <3>. QED  BY <3>1, <3>2
  <2>7. u.dots <=> DotsLast(d)
    <3>1. Words(d) # <<>> /\ Last(Words(d)) = w
      <4>1. Len(Words(d)) # 0 /\ Len(<<>>) = 0 /\ Last(Words(d)) = w
        BY <1>3, <1>8 DEF w, i
      <4>. QED  BY <4>1
    <3>. QED  BY <1>3, <1>6, <3>1 DEF DotsLast
  <2>8. SameEnd(s, u.index, d)
    <3>1. i \in Starts(s) /\ n # Len(s) /\ u.index = n
      BY <1>3, <1>6, <1>13
    <3>. HIDE DEF i
    <3>. QED  BY <1>2, <3>1, SameEndOn DEF d, c, w, g, n
  <2>. QED  BY <1>10, <2>1, <2>6, <2>7, <2>8 DEF FreshOn
<1>. QED  BY <1>12, <1>13 DEF FreshAt

LEMMA FreshTurn ==
    ASSUME NEW s \in CStrings, OneLined(s), NEW base, NEW room \in Nat, NEW from \in Positions,
           from.index \in Starts(s), from.index # Len(s), FreshAt(s, base, room, from),
           NEW u, TurnEnds(s, room, AfterWord(s, AtWord(s, from, room)), GapAt(s, from.index), u)
    PROVE  FreshAt(s, base, room, u) \/ WrappedAt(s, base, room, u)
<1>. DEFINE w == WordAt(s, from.index)
            g == GapAt(s, from.index)
            b == AtWord(s, from, room)
            x == AfterWord(s, from)
<1>1. FreshLine(from, base, room) /\ FreshOn(s, from)
  BY DEF FreshAt
<1>2. IsWord(w) /\ g \in CStrings /\ count_graphemes(w) \in Nat
  <2>1. IsWord(w) /\ g \in CStrings
    BY PiecesOf
  <2>. QED  BY <2>1, CountBounds DEF IsWord, CStrings
<1>3. from.wrapped = FALSE /\ from.current \in Nat /\ from.indent \in Nat /\ s \in Seq(Characters)
  BY <1>1 DEF FreshLine, Positions, CStrings
<1>4. Open(<<>>) /\ Len(<<>>) = 0
  BY NoText DEF Open
<1>5. CASE Overflows(from, count_graphemes(w), room)
  <2>1. b = Break(from)
    BY <1>5 DEF AtWord
  <2>2. Hung(b, base, room, <<from.out>>, <<>>)
    BY <1>1, <2>1, FreshBreak
  <2>3. b \in Positions /\ b.index = from.index
    BY <2>1, BreakIs
  <2>4. TurnEnds(s, room, AfterWord(s, b), GapAt(s, b.index), u)
    BY <2>3
  <2>. HIDE DEF b
  <2>5. b.index \in Starts(s)
    BY <2>3
  <2>. QED  BY <1>4, <2>2, <2>3, <2>4, <2>5, WrappedTurn
<1>6. CASE ~Overflows(from, count_graphemes(w), room)
  <2>1. b = from
    BY <1>6 DEF AtWord
  <2>2. /\ x \in Positions /\ x.index = NextAt(s, from.index) /\ x.out = from.out \o w
        /\ x.current = from.current + count_graphemes(w) /\ x.wrapped = FALSE
        /\ x.indent = Indent(s, from, w)
    BY <1>3, PrintedIs
  <2>3. TurnEnds(s, room, x, g, u)
    BY <2>1
  <2>4. x.current <= room \/ from.current <= from.indent
    <3>. HIDE DEF w, x
    <3>. QED  BY <1>2, <1>3, <1>6, <2>2 DEF Overflows
  <2>5. x = AfterWord(s, from)
    OBVIOUS
  <2>. HIDE DEF x, b
  <2>6. FreshLine(x, base, room) /\ Words(x.out) \in Seq(CStrings) /\ Len(Words(x.out)) # 0 /\ Last(Words(x.out)) = w
    <3>1. WithWord(s, from, w, room, x)
      BY <2>2, <2>4 DEF WithWord
    <3>. HIDE DEF w
    <3>. QED  BY <1>1, <1>2, <3>1, FreshWord
  <2>7. CASE u = x /\ x.index = Len(s)
    BY <2>6, <2>7 DEF FreshAt
  <2>8. CASE u = Break(x) /\ x.index # Len(s)
    <3>1. Hung(u, base, room, <<x.out>>, <<>>)
      BY <2>6, <2>8, FreshBreak
    <3>2. u.index # Len(s)
      BY <2>2, <2>8, BreakIs
    <3>. QED  BY <1>4, <3>1, <3>2 DEF WrappedAt
  <2>9. CASE u = Spaced(x, g) /\ x.current + count_graphemes(g) < room
    <3>1. u.current < room
      BY <1>2, <2>2, <2>9, SpacedIs
    <3>. QED  BY <1>1, <2>5, <2>6, <2>9, <3>1, FreshGap
  <2>. QED  BY <2>3, <2>7, <2>8, <2>9 DEF TurnEnds
<1>. QED  BY <1>5, <1>6

-----------------------------------------------------------------------------
(* The help as a whole.                                                    *)

\* It begins as if behind a break, indented as the text is.
LEMMA FreshFirst ==
    ASSUME NEW s \in CStrings, NEW room \in Nat
    PROVE  FreshAt(s, Margin(s, room), room, FirstStop(s, room))
<1>. DEFINE n == find_word_start(s, 0)
            space == SubSeq(s, 1, n)
            l == Lead(space, room)
            k == LeadWidth(space, room)
            u == FirstStop(s, room)
<1>1. /\ n \in 0 .. Len(s) /\ space \in CStrings /\ Len(space) = n
      /\ \A i \in 1 .. n : space[i] \in Blanks
      /\ u \in Positions /\ u.out = l /\ l \in CStrings
      /\ u.indent = k /\ u.current = k /\ u.wrapped = FALSE /\ u.dots = FALSE
  BY FirstIs DEF Stops, CStrings
<1>2. Margin(s, room) = k
  BY DEF Margin, LeadWidth
<1>. HIDE DEF n, u
<1>3. OneLined(space) /\ SpacesOnly(space)
  <2>1. \A i \in 1 .. Len(space) : space[i] \in Blanks
    BY <1>1
  <2>. HIDE DEF space
  <2>. QED  BY <2>1, OneLinedPieces
<1>. HIDE DEF space
<1>4. OneLined(<<>>) /\ SpacesOnly(<<>>) /\ count_graphemes(<<>>) = 0
  <2>1. <<>> \in CStrings /\ Len(<<>>) = 0
    BY NoText
  <2>2. OneLined(<<>>) /\ SpacesOnly(<<>>)
    BY <2>1 DEF OneLined, SpacesOnly
  <2>3. count_graphemes(<<>>) = 0
    BY <2>1, CountBounds DEF CStrings
  <2>. QED  BY <2>2, <2>3
<1>5. OneLined(l) /\ SpacesOnly(l) /\ count_graphemes(l) = k
  BY <1>3, <1>4 DEF Lead, LeadWidth
<1>. HIDE DEF l, k
<1>6. MarksOnly(l) /\ Hanging(l, k) = k /\ Words(l) = <<>>
  BY <1>1, <1>5, OnlyIndentation
<1>7. Short(l, 1, room)
  <2>1. <<>> \in Seq(CStrings) /\ Len(<<>>) <= 1
    OBVIOUS
  <2>. QED  BY <1>6, <2>1, ShortOne
<1>8. FreshLine(u, k, room)
  BY <1>1, <1>5, <1>6, <1>7 DEF FreshLine
<1>9. Open(l)
  <2>1. Len(l) \in Nat
    BY <1>1, ElementFacts DEF CStrings
  <2>2. Len(l) = 0 \/ Len(l) \in 1 .. Len(l)
    BY <2>1
  <2>. QED  BY <1>5, <2>2 DEF Open, SpacesOnly
<1>10. FreshOn(s, u)
  <2>1. u.indent <= u.current
    BY <1>1 DEF Positions
  <2>2. ~DotsLast(l)
    BY <1>6 DEF DotsLast
  <2>. QED  BY <1>1, <1>6, <1>9, <2>1, <2>2 DEF FreshOn
<1>. QED  BY <1>2, <1>8, <1>10 DEF FreshAt, u

\* A turn of the text of one line.
LEMMA OneLinedTurn ==
    ASSUME NEW s \in CStrings, OneLined(s), NEW room \in Nat, NEW base, NEW at \in Stops(s), at.index # Len(s),
           FreshAt(s, base, room, at) \/ WrappedAt(s, base, room, at)
    PROVE  FreshAt(s, base, room, PrintOn(s, at, room)) \/ WrappedAt(s, base, room, PrintOn(s, at, room))
<1>. DEFINE u == PrintOn(s, at, room)
            b == AtWord(s, at, room)
            g == GapAt(s, at.index)
            x == AfterWord(s, b)
<1>1. s \in Seq(Characters) /\ Len(s) \in Nat /\ at \in Positions /\ at.index \in 0 .. Len(s)
  BY ElementFacts DEF CStrings, Stops
<1>2. at.index \in Starts(s)
  <2>1. at.index + 1 \in 1 .. Len(s)
    <3>. DEFINE i == at.index
    <3>1. i \in 0 .. Len(s) /\ i # Len(s)
      BY <1>1
    <3>. HIDE DEF i
    <3>2. i + 1 \in 1 .. Len(s)
      BY <1>1, <3>1
    <3>. QED  BY <3>2 DEF i
  <2>2. s[at.index + 1] # "\n"
    BY <2>1 DEF OneLined
  <2>. QED  BY <2>2 DEF Stops
<1>3. u = Word_(s, at, room)
  BY <1>1, <1>2, PrintOnIs
<1>4. /\ b \in Positions /\ b.index = at.index /\ x \in Positions
      /\ \/ u = Spaced(x, g) /\ x.current + count_graphemes(g) < room
         \/ /\ u = x
            /\ NextAt(s, at.index) = Len(s) \/ s[NextAt(s, at.index) + 1] = "\n"
         \/ /\ u = Break(x)
            /\ NextAt(s, at.index) # Len(s) /\ s[NextAt(s, at.index) + 1] # "\n"
  BY <1>1, <1>2, <1>3, WordTurn
<1>5. x.index = NextAt(s, at.index)
  <2>1. b.index \in Starts(s)
    BY <1>2, <1>4
  <2>. HIDE DEF b
  <2>. QED  BY <1>1, <1>4, <2>1, PrintedIs, ZenonT(60)
<1>6. NextAt(s, at.index) # Len(s) => s[NextAt(s, at.index) + 1] # "\n"
  <2>. DEFINE n == NextAt(s, at.index)
  <2>1. n \in 0 .. Len(s)
    BY <1>2, PiecesOf
  <2>. HIDE DEF n
  <2>2. n # Len(s) => n + 1 \in 1 .. Len(s)
    BY <1>1, <2>1
  <2>3. n # Len(s) => s[n + 1] # "\n"
    BY <2>2 DEF OneLined
  <2>. QED  BY <2>3 DEF n
<1>. HIDE DEF u, x, g
<1>7. TurnEnds(s, room, x, g, u)
  BY <1>4, <1>5, <1>6 DEF TurnEnds
<1>8. TurnEnds(s, room, AfterWord(s, AtWord(s, at, room)), GapAt(s, at.index), u)
  BY <1>7 DEF x, g
<1>9. CASE FreshAt(s, base, room, at)
  BY <1>1, <1>2, <1>8, <1>9, FreshTurn DEF u
<1>10. CASE WrappedAt(s, base, room, at)
  BY <1>1, <1>2, <1>8, <1>10, WrappedOn DEF u
<1>. QED  BY <1>9, <1>10

LEMMA LinesFit ==
    ASSUME NEW s \in CStrings, OneLined(s), NEW room \in Nat
    PROVE  LET lines == LinesOf(print_wrapped_text(s, room)) IN
           /\ \A i \in DOMAIN lines : Short(lines[i], i, room)
           /\ \A i \in 2 .. Len(lines) : Hangs(lines[i], lines[1], Margin(s, room))
<1>. DEFINE base == Margin(s, room)
            out == print_wrapped_text(s, room)
            lines == LinesOf(out)
            T == {at \in Stops(s) : FreshAt(s, base, room, at) \/ WrappedAt(s, base, room, at)}
<1>1. s \in Seq(Characters)
  BY DEF CStrings
<1>2. FirstStop(s, room) \in T
  BY <1>1, FirstIs, FreshFirst
<1>. HIDE DEF base
<1>3. ASSUME NEW at \in T \intersect Stops(s), at.index # Len(s)
      PROVE  PrintOn(s, at, room) \in T
  <2>1. PrintOn(s, at, room) \in Stops(s)
    BY <1>1, PrintOnIs
  <2>2. at \in Stops(s) /\ (FreshAt(s, base, room, at) \/ WrappedAt(s, base, room, at))
    OBVIOUS
  <2>. HIDE DEF T
  <2>3. FreshAt(s, base, room, PrintOn(s, at, room)) \/ WrappedAt(s, base, room, PrintOn(s, at, room))
    BY <1>3, <2>2, OneLinedTurn
  <2>. QED  BY <2>1, <2>3 DEF T
<1>4. PICK at \in T : at.index = Len(s) /\ at.out = out
  <2>. HIDE DEF T
  <2>. QED  BY <1>1, <1>2, <1>3, PrintedAll
<1>. HIDE DEF out
<1>5. CASE FreshAt(s, base, room, at)
  <2>1. at.out \in CStrings /\ OneLined(at.out) /\ Short(at.out, 1, room)
    BY <1>5 DEF FreshAt, FreshLine, Positions
  <2>2. lines = <<out>>
    BY <1>4, <2>1, OneLine DEF OneLined
  <2>. HIDE DEF lines
  <2>3. /\ lines[1] = out /\ Len(lines) = 1
        /\ (\A i \in DOMAIN lines : i = 1) /\ \A i \in 2 .. Len(lines) : FALSE
    BY <2>2
  <2>4. (\A i \in DOMAIN lines : Short(lines[i], i, room)) /\ \A i \in 2 .. Len(lines) : Hangs(lines[i], lines[1], base)
    BY <1>4, <2>1, <2>3
  <2>. QED  BY <2>4 DEF lines, out, base
<1>6. CASE WrappedAt(s, base, room, at)
  <2>1. PICK done, r : Hung(at, base, room, done, r) /\ Len(r) # 0
    BY <1>4, <1>6 DEF WrappedAt
  <2>. DEFINE d == Append(done, print_spaces(at.indent) \o r)
  <2>2. /\ \A i \in 1 .. Len(d) : Short(d[i], i, room)
        /\ \A i \in 2 .. Len(d) : Hangs(d[i], d[1], base)
    <3>. HIDE DEF d
    <3>1. Hung(Break(at), base, room, d, <<>>)
      BY <2>1, LineDone DEF d
    <3>. QED  BY <3>1 DEF Hung
  <2>3. lines = d
    BY <1>4, <2>1 DEF Hung
  <2>4. out \in CStrings
    BY <1>4 DEF Stops, Positions
  <2>5. lines \in Seq(CStrings)
    BY <2>4, LinesType DEF CStrings
  <2>. HIDE DEF lines, d
  <2>6. DOMAIN lines = 1 .. Len(lines)
    BY <2>5
  <2>7. (\A i \in DOMAIN lines : Short(lines[i], i, room)) /\ \A i \in 2 .. Len(lines) : Hangs(lines[i], lines[1], base)
    BY <2>2, <2>3, <2>6
  <2>. QED  BY <2>7 DEF lines, out, base
<1>. QED  BY <1>4, <1>5, <1>6

\* A text with a line end has more than one line.
LEMMA OnlyLine ==
    ASSUME NEW s \in CStrings, Len(LinesOf(s)) = 1
    PROVE  OneLined(s)
<1>1. ASSUME NEW a \in CStrings, NEW b \in CStrings, s = Joined(a, b)
      PROVE  FALSE
  <2>1. LinesOf(s) = LinesOf(a) \o LinesOf(b)
    BY <1>1, JoinedLines
  <2>2. /\ LinesOf(a) \in Seq(CStrings) /\ Len(LinesOf(a)) # 0
        /\ LinesOf(b) \in Seq(CStrings) /\ Len(LinesOf(b)) # 0
    BY LinesType DEF CStrings
  <2>3. /\ Len(LinesOf(s)) = Len(LinesOf(a)) + Len(LinesOf(b))
        /\ Len(LinesOf(a)) \in Nat /\ Len(LinesOf(b)) \in Nat
    BY <2>1, <2>2, ConcatFacts, ElementFacts
  <2>. DEFINE x == Len(LinesOf(a))
              y == Len(LinesOf(b))
  <2>4. x \in Nat /\ y \in Nat /\ x # 0 /\ y # 0 /\ x + y = 1
    BY <2>2, <2>3
  <2>. HIDE DEF x, y
  <2>. QED  BY <2>4
<1>. QED  BY <1>1, CutAtLineEnd DEF OneLined

\* However long the text, and on a terminal of any width.
LEMMA HelpFitsAll ==
    ASSUME Typeset
    PROVE  HelpFits
<1>. DEFINE s == text
            room == linelen
            own == LinesOf(s)
            lines == LinesOf(print_wrapped_text(s, room))
<1>1. s \in CStrings /\ room \in Nat /\ s \in Seq(Characters)
  BY HelpAssumption DEF Typeset, CStrings
<1>. HIDE DEF s, room
<1>2. Words(print_wrapped_text(s, room)) = Words(s)
  BY <1>1, WordsKept
<1>3. lines = FlattenSeq([i \in DOMAIN own |-> LinesOf(print_wrapped_text(own[i], room))])
  BY <1>1, LinesKept DEF PrintedEach
<1>4. ASSUME Len(own) = 1
      PROVE  /\ \A i \in DOMAIN lines : Short(lines[i], i, room)
             /\ \A i \in 2 .. Len(lines) : Hangs(lines[i], lines[1], Margin(s, room))
  <2>1. OneLined(s)
    BY <1>1, <1>4, OnlyLine
  <2>. QED  BY <1>1, <2>1, LinesFit
<1>. HIDE DEF lines
<1>. QED  BY <1>2, <1>3, <1>4 DEF HelpFits, lines, s, room

\* HelpFits, for every text and every number of columns: print_wrapped_text() loses, splits or
\* moves no word, prints each line of a text as if it were alone, lets no line become too long
\* that could be shorter, and indents what follows a break as the first line asks for
\* (help.c:416-521).
THEOREM HelpPrinted == HelpSpec => []HelpFits
<1>1. Typeset => HelpFits
  BY HelpFitsAll
<1>2. Typeset /\ [UNCHANGED <<text, linelen>>]_<<text, linelen>> => Typeset'
  BY DEF Typeset
<1>. QED  BY <1>1, <1>2, PTL DEF HelpSpec
=============================================================================
