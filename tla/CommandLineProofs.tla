------------------------- MODULE CommandLineProofs -------------------------
(***************************************************************************)
(* Proofs about CommandLine, for any words and any number of arguments.    *)
(*                                                                         *)
(* ReadsInOrder is what the loop keeps: the configuration is what the      *)
(* arguments before index mean.  When the loop ends or stops, that is      *)
(* CrawlRunsAsTyped and RefusalIsDeserved.                                 *)
(***************************************************************************)
EXTENDS CommandLine, FiniteSetTheorems, TLAPS

Typing == Words \cup Options

LEMMA ArgumentsAreSequences == Init => arguments \in Seq(Typing)
<1> SUFFICES ASSUME Init PROVE arguments \in Seq(Typing)
  OBVIOUS
<1>1. PICK n \in 0 .. MaxArguments : arguments \in [1 .. n -> Typing]
  BY DEF Init, Typed, Typing
<1> QED
  BY <1>1, ArgumentAssumption

\* An argument is assigned to a field only as that field's value.
LEMMA AssignedSettings ==
  ASSUME configuration \in Settings,
         \/ \E option \in Flags : Assign(option, TRUE)
         \/ \E option \in ValueOptions, value \in Typing :
               Assign(option, value)
  PROVE  configuration' \in Settings
<1>1. ASSUME NEW option \in Flags, Assign(option, TRUE)
      PROVE  configuration' \in Settings
  BY <1>1 DEF Assign, Flags, Settings
<1>2. ASSUME NEW option \in ValueOptions, NEW value \in Typing,
             Assign(option, value)
      PROVE  configuration' \in Settings
  BY <1>2 DEF Assign, ValueOptions, Settings, Typing
<1> QED
  BY <1>1, <1>2

LEMMA TypeStep == TypeOK /\ [Next]_vars => TypeOK'
<1> SUFFICES ASSUME TypeOK, [Next]_vars PROVE TypeOK'
  OBVIOUS
<1>1. /\ arguments \in Seq(Typing) /\ Len(arguments) \in Nat
      /\ index \in 1 .. Len(arguments) + 1
  BY DEF TypeOK, Typing
<1>2. CASE UNCHANGED vars
  BY <1>2 DEF vars, TypeOK
<1>3. CASE SetFlag
  <2>1. configuration' \in Settings
    BY <1>3, AssignedSettings DEF SetFlag, Reads, TypeOK
  <2>2. index' \in 1 .. Len(arguments) + 1
    BY <1>1, <1>3 DEF SetFlag, Reads
  <2> QED
    BY <1>3, <2>1, <2>2 DEF SetFlag, TypeOK
<1>4. CASE SetValue
  <2>1. arguments[index + 1] \in Typing
    BY <1>1, <1>4 DEF SetValue
  <2>2. configuration' \in Settings
    BY <1>4, <2>1, AssignedSettings DEF SetValue, Reads, TypeOK
  <2>3. index' \in 1 .. Len(arguments) + 1
    BY <1>1, <1>4 DEF SetValue
  <2> QED
    BY <1>4, <2>2, <2>3 DEF SetValue, TypeOK
<1>5. CASE PrintUsage \/ NotBuilt \/ StartCrawler \/ Help \/ ValueMissing
             \/ UnknownOption \/ LoopEnds \/ NoDatabase \/ RunCrawl
  BY <1>5
  DEF PrintUsage, NotBuilt, StartCrawler, Help, ValueMissing, UnknownOption,
      LoopEnds, NoDatabase, RunCrawl, GoTo, TypeOK
<1> QED
  BY <1>2, <1>3, <1>4, <1>5 DEF Next

LEMMA TypeInit == Init => TypeOK
<1> SUFFICES ASSUME Init PROVE TypeOK
  OBVIOUS
<1>1. arguments \in Seq(Typing) /\ Len(arguments) \in Nat
  BY ArgumentsAreSequences
<1>2. configuration \in Settings
  BY ArgumentAssumption DEF Init, Settings
<1> QED
  BY <1>1, <1>2 DEF Init, TypeOK, Typing

\* The loop never reads behind the last argument, and a field only ever holds
\* its default or something that was typed.
THEOREM CommandLineTypeCorrect == Spec => []TypeOK
BY TypeInit, TypeStep, PTL DEF Spec

-----------------------------------------------------------------------------
(* Which arguments are values: IsValue satisfies its own equation.         *)

\* Induction: a set of naturals that is not empty has a least element,
\* because there is no infinite chain of ever smaller finite sets.
LEMMA NatHasLeast ==
  ASSUME NEW S \in SUBSET Nat, S # {}
  PROVE  \E least \in S : \A n \in S : least <= n
<1> DEFINE below(n) == 0 .. n - 1
           T == {below(n) : n \in S}
<1>1. T \subseteq FiniteSubsetsOf(Nat) /\ T # {}
  <2> SUFFICES ASSUME NEW n \in S
               PROVE  below(n) \in FiniteSubsetsOf(Nat)
    OBVIOUS
  <2> QED
    BY FS_Interval DEF FiniteSubsetsOf
<1>2. PICK t \in T : \A u \in T : <<u, t>> \notin StrictSubsetOrdering(Nat)
  <2> HIDE DEF T
  <2> QED
    BY <1>1, FS_StrictSubsetOrderingWellFounded, WFMin
<1>3. PICK least \in S : t = below(least)
  OBVIOUS
<1>4. ASSUME NEW n \in S, ~ (least <= n)
      PROVE  FALSE
  <2>1. below(n) \subseteq below(least) /\ below(n) # below(least)
    <3>1. n \in below(least) /\ n \notin below(n)
      BY <1>4
    <3> QED
      BY <1>4, <3>1
  <2>2. <<below(n), t>> \notin StrictSubsetOrdering(Nat)
    BY <1>2
  <2>3. below(n) \in SUBSET Nat /\ t \in SUBSET Nat
    BY <1>3
  <2> QED
    BY <1>3, <2>1, <2>2, <2>3 DEF StrictSubsetOrdering
<1> QED
  BY <1>4

\* The places from which value options fill the places up to i.
RowStarts(i) ==
    {s \in 1 .. i : /\ s = 1 \/ arguments[s - 1] \notin ValueOptions
                    /\ \A k \in s .. i - 1 : arguments[k] \in ValueOptions}

\* An argument is a value where an odd number of options precede it.
OddRow(i) == \E s \in RowStarts(i) : (i - s) % 2 = 1

\* The row before an argument starts at one place.
LEMMA OneRowStart ==
  ASSUME NEW i \in Nat, NEW s \in RowStarts(i), NEW t \in RowStarts(i)
  PROVE  s = t
<1>1. ASSUME NEW u \in RowStarts(i), NEW v \in RowStarts(i), u < v
      PROVE  FALSE
  BY <1>1 DEF RowStarts
<1> QED
  BY <1>1 DEF RowStarts

\* The row starts at the least place it fills.
LEMMA RowStartExists ==
  ASSUME NEW i \in Nat, i > 1, arguments[i - 1] \in ValueOptions
  PROVE  RowStarts(i) # {}
<1> DEFINE filled == {s \in 1 .. i :
                        \A k \in s .. i - 1 : arguments[k] \in ValueOptions}
<1>1. i \in filled /\ filled \in SUBSET Nat
  OBVIOUS
<1>2. PICK s \in filled : \A n \in filled : s <= n
  BY <1>1, NatHasLeast
<1>3. ASSUME s # 1, arguments[s - 1] \in ValueOptions
      PROVE  FALSE
  <2>1. s - 1 \in 1 .. i
    BY <1>3
  <2>2. \A k \in s - 1 .. i - 1 : k = s - 1 \/ k \in s .. i - 1
    OBVIOUS
  <2>3. s - 1 \in filled
    BY <1>3, <2>1, <2>2
  <2> QED
    BY <1>2, <2>1, <2>3
<1>4. s \in RowStarts(i)
  BY <1>3 DEF RowStarts
<1> QED
  BY <1>4

\* The number of options before an argument is odd where that before the last
\* of them is even.
LEMMA OddRowStep ==
  ASSUME NEW i \in Nat
  PROVE  OddRow(i) <=> /\ i > 1
                       /\ arguments[i - 1] \in ValueOptions
                       /\ ~ OddRow(i - 1)
<1>1. ASSUME NEW s \in RowStarts(i), s < i
      PROVE  /\ i > 1
             /\ arguments[i - 1] \in ValueOptions
             /\ s \in RowStarts(i - 1)
  BY <1>1 DEF RowStarts
<1>2. ASSUME NEW s \in RowStarts(i - 1), i > 1,
             arguments[i - 1] \in ValueOptions
      PROVE  s \in RowStarts(i)
  <2>1. \A k \in s .. i - 1 : k = i - 1 \/ k \in s .. (i - 1) - 1
    BY <1>2 DEF RowStarts
  <2> QED
    BY <1>2, <2>1 DEF RowStarts
<1>3. ASSUME OddRow(i)
      PROVE  /\ i > 1
             /\ arguments[i - 1] \in ValueOptions
             /\ ~ OddRow(i - 1)
  <2>1. PICK s \in RowStarts(i) : (i - s) % 2 = 1
    BY <1>3 DEF OddRow
  <2>2. s \in Nat /\ s < i
    BY <2>1 DEF RowStarts
  <2>3. /\ i > 1 /\ arguments[i - 1] \in ValueOptions
        /\ s \in RowStarts(i - 1)
    BY <1>1, <2>2
  <2>4. ASSUME NEW t \in RowStarts(i - 1), ((i - 1) - t) % 2 = 1
        PROVE  FALSE
    <3>1. t = s
      BY <1>2, <2>3, OneRowStart
    <3> QED
      BY <2>1, <2>2, <2>4, <3>1
  <2> QED
    BY <2>3, <2>4 DEF OddRow
<1>4. ASSUME i > 1, arguments[i - 1] \in ValueOptions, ~ OddRow(i - 1)
      PROVE  OddRow(i)
  <2>1. PICK s \in RowStarts(i) : TRUE
    BY <1>4, RowStartExists
  <2>2. s \in Nat /\ s <= i
    BY DEF RowStarts
  <2>3. CASE s = i
    <3>1. arguments[s - 1] \notin ValueOptions
      BY <1>4, <2>1, <2>3 DEF RowStarts
    <3> QED
      BY <1>4, <2>3, <3>1
  <2>4. CASE s < i
    <3>1. ((i - 1) - s) % 2 # 1
      BY <1>1, <1>4, <2>4 DEF OddRow
    <3>2. (i - s) % 2 = 1
      BY <2>2, <2>4, <3>1
    <3> QED
      BY <3>2 DEF OddRow
  <2> QED
    BY <2>2, <2>3, <2>4
<1> QED
  BY <1>3, <1>4

\* A function that satisfies the equation of IsValue exists, OddRow, and so
\* IsValue satisfies it.
LEMMA IsValueStep ==
  \A i \in Nat : IsValue[i] <=> /\ i > 1
                                /\ arguments[i - 1] \in ValueOptions
                                /\ ~ IsValue[i - 1]
<1> DEFINE Step(f, i) == /\ i > 1
                         /\ arguments[i - 1] \in ValueOptions
                         /\ ~ f[i - 1]
           Odd == [i \in Nat |-> OddRow(i)]
<1>1. \A i \in Nat : Odd[i] <=> Step(Odd, i)
  <2> SUFFICES ASSUME NEW i \in Nat PROVE Odd[i] <=> Step(Odd, i)
    OBVIOUS
  <2>1. Odd[i] = OddRow(i)
    OBVIOUS
  <2>2. i > 1 => Odd[i - 1] = OddRow(i - 1)
    OBVIOUS
  <2> QED
    BY <2>1, <2>2, OddRowStep
<1>2. Odd = [i \in Nat |-> Step(Odd, i)]
  <2>1. ASSUME NEW i \in Nat
        PROVE  OddRow(i) = Step(Odd, i)
    <3>1. OddRow(i) \in BOOLEAN /\ Step(Odd, i) \in BOOLEAN
      BY DEF OddRow
    <3>2. OddRow(i) <=> Step(Odd, i)
      BY <1>1
    <3> HIDE DEF Step
    <3> QED
      BY <3>1, <3>2
  <2> QED
    BY <2>1, Zenon
<1>3. IsValue = [i \in Nat |-> Step(IsValue, i)]
  <2> HIDE DEF Odd
  <2> QED
    BY <1>2 DEF IsValue
<1> QED
  BY <1>3

-----------------------------------------------------------------------------
(* What the loop has done when it has read the arguments before index.     *)

ReadBefore(option) == {i \in Named(option) : i < index}

LastRead(option, default) ==
    IF ReadBefore(option) = {} THEN default
    ELSE arguments[Max(ReadBefore(option)) + 1]

MeaningSoFar ==
    [rebuild  |-> ReadBefore("--rebuild-database") # {},
     follow   |-> ReadBefore("--follow-symbolic-links") # {},
     hidden   |-> ReadBefore("--include-hidden-entries") # {},
     root     |-> LastRead("--crawl-root", Default),
     database |-> LastRead("--database-path", Empty),
     log      |-> LastRead("--log-file-path", Default)]

\* The arguments before index are well-formed.
WellFormedSoFar ==
    \A i \in Given : i < index =>
        /\ arguments[i] \in Flags \cup ValueOptions
        /\ arguments[i] \in ValueOptions => i < Len(arguments)

StopsFor ==
    /\ pc = "help" => index <= Len(arguments) /\ Current = "--help"
    /\ pc \in {"check", "crawl"} => index > Len(arguments)
    /\ pc = "crawl" => configuration.database # Empty
    /\ pc = "failed" =>
         \/ index > Len(arguments) /\ configuration.database = Empty
         \/ /\ index <= Len(arguments)
            /\ \/ Current \in Words
               \/ Current \in ValueOptions /\ index = Len(arguments)

\* The loop reads no value as an argument, and the configuration is what the
\* arguments before index mean.
ReadsInOrder == /\ TypeOK
                /\ ~ IsValue[index]
                /\ WellFormedSoFar
                /\ configuration = MeaningSoFar
                /\ StopsFor

-----------------------------------------------------------------------------
\* The greatest of a set is what was added last in ascending order.
LEMMA GreatestIsAdded ==
  ASSUME NEW S \in SUBSET Nat, NEW m \in Nat, \A n \in S : n < m
  PROVE  Max(S \cup {m}) = m
<1> DEFINE T == S \cup {m}
<1>1. m \in T /\ \A n \in T : m >= n
  OBVIOUS
<1>2. ASSUME NEW x \in T, \A n \in T : x >= n
      PROVE  x = m
  BY <1>2
<1> QED
  BY <1>1, <1>2 DEF Max

\* The arguments say which of them are values; nothing else does.
LEMMA ValuesStay ==
  arguments' = arguments => /\ IsValue' = IsValue
                            /\ Given' = Given
                            /\ \A option : Named(option)' = Named(option)
<1> SUFFICES ASSUME arguments' = arguments
             PROVE  /\ IsValue' = IsValue
                    /\ Given' = Given
                    /\ \A option : Named(option)' = Named(option)
  OBVIOUS
<1>1. IsValue' = IsValue
  BY DEF IsValue
<1>2. Given' = Given
  BY <1>1 DEF Given
<1> QED
  BY <1>1, <1>2 DEF Named

\* One turn of the loop: an option is read, and its value with it.
ReadsOption == /\ pc = "parse" /\ index <= Len(arguments)
               /\ arguments' = arguments
               /\ \/ /\ Current \in Flags
                     /\ index' = index + 1
                  \/ /\ Current \in ValueOptions
                     /\ index < Len(arguments)
                     /\ index' = index + 2

\* A turn of the loop reads one argument that is not a value, and the next one
\* it will read is none either.
LEMMA TurnReadsOne ==
  ASSUME TypeOK, ~ IsValue[index], ReadsOption
  PROVE  /\ ~ IsValue[index']
         /\ index \in Given
         /\ \A i \in Given : i < index' <=> i < index \/ i = index
<1>1. /\ index \in Nat /\ index >= 1 /\ Len(arguments) \in Nat
      /\ DOMAIN arguments = 1 .. Len(arguments)
  BY DEF TypeOK
<1>2. index \in Given
  BY <1>1 DEF Given, ReadsOption
<1>3. CASE Current \in Flags /\ index' = index + 1
  <2>1. Current \notin ValueOptions
    BY <1>3 DEF Flags, ValueOptions
  <2>2. ~ IsValue[index + 1]
    <3>1. (index + 1) - 1 = index /\ index + 1 \in Nat
      BY <1>1
    <3>2. IsValue[index + 1] => arguments[(index + 1) - 1] \in ValueOptions
      BY <3>1, IsValueStep
    <3> QED
      BY <2>1, <3>1, <3>2 DEF Current
  <2> QED
    BY <1>1, <1>2, <1>3, <2>2 DEF Given
<1>4. CASE /\ Current \in ValueOptions
           /\ index < Len(arguments)
           /\ index' = index + 2
  <2>1. IsValue[index + 1]
    <3>1. (index + 1) - 1 = index /\ index + 1 \in Nat /\ index + 1 > 1
      BY <1>1
    <3>2. /\ index + 1 > 1
          /\ arguments[(index + 1) - 1] \in ValueOptions
          /\ ~ IsValue[(index + 1) - 1]
      BY <1>4, <3>1 DEF Current
    <3> QED
      BY <3>1, <3>2, IsValueStep
  <2>2. ~ IsValue[index + 2]
    <3>1. (index + 2) - 1 = index + 1 /\ index + 2 \in Nat
      BY <1>1
    <3>2. IsValue[index + 2] => ~ IsValue[(index + 2) - 1]
      BY <3>1, IsValueStep
    <3> QED
      BY <2>1, <3>1, <3>2
  <2>3. index + 1 \notin Given
    BY <2>1 DEF Given
  <2>4. \A i \in Given : i \in Nat
    BY <1>1 DEF Given
  <2> QED
    BY <1>1, <1>2, <1>4, <2>2, <2>3, <2>4
<1> QED
  BY <1>3, <1>4 DEF ReadsOption

\* A turn adds the place of the option it reads, and no other.
LEMMA TurnNamesOne ==
  ASSUME TypeOK, ~ IsValue[index], ReadsOption, NEW option
  PROVE  ReadBefore(option)' = IF Current = option
                               THEN ReadBefore(option) \cup {index}
                               ELSE ReadBefore(option)
<1>1. ReadBefore(option)' = {i \in Named(option) : i < index'}
  BY ValuesStay DEF ReadBefore, ReadsOption
<1>2. index \in Named(option) <=> Current = option
  BY TurnReadsOne DEF Named, Current
<1>3. \A i \in Named(option) : i < index' <=> i < index \/ i = index
  BY TurnReadsOne DEF Named
<1> QED
  BY <1>1, <1>2, <1>3 DEF ReadBefore

\* A turn replaces the value of the option it reads, and no other.
LEMMA TurnReadsValue ==
  ASSUME TypeOK, ~ IsValue[index], ReadsOption, NEW option, NEW default
  PROVE  LastRead(option, default)' = IF Current = option
                                      THEN arguments[index + 1]
                                      ELSE LastRead(option, default)
<1>1. CASE Current = option
  <2>1. ReadBefore(option)' = ReadBefore(option) \cup {index}
    BY <1>1, TurnNamesOne
  <2>2. /\ ReadBefore(option) \in SUBSET Nat /\ index \in Nat
        /\ \A i \in ReadBefore(option) : i < index
    BY DEF ReadBefore, Named, Given, TypeOK
  <2>3. Max(ReadBefore(option)') = index
    BY <2>1, <2>2, GreatestIsAdded
  <2>4. arguments' = arguments /\ ReadBefore(option)' # {}
    BY <2>1 DEF ReadsOption
  <2> QED
    BY <1>1, <2>3, <2>4 DEF LastRead
<1>2. CASE Current # option
  <2>1. ReadBefore(option)' = ReadBefore(option)
    BY <1>2, TurnNamesOne
  <2> QED
    BY <1>2, <2>1 DEF LastRead, ReadsOption
<1> QED
  BY <1>1, <1>2

LEMMA TurnReadsOption ==
  ASSUME TypeOK, SetFlag \/ SetValue
  PROVE  ReadsOption /\ pc' = "parse"
BY DEF SetFlag, SetValue, Reads, ReadsOption, TypeOK

\* A flag changes the field that means it.
LEMMA FlagIsMeant ==
  ASSUME TypeOK, ~ IsValue[index], configuration = MeaningSoFar, SetFlag
  PROVE  configuration' = MeaningSoFar'
<1>1. ReadsOption
  BY TurnReadsOption
<1>2. Current \in Flags /\ Assign(Current, TRUE)
  BY DEF SetFlag, Reads
<1>3. /\ Current \notin ValueOptions
      /\ \A option \in ValueOptions : \A default :
             LastRead(option, default)' = LastRead(option, default)
  <2>1. Current \notin ValueOptions
    BY <1>2 DEF Flags, ValueOptions
  <2> QED
    BY <1>1, <2>1, TurnReadsValue
<1>4. \A option : (ReadBefore(option) # {})' <=>
                      ReadBefore(option) # {} \/ Current = option
  BY <1>1, TurnNamesOne
<1> QED
  BY <1>2, <1>3, <1>4
  DEF MeaningSoFar, Assign, Flags, ValueOptions

\* A value changes the field that means it.
LEMMA ValueIsMeant ==
  ASSUME TypeOK, ~ IsValue[index], configuration = MeaningSoFar, SetValue
  PROVE  configuration' = MeaningSoFar'
<1>1. ReadsOption
  BY TurnReadsOption
<1>2. Current \in ValueOptions /\ Assign(Current, arguments[index + 1])
  BY DEF SetValue, Reads
<1>3. \A option \in Flags : ReadBefore(option)' = ReadBefore(option)
  <2>1. Current \notin Flags
    BY <1>2 DEF Flags, ValueOptions
  <2> QED
    BY <1>1, <2>1, TurnNamesOne
<1>4. \A option, default :
          LastRead(option, default)' = IF Current = option
                                       THEN arguments[index + 1]
                                       ELSE LastRead(option, default)
  BY <1>1, TurnReadsValue
<1> QED
  BY <1>2, <1>3, <1>4
  DEF MeaningSoFar, Assign, Flags, ValueOptions

LEMMA TurnStaysWellFormed ==
  ASSUME TypeOK, ~ IsValue[index], WellFormedSoFar, ReadsOption
  PROVE  WellFormedSoFar'
<1>1. Given' = Given /\ arguments' = arguments
  BY ValuesStay DEF ReadsOption
<1>2. /\ Current \in Flags \cup ValueOptions
      /\ Current \in ValueOptions => index < Len(arguments)
  BY DEF ReadsOption, Flags, ValueOptions
<1> QED
  BY <1>1, <1>2, TurnReadsOne DEF WellFormedSoFar, Current

LEMMA ReadsInOrderInit == Init => ReadsInOrder
<1> SUFFICES ASSUME Init PROVE ReadsInOrder
  OBVIOUS
<1>1. TypeOK
  BY TypeInit
<1>2. ~ IsValue[index]
  BY IsValueStep DEF Init
<1>3. \A i \in Given : ~ i < index
  BY <1>1 DEF Given, Init, TypeOK
<1>4. WellFormedSoFar
  BY <1>3 DEF WellFormedSoFar
<1>5. \A option : ReadBefore(option) = {}
  BY <1>3 DEF ReadBefore, Named
<1>6. configuration = MeaningSoFar
  BY <1>5 DEF Init, MeaningSoFar, LastRead
<1> QED
  BY <1>1, <1>2, <1>4, <1>6 DEF Init, ReadsInOrder, StopsFor

LEMMA ReadsInOrderStep == ReadsInOrder /\ [Next]_vars => ReadsInOrder'
<1> SUFFICES ASSUME ReadsInOrder, [Next]_vars PROVE ReadsInOrder'
  OBVIOUS
<1>1. TypeOK /\ TypeOK'
  BY TypeStep DEF ReadsInOrder
<1>2. CASE SetFlag \/ SetValue
  <2>1. ReadsOption /\ pc' = "parse"
    BY <1>1, <1>2, TurnReadsOption
  <2>2. ~ IsValue'[index']
    BY <1>1, <2>1, TurnReadsOne, ValuesStay DEF ReadsInOrder, ReadsOption
  <2>3. configuration' = MeaningSoFar'
    BY <1>1, <1>2, FlagIsMeant, ValueIsMeant DEF ReadsInOrder
  <2>4. WellFormedSoFar'
    BY <1>1, <2>1, TurnStaysWellFormed DEF ReadsInOrder
  <2>5. StopsFor'
    BY <2>1 DEF StopsFor
  <2> QED
    BY <1>1, <2>2, <2>3, <2>4, <2>5 DEF ReadsInOrder
<1>3. ASSUME UNCHANGED <<arguments, index, configuration>>
      PROVE  /\ ~ IsValue'[index'] /\ WellFormedSoFar'
             /\ configuration' = MeaningSoFar'
  <2>1. IsValue' = IsValue /\ Given' = Given
    BY <1>3, ValuesStay
  <2>2. ~ IsValue'[index'] /\ WellFormedSoFar'
    BY <1>3, <2>1 DEF ReadsInOrder, WellFormedSoFar
  <2>3. \A option : ReadBefore(option)' = ReadBefore(option)
    BY <1>3, ValuesStay DEF ReadBefore
  <2>4. \A option, default :
            LastRead(option, default)' = LastRead(option, default)
    BY <1>3, <2>3 DEF LastRead
  <2>5. MeaningSoFar' = MeaningSoFar
    BY <2>3, <2>4 DEF MeaningSoFar
  <2> QED
    BY <1>3, <2>2, <2>5 DEF ReadsInOrder
<1>4. CASE PrintUsage \/ NotBuilt \/ StartCrawler \/ Help \/ ValueMissing
             \/ UnknownOption \/ LoopEnds \/ NoDatabase \/ RunCrawl
  <2>1. UNCHANGED <<arguments, index, configuration>>
    BY <1>4
    DEF PrintUsage, NotBuilt, StartCrawler, Help, ValueMissing,
        UnknownOption, LoopEnds, NoDatabase, RunCrawl, GoTo
  <2>2. StopsFor'
    <3>1. StopsFor /\ index \in Nat /\ Len(arguments) \in Nat
      BY <1>1 DEF ReadsInOrder, TypeOK
    <3> QED
      BY <1>4, <2>1, <3>1
      DEF PrintUsage, NotBuilt, StartCrawler, Help, ValueMissing,
          UnknownOption, LoopEnds, NoDatabase, RunCrawl, GoTo, StopsFor,
          Reads, Current
  <2> QED
    BY <1>1, <1>3, <2>1, <2>2 DEF ReadsInOrder
<1>5. CASE UNCHANGED vars
  <2>1. StopsFor'
    BY <1>5 DEF vars, ReadsInOrder, StopsFor, Current
  <2> QED
    BY <1>1, <1>3, <1>5, <2>1 DEF vars, ReadsInOrder
<1> QED
  BY <1>2, <1>4, <1>5 DEF Next

\* The loop of parse_command_line_arguments reads the arguments in the order
\* their meaning has, and stops only for the reasons it has.
THEOREM CommandLineReadsInOrder == Spec => []ReadsInOrder
BY ReadsInOrderInit, ReadsInOrderStep, PTL DEF Spec

\* At the end everything was before index.
LEMMA AllRead ==
  ASSUME ReadsInOrder, index > Len(arguments)
  PROVE  WellFormed /\ MeaningSoFar = Meaning
<1>1. \A i \in Given : i < index
  BY DEF ReadsInOrder, TypeOK, Given
<1>2. \A option : ReadBefore(option) = Named(option)
  BY <1>1 DEF ReadBefore, Named
<1>3. \A option, default : LastRead(option, default) = Value(option, default)
  BY <1>2 DEF LastRead, Value
<1>4. MeaningSoFar = Meaning
  BY <1>2, <1>3 DEF MeaningSoFar, Meaning
<1>5. WellFormed
  BY <1>1 DEF ReadsInOrder, WellFormed, WellFormedSoFar
<1> QED
  BY <1>4, <1>5

\* However many arguments are typed, a crawl that runs is the crawl they ask
\* for: no flag is lost, the last value of an option counts, and there is a
\* database (parse_command_line_arguments, main).
THEOREM CommandLineCrawlsAsTyped == Spec => []CrawlRunsAsTyped
<1>1. ReadsInOrder => CrawlRunsAsTyped
  BY AllRead DEF ReadsInOrder, StopsFor, CrawlRunsAsTyped
<1> QED
  BY <1>1, CommandLineReadsInOrder, PTL

\* However many arguments are typed, the first one that stops the loop is the
\* first one that is not a well-formed option, help is printed only for
\* --help, and a loop that reads to the end fails only without a database.
THEOREM CommandLineRefusesDeservedly == Spec => []RefusalIsDeserved
<1>1. ASSUME ReadsInOrder
      PROVE  RefusalIsDeserved
  <2> DEFINE halts ==
               {i \in Given : \/ arguments[i] \notin Flags \cup ValueOptions
                              \/ /\ arguments[i] \in ValueOptions
                                 /\ i = Len(arguments)}
  <2>1. /\ TypeOK /\ index \in Nat /\ Len(arguments) \in Nat
        /\ \A i \in Given : i \in Nat
    BY <1>1 DEF ReadsInOrder, TypeOK, Given
  <2>2. ASSUME index <= Len(arguments),
               \/ Current \notin Flags \cup ValueOptions
               \/ Current \in ValueOptions /\ index = Len(arguments)
        PROVE  halts # {} /\ index = Min(halts)
    <3>1. index \in Given
      BY <1>1, <2>1, <2>2 DEF ReadsInOrder, TypeOK, Given
    <3>2. index \in halts
      BY <2>2, <3>1 DEF Current
    <3>3. \A i \in halts : index <= i
      BY <1>1, <2>1 DEF ReadsInOrder, WellFormedSoFar
    <3>4. \A i \in halts : i \in Nat
      BY <2>1
    <3>5. \A x \in halts : (\A y \in halts : x <= y) => x = index
      BY <2>1, <3>2, <3>3, <3>4
    <3> HIDE DEF halts
    <3> QED
      BY <3>2, <3>3, <3>5 DEF Min
  <2>3. CASE pc = "help"
    <3>1. index <= Len(arguments) /\ Current = "--help"
      BY <1>1, <2>3 DEF ReadsInOrder, StopsFor
    <3>2. Current \notin Flags \cup ValueOptions
      BY <3>1 DEF Flags, ValueOptions
    <3> QED
      BY <2>2, <2>3, <3>1, <3>2 DEF RefusalIsDeserved
  <2>4. CASE pc = "failed" /\ index <= Len(arguments)
    <3>1. \/ Current \in Words
          \/ Current \in ValueOptions /\ index = Len(arguments)
      BY <1>1, <2>1, <2>4 DEF ReadsInOrder, StopsFor
    <3>2. Current # "--help"
      BY <3>1, ArgumentAssumption DEF Options, ValueOptions
    <3>3. /\ index <= Len(arguments)
          /\ \/ Current \notin Flags \cup ValueOptions
             \/ Current \in ValueOptions /\ index = Len(arguments)
      BY <2>4, <3>1, ArgumentAssumption DEF Options
    <3> QED
      BY <2>2, <2>4, <3>2, <3>3 DEF RefusalIsDeserved
  <2>5. CASE pc = "failed" /\ ~ index <= Len(arguments)
    <3>1. index > Len(arguments) /\ configuration.database = Empty
      BY <1>1, <2>1, <2>5 DEF ReadsInOrder, StopsFor
    <3>2. WellFormed /\ configuration = Meaning
      BY <1>1, <3>1, AllRead DEF ReadsInOrder
    <3>3. halts = {}
      BY <2>1, <3>2 DEF WellFormed
    <3> QED
      BY <2>5, <3>1, <3>2, <3>3 DEF RefusalIsDeserved
  <2> QED
    BY <2>3, <2>4, <2>5 DEF RefusalIsDeserved
<1> QED
  BY <1>1, CommandLineReadsInOrder, PTL

=============================================================================
