------------------------ MODULE DirectoryWalkProofs ------------------------
(***************************************************************************)
(* Proofs about DirectoryWalk, for any finite tree and any interference.   *)
(***************************************************************************)
EXTENDS DirectoryWalk, SequenceTheorems, FiniteSetTheorems, TLAPS

-----------------------------------------------------------------------------
(* The strengthening of closure.                                           *)

\* Where the iterator stands at each stage.
StageSound ==
    /\ pc \in {"record_root", "construct"} =>
          /\ stack = <<>>
          /\ \A d \in Nodes : must[d] = {}
    /\ pc \in {"finish", "done"} => stack = <<>>
    /\ pc \in {"advance", "visit", "descend"} => stack # <<>>
    /\ pc \in {"visit", "descend"} => entry \in Nodes \ {Root}
    /\ pc \in {"record_root", "construct", "advance", "visit"} => pending
    /\ pc = "descend" /\ ~ Skipped(entry) => pending

\* readdir returns the entries of the directory it reads.
EntriesBelong == \A d \in Nodes : may[d] \subseteq Children(d)

\* Only a directory on the stack has entries readdir still has to return.
DebtOnStack ==
    truncated \/ \A d \in Nodes :
        must[d] # {} => \E i \in 1 .. Len(stack) : stack[i] = d

\* An entry there from the start lies in a directory, or below a link whose
\* target is there.
OldEntriesHeld ==
    \A n \in Nodes \ {Root} : life[n] = "old" =>
        \/ Kind[Parent[n]] = "directory"
        \/ Kind[Parent[n]] = "link" /\ Parent[n] \notin dangling

\* The walk has not come to opening d yet.
Ahead(d) == \/ d = Root /\ pc \in {"record_root", "construct"}
            \/ d = entry /\ pc = "descend"

\* An entry the walk owes is still to be returned, or just being visited, or
\* seen already.
DebtCovered ==
    truncated \/ \A n \in Nodes \ {Root} :
        life[n] = "old" /\ ~ Skipped(n) /\ ToBeEntered(Parent[n]) =>
            \/ Ahead(Parent[n])
            \/ n \in must[Parent[n]]
            \/ n \in Seen
            \/ pc = "visit" /\ entry = n

\* What is skipped has no row and no warning.
SkippedUnseen == \A n \in Seen \ {Root} : ~ Skipped(n)

WInv == /\ TypeOK
        /\ StageSound
        /\ SkippedUnseen
        /\ EntriesBelong
        /\ DebtOnStack
        /\ OldEntriesHeld
        /\ pc # "failed" => DebtCovered

\* The directories the walk may have entered, of the entries it has passed:
\* the root, what was visited, and links that were followed late.
Entered(passed) ==
    {Root} \cup {d \in passed : d \in Seen \/ LateLink(d)}

\* An account of the entries the iterator has passed, visited or skipped: each
\* lies in a directory that was entered, and is not returned again.
AccountsFor(passed) ==
    /\ passed \subseteq Nodes \ {Root}
    /\ Seen \subseteq passed \cup {Root}
    /\ \A n \in passed : Parent[n] \in Entered(passed)
    /\ \A i \in 1 .. Len(stack) : stack[i] \in Entered(passed)
    /\ \A d \in Nodes : may[d] # {} => d \in Entered(passed)
    /\ \A d \in Nodes : may[d] \cap passed = {}
    /\ \A n \in Nodes : life[n] = "unborn" =>
          n \notin passed \cup {entry, Root} /\ \A d \in Nodes : n \notin may[d]

\* The entry the iterator points to, before and after it is passed.
EntryPassed(passed) ==
    /\ pc \in {"record_root", "construct"} => passed = {}
    /\ pc = "record_root" => Seen = {}
    /\ pc \in {"visit", "descend"} => Parent[entry] \in Entered(passed)
    /\ pc = "visit" =>
          entry \notin passed /\ \A d \in Nodes : entry \notin may[d]
    /\ pc = "descend" =>
          /\ entry \in passed
          /\ \A n \in passed : Parent[n] # entry
          /\ entry \in Seen \/ (/\ Skipped(entry)
                                /\ pending => Kind[entry] # "directory")

Account == \E passed \in SUBSET Nodes :
              AccountsFor(passed) /\ EntryPassed(passed)

CInv == /\ Account
        /\ CountsMatchRows
        /\ truncated => pc \in {"finish", "done"}

-----------------------------------------------------------------------------
(* Sequences as stacks.                                                    *)

LEMMA PopFacts ==
  ASSUME NEW S, NEW s \in Seq(S), s # <<>>
  PROVE  /\ SubSeq(s, 1, Len(s) - 1) \in Seq(S)
         /\ Len(SubSeq(s, 1, Len(s) - 1)) = Len(s) - 1
         /\ \A i \in 1 .. Len(s) - 1 : SubSeq(s, 1, Len(s) - 1)[i] = s[i]
         /\ Len(s) \in Nat \ {0}
         /\ s[Len(s)] \in S
         /\ Len(s) = 1 => SubSeq(s, 1, Len(s) - 1) = <<>>
         /\ Len(s) # 1 => SubSeq(s, 1, Len(s) - 1) # <<>>
<1> DEFINE n == Len(s) - 1
           p == SubSeq(s, 1, n)
<1>1. Len(s) \in Nat \ {0}
  BY EmptySeq
<1>2. \A i \in 1 .. Len(s) : s[i] \in S
  BY ElementOfSeq
<1>3. n \in Int /\ 1 \in Int /\ n \in Nat
  BY <1>1
<1>4. \A i \in 1 .. n : s[i] \in S
  BY <1>1, <1>2
<1> HIDE DEF n
<1>5. /\ SubSeq(s, 1, n) \in Seq(S)
      /\ Len(SubSeq(s, 1, n)) = IF 1 <= n THEN n - 1 + 1 ELSE 0
      /\ \A i \in 1 .. n - 1 + 1 : SubSeq(s, 1, n)[i] = s[1 + i - 1]
  BY <1>3, <1>4, SubSeqProperties
<1> HIDE DEF p
<1>6. p \in Seq(S) /\ Len(p) = n /\ \A i \in 1 .. n : p[i] = s[i]
  <2>1. /\ p \in Seq(S)
        /\ Len(p) = IF 1 <= n THEN n - 1 + 1 ELSE 0
        /\ \A i \in 1 .. n - 1 + 1 : p[i] = s[1 + i - 1]
    BY <1>5, Zenon DEF p
  <2> QED
    BY <2>1, <1>3
<1>7. p # <<>> <=> n # 0
  BY <1>3, <1>6, EmptySeq
<1>8. p = SubSeq(s, 1, Len(s) - 1) /\ n = Len(s) - 1
  BY DEF p, n
<1> QED
  BY <1>1, <1>2, <1>6, <1>7, <1>8

-----------------------------------------------------------------------------
(* Type correctness.                                                       *)

LEMMA TypeInit == Init => TypeOK
<1> SUFFICES ASSUME Init PROVE TypeOK
  OBVIOUS
<1>1. <<>> \in Seq(Nodes)
  BY EmptySeq
<1>2. life \in [Nodes -> {"unborn", "old", "young", "gone"}]
  BY DEF Init
<1>3. dangling \subseteq Nodes /\ sealed \subseteq Sealable
  BY DEF Init
<1>4. stack \in Seq(Nodes)
  BY <1>1 DEF Init
<1> QED
  BY <1>2, <1>3, <1>4 DEF Init, TypeOK

\* Top is a directory while the walk goes on.
TypeInv == /\ TypeOK
           /\ pc \in {"advance", "visit", "descend"} => stack # <<>>
           /\ pc \in {"visit", "descend"} => entry \in Nodes

LEMMA TypeStep == TypeInv /\ [Next]_vars => TypeInv'
<1> SUFFICES ASSUME TypeInv, [Next]_vars PROVE TypeInv'
  OBVIOUS
<1> USE DEF TypeInv, TypeOK
<1>1. CASE UNCHANGED vars
  BY <1>1 DEF vars
<1>2. CASE Crawl
  <2>1. ASSUME NEW n \in Nodes, Recorded(n) \/ NotRecorded(n)
        PROVE  /\ recorded' \subseteq Nodes /\ unread' \subseteq Nodes
               /\ accessible' \in Nat /\ inaccessible' \in Nat
    BY <2>1 DEF Recorded, NotRecorded
  <2>2. CASE RecordRoot
    BY <2>1, <2>2, TreeAssumption DEF RecordRoot, tree, iterator
  <2>3. CASE Visit
    BY <2>1, <2>3 DEF Visit, tree, iterator
  <2>4. CASE Construct \/ Descend
    <3>1. PICK d \in Nodes : Open(d)
      BY <2>4, TreeAssumption DEF Construct, Descend
    <3>2. stack' \in Seq(Nodes) /\ stack' # <<>>
      BY <3>1, AppendProperties DEF Open
    <3>3. must' \in [Nodes -> SUBSET Nodes] /\ may' \in [Nodes -> SUBSET Nodes]
      BY <3>1 DEF Open, Children
    <3> QED
      BY <2>4, <3>2, <3>3 DEF Construct, Descend, tree, results
  <2>5. CASE ConstructSealed \/ ConstructFails \/ Finish \/ HiddenCheckThrows
    BY <2>5
    DEF ConstructSealed, ConstructFails, Finish, HiddenCheckThrows, tree,
        iterator, results
  <2>6. CASE SkipHidden
    BY <2>6 DEF SkipHidden, tree, results
  <2>7. CASE StayBeside
    BY <2>7 DEF StayBeside, tree, results
  <2>8. CASE DescendFails \/ ReadFails
    <3>1. <<>> \in Seq(Nodes)
      BY EmptySeq
    <3>2. Truncate => /\ stack' \in Seq(Nodes) /\ truncated' \in BOOLEAN
                      /\ inaccessible' \in Nat /\ pc' = "finish"
      BY <3>1 DEF Truncate
    <3>3. CASE DescendFails
      BY <3>2, <3>3 DEF DescendFails, tree
    <3>4. CASE ReadFails /\ entry = None
      BY <3>4 DEF ReadFails, tree
    <3>5. CASE ReadFails /\ entry # None
      BY <3>2, <3>5 DEF ReadFails, tree
    <3> QED
      BY <2>8, <3>3, <3>4, <3>5
  <2>9. ASSUME NEW n \in Nodes, Advance(n) PROVE TypeInv'
    BY <2>9 DEF Advance, tree, results
  <2>10. CASE Pop
    <3>1. stack' \in Seq(Nodes) /\ (Len(stack) # 1 => stack' # <<>>)
      BY <2>10, PopFacts DEF Pop
    <3> QED
      BY <2>10, <3>1 DEF Pop, tree, results
  <2> QED
    BY <1>2, <2>2, <2>3, <2>4, <2>5, <2>6, <2>7, <2>8, <2>9, <2>10 DEF Crawl
<1>3. CASE Environment
  <2>1. ASSUME NEW n \in Nodes \ {Root}, Create(n) PROVE TypeInv'
    BY <2>1 DEF Create, results
  <2>2. ASSUME NEW n \in Nodes \ {Root}, Remove(n) PROVE TypeInv'
    BY <2>2 DEF Remove, results
  <2>3. ASSUME NEW n \in Nodes, TargetAppears(n) PROVE TypeInv'
    BY <2>3 DEF TargetAppears, iterator, results
  <2> QED
    BY <1>3, <2>1, <2>2, <2>3 DEF Environment
<1> QED
  BY <1>1, <1>2, <1>3 DEF Next

\* Every variable of the walk keeps its type.
THEOREM WalkTypeCorrect == Spec => []TypeOK
<1>1. Init => TypeInv
  BY TypeInit DEF TypeInv, Init
<1>2. TypeInv => TypeOK
  BY DEF TypeInv
<1> QED
  BY <1>1, <1>2, TypeStep, PTL DEF Spec

-----------------------------------------------------------------------------
(* A complete walk is closed.                                              *)

LEMMA WalkInit == Init => WInv
<1> SUFFICES ASSUME Init PROVE WInv
  OBVIOUS
<1>1. TypeOK
  BY TypeInit
<1>2. StageSound
  BY TreeAssumption DEF Init, StageSound
<1>3. SkippedUnseen /\ EntriesBelong /\ DebtOnStack
  BY DEF Init, SkippedUnseen, Seen, EntriesBelong, DebtOnStack
<1>4. OldEntriesHeld
  BY DEF Init, OldEntriesHeld, Holds, Resolves
<1>5. DebtCovered
  BY DEF Init, DebtCovered, ToBeEntered, Ahead, Seen
<1> QED
  BY <1>1, <1>2, <1>3, <1>4, <1>5 DEF WInv

\* What the recording of a path does to the paths seen.
LEMMA RecordingFacts ==
  ASSUME NEW n \in Nodes, Recorded(n) \/ NotRecorded(n)
  PROVE  Seen' = Seen \cup {n}
  BY DEF Recorded, NotRecorded, Seen

\* The steps of the crawl that neither open, read nor leave a directory.
LEMMA QuietSteps ==
  ASSUME WInv, TypeOK',
         \/ RecordRoot \/ Visit \/ SkipHidden \/ StayBeside
         \/ ConstructSealed \/ ConstructFails \/ HiddenCheckThrows \/ Finish
  PROVE  WInv'
<1> USE DEF WInv
<1>1. UNCHANGED <<life, dangling, sealed, stack, must, may, entry, truncated>>
  BY DEF RecordRoot, Visit, SkipHidden, StayBeside, ConstructSealed,
         ConstructFails, HiddenCheckThrows, Finish, tree, iterator
<1>2. EntriesBelong' /\ DebtOnStack' /\ OldEntriesHeld'
  BY <1>1 DEF EntriesBelong, DebtOnStack, OldEntriesHeld
<1>3. StageSound' /\ SkippedUnseen'
  <2>1. CASE RecordRoot
    BY <1>1, <2>1, RecordingFacts, TreeAssumption
    DEF RecordRoot, StageSound, SkippedUnseen, Skipped, iterator
  <2>2. CASE Visit
    BY <1>1, <2>2, RecordingFacts
    DEF Visit, StageSound, SkippedUnseen, Skipped, iterator
  <2>3. CASE SkipHidden \/ StayBeside
    BY <1>1, <2>3
    DEF SkipHidden, StayBeside, StageSound, SkippedUnseen, Skipped, Seen,
        results
  <2>4. CASE ConstructSealed \/ ConstructFails \/ HiddenCheckThrows \/ Finish
    BY <1>1, <2>4
    DEF ConstructSealed, ConstructFails, HiddenCheckThrows, Finish, StageSound,
        SkippedUnseen, Skipped, Seen, results, iterator
  <2> QED
    BY <2>1, <2>2, <2>3, <2>4
<1>4. pc' # "failed" => DebtCovered'
  <2> SUFFICES ASSUME pc' # "failed", ~ truncated,
                      NEW n \in Nodes \ {Root},
                      life[n] = "old", ~ Skipped(n), ToBeEntered(Parent[n])'
               PROVE  (\/ Ahead(Parent[n])
                       \/ n \in must[Parent[n]]
                       \/ n \in Seen
                       \/ pc = "visit" /\ entry = n)'
    BY <1>1 DEF DebtCovered, Skipped
  <2> DEFINE d == Parent[n]
  <2>1. d \in Nodes /\ d \notin sealed /\ life[d] = "old"
    BY <1>1, TreeAssumption DEF ToBeEntered
  <2>2. pc # "failed" /\ ToBeEntered(d) =>
          \/ Ahead(d)
          \/ n \in must[d]
          \/ n \in Seen
          \/ pc = "visit" /\ entry = n
    BY DEF DebtCovered
  <2>3. CASE RecordRoot
    <3>1. Seen' = Seen \cup {Root} /\ pc = "record_root" /\ pc' = "construct"
      BY <2>3, RecordingFacts, TreeAssumption DEF RecordRoot
    <3>2. CASE d = Root
      BY <3>1, <3>2 DEF Ahead
    <3>3. CASE d # Root
      <4>1. ToBeEntered(d)
        BY <1>1, <3>1, <3>3 DEF ToBeEntered
      <4> QED
        BY <1>1, <2>2, <3>1, <3>3, <4>1 DEF Ahead
    <3> QED
      BY <3>2, <3>3
  <2>4. CASE Visit
    BY <1>1, <2>2, <2>4, RecordingFacts
    DEF Visit, ToBeEntered, Ahead, StageSound
  <2>5. CASE SkipHidden
    BY <1>1, <2>2, <2>5 DEF SkipHidden, ToBeEntered, Ahead, Seen, results
  <2>6. CASE StayBeside
    <3>1. ToBeEntered(d) /\ Seen' = Seen /\ pc = "descend"
      BY <1>1, <2>6 DEF StayBeside, ToBeEntered, Seen, results
    <3>2. CASE d = entry
      <4>1. entry \in Nodes \ {Root} /\ entry \in Seen
        BY <3>1, <3>2 DEF StageSound, ToBeEntered
      <4>2. pending
        BY <3>1, <4>1 DEF StageSound, SkippedUnseen
      <4>3. Recurses(entry)
        BY <2>1, <3>1, <3>2
        DEF OldEntriesHeld, ToBeEntered, Recurses, Resolves, Live
      <4> QED
        BY <2>1, <2>6, <3>2, <4>2, <4>3 DEF StayBeside
    <3>3. CASE d # entry
      BY <1>1, <2>2, <3>1, <3>3 DEF Ahead
    <3> QED
      BY <3>2, <3>3
  <2>7. CASE ConstructSealed
    BY <1>1, <2>1, <2>2, <2>7
    DEF ConstructSealed, ToBeEntered, Ahead, Seen, results
  <2>8. CASE Finish
    BY <1>1, <2>2, <2>8 DEF Finish, ToBeEntered, Ahead, Seen, results
  <2> QED
    BY <2>3, <2>4, <2>5, <2>6, <2>7, <2>8 DEF ConstructFails, HiddenCheckThrows
<1> QED
  BY <1>2, <1>3, <1>4

\* Opening a directory: the root, or the entry the iterator points to.
LEMMA OpenSteps ==
  ASSUME WInv, TypeOK', Construct \/ Descend
  PROVE  WInv'
<1> USE DEF WInv
<1>1. PICK e \in Nodes : Open(e) /\ Ahead(e) /\ Live(e)
  BY TreeAssumption DEF Construct, Descend, Ahead, Holds, StageSound
<1>2. /\ UNCHANGED <<life, dangling, sealed, entry, results, truncated>>
      /\ pc \in {"construct", "descend"} /\ pc' = "advance" /\ pending'
      /\ \A d \in Nodes : Ahead(d) => d = e
  BY <1>1, TreeAssumption DEF Construct, Descend, tree, StageSound, Ahead
<1>3. /\ must' = [must EXCEPT ![e] = {n \in Children(e) : Live(n)}]
      /\ may' = [may EXCEPT ![e] = {n \in Children(e) : Live(n)}]
      /\ stack' = Append(stack, e)
  BY <1>1 DEF Open
<1>4. /\ stack' # <<>>
      /\ Len(stack') = Len(stack) + 1 /\ Len(stack) \in Nat
      /\ \A i \in 1 .. Len(stack) : stack'[i] = stack[i]
      /\ stack'[Len(stack) + 1] = e
  BY <1>1, <1>3, AppendProperties, LenProperties DEF TypeOK
<1>5. StageSound' /\ SkippedUnseen' /\ OldEntriesHeld'
  BY <1>2, <1>4
  DEF StageSound, SkippedUnseen, OldEntriesHeld, Skipped, Seen, results
<1>6. EntriesBelong'
  BY <1>3 DEF EntriesBelong, Children, TypeOK
<1>7. DebtOnStack'
  <2> SUFFICES ASSUME ~ truncated, NEW d \in Nodes, must'[d] # {}
               PROVE  \E i \in 1 .. Len(stack') : stack'[i] = d
    BY <1>2 DEF DebtOnStack
  <2>1. CASE d = e
    BY <1>4, <2>1
  <2>2. CASE d # e
    <3>1. PICK i \in 1 .. Len(stack) : stack[i] = d
      BY <1>3, <2>2 DEF DebtOnStack, TypeOK
    <3> QED
      BY <1>4, <3>1
  <2> QED
    BY <2>1, <2>2
<1>8. DebtCovered'
  <2> SUFFICES ASSUME ~ truncated, NEW n \in Nodes \ {Root},
                      life[n] = "old", ~ Skipped(n), ToBeEntered(Parent[n])
               PROVE  n \in must'[Parent[n]] \/ n \in Seen
    BY <1>2 DEF DebtCovered, Skipped, ToBeEntered, Seen, results
  <2>1. Parent[n] \in Nodes /\ must' \in [Nodes -> SUBSET Nodes]
    BY TreeAssumption DEF TypeOK
  <2>2. CASE Parent[n] = e
    BY <1>3, <2>1, <2>2 DEF Children, Live, TypeOK
  <2>3. CASE Parent[n] # e
    BY <1>2, <1>3, <2>1, <2>3 DEF DebtCovered, TypeOK
  <2> QED
    BY <2>2, <2>3
<1> QED
  BY <1>5, <1>6, <1>7, <1>8

\* Reading the innermost directory.
LEMMA AdvanceStep ==
  ASSUME WInv, TypeOK', NEW e \in Nodes, Advance(e)
  PROVE  WInv'
<1> USE DEF WInv
<1>1. /\ UNCHANGED <<life, dangling, sealed, stack, pending, results,
                     truncated>>
      /\ pc = "advance" /\ pc' = "visit" /\ entry' = e /\ e \in may[Top]
  BY DEF Advance, tree
<1>2. Top \in Nodes
  BY <1>1, PopFacts DEF Top, TypeOK, StageSound
<1>3. /\ must' = [must EXCEPT ![Top] = @ \ {e}]
      /\ may' = [may EXCEPT ![Top] = @ \ {e}]
  BY DEF Advance
<1>4. \A d \in Nodes : /\ must[d] \ {e} \subseteq must'[d]
                       /\ must'[d] \subseteq must[d]
                       /\ may'[d] \subseteq may[d]
  BY <1>3 DEF TypeOK
<1>5. StageSound'
  BY <1>1, <1>2, TreeAssumption DEF StageSound, EntriesBelong, Children
<1>6. SkippedUnseen' /\ OldEntriesHeld' /\ EntriesBelong' /\ DebtOnStack'
  BY <1>1, <1>4 DEF SkippedUnseen, Skipped, Seen, results, OldEntriesHeld,
                    EntriesBelong, DebtOnStack, Children
<1>7. DebtCovered'
  <2> SUFFICES ASSUME ~ truncated, NEW n \in Nodes \ {Root}, n # e,
                      life[n] = "old", ~ Skipped(n), ToBeEntered(Parent[n])
               PROVE  n \in must'[Parent[n]] \/ n \in Seen
    BY <1>1 DEF DebtCovered, Skipped, ToBeEntered, Seen, results
  <2> QED
    BY <1>1, <1>4, TreeAssumption DEF DebtCovered, Ahead
<1> QED
  BY <1>5, <1>6, <1>7

\* Leaving the innermost directory, with nothing still to be returned from it.
LEMMA PopStep ==
  ASSUME WInv, TypeOK', Pop
  PROVE  WInv'
<1> USE DEF WInv
<1>1. /\ UNCHANGED <<life, dangling, sealed, must, may, entry, pending, results,
                     truncated>>
      /\ pc = "advance" /\ pc' \in {"finish", "advance"} /\ must[Top] = {}
      /\ stack # <<>>
  BY DEF Pop, tree, StageSound
<1>2. /\ Len(stack) \in Nat \ {0} /\ Len(stack') = Len(stack) - 1
      /\ \A i \in 1 .. Len(stack) - 1 : stack'[i] = stack[i]
      /\ pc' = "finish" => stack' = <<>>
      /\ pc' = "advance" => stack' # <<>>
  BY <1>1, PopFacts DEF Pop, TypeOK
<1>3. StageSound' /\ SkippedUnseen' /\ OldEntriesHeld' /\ EntriesBelong'
  BY <1>1, <1>2 DEF StageSound, SkippedUnseen, OldEntriesHeld, EntriesBelong,
                    Skipped, Seen, results, Children
<1>4. DebtOnStack'
  <2> SUFFICES ASSUME ~ truncated, NEW d \in Nodes, must[d] # {}
               PROVE  \E i \in 1 .. Len(stack') : stack'[i] = d
    BY <1>1 DEF DebtOnStack
  <2>1. PICK i \in 1 .. Len(stack) : stack[i] = d
    BY DEF DebtOnStack
  <2>2. i # Len(stack)
    BY <1>1, <2>1 DEF Top
  <2> QED
    BY <1>2, <2>1, <2>2
<1>5. DebtCovered'
  BY <1>1 DEF DebtCovered, ToBeEntered, Ahead, Skipped, Seen, results
<1> QED
  BY <1>3, <1>4, <1>5

\* The increments that fail.
LEMMA FailedIncrements ==
  ASSUME WInv, TypeOK', DescendFails \/ ReadFails
  PROVE  WInv'
<1> USE DEF WInv
<1>1. /\ UNCHANGED <<life, dangling, sealed, must, may, entry, pending,
                     recorded, unread>>
      /\ \/ pc' = "failed" /\ stack' = stack /\ truncated' = truncated
         \/ pc' = "finish" /\ stack' = <<>> /\ truncated'
  BY DEF DescendFails, ReadFails, Truncate, tree
<1>2. StageSound' /\ SkippedUnseen' /\ OldEntriesHeld' /\ EntriesBelong'
  BY <1>1 DEF StageSound, SkippedUnseen, OldEntriesHeld, EntriesBelong, Skipped,
              Seen, Children
<1>3. DebtOnStack' /\ (pc' # "failed" => DebtCovered')
  BY <1>1 DEF DebtOnStack, DebtCovered
<1> QED
  BY <1>2, <1>3

\* Whatever other processes do, no new debt arises.
LEMMA EnvironmentSteps ==
  ASSUME WInv, TypeOK', Environment
  PROVE  WInv'
<1> USE DEF WInv
<1> DEFINE Shrinks ==
      /\ UNCHANGED <<sealed, pc, stack, entry, pending, results, truncated>>
      /\ dangling' \subseteq dangling
      /\ \A n \in Nodes : life'[n] = "old" => life[n] = "old"
      /\ \A n, d \in Nodes : n \in must'[d] => n \in must[d]
      /\ \A n \in Nodes \ {Root} :
            life'[n] = "old" /\ n \in must[Parent[n]] => n \in must'[Parent[n]]
<1>1. Shrinks
  <2>1. ASSUME NEW n \in Nodes \ {Root}, Create(n) PROVE Shrinks
    BY <2>1 DEF Create, TypeOK, results
  <2>2. ASSUME NEW n \in Nodes \ {Root}, Remove(n) PROVE Shrinks
    BY <2>2, TreeAssumption DEF Remove, TypeOK, results
  <2>3. ASSUME NEW n \in Nodes, TargetAppears(n) PROVE Shrinks
    BY <2>3 DEF TargetAppears, results, iterator
  <2> QED
    BY <2>1, <2>2, <2>3 DEF Environment
<1>2. EntriesBelong'
  <2>1. ASSUME NEW n \in Nodes \ {Root}, Create(n) PROVE EntriesBelong'
    BY <2>1 DEF Create, EntriesBelong, Children, TypeOK
  <2>2. may' = may => EntriesBelong'
    BY DEF EntriesBelong, Children
  <2> QED
    BY <2>1, <2>2 DEF Environment, Remove, TargetAppears, iterator
<1>3. StageSound'
  BY <1>1 DEF StageSound, Skipped, TypeOK
<1>4. SkippedUnseen' /\ DebtOnStack'
  BY <1>1 DEF SkippedUnseen, DebtOnStack, Skipped, Seen, results, TypeOK
<1>5. OldEntriesHeld'
  BY <1>1, TreeAssumption DEF OldEntriesHeld
<1>6. pc' # "failed" => DebtCovered'
  <2> SUFFICES ASSUME pc # "failed", ~ truncated, NEW n \in Nodes \ {Root},
                      life'[n] = "old", ~ Skipped(n), ToBeEntered(Parent[n])'
               PROVE  \/ Ahead(Parent[n])
                      \/ n \in must'[Parent[n]]
                      \/ n \in Seen
                      \/ pc = "visit" /\ entry = n
    BY <1>1 DEF DebtCovered, Ahead, Skipped, Seen, results
  <2>1. life[n] = "old" /\ ToBeEntered(Parent[n])
    BY <1>1, TreeAssumption DEF ToBeEntered, Seen, results
  <2> QED
    BY <1>1, <2>1 DEF DebtCovered
<1> QED
  BY <1>2, <1>3, <1>4, <1>5, <1>6

LEMMA WalkStep == WInv /\ [Next]_vars => WInv'
<1> SUFFICES ASSUME WInv, [Next]_vars PROVE WInv'
  OBVIOUS
<1>1. TypeOK'
  BY TypeStep DEF WInv, StageSound, TypeInv
<1>2. CASE UNCHANGED vars
  BY <1>2 DEF vars, WInv, TypeOK, StageSound, SkippedUnseen, EntriesBelong,
              DebtOnStack, OldEntriesHeld, DebtCovered, ToBeEntered, Ahead,
              Skipped, Seen, Children
<1>3. CASE Next
  BY <1>1, <1>3, QuietSteps, OpenSteps, AdvanceStep, PopStep, FailedIncrements,
     EnvironmentSteps DEF Next, Crawl
<1> QED
  BY <1>2, <1>3

\* A walk that ended owes nothing: no directory is still on the stack.
LEMMA NothingOwed == WInv => FinishedWalkIsClosed
<1> SUFFICES ASSUME WInv, pc = "done", ~ truncated PROVE Closed
  BY DEF FinishedWalkIsClosed
<1>1. \A d \in Nodes : must[d] = {}
  BY DEF WInv, StageSound, DebtOnStack
<1> QED
  BY <1>1, TreeAssumption DEF WInv, DebtCovered, Ahead, Closed

\* For every finite tree, every interference and every fault: what was there
\* all along, in a directory that was visited, is a row or a warning when the
\* crawl ends with no failed increment.
THEOREM WalkIsClosed == Spec => []FinishedWalkIsClosed
  BY NothingOwed, WalkInit, WalkStep, PTL DEF Spec

-----------------------------------------------------------------------------
(* Hidden entries stay out, and the counters are exact: each entry is      *)
(* passed once.                                                            *)

\* An account holds as long as nothing it looks at changes.
LEMMA AccountStays ==
  ASSUME Account,
         UNCHANGED <<life, stack, may, entry, pending, recorded, unread>>,
         pc' = pc \/ pc' \notin {"record_root", "construct", "visit", "descend"}
  PROVE  Account'
<1>1. PICK passed \in SUBSET Nodes : AccountsFor(passed) /\ EntryPassed(passed)
  BY DEF Account
<1>2. Seen' = Seen /\ Entered(passed)' = Entered(passed)
  BY DEF Seen, Entered, LateLink, Skipped
<1>3. AccountsFor(passed)' /\ EntryPassed(passed)'
  BY <1>1, <1>2 DEF AccountsFor, EntryPassed, Skipped
<1> QED
  BY <1>3 DEF Account

LEMMA AccountInit == Init => Account
<1> SUFFICES ASSUME Init PROVE Account
  OBVIOUS
<1>1. Len(stack) = 0 /\ Seen = {}
  BY DEF Init, Seen
<1>2. AccountsFor({}) /\ EntryPassed({})
  BY <1>1, TreeAssumption DEF Init, AccountsFor, EntryPassed, Entered
<1> QED
  BY <1>2 DEF Account

\* Visiting an entry, or skipping it, passes it.
LEMMA PassEntry ==
  ASSUME WInv, Account, Visit \/ SkipHidden
  PROVE  Account'
<1>1. PICK passed \in SUBSET Nodes : AccountsFor(passed) /\ EntryPassed(passed)
  BY DEF Account
<1>2. /\ entry \in Nodes \ {Root} /\ pc = "visit" /\ pc' = "descend"
      /\ UNCHANGED <<life, stack, may, entry>>
  BY DEF Visit, SkipHidden, WInv, StageSound, tree, iterator
<1>3. /\ Seen \subseteq Seen' /\ Seen' \subseteq Seen \cup {entry}
      /\ entry \in Seen' \/ (/\ Skipped(entry)
                             /\ pending' => Kind[entry] # "directory")
  <2>1. CASE Visit
    BY <1>2, <2>1, RecordingFacts DEF Visit
  <2>2. CASE SkipHidden
    BY <2>2 DEF SkipHidden, Seen, results
  <2> QED
    BY <2>1, <2>2
<1> DEFINE after == passed \cup {entry}
<1>4. Entered(passed) \subseteq Entered(after)'
  BY <1>2, <1>3 DEF Entered, LateLink, Skipped
<1>5. entry \notin Entered(passed)
  BY <1>1, <1>2 DEF EntryPassed, Entered
<1>6. \A n \in after : Parent[n] \in Entered(passed)
  BY <1>1, <1>2 DEF AccountsFor, EntryPassed
<1>7. AccountsFor(after)'
  BY <1>1, <1>2, <1>3, <1>4, <1>6 DEF AccountsFor, EntryPassed
<1>8. EntryPassed(after)'
  BY <1>2, <1>3, <1>4, <1>5, <1>6 DEF EntryPassed, Skipped
<1> QED
  BY <1>2, <1>7, <1>8 DEF Account

LEMMA OpenKeepsAccount ==
  ASSUME WInv, Account, Construct \/ Descend
  PROVE  Account'
<1>1. PICK passed \in SUBSET Nodes : AccountsFor(passed) /\ EntryPassed(passed)
  BY DEF Account
<1>2. /\ UNCHANGED <<life, entry, recorded, unread>>
      /\ pc' = "advance" /\ Seen' = Seen
      /\ Entered(passed)' = Entered(passed)
  BY DEF Construct, Descend, tree, results, Seen, Entered, LateLink, Skipped
<1>3. PICK d \in Entered(passed) : /\ Open(d) /\ d \in Nodes
                                   /\ \A n \in passed : Parent[n] # d
  <2>1. CASE Construct
    BY <1>1, <2>1, TreeAssumption DEF Construct, Entered, EntryPassed
  <2>2. CASE Descend
    <3>1. /\ entry \in passed /\ entry \in Nodes
          /\ \A n \in passed : Parent[n] # entry
      BY <1>1, <2>2 DEF Descend, EntryPassed
    <3>2. entry \in Seen \/ LateLink(entry)
      BY <1>1, <2>2 DEF Descend, EntryPassed, Recurses, Resolves, LateLink
    <3> QED
      BY <2>2, <3>1, <3>2 DEF Descend, Entered
  <2> QED
    BY <2>1, <2>2
<1>4. /\ Len(stack') = Len(stack) + 1 /\ Len(stack) \in Nat
      /\ \A i \in 1 .. Len(stack) : stack'[i] = stack[i]
      /\ stack'[Len(stack) + 1] = d
  BY <1>3, AppendProperties, LenProperties DEF Open, WInv, TypeOK
<1>5. \A i \in 1 .. Len(stack') : stack'[i] \in Entered(passed)
  BY <1>1, <1>3, <1>4 DEF AccountsFor
<1>6. \A e \in Nodes :
          may'[e] = IF e = d THEN {n \in Children(d) : Live(n)} ELSE may[e]
  BY <1>3 DEF Open, WInv, TypeOK
<1>7. \A e \in Nodes : may'[e] \cap passed = {}
  BY <1>1, <1>3, <1>6 DEF AccountsFor, Children
<1>8. AccountsFor(passed)'
  <2>1. \A e \in Nodes : may'[e] # {} => e \in Entered(passed)
    BY <1>1, <1>3, <1>6 DEF AccountsFor
  <2>2. \A n \in Nodes : life[n] = "unborn" =>
            \A e \in Nodes : n \notin may'[e]
    BY <1>1, <1>6 DEF AccountsFor, Live
  <2> QED
    BY <1>1, <1>2, <1>5, <1>7, <2>1, <2>2 DEF AccountsFor
<1>9. EntryPassed(passed)'
  BY <1>2 DEF EntryPassed
<1> QED
  BY <1>8, <1>9 DEF Account

LEMMA AdvanceKeepsAccount ==
  ASSUME WInv, Account, NEW n \in Nodes, Advance(n)
  PROVE  Account'
<1>1. PICK passed \in SUBSET Nodes : AccountsFor(passed) /\ EntryPassed(passed)
  BY DEF Account
<1>2. /\ UNCHANGED <<life, stack, recorded, unread>>
      /\ pc' = "visit" /\ entry' = n /\ Seen' = Seen
      /\ Entered(passed)' = Entered(passed)
  BY DEF Advance, tree, results, Seen, Entered, LateLink, Skipped
<1>3. Top \in Nodes /\ n \in may[Top]
  BY PopFacts DEF Advance, Top, WInv, TypeOK, StageSound
<1>4. \A d \in Nodes : may'[d] = IF d = Top THEN may[d] \ {n} ELSE may[d]
  BY <1>3 DEF Advance, WInv, TypeOK
<1>5. \A d \in Nodes : n \notin may'[d]
  <2>1. \A d \in Nodes : n \in may[d] => Parent[n] = d
    BY DEF WInv, EntriesBelong, Children
  <2> QED
    BY <1>3, <1>4, <2>1
<1>6. n \notin passed /\ life[n] # "unborn" /\ Parent[n] \in Entered(passed)
  BY <1>1, <1>3 DEF AccountsFor, WInv, EntriesBelong, Children
<1>7. AccountsFor(passed)'
  <2>1. \A d \in Nodes : may'[d] \subseteq may[d]
    BY <1>4
  <2> QED
    BY <1>1, <1>2, <1>6, <2>1 DEF AccountsFor
<1>8. EntryPassed(passed)'
  BY <1>2, <1>5, <1>6 DEF EntryPassed
<1> QED
  BY <1>7, <1>8 DEF Account

\* An entry that is created was not there to be passed.
LEMMA CreateKeepsAccount ==
  ASSUME WInv, Account, NEW n \in Nodes \ {Root}, Create(n)
  PROVE  Account'
<1>1. PICK passed \in SUBSET Nodes : AccountsFor(passed) /\ EntryPassed(passed)
  BY DEF Account
<1>2. /\ UNCHANGED <<stack, entry, pc, pending, recorded, unread>>
      /\ Seen' = Seen /\ Entered(passed)' = Entered(passed)
  BY DEF Create, results, Seen, Entered, LateLink, Skipped
<1> DEFINE Reading == \E i \in DOMAIN stack : stack[i] = Parent[n]
<1>3. \A d \in Nodes :
          may'[d] = IF d = Parent[n] /\ Reading THEN may[d] \cup {n}
                    ELSE may[d]
  <2>1. may' = [may EXCEPT ![Parent[n]] = IF Reading THEN @ \cup {n} ELSE @]
    BY DEF Create
  <2> HIDE DEF Reading
  <2> QED
    BY <2>1, TreeAssumption DEF WInv, TypeOK
<1>4. Reading => Parent[n] \in Entered(passed)
  <2>1. DOMAIN stack = 1 .. Len(stack)
    BY LenProperties DEF WInv, TypeOK
  <2> QED
    BY <1>1, <2>1 DEF AccountsFor
<1>5. n \notin passed /\ n # entry
  BY <1>1 DEF Create, AccountsFor
<1>6. \A m \in Nodes : life'[m] = "unborn" => m # n /\ life[m] = "unborn"
  BY DEF Create, WInv, TypeOK
<1> HIDE DEF Reading
<1>7. AccountsFor(passed)'
  <2>1. \A d \in Nodes : /\ may'[d] # {} => d \in Entered(passed)
                         /\ may'[d] \cap passed = {}
    <3>1. \A d \in Nodes : /\ may[d] # {} => d \in Entered(passed)
                           /\ may[d] \cap passed = {}
      BY <1>1 DEF AccountsFor
    <3> QED
      BY <1>3, <1>4, <1>5, <3>1
  <2>2. \A m \in Nodes : life'[m] = "unborn" =>
            /\ m \notin passed \cup {entry, Root}
            /\ \A d \in Nodes : m \notin may'[d]
    <3>1. \A m \in Nodes : life[m] = "unborn" =>
              /\ m \notin passed \cup {entry, Root}
              /\ \A d \in Nodes : m \notin may[d]
      BY <1>1 DEF AccountsFor
    <3>2. \A d \in Nodes : may'[d] \subseteq may[d] \cup {n}
      BY <1>3
    <3> QED
      BY <1>6, <3>1, <3>2
  <2> QED
    BY <1>1, <1>2, <2>1, <2>2 DEF AccountsFor
<1>8. EntryPassed(passed)'
  BY <1>1, <1>2, <1>3, <1>5 DEF EntryPassed, Skipped
<1> QED
  BY <1>7, <1>8 DEF Account

LEMMA AccountStep ==
  ASSUME WInv, Account, [Next]_vars
  PROVE  Account'
<1>1. CASE RecordRoot
  <2>1. PICK passed \in SUBSET Nodes :
               AccountsFor(passed) /\ EntryPassed(passed)
    BY DEF Account
  <2>2. /\ passed = {} /\ Seen' = {Root} /\ pc' = "construct"
        /\ UNCHANGED <<life, stack, may, entry>>
    BY <1>1, <2>1, RecordingFacts, TreeAssumption
    DEF RecordRoot, EntryPassed, tree, iterator
  <2>3. Entered({})' = Entered({})
    BY DEF Entered
  <2>4. AccountsFor({})' /\ EntryPassed({})'
    BY <2>1, <2>2, <2>3 DEF AccountsFor, EntryPassed
  <2> QED
    BY <2>4 DEF Account
<1>2. CASE Pop
  <2>1. PICK passed \in SUBSET Nodes :
               AccountsFor(passed) /\ EntryPassed(passed)
    BY DEF Account
  <2>2. /\ Len(stack) \in Nat \ {0} /\ Len(stack') = Len(stack) - 1
        /\ \A i \in 1 .. Len(stack) - 1 : stack'[i] = stack[i]
    BY <1>2, PopFacts DEF Pop, WInv, TypeOK, StageSound
  <2>3. /\ UNCHANGED <<life, may, entry, recorded, unread>>
        /\ pc' \in {"advance", "finish"} /\ Seen' = Seen
        /\ Entered(passed)' = Entered(passed)
    BY <1>2 DEF Pop, tree, results, Seen, Entered, LateLink, Skipped
  <2>4. AccountsFor(passed)' /\ EntryPassed(passed)'
    BY <2>1, <2>2, <2>3 DEF AccountsFor, EntryPassed
  <2> QED
    BY <2>4 DEF Account
<1>3. CASE StayBeside \/ DescendFails \/ ReadFails
  <2>1. PICK passed \in SUBSET Nodes :
               AccountsFor(passed) /\ EntryPassed(passed)
    BY DEF Account
  <2>2. /\ UNCHANGED <<life, may, entry, recorded, unread>>
        /\ stack' = stack \/ stack' = <<>>
        /\ pc' \in {"advance", "finish", "failed"} /\ Seen' = Seen
        /\ Entered(passed)' = Entered(passed)
    BY <1>3 DEF StayBeside, DescendFails, ReadFails, Truncate, tree, results,
                Seen, Entered, LateLink, Skipped
  <2>3. AccountsFor(passed)' /\ EntryPassed(passed)'
    BY <2>1, <2>2 DEF AccountsFor, EntryPassed
  <2> QED
    BY <2>3 DEF Account
<1>4. ASSUME NEW n \in Nodes \ {Root}, Remove(n) PROVE Account'
  <2>1. PICK passed \in SUBSET Nodes :
               AccountsFor(passed) /\ EntryPassed(passed)
    BY DEF Account
  <2>2. \A m \in Nodes : life'[m] = "unborn" => life[m] = "unborn"
    BY <1>4 DEF Remove, WInv, TypeOK
  <2>3. /\ UNCHANGED <<stack, may, entry, pending, pc, recorded, unread>>
        /\ Seen' = Seen /\ Entered(passed)' = Entered(passed)
    BY <1>4 DEF Remove, results, Seen, Entered, LateLink, Skipped
  <2>4. AccountsFor(passed)' /\ EntryPassed(passed)'
    BY <2>1, <2>2, <2>3 DEF AccountsFor, EntryPassed, Skipped
  <2> QED
    BY <2>4 DEF Account
<1>5. CASE \/ ConstructSealed \/ ConstructFails \/ HiddenCheckThrows \/ Finish
           \/ \E n \in Nodes : TargetAppears(n)
           \/ UNCHANGED vars
  BY <1>5, AccountStays
  DEF ConstructSealed, ConstructFails, HiddenCheckThrows, Finish,
      TargetAppears, tree, iterator, results, vars
<1> QED
  BY <1>1, <1>2, <1>3, <1>4, <1>5, PassEntry, OpenKeepsAccount,
     AdvanceKeepsAccount, CreateKeepsAccount
  DEF Next, Crawl, Environment

\* Where an account is kept, the directories entered are the way to what was
\* visited.
LEMMA AccountIsAWay == WInv /\ Account => HiddenStaysOut
<1> SUFFICES ASSUME WInv, Account PROVE HiddenStaysOut
  OBVIOUS
<1>1. PICK passed \in SUBSET Nodes : AccountsFor(passed) /\ EntryPassed(passed)
  BY DEF Account
<1> DEFINE way == Entered(passed)
<1>2. way \in SUBSET Nodes /\ Seen \subseteq way
  BY <1>1, TreeAssumption DEF AccountsFor, Entered
<1>3. \A n \in way \ {Root} : /\ Parent[n] \in way
                              /\ n \in Seen \/ LateLink(n)
  BY <1>1 DEF AccountsFor, Entered
<1>4. \A n \in Seen \ {Root} : ~ Skipped(n)
  BY DEF WInv, SkippedUnseen
<1> HIDE DEF way
<1> QED
  BY <1>2, <1>3, <1>4 DEF HiddenStaysOut

\* For every tree, every interference and every fault: no hidden entry is ever
\* recorded or logged, nor anything below one, except below a link that is
\* followed because its target appeared between is_directory() and the
\* increment.
THEOREM HiddenStaysHidden == Spec => []HiddenStaysOut
<1>1. WInv /\ Account /\ [Next]_vars => WInv' /\ Account'
  BY WalkStep, AccountStep
<1> QED
  BY <1>1, WalkInit, AccountInit, AccountIsAWay, PTL DEF Spec

-----------------------------------------------------------------------------
LEMMA CountInit == Init => CInv
BY FS_EmptySet, AccountInit DEF Init, CInv, CountsMatchRows

\* An entry that was not visited yet adds one to one of the counters.
LEMMA CountOne ==
  ASSUME NEW n \in Nodes, Recorded(n) \/ NotRecorded(n), n \notin Seen,
         TypeOK, CountsMatchRows, truncated' = truncated
  PROVE  CountsMatchRows'
<1>1. /\ IsFiniteSet(recorded) /\ IsFiniteSet(unread)
      /\ Cardinality(recorded) \in Nat /\ Cardinality(unread) \in Nat
  BY TreeAssumption, FS_Subset, FS_CardinalityType DEF TypeOK
<1>2. /\ Cardinality(recorded \cup {n}) = Cardinality(recorded) + 1
      /\ Cardinality(unread \cup {n}) = Cardinality(unread) + 1
  BY <1>1, FS_AddElement DEF Seen
<1>3. CASE Recorded(n)
  BY <1>1, <1>2, <1>3 DEF Recorded, CountsMatchRows, Seen
<1>4. CASE NotRecorded(n)
  BY <1>1, <1>2, <1>4 DEF NotRecorded, CountsMatchRows, Seen
<1> QED
  BY <1>3, <1>4

LEMMA CountStep ==
  ASSUME WInv, CInv, [Next]_vars
  PROVE  CInv'
<1> USE DEF CInv
<1>1. Account'
  BY AccountStep
<1>2. CASE RecordRoot \/ Visit
  <2>1. PICK n \in Nodes : /\ Recorded(n) \/ NotRecorded(n)
                           /\ n \notin Seen
    BY <1>2, TreeAssumption
    DEF RecordRoot, Visit, WInv, StageSound, Account, EntryPassed, AccountsFor
  <2>2. truncated' = truncated /\ ~ truncated
    BY <1>2 DEF RecordRoot, Visit
  <2> QED
    BY <1>1, <2>1, <2>2, CountOne DEF WInv
<1>3. CASE DescendFails \/ (ReadFails /\ entry # None)
  <2>1. /\ Truncate /\ ~ truncated
        /\ UNCHANGED <<recorded, unread, accessible>>
    BY <1>3 DEF DescendFails, ReadFails
  <2>2. IsFiniteSet(unread) /\ Cardinality(unread) \in Nat
    BY TreeAssumption, FS_Subset, FS_CardinalityType DEF WInv, TypeOK
  <2> QED
    BY <1>1, <2>1, <2>2 DEF Truncate, CountsMatchRows
<1>4. CASE UNCHANGED <<results, truncated>>
  <2>1. truncated => pc' \in {"finish", "done"}
    BY <1>4 DEF Next, Crawl, Environment, RecordRoot, Construct,
         ConstructSealed, ConstructFails, Visit, SkipHidden, HiddenCheckThrows,
         Descend, StayBeside, DescendFails, Advance, Pop, ReadFails, Finish,
         Create, Remove, TargetAppears, vars
  <2> QED
    BY <1>1, <1>4, <2>1 DEF CountsMatchRows, results
<1>5. \/ RecordRoot \/ Visit
      \/ DescendFails \/ (ReadFails /\ entry # None)
      \/ UNCHANGED <<results, truncated>>
  BY DEF Next, Crawl, Environment, Construct, ConstructSealed, ConstructFails,
         SkipHidden, HiddenCheckThrows, Descend, StayBeside, Advance, Pop,
         ReadFails, Finish, Create, Remove, TargetAppears, results, vars
<1> QED
  BY <1>2, <1>3, <1>4, <1>5

\* For every tree, every interference and every fault: no entry is visited
\* twice and the two counters are exact.  Each path has a row or a warning,
\* never both, and a failed increment counts once.
THEOREM CountsAreExact == Spec => []CountsMatchRows
<1>1. WInv /\ CInv /\ [Next]_vars => WInv' /\ CInv'
  BY WalkStep, CountStep
<1>2. CInv => CountsMatchRows
  BY DEF CInv
<1> QED
  BY <1>1, <1>2, WalkInit, CountInit, PTL DEF Spec

=============================================================================
